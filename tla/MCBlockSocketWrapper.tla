------------------------ MODULE MCBlockSocketWrapper ------------------------
(* BlockSocketWrapper for TLC.  Bounds: two connections and one room; no    *)
(* symmetry, because the run checks liveness with safety.                   *)
EXTENDS BlockSocketWrapper, TLC

=============================================================================
