----------------------------- MODULE MCFraming -----------------------------
(* Framing for TLC.  Bounds: three packets.  Lengths of the real packets: an *)
(* exit (12, a header alone), an entry (272, over 255) and a message of 1400 *)
(* (over a buffer).  Segments end in each of the header's fields, at its     *)
(* ends, and in the bodies.                                                  *)
EXTENDS Framing, TLC

=============================================================================
