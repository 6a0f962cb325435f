--------------------------- MODULE MCChattingRoom ---------------------------
(* ChattingRoom for TLC. *)
EXTENDS ChattingRoom, TLC

UserSymmetry == Permutations(Users)

=============================================================================
