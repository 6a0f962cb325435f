----------------------- MODULE MCChattingRoomHistory -----------------------
(* ChattingRoomHistory for TLC.                                             *)
EXTENDS ChattingRoomHistory, TLC

UserSymmetry == Permutations(Users)

=============================================================================
