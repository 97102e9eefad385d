--------------------------- MODULE MCLabTransfers ---------------------------
(* Files of no, one, two and three blocks, the last one short; one with a  *)
(* zero, one with a block in the middle that reads FINISH up to a zero.    *)
(* Windows of 0, 1, 2 and 3.                                               *)
EXTENDS LabTransfers

MCGarbage == {-1, 0, 3, 7}
MCFiles == {<<>>, <<1, 2>>, <<1, 2, 3, 4, 5>>, <<1, 0, 3>>, <<1, 2, -2, 0, 5>>}
MCBDPs == {1, 2, 4, 5}
MCTails == {<<>>, <<1>>}
=============================================================================
