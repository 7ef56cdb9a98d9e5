------------------------------ MODULE MCDlLink ------------------------------
(***************************************************************************)
(* Instances of DlLink for TLC.                                            *)
(***************************************************************************)
EXTENDS DlLink

CONSTANTS est, m1, m2, d1, d2, crel

NoFrames  == {}
TwoThenOne == [m \in Msgs |-> IF m = m1 THEN 2 ELSE 1]
SendBoth  == <<m1, m2>>
SendOne   == <<m1>>
DownLong  == <<<<d1, d2>>>>
DownClose == <<<<d1>>, <<crel>>>>

LongFrames  == <<[info |-> d1, m |-> TRUE], [info |-> d2, m |-> FALSE]>>
CloseFrames == <<[info |-> d1, m |-> FALSE], [info |-> crel, m |-> FALSE]>>
=============================================================================
