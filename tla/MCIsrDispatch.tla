--------------------------- MODULE MCIsrDispatch ---------------------------
(* Instances of IsrDispatch for TLC: a network interface at level 3, a       *)
(* serial line, two disks and a card without a driver at level 5.            *)
EXTENDS IsrDispatch

CONSTANTS le, tty, wd0, wd1, card

LevelOfDevice == [d \in Devices |-> IF d = le THEN 3 ELSE 5]
PriorityOfDevice ==
  [d \in Devices |-> IF d = le THEN 1 ELSE IF d = tty THEN 2 ELSE 0]
=============================================================================
