----------------------------- MODULE MCAtaQueue -----------------------------
(* Instances of AtaQueue for TLC: transfers n1, n2, n3 are ordinary, r1 is   *)
(* the recovery command, p1 is polled, w1 and w2 wait to be polled.          *)
EXTENDS AtaQueue

CONSTANTS n1, n2, n3, r1, p1, w1, w2, d0, d1

\* Two drives share the channel, as on the parallel cable.
TwoDrives == [x \in Xfers |-> IF x \in {n3, w1} THEN d1 ELSE d0]
OneDrive == [x \in Xfers |-> d0]

\* d0 takes two commands at a time, d1 one.
TwoOpenings == [d \in Drives |-> IF d = d0 THEN 2 ELSE 1]
OneOpening == [d \in Drives |-> 1]
=============================================================================
