------------------------------- MODULE BusSpace -------------------------------
(***************************************************************************)
(* The accessors of bus space, src/sys/arch/wrap030/include/bus.h.  A bus  *)
(* is a function from addresses to elements; an element is the sequence of *)
(* the bytes of one access, so that the operators stand for the one, two   *)
(* and four byte forms alike.  On the ATA tag an element of more than one  *)
(* byte is reversed in both directions.  The loops are "do ... while":     *)
(* a count of zero goes round as often as the counter has values.          *)
(* The header is modelled as it stands: a form that no build can contain   *)
(* has no use here (write_region of four bytes: _bswr4_swap is braces      *)
(* without do and while, and the branch beside it does not parse), the set *)
(* forms of the ATA tag store the variable named v in their caller, and    *)
(* the copy takes its arguments in the order of its definition.            *)
(***************************************************************************)
EXTENDS Integers, Sequences, SequencesExt

CONSTANTS
  EIO, ATA,    \* tags
  COUNTS       \* values of the loop counter, 2^32

ASSUME CountsAssumption == COUNTS \in Nat \ {0}
ASSUME TagAssumption == EIO # ATA

(* Mapping on a known tag is taking the address; a part is an addition.     *)
SpaceMap(t, a) == a
Subregion(t, h, o) == h + o

Rounds(c) == IF c = 0 THEN COUNTS ELSE c
Lanes(t, e) == IF t = ATA THEN Reverse(e) ELSE e

BusRead(t, bus, a) == Lanes(t, bus[a])
BusWrite(t, bus, a, e) == [bus EXCEPT ![a] = Lanes(t, e)]

ReadMulti(t, bus, a, c)  == [i \in 1 .. Rounds(c) |-> BusRead(t, bus, a)]
ReadRegion(t, bus, a, c) == [i \in 1 .. Rounds(c) |-> BusRead(t, bus, a + i - 1)]

(* What is left on the bus; a register that takes each element is the       *)
(* device's matter.                                                         *)
WriteMulti(t, bus, a, buf, c) == BusWrite(t, bus, a, buf[Rounds(c)])

(* Of one and two bytes.                                                    *)
WriteRegion(t, bus, a, buf, c) ==
  [x \in DOMAIN bus |->
     IF x \in a .. a + Rounds(c) - 1 THEN Lanes(t, buf[x - a + 1]) ELSE bus[x]]

(* The swapped set forms load (u_long)v, a name that is no parameter of     *)
(* theirs: what the caller has under it, if the caller is to compile.       *)
TakenFrom(t, val, v) == IF t = ATA /\ Len(val) > 1 THEN v ELSE val
SetMulti(t, bus, a, val, v, c) == BusWrite(t, bus, a, TakenFrom(t, val, v))
SetRegion(t, bus, a, val, v, c) ==
  [x \in DOMAIN bus |->
     IF x \in a .. a + Rounds(c) - 1 THEN Lanes(t, TakenFrom(t, val, v)) ELSE bus[x]]

\* Mutant: always forward.
CopyOrderForward(c, i, src, dst) == i - 1

(* Which element the i-th round of a copy moves.                            *)
CopyOrder(c, i, src, dst) == IF src >= dst THEN i - 1 ELSE c - i

(* bus_space_copy_region: the definition takes both handles before the      *)
(* offsets, the comment and the prototype over it each handle with its      *)
(* offset. All four are addresses, and the compiler takes either.           *)
CopyRegion(t, bus, h1, h2, o1, o2, c) ==
  LET src == h1 + o1
      dst == h2 + o2
      f[i \in 0 .. c] ==
        IF i = 0 THEN bus
        ELSE LET o == CopyOrder(c, i, src, dst)
             IN  BusWrite(t, f[i - 1], dst + o, BusRead(t, f[i - 1], src + o))
  IN  f[c]
=============================================================================
