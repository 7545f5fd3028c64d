---------------------------- MODULE IsrDispatch ----------------------------
(***************************************************************************)
(* Autovectored interrupts, src/sys/arch/wrap030/wrap030/isr.c: drivers    *)
(* put their handlers on the list of a level (isrlink), the vector of a    *)
(* level calls isrdispatch, which calls every handler of the list, and     *)
(* higher levels interrupt it.  Level 4 is the clock and level 7 the NMI:  *)
(* vectors.s sends them elsewhere.                                         *)
(***************************************************************************)
EXTENDS Integers, Sequences, FiniteSets, SequencesExt

CONSTANTS
  Devices,          \* each interrupts at one level and has one handler
  LevelOf,          \* the level a device interrupts at
  PriorityOf,       \* ISRPRI_* of its handler
  StrayLimit,       \* 50
  UnexpectedLimit,  \* 10
  MaxRaises,        \* bound on the interrupts of every device
  Unlinked          \* devices that interrupt though no driver attached

IsrLevels == {1, 2, 3, 5, 6}
IPL_VM == 5

ASSUME DeviceAssumption ==
  /\ LevelOf \in [Devices -> IsrLevels] /\ PriorityOf \in [Devices -> 0 .. 3]
  /\ StrayLimit \in Nat /\ UnexpectedLimit \in Nat /\ MaxRaises \in Nat
  /\ Unlinked \subseteq Devices

VARIABLES
  list,        \* isr_list[]
  asserted,    \* devices that ask for an interrupt
  acts,        \* the activations of isrdispatch, the innermost first
  idepth, straycount, unexpected,
  panicked,
  raises       \* how often every device has interrupted

isrVars == <<list, asserted, acts, idepth, straycount, unexpected, panicked, raises>>

IsrInit ==
  /\ list = [l \in IsrLevels |-> <<>>] /\ asserted = {} /\ acts = <<>>
  /\ idepth = 0 /\ straycount = 0 /\ unexpected = 0 /\ panicked = FALSE
  /\ raises = [d \in Devices |-> 0]

Linked == UNION {ToSet(list[l]) : l \in IsrLevels}
Unpanicked == ~panicked

-----------------------------------------------------------------------------
(* isrlink: before the first handler of lower priority, but the last        *)
(* handler of the list is not compared with.                                *)
Before(s, d) == {i \in 1 .. (Len(s) - 1) : PriorityOf[d] > PriorityOf[s[i]]}
\* Mutant: the new handler takes the place of the one it goes before.
PlaceOver(s, d) ==
  IF Before(s, d) = {} THEN Append(s, d)
  ELSE ReplaceAt(s, CHOOSE i \in Before(s, d) : \A j \in Before(s, d) : i <= j, d)

Place(s, d) ==
  IF Before(s, d) = {} THEN Append(s, d)
  ELSE InsertAt(s, CHOOSE i \in Before(s, d) : \A j \in Before(s, d) : i <= j, d)

(* Drivers attach in thread context.                                        *)
Isrlink(d) ==
  /\ Unpanicked /\ acts = <<>> /\ d \notin Linked \cup Unlinked
  /\ list' = [list EXCEPT ![LevelOf[d]] = Place(@, d)]
  /\ UNCHANGED <<asserted, acts, idepth, straycount, unexpected, panicked, raises>>

(* A device interrupts once its driver is attached, or without a driver.    *)
Raise(d) ==
  /\ Unpanicked /\ d \in Linked \cup Unlinked /\ d \notin asserted
  /\ raises[d] < MaxRaises
  /\ asserted' = asserted \cup {d}
  /\ raises' = [raises EXCEPT ![d] = @ + 1]
  /\ UNCHANGED <<list, acts, idepth, straycount, unexpected, panicked>>

-----------------------------------------------------------------------------
Top == Head(acts)
Masked == IF acts = <<>> THEN 0 ELSE Top.ipl
Deeper(l) == IF l >= IPL_VM THEN 1 ELSE 0

Enter(l) ==
  /\ Unpanicked /\ l > Masked /\ \E d \in asserted : LevelOf[d] = l
  /\ \A d \in asserted : LevelOf[d] <= l
  /\ acts' = <<[ipl |-> l, next |-> 1, handled |-> FALSE]>> \o acts
  /\ idepth' = idepth + Deeper(l)
  /\ UNCHANGED <<list, asserted, straycount, unexpected, panicked, raises>>

\* Mutant: the depth is counted down only when there were handlers.
LeaveShort ==
  /\ acts' = Tail(acts)
  /\ idepth' = IF list[Top.ipl] = <<>> THEN idepth ELSE idepth - Deeper(Top.ipl)

Leave == acts' = Tail(acts) /\ idepth' = idepth - Deeper(Top.ipl)

\* Mutant: what the last handler said counts.
SaidLast(h, d) == d \in asserted

Said(h, d) == h \/ d \in asserted

(* One handler: it serves its device if the device asks for it.             *)
Call ==
  /\ Unpanicked /\ acts # <<>> /\ Top.next <= Len(list[Top.ipl])
  /\ LET d == list[Top.ipl][Top.next] IN
       /\ acts' = <<[Top EXCEPT !.next = @ + 1,
                                 !.handled = Said(@, d)]>> \o Tail(acts)
       /\ asserted' = asserted \ {d}
  /\ UNCHANGED <<list, idepth, straycount, unexpected, panicked, raises>>

(* No handler at all.  A device nobody serves is taken to give up.          *)
Unexpected ==
  /\ Unpanicked /\ acts # <<>> /\ list[Top.ipl] = <<>>
  /\ unexpected' = unexpected + 1
  /\ IF unexpected' > UnexpectedLimit
     THEN panicked' = TRUE /\ UNCHANGED <<acts, idepth>>
     ELSE Leave /\ UNCHANGED panicked
  /\ asserted' = {d \in asserted : LevelOf[d] # Top.ipl}
  /\ UNCHANGED <<list, straycount, raises>>

Handled ==
  /\ Unpanicked /\ acts # <<>> /\ list[Top.ipl] # <<>>
  /\ Top.next > Len(list[Top.ipl]) /\ Top.handled
  /\ straycount' = 0 /\ Leave
  /\ UNCHANGED <<list, asserted, unexpected, panicked, raises>>

Stray ==
  /\ Unpanicked /\ acts # <<>> /\ list[Top.ipl] # <<>>
  /\ Top.next > Len(list[Top.ipl]) /\ ~Top.handled
  /\ straycount' = straycount + 1
  /\ IF straycount' > StrayLimit
     THEN panicked' = TRUE /\ UNCHANGED <<acts, idepth>>
     ELSE Leave /\ UNCHANGED panicked
  /\ asserted' = {d \in asserted : LevelOf[d] # Top.ipl \/ d \notin Unlinked}
  /\ UNCHANGED <<list, unexpected, raises>>

Dispatch == (\E l \in IsrLevels : Enter(l)) \/ Call \/ Unexpected \/ Handled \/ Stray
IsrNext == Dispatch \/ \E d \in Devices : Isrlink(d) \/ Raise(d)

IsrSpec == IsrInit /\ [][IsrNext]_isrVars
(* The processor goes on.                                                   *)
FairSpec == IsrSpec /\ WF_isrVars(Dispatch)
-----------------------------------------------------------------------------
(* Types of the handler lists, the activations and the counters.            *)
TypeOK ==
  /\ list \in [IsrLevels -> Seq(Devices)] /\ asserted \subseteq Devices
  /\ acts \in Seq([ipl : IsrLevels, next : Nat \ {0}, handled : BOOLEAN])
  /\ idepth \in Nat /\ straycount \in Nat /\ unexpected \in Nat
  /\ panicked \in BOOLEAN

(* cpu_intr_p tells whether an activation at IPL_VM or above is under way,  *)
(* whichever way the activations nested in it have ended.                   *)
CpuIntrExact ==
  ~panicked => idepth = Cardinality({i \in DOMAIN acts : acts[i].ipl >= IPL_VM})

Disturbed == \E d \in Unlinked : raises[d] > 0

(* As long as only attached devices interrupt, nothing is counted as stray  *)
(* or unexpected, however they share levels and interrupt each other's      *)
(* handlers.                                                                *)
OnlyStraysCounted ==
  ~Disturbed =>
    straycount = 0 /\ unexpected = 0 /\ ~panicked

(* Every attached device that interrupts is served ("Give all the handlers  *)
(* a chance"), also when handlers are put before others on its list, unless *)
(* a device without a handler brings the system down.                       *)
AllServed ==
  \A d \in Devices : d \in asserted /\ d \in Linked
                     ~> d \notin asserted \/ (Disturbed /\ panicked)

(* "We traverse the list and place ourselves after any ISRs with our        *)
(* current (or higher) priority": no handler precedes one of higher         *)
(* priority.                                                                *)
PriorityOrder ==
  \A l \in IsrLevels : \A i, j \in DOMAIN list[l] :
    i < j => PriorityOf[list[l][i]] >= PriorityOf[list[l][j]]
=============================================================================
