--------------------------- MODULE AtaQueueProofs ---------------------------
(***************************************************************************)
(* Proofs about AtaQueue for any transfers, drives, openings and users of  *)
(* the channel.  The inductive invariant has two halves: what the lists,   *)
(* slots and openings of the queue satisfy, and who holds the channel.     *)
(* With it as a fact ATACH_NCQ and detachment are followed, each with an   *)
(* invariant of its own, and the refinement of AtaIssue is shown.          *)
(***************************************************************************)
EXTENDS AtaQueue, ListLemmas, FiniteSetTheorems, TLAPS

(* No transfer twice in a list, nor in both.                                *)
Lists == IsInjective(queue) /\ IsInjective(active) /\ Pending \cap Active = {}

(* The recovery command, if there is one, is the first of its list; hence   *)
(* comparing with the first active transfer is comparing with all, and no   *)
(* other transfer is started before it.                                     *)
SkipFirst(s) == \A i \in DOMAIN s : s[i] \in Skip => i = 1
Mix == SkipFirst(queue) /\ SkipFirst(active) /\ Exclusive

(* One opening stays free for a recovery command.                           *)
Room ==
  /\ Len(active) <= Openings
  /\ Openings > 1 /\ Active \cap Skip = {} => Len(active) <= Openings - 1

XferType ==
  /\ queue \in Seq(Xfers) /\ active \in Seq(Xfers)
  /\ slot \in [Xfers -> Slots] /\ used \subseteq Slots

XferInv == XferType /\ Lists /\ SlotsExact /\ Mix /\ Room

-----------------------------------------------------------------------------
(* How the primitive changes of the lists preserve XferInv.                 *)

(* A recovery command put before a list in which recovery is first (as      *)
(* ata_exec_xfer and ata_activate_xfer_locked do) leaves it first.          *)
LEMMA PrependSkip ==
  ASSUME NEW s \in Seq(Xfers), NEW x \in Skip, x \notin ToSet(s)
  PROVE  SkipFirst(<<x>> \o s)
<1>. DEFINE t == <<x>> \o s
<1>1. /\ t \in Seq(Xfers) /\ Len(t) = Len(s) + 1
      /\ \A j \in 1 .. (Len(s) + 1) : t[j] = IF j = 1 THEN x ELSE s[j - 1]
  BY PrependFacts, AttributeAssumption
<1>. HIDE DEF t
<1>2. ASSUME NEW i \in DOMAIN t, t[i] \in Skip, i # 1 PROVE FALSE
  <2>1. i - 1 \in DOMAIN s /\ t[i] = s[i - 1]
    BY <1>1, <1>2
  <2>. QED
    BY <1>2, <2>1, RecoveryAssumption DEF ToSet
<1>. QED
  BY <1>2 DEF SkipFirst, t

(* An ordinary transfer goes to the end of a list.                           *)
LEMMA AppendSkip ==
  ASSUME NEW s \in Seq(Xfers), NEW x \in Xfers \ Skip, SkipFirst(s)
  PROVE  SkipFirst(Append(s, x))
<1>. DEFINE t == Append(s, x)
<1>1. /\ t \in Seq(Xfers) /\ Len(t) = Len(s) + 1
      /\ \A j \in 1 .. (Len(s) + 1) :
           t[j] = IF j = Len(s) + 1 THEN x ELSE s[j]
  BY AppendFacts
<1>. HIDE DEF t
<1>2. SkipFirst(t)
  BY <1>1 DEF SkipFirst
<1>. QED
  BY <1>2 DEF t

(* The first of a list is taken.                                             *)
LEMMA TailSkip ==
  ASSUME NEW s \in Seq(Xfers), s # <<>>, IsInjective(s), SkipFirst(s)
  PROVE  SkipFirst(Tail(s))
<1>. DEFINE t == Tail(s)
<1>1. /\ t \in Seq(Xfers) /\ Len(t) = Len(s) - 1
      /\ \A j \in 1 .. (Len(s) - 1) : t[j] = s[j + 1]
  BY TailFacts
<1>. HIDE DEF t
<1>2. ASSUME NEW i \in DOMAIN t, t[i] \in Skip PROVE FALSE
  <2>1. i + 1 \in DOMAIN s /\ i + 1 # 1 /\ t[i] = s[i + 1]
    BY <1>1, <1>2
  <2>. QED
    BY <1>2, <2>1 DEF SkipFirst
<1>. QED
  BY <1>2 DEF SkipFirst, t

(* Any of a list is taken.                                                   *)
LEMMA RemoveAtSkip ==
  ASSUME NEW s \in Seq(Xfers), NEW i \in DOMAIN s, SkipFirst(s)
  PROVE  SkipFirst(RemoveAt(s, i))
<1>. DEFINE t == RemoveAt(s, i)
<1>1. /\ t \in Seq(Xfers) /\ Len(t) = Len(s) - 1
      /\ \A j \in 1 .. (Len(s) - 1) : t[j] = IF j < i THEN s[j] ELSE s[j + 1]
  BY RemoveAtFacts
<1>. HIDE DEF t
<1>2. ASSUME NEW j \in DOMAIN t, t[j] \in Skip PROVE j = 1
  <2>0. j \in 1 .. (Len(s) - 1) /\ Len(s) \in Nat /\ i \in 1 .. Len(s)
    BY <1>1
  <2>1. CASE j < i
    BY <1>1, <1>2, <2>0, <2>1 DEF SkipFirst
  <2>2. CASE ~(j < i)
    <3>1. j + 1 \in DOMAIN s /\ j + 1 # 1 /\ t[j] = s[j + 1]
      BY <1>1, <2>0, <2>2
    <3>. QED
      BY <1>2, <3>1 DEF SkipFirst
  <2>. QED
    BY <2>1, <2>2
<1>. QED
  BY <1>2 DEF SkipFirst, t

(* A submission, in front or at the end.                                     *)
LEMMA EnqueueXfer ==
  ASSUME XferInv, NEW x \in Xfers, x \notin Pending \cup Active,
         queue' = Enqueued(x), UNCHANGED <<active, slot, used>>
  PROVE  XferInv' /\ Pending' = Pending \cup {x} /\ Active' = Active
<1>0. queue \in Seq(Xfers) /\ IsInjective(queue) /\ x \notin ToSet(queue)
  BY DEF XferInv, XferType, Lists, Pending
<1>1. /\ queue' \in Seq(Xfers) /\ ToSet(queue') = ToSet(queue) \cup {x}
      /\ IsInjective(queue') /\ SkipFirst(queue')
  <2>1. CASE x \in Skip
    <3>1. queue' = <<x>> \o queue
      BY <2>1 DEF Enqueued
    <3>2. /\ <<x>> \o queue \in Seq(Xfers)
          /\ Len(<<x>> \o queue) = Len(queue) + 1
          /\ ToSet(<<x>> \o queue) = ToSet(queue) \cup {x}
      BY <1>0, PrependFacts
    <3>3. IsInjective(<<x>> \o queue)
      BY <1>0, PrependDistinct
    <3>4. SkipFirst(<<x>> \o queue)
      BY <1>0, <2>1, PrependSkip
    <3>. QED
      BY <3>1, <3>2, <3>3, <3>4
  <2>2. CASE x \notin Skip
    <3>1. queue' = Append(queue, x)
      BY <2>2 DEF Enqueued
    <3>2. /\ Append(queue, x) \in Seq(Xfers)
          /\ Len(Append(queue, x)) = Len(queue) + 1
          /\ ToSet(Append(queue, x)) = ToSet(queue) \cup {x}
      BY <1>0, AppendFacts
    <3>3. IsInjective(Append(queue, x))
      BY <1>0, AppendDistinct
    <3>4. SkipFirst(Append(queue, x))
      BY <1>0, <2>2, AppendSkip DEF XferInv, Mix
    <3>. QED
      BY <3>1, <3>2, <3>3, <3>4
  <2>. QED
    BY <2>1, <2>2
<1>2. Active' = Active /\ Pending' = Pending \cup {x}
  BY <1>1 DEF Active, Pending
<1>. QED
  BY <1>1, <1>2 DEF XferInv, XferType, Lists, SlotsExact, Mix, Room, Exclusive

(* The head of the queue is taken.                                           *)
LEMMA DequeueXfer ==
  ASSUME XferInv, queue # <<>>,
         queue' = Tail(queue), UNCHANGED <<active, slot, used>>
  PROVE  /\ XferInv' /\ Active' = Active
         /\ Head(queue) \in Pending /\ Pending' = Pending \ {Head(queue)}
<1>0. queue \in Seq(Xfers) /\ IsInjective(queue)
  BY DEF XferInv, XferType, Lists
<1>1. /\ queue' \in Seq(Xfers) /\ ToSet(queue') = ToSet(queue) \ {Head(queue)}
      /\ Head(queue) \in ToSet(queue)
      /\ IsInjective(queue') /\ SkipFirst(queue')
  BY <1>0, TailFacts, TailDistinct, TailSkip DEF XferInv, Mix
<1>2. /\ Active' = Active
      /\ Head(queue) \in Pending /\ Pending' = Pending \ {Head(queue)}
  BY <1>1 DEF Active, Pending
<1>. QED
  BY <1>1, <1>2 DEF XferInv, XferType, Lists, SlotsExact, Mix, Room, Exclusive

(* No two active transfers hold the same slot, said of the transfers.        *)
LEMMA SlotsDiffer ==
  ASSUME XferInv
  PROVE  \A y, z \in Active : slot[y] = slot[z] => y = z
<1>. SUFFICES ASSUME NEW y \in Active, NEW z \in Active, slot[y] = slot[z]
              PROVE  y = z
  OBVIOUS
<1>1. PICK i \in DOMAIN active : y = active[i]
  BY DEF Active, ToSet
<1>2. PICK j \in DOMAIN active : z = active[j]
  BY DEF Active, ToSet
<1>3. i = j
  BY <1>1, <1>2 DEF XferInv, SlotsExact
<1>. QED
  BY <1>1, <1>2, <1>3

(* atastart starts the head of the queue.                                    *)
LEMMA StartHead ==
  ASSUME XferInv, queue # <<>>, NEW x, x = Head(queue), Admitted(x),
         HasOpening(x), NEW s \in FreeSlots(x),
         queue' = Tail(queue), active' = Activated(x),
         slot' = [slot EXCEPT ![x] = s], used' = used \cup {s}
  PROVE  /\ XferInv' /\ x \in Xfers
         /\ x \in Pending /\ Pending' = Pending \ {x}
         /\ x \notin Active /\ Active' = Active \cup {x}
<1>0. /\ queue \in Seq(Xfers) /\ active \in Seq(Xfers)
      /\ IsInjective(queue) /\ IsInjective(active)
      /\ slot \in [Xfers -> Slots] /\ used \subseteq Slots
      /\ used = {slot[y] : y \in Active} /\ Pending \cap Active = {}
      /\ s \in Slots \ used
  BY DEF XferInv, XferType, Lists, SlotsExact, FreeSlots
<1>1. /\ x \in Xfers /\ x \in Pending /\ x \notin Active
      /\ queue' \in Seq(Xfers) /\ IsInjective(queue')
      /\ SkipFirst(queue') /\ Pending' = Pending \ {x}
  BY <1>0, TailFacts, TailDistinct, TailSkip DEF Pending, XferInv, Mix
<1>2. /\ active' \in Seq(Xfers) /\ IsInjective(active')
      /\ Len(active') = Len(active) + 1 /\ Active' = Active \cup {x}
      /\ SkipFirst(active')
  <2>1. CASE x \in Skip
    <3>1. active' = <<x>> \o active
      BY <2>1 DEF Activated
    <3>2. /\ <<x>> \o active \in Seq(Xfers)
          /\ Len(<<x>> \o active) = Len(active) + 1
          /\ ToSet(<<x>> \o active) = ToSet(active) \cup {x}
      BY <1>0, <1>1, PrependFacts DEF Active
    <3>3. IsInjective(<<x>> \o active)
      BY <1>0, <1>1, PrependDistinct DEF Active
    <3>4. SkipFirst(<<x>> \o active)
      BY <1>0, <1>1, <2>1, PrependSkip DEF Active
    <3>. QED
      BY <3>1, <3>2, <3>3, <3>4 DEF Active
  <2>2. CASE x \notin Skip
    <3>1. active' = Append(active, x)
      BY <2>2 DEF Activated
    <3>2. /\ Append(active, x) \in Seq(Xfers)
          /\ Len(Append(active, x)) = Len(active) + 1
          /\ ToSet(Append(active, x)) = ToSet(active) \cup {x}
      BY <1>0, <1>1, AppendFacts DEF Active
    <3>3. IsInjective(Append(active, x))
      BY <1>0, <1>1, AppendDistinct DEF Active
    <3>4. SkipFirst(Append(active, x))
      BY <1>0, <1>1, <2>2, AppendSkip DEF Active, XferInv, Mix
    <3>. QED
      BY <3>1, <3>2, <3>3, <3>4 DEF Active
  <2>. QED
    BY <2>1, <2>2
<1>3. XferType'
  BY <1>0, <1>1, <1>2 DEF XferType
<1>4. Lists'
  BY <1>0, <1>1, <1>2 DEF Lists
<1>5. Active \subseteq Xfers
  BY <1>0 DEF Active, ToSet
<1>6. SlotsExact'
  <2>1. slot'[x] = s /\ \A y \in Active : slot'[y] = slot[y]
    BY <1>0, <1>1, <1>5
  <2>2. used' = {slot'[y] : y \in Active'}
    BY <1>0, <1>2, <2>1
  <2>3. \A y, z \in Active' : slot'[y] = slot'[z] => y = z
    BY <1>0, <1>1, <1>2, <2>1, SlotsDiffer
  <2>4. \A i \in DOMAIN active' : active'[i] \in Active'
    BY <1>2 DEF Active, ToSet
  <2>5. \A i, j \in DOMAIN active' :
          slot'[active'[i]] = slot'[active'[j]] => i = j
    BY <1>2, <2>3, <2>4 DEF IsInjective
  <2>. QED
    BY <2>2, <2>5 DEF SlotsExact
<1>7. Exclusive'
  <2>1. CASE x \in Skip
    BY <1>2, <2>1 DEF Exclusive, XferInv, Mix
  <2>2. CASE x \notin Skip
    <3>1. ASSUME NEW y \in Active \ Skip
          PROVE  x \in NCQ /\ y \in NCQ /\ DriveOf[x] = DriveOf[y]
      <4>0. active # <<>> /\ Compatible(x)
        BY <1>0, <2>2, <3>1 DEF Admitted, Active, ToSet
      <4>1. x \in NCQ /\ Head(active) \in NCQ
            /\ DriveOf[x] = DriveOf[Head(active)]
        BY <4>0 DEF Compatible
      <4>2. Head(active) \in Active \ Skip
        BY <1>0, <4>0, <4>1, TailFacts, AttributeAssumption DEF Active
      <4>. QED
        BY <3>1, <4>1, <4>2 DEF XferInv, Mix, Exclusive
    <3>. QED
      BY <1>2, <2>2, <3>1 DEF Exclusive, XferInv, Mix
  <2>. QED
    BY <2>1, <2>2
<1>8. Room'
  <2>1. /\ Len(active) < ChqOpenings(x) /\ Len(active) \in Nat
        /\ Openings \in Nat
    BY <1>0, OpeningsAssumption DEF HasOpening
  <2>2. Active' \cap Skip = {} => x \notin Skip
    BY <1>2
  <2>. QED
    BY <1>2, <2>1, <2>2 DEF Room, ChqOpenings
<1>. QED
  BY <1>1, <1>2, <1>3, <1>4, <1>6, <1>7, <1>8 DEF XferInv, Mix

(* ata_deactivate_xfer.                                                      *)
LEMMA DeactivateXfer ==
  ASSUME XferInv, NEW i \in DOMAIN active, Deactivate(i)
  PROVE  /\ XferInv' /\ Active' = Active \ {active[i]} /\ Pending' = Pending
         /\ \A y \in Active' : slot'[y] = slot[y]
<1>0. /\ queue' = queue /\ slot' = [slot EXCEPT ![active[i]] = 0]
      /\ active' = RemoveAt(active, i) /\ used' = used \ {slot[active[i]]}
  BY DEF Deactivate
<1>1. /\ active \in Seq(Xfers) /\ IsInjective(active)
      /\ Len(active) \in Nat /\ DOMAIN active = 1 .. Len(active)
      /\ slot \in [Xfers -> Slots] /\ used \subseteq Slots
      /\ used = {slot[y] : y \in Active}
      /\ active[i] \in Active /\ Active \subseteq Xfers
  BY DEF XferInv, XferType, Lists, SlotsExact, Active, ToSet
<1>2. /\ active' \in Seq(Xfers) /\ IsInjective(active')
      /\ Len(active') = Len(active) - 1
      /\ \A j \in 1 .. (Len(active) - 1) :
           active'[j] = IF j < i THEN active[j] ELSE active[j + 1]
      /\ Active' = Active \ {active[i]}
  BY <1>0, <1>1, RemoveAtFacts, RemoveAtSet, RemoveAtDistinct DEF Active
<1>3. Pending' = Pending
  BY <1>0 DEF Pending
<1>4. /\ slot' \in [Xfers -> Slots]
      /\ \A y \in Active' : slot'[y] = slot[y]
  <2>1. 0 \in Slots
    BY OpeningsAssumption DEF Slots
  <2>. QED
    BY <1>0, <1>1, <1>2, <2>1
<1>5. XferType' /\ Lists'
  BY <1>0, <1>1, <1>2, <1>3, <1>4 DEF XferInv, XferType, Lists
<1>6. SlotsExact'
  <2>1. used' = {slot'[y] : y \in Active'}
    BY <1>0, <1>1, <1>2, <1>4, SlotsDiffer
  <2>2. \A j \in DOMAIN active' : active'[j] \in Active' /\ active'[j] \in Active
    BY <1>2 DEF Active, ToSet
  <2>3. \A j, k \in DOMAIN active' :
          slot'[active'[j]] = slot'[active'[k]] => j = k
    BY <1>2, <1>4, <2>2, SlotsDiffer DEF IsInjective
  <2>. QED
    BY <2>1, <2>3 DEF SlotsExact
<1>7. Mix'
  <2>1. Exclusive'
    BY <1>2 DEF XferInv, Mix, Exclusive
  <2>2. SkipFirst(active')
    BY <1>0, <1>1, RemoveAtSkip DEF XferInv, Mix
  <2>. QED
    BY <1>0, <2>1, <2>2 DEF XferInv, Mix
<1>8. Room'
  <2>1. Len(active) <= Openings /\ Openings \in Nat
    BY OpeningsAssumption DEF XferInv, Room
  <2>. QED
    BY <1>1, <1>2, <2>1 DEF Room
<1>. QED
  BY <1>2, <1>3, <1>4, <1>5, <1>6, <1>7, <1>8 DEF XferInv

(* An action of the list's first transfer, if there is one.                  *)
LEMMA FirstActive == XferInv /\ active # <<>> => 1 \in DOMAIN active
BY DEF XferInv, XferType

(* The steps that leave the lists and the slots alone.                       *)
Quiet(c) ==
  \/ StartNothing(c) \/ StartWakes(c) \/ PollAgain(c)
  \/ \E x \in Xfers : WakeActive(x)
  \/ \E d \in Detach : KillBegin(d) \/ KillAgain(d) \/ KillWait(d)
  \/ \E t \in Asks : Asked(t)
  \/ \E r \in Runners : Walk(r) \/ RunEnd(r)
  \/ Thread \/ IoctlReset \/ Pmf

(* What the name says.                                                       *)
LEMMA QuietSteps == ASSUME NEW c, Quiet(c) PROVE UNCHANGED xferVars
BY DEF Quiet, StartNothing, StartWakes, PollAgain, WakeActive, KillBegin, KillAgain,
   KillWait, vars, xferVars, Asked, Walk, RunEnd, Thread, Sleep, ServeAsked, ServeXfer,
   ServePanic, ServeNothing, IoctlReset, Pmf, Suspend, Idle, Resume

(* Every step is one of these, submits a transfer, starts one, ends an       *)
(* active one, or takes one off the queue.                                   *)
Ends == \E i \in DOMAIN active : Deactivate(i)

(* The five kinds of steps.                                                  *)
LEMMA Steps ==
  ASSUME XferInv, [Next]_vars
  PROVE  \/ UNCHANGED xferVars
         \/ \E x \in Xfers : ExecXfer(x)
         \/ \E c \in Ctx : StartXfer(c)
         \/ \E d \in Detach : KillOne(d)
         \/ Ends
<1>1. CASE \E c \in Ctx : Quiet(c)
  BY <1>1, QuietSteps
<1>2. ASSUME NEW x \in Xfers, Interrupt(x) PROVE Ends
  BY <1>2 DEF Interrupt, Ends
<1>3. ASSUME NEW c \in Ctx, PollDone(c) \/ AbortDone(c) PROVE Ends
  BY <1>3 DEF PollDone, AbortDone, Ends
<1>4. ASSUME NEW c \in Runners, KillActive(c) PROVE Ends \/ UNCHANGED xferVars
  BY <1>4, FirstActive DEF KillActive, Ends
<1>5. CASE UNCHANGED vars
  BY <1>5 DEF vars, xferVars
<1>6. Intr \in Ctx
  BY DEF Ctx
<1>. QED
  BY <1>1, <1>2, <1>3, <1>4, <1>5, <1>6
  DEF Next, AtaStart, Hook, Kill, Run, Quiet

(* Every step of the channel preserves what its lists satisfy.               *)
LEMMA XferStep ==
  ASSUME XferInv, [Next]_vars
  PROVE  XferInv'
<1>1. CASE UNCHANGED xferVars
  BY <1>1 DEF XferInv, XferType, Lists, SlotsExact, Mix, Room, Exclusive,
              SkipFirst, Pending, Active, xferVars
<1>2. ASSUME NEW x \in Xfers, ExecXfer(x) PROVE XferInv'
  BY <1>2, EnqueueXfer DEF ExecXfer
<1>3. ASSUME NEW c \in Ctx, StartXfer(c) PROVE XferInv'
  <2>. DEFINE x == Head(queue)
  <2>1. PICK s \in FreeSlots(x) : slot' = [slot EXCEPT ![x] = s]
                                 /\ used' = used \cup {s}
    BY <1>3 DEF StartXfer
  <2>2. /\ queue # <<>> /\ Admitted(x) /\ HasOpening(x)
        /\ queue' = Tail(queue) /\ active' = Activated(x)
    BY <1>3 DEF StartXfer, Startable, Dequeued
  <2>. HIDE DEF x
  <2>. QED
    BY <2>1, <2>2, StartHead DEF x
<1>4. CASE Ends
  BY <1>4, DeactivateXfer DEF Ends
<1>5. ASSUME NEW d \in Detach, KillOne(d) PROVE XferInv'
  BY <1>5, DequeueXfer DEF KillOne, Dequeued
<1>. QED
  BY <1>1, <1>2, <1>3, <1>4, <1>5, Steps

-----------------------------------------------------------------------------
(* The kinds of steps, as the lists and ATACH_NCQ tell them apart: a        *)
(* transfer is queued, the head is started, or transfers leave.             *)

Leaves == Pending' \subseteq Pending /\ Active' \subseteq Active /\ ncq' = ncq

Starts(x) ==
  /\ x \in Pending /\ Pending' = Pending \ {x} /\ Active' = Active \cup {x}
  /\ Admitted(x) /\ ncq' = (x \in NCQ)

(* What StartXfer does to the lists.                                         *)
LEMMA StartStarts ==
  ASSUME XferInv, NEW c \in Ctx, StartXfer(c)
  PROVE  \E x \in Xfers : Starts(x)
<1>. DEFINE x == Head(queue)
<1>1. PICK s \in FreeSlots(x) : slot' = [slot EXCEPT ![x] = s]
                               /\ used' = used \cup {s}
  BY DEF StartXfer
<1>2. /\ queue # <<>> /\ Admitted(x) /\ HasOpening(x) /\ ncq' = (x \in NCQ)
      /\ queue' = Tail(queue) /\ active' = Activated(x)
  BY DEF StartXfer, Startable, Dequeued
<1>. HIDE DEF x
<1>3. /\ x \in Xfers /\ x \in Pending /\ Pending' = Pending \ {x}
      /\ Active' = Active \cup {x}
  BY <1>1, <1>2, StartHead DEF x
<1>. QED
  BY <1>2, <1>3 DEF Starts
-----------------------------------------------------------------------------
(* The second half: who holds the channel.                                  *)

CtxType ==
  /\ ncq \in BOOLEAN /\ freeze \in Int /\ flags \subseteq {"reset", "recover"}
  /\ extra \in [Runners -> BOOLEAN]
  /\ postponed \subseteq Xfers /\ IsFiniteSet(postponed)
  /\ pc \in [Ctx -> Labels]
  /\ cur \in [Ctx -> Xfers \cup {Nobody}] /\ inturn \in BOOLEAN
  /\ excl \in Ctx \cup {Nobody}
  /\ asleep \subseteq Xfers
  /\ waitdrain \subseteq Drives /\ draining \subseteq Drives
  /\ stolen \in BOOLEAN

CtxInv == CtxType /\ HoldersFreeze /\ SuspendQuiet

(* The contexts are told apart.                                              *)
LEMMA ContextsDiffer ==
  /\ \A x \in Xfers : x \in Ctx /\ x \notin Runners /\ x # Nobody
  /\ \A d \in Drives : d \in Ctx /\ d \notin Runners /\ d \notin Xfers
  /\ Intr \in Ctx /\ Intr \notin Runners
  /\ Runners \subseteq Ctx /\ Thr \in Runners /\ Thr \notin Users
  /\ Users \subseteq Runners /\ Users \subseteq {"ioctl", "pmf"}
  /\ Detach \subseteq Drives
BY AttributeAssumption, ContextAssumption DEF Ctx, Runners, Thr, Intr

Doubled == {c \in Hooked : extra[c]}

(* The labels of those who hold the channel.                                 *)
HookLabels == {"reset", "recover", "walk", "held"}
HeldLabels == HookLabels \cup {"idlewait", "suspended"}

(* What a context's move does to where the contexts are, whether it wakes    *)
(* the thread or not.                                                        *)
Moves(c, l) == Goto(c, l) \/ GotoSignal(c, l)

(* At most the thread moves besides, from its sleep.                         *)
LEMMA ContextMoves ==
  ASSUME CtxType, NEW c \in Ctx, NEW l \in Labels, Moves(c, l)
  PROVE  /\ pc' \in [Ctx -> Labels] /\ pc'[c] = l
         /\ \A d \in Ctx \ {c} :
              \/ pc'[d] = pc[d]
              \/ d = Thr /\ pc[d] = "asleep" /\ pc'[d] = "awake"
<1>1. CASE Goto(c, l)
  BY <1>1 DEF CtxType, Goto
<1>2. CASE GotoSignal(c, l)
  <2>1. "awake" \in Labels
    BY DEF Labels
  <2>2. \A d \in Ctx : pc[d] \in Labels
    BY DEF CtxType
  <2>. QED
    BY <1>2, <2>1, <2>2 DEF GotoSignal, Woken
<1>. QED
  BY <1>1, <1>2 DEF Moves

(* There are a handful of holders at most.                                   *)
LEMMA RunnersFinite == IsFiniteSet(Runners)
<1>1. IsFiniteSet({"ioctl", "pmf"})
  <2>1. {"ioctl"} = {} \cup {"ioctl"} /\ {"ioctl", "pmf"} = {"ioctl"} \cup {"pmf"}
    OBVIOUS
  <2>2. IsFiniteSet({"ioctl"})
    BY <2>1, FS_EmptySet, FS_AddElement
  <2>. QED
    BY <2>1, <2>2, FS_AddElement
<1>2. IsFiniteSet(Users)
  BY <1>1, FS_Subset, AttributeAssumption
<1>3. Runners = Users \cup {Thr}
  BY DEF Runners
<1>. QED
  BY <1>2, <1>3, FS_AddElement

(* Hence they can be counted.                                                *)
LEMMA HoldersFinite ==
  ASSUME CtxType
  PROVE  /\ IsFiniteSet(flags) /\ IsFiniteSet(postponed) /\ IsFiniteSet(Suspending)
         /\ IsFiniteSet(Hooked) /\ IsFiniteSet(Doubled)
         /\ Cardinality(flags) \in Nat /\ Cardinality(postponed) \in Nat
         /\ Cardinality(Suspending) \in Nat
         /\ Cardinality(Hooked) \in Nat /\ Cardinality(Doubled) \in Nat
<1>1. IsFiniteSet({"reset", "recover"})
  <2>1. /\ {"reset"} = {} \cup {"reset"}
        /\ {"reset", "recover"} = {"reset"} \cup {"recover"}
    OBVIOUS
  <2>2. IsFiniteSet({"reset"})
    BY <2>1, FS_EmptySet, FS_AddElement
  <2>. QED
    BY <2>1, <2>2, FS_AddElement
<1>2. IsFiniteSet(flags) /\ IsFiniteSet(postponed)
  BY <1>1, FS_Subset DEF CtxType
<1>3. Suspending \subseteq Runners /\ Hooked \subseteq Runners /\ Doubled \subseteq Runners
  BY DEF Suspending, Hooked, Doubled, Runners
<1>4. IsFiniteSet(Suspending) /\ IsFiniteSet(Hooked) /\ IsFiniteSet(Doubled)
  BY <1>3, RunnersFinite, FS_Subset
<1>. QED
  BY <1>2, <1>4, FS_CardinalityType

(* Held is a number, the sum of what is counted.                             *)
LEMMA HeldSum ==
  ASSUME CtxType
  PROVE  /\ Held \in Nat
         /\ Held = Cardinality(flags) + Cardinality(postponed)
                   + Cardinality(Suspending) + Cardinality(Hooked)
                   + Cardinality(Doubled)
<1>1. Held = Cardinality(flags) + Cardinality(postponed) + Cardinality(Suspending)
             + Cardinality(Hooked) + Cardinality(Doubled)
  BY DEF Held, Doubled
<1>. QED
  BY <1>1, HoldersFinite

(* A move from one place where the context holds nothing to another.         *)
LEMMA HoldersStay ==
  ASSUME CtxType, NEW c \in Ctx, NEW l \in Labels, Moves(c, l),
         pc[c] \notin HeldLabels, l \notin HeldLabels, extra' = extra
  PROVE  Suspending' = Suspending /\ Hooked' = Hooked /\ Doubled' = Doubled
<1>1. \A d \in Ctx : \/ pc'[d] = pc[d]
                     \/ pc'[d] \notin HeldLabels /\ pc[d] \notin HeldLabels
  BY ContextMoves DEF HeldLabels, HookLabels
<1>2. \A d \in Ctx : /\ InHook(d)' = InHook(d)
                     /\ pc'[d] \in {"idlewait", "suspended"}
                          <=> pc[d] \in {"idlewait", "suspended"}
  BY <1>1 DEF InHook, HeldLabels, HookLabels
<1>. QED
  BY <1>2, ContextsDiffer DEF Suspending, Hooked, Doubled

(* The suspending context does not come to rest by a move of this kind.      *)
LEMMA SuspendedStays ==
  ASSUME CtxType, NEW c \in Ctx, NEW l \in Labels, Moves(c, l), l # "suspended",
         Suspended'
  PROVE  Suspended
<1>1. "pmf" \in Ctx /\ "pmf" # Thr
  BY ContextsDiffer DEF Suspended, Thr
<1>. QED
  BY <1>1, ContextMoves DEF Suspended

(* A step that starts nothing and does not suspend leaves a channel quiet.   *)
LEMMA StaysQuiet ==
  ASSUME SuspendQuiet, Active' \subseteq Active, Suspended' => Suspended,
         stolen => stolen'
  PROVE  SuspendQuiet'
BY DEF SuspendQuiet

(* What HoldersFreeze needs of a step that takes or gives up no hold, except *)
(* that a postponed transfer may have ended.                                 *)
LEMMA HoldKept ==
  ASSUME CtxType, CtxType', HoldersFreeze,
         Suspending' = Suspending, Hooked' = Hooked, Doubled' = Doubled,
         UNCHANGED <<freeze, flags, stolen>>, postponed' \subseteq postponed
  PROVE  HoldersFreeze'
<1>1. Cardinality(postponed') <= Cardinality(postponed)
  BY HoldersFinite, FS_Subset
<1>2. Cardinality(postponed') \in Nat /\ freeze \in Int
  BY FS_CardinalityType DEF CtxType
<1>3. Held' = Cardinality(flags') + Cardinality(postponed') + Cardinality(Suspending')
              + Cardinality(Hooked') + Cardinality(Doubled')
  BY DEF Held, Doubled
<1>4. Held' <= Held
  BY <1>1, <1>2, <1>3, HoldersFinite, HeldSum
<1>5. Held' \in Nat /\ Held \in Nat
  BY <1>2, <1>3, HoldersFinite, HeldSum
<1>. QED
  BY <1>2, <1>4, <1>5 DEF HoldersFreeze

(* While a holder is about the freeze is at least one.                       *)
LEMMA HeldFrozen ==
  ASSUME CtxInv, ~stolen, Suspended \/ Hooked # {}
  PROVE  freeze >= 1
<1>0. CtxType /\ freeze \in Int /\ Held \in Nat /\ freeze >= Held
  BY HeldSum DEF CtxInv, CtxType, HoldersFreeze
<1>1. Suspending # {} \/ Hooked # {}
  BY DEF Suspended, Suspending
<1>2. Cardinality(Suspending) # 0 \/ Cardinality(Hooked) # 0
  BY <1>0, <1>1, HoldersFinite, FS_EmptySet
<1>3. Held >= 1
  BY <1>0, <1>2, HoldersFinite, HeldSum
<1>. QED
  BY <1>0, <1>3

-----------------------------------------------------------------------------
(* The types of the second half.                                             *)

(* Where atastart returns to is never a place that holds the channel.        *)
LEMMA ReturnMoves ==
  ASSUME NEW c \in Ctx, Return(c)
  PROVE  \E l \in {"idle", "turn", "top"} : Goto(c, l)
BY DEF Return

(* Where atastart leaves the context that calls it.                          *)
LEMMA StartMoves ==
  ASSUME XferInv, CtxType, NEW c \in Ctx, AtaStart(c)
  PROVE  /\ pc[c] = "start"
         /\ \/ pc' = pc
            \/ \E l \in {"idle", "turn", "top", "poll", "abort"} : Moves(c, l)
         /\ UNCHANGED <<flags, extra, stolen, waitdrain, draining>>
         /\ asleep' \subseteq asleep /\ ncq' \in BOOLEAN /\ inturn' \in BOOLEAN
         /\ excl' \in {Nobody, c} /\ cur' \in [Ctx -> Xfers \cup {Nobody}]
<1>1. CASE StartNothing(c) \/ StartWakes(c)
  BY <1>1, ReturnMoves DEF StartNothing, StartWakes, xferVars, holdVars, sleepVars,
     CtxType, Moves, Return
<1>2. CASE StartXfer(c)
  <2>. DEFINE x == Head(queue)
  <2>1. /\ UNCHANGED <<flags, extra, stolen, sleepVars>> /\ pc[c] = "start"
        /\ ncq' \in BOOLEAN /\ queue # <<>>
        /\ Started(c, x) \/ Polled(c, x) \/ Aborted(c, x) \/ LeftToThread(c, x)
    BY <1>2 DEF StartXfer
  <2>2. x \in Xfers
    BY <2>1, TailFacts DEF XferInv, XferType
  <2>. HIDE DEF x
  <2>3. CASE Started(c, x)
    BY <2>1, <2>3, ReturnMoves DEF Started, Return, Moves, CtxType, sleepVars
  <2>4. CASE Polled(c, x)
    BY <2>1, <2>2, <2>4 DEF Polled, Moves, CtxType, sleepVars
  <2>5. CASE Aborted(c, x)
    BY <2>1, <2>2, <2>5 DEF Aborted, Moves, CtxType, sleepVars
  <2>6. CASE LeftToThread(c, x)
    BY <2>1, <2>6 DEF LeftToThread, Moves, CtxType, sleepVars
  <2>. QED
    BY <2>1, <2>3, <2>4, <2>5, <2>6
<1>. QED
  BY <1>1, <1>2 DEF AtaStart

(* Where a hook leaves it.                                                   *)
LEMMA HookMoves ==
  ASSUME CtxType, NEW c \in Ctx, Hook(c)
  PROVE  /\ pc[c] \in {"poll", "abort"}
         /\ \E l \in {"idle", "turn", "top", "start", "abort"} : Goto(c, l)
         /\ UNCHANGED <<ncq, freeze, flags, extra, stolen, sleepVars>>
         /\ postponed' \subseteq postponed /\ inturn' \in BOOLEAN
         /\ excl' \in {Nobody, c, Intr, excl} /\ cur' \in [Ctx -> Xfers \cup {Nobody}]
<1>1. CASE PollDone(c)
  BY <1>1, ReturnMoves DEF PollDone, Deactivate, holdVars, CtxType, Return, OnGoing
<1>2. CASE PollAgain(c)
  BY <1>2 DEF PollAgain, xferVars, holdVars, CtxType
<1>3. CASE AbortDone(c)
  BY <1>3 DEF AbortDone, Deactivate, holdVars, CtxType, OnGoing
<1>. QED
  BY <1>1, <1>2, <1>3 DEF Hook

(* What the end of a turn does.                                              *)
LEMMA TurnMoves ==
  ASSUME NEW f, EndTurn(f)
  PROVE  (\E l \in {"start", "top"} : Goto(Thr, l)) /\ excl' \in {Nobody, Thr}
BY DEF EndTurn

(* An ended transfer is not postponed any more.                              *)
LEMMA EndedNotPostponed ==
  ASSUME NEW i, Deactivate(i)
  PROVE  postponed' \subseteq postponed /\ ncq' = ncq
BY DEF Deactivate

(* The steps that change nobody's hold on the channel.                       *)
NoHold ==
  /\ UNCHANGED <<freeze, flags, extra, stolen>> /\ postponed' \subseteq postponed
  /\ \/ pc' = pc
     \/ \E c \in Ctx, l \in Labels \ HeldLabels :
          Moves(c, l) /\ pc[c] \notin HeldLabels

(* They keep what is said of the holders.                                    *)
LEMMA NoHoldKeeps ==
  ASSUME CtxInv, CtxType', NoHold
  PROVE  HoldersFreeze' /\ (Suspended' => Suspended)
<1>1. CASE pc' = pc
  <2>1. Suspending' = Suspending /\ Hooked' = Hooked /\ Doubled' = Doubled
    BY <1>1 DEF NoHold, Suspending, Hooked, Doubled, InHook
  <2>. QED
    BY <1>1, <2>1, HoldKept DEF CtxInv, NoHold, Suspended
<1>2. ASSUME NEW c \in Ctx, NEW l \in Labels \ HeldLabels, Moves(c, l),
             pc[c] \notin HeldLabels
      PROVE  HoldersFreeze' /\ (Suspended' => Suspended)
  <2>1. Suspending' = Suspending /\ Hooked' = Hooked /\ Doubled' = Doubled
    BY <1>2, HoldersStay DEF CtxInv, NoHold
  <2>2. Suspended' => Suspended
    BY <1>2, SuspendedStays DEF CtxInv, HeldLabels
  <2>. QED
    BY <2>1, <2>2, HoldKept DEF CtxInv, NoHold
<1>. QED
  BY <1>1, <1>2 DEF NoHold

(* Submitters do not touch the freeze.                                       *)
LEMMA CtxSubmit ==
  ASSUME CtxInv, NEW x \in Xfers, ExecXfer(x) \/ WakeActive(x)
  PROVE  CtxInv'
<1>1. /\ UNCHANGED <<freeze, flags, extra, stolen, ncq, postponed, cur, inturn, excl,
                     waitdrain, draining, active>>
      /\ asleep' \subseteq asleep \cup {x} /\ x \in Ctx
      /\ pc[x] \in {"idle", "waitact"}
      /\ pc' = pc \/ \E l \in {"start", "waitact"} : Goto(x, l)
  BY ContextsDiffer DEF ExecXfer, WakeActive, WaitAct, xferVars, holdVars
<1>2. {"start", "waitact"} \subseteq Labels \ HeldLabels
      /\ pc[x] \notin HeldLabels
  BY <1>1 DEF Labels, HeldLabels, HookLabels
<1>3. NoHold
  BY <1>1, <1>2 DEF NoHold, Moves
<1>4. CtxType'
  BY <1>1, <1>2, ContextMoves DEF CtxInv, CtxType, Moves
<1>5. SuspendQuiet'
  BY <1>1, <1>3, <1>4, NoHoldKeeps, StaysQuiet DEF CtxInv, Active
<1>. QED
  BY <1>3, <1>4, <1>5, NoHoldKeeps DEF CtxInv

(* A completion only shortens the list of active transfers.                  *)
LEMMA CtxInterrupt ==
  ASSUME XferInv, CtxInv, NEW x \in Xfers, Interrupt(x)
  PROVE  CtxInv'
<1>0. PICK i \in DOMAIN active :
        /\ active[i] = x /\ Deactivate(i)
        /\ IntrDone(i) \/ IntrDrain(i)
  BY DEF Interrupt
<1>1. /\ UNCHANGED <<freeze, flags, extra, stolen, cur, inturn, asleep, ncq>>
      /\ postponed' \subseteq postponed /\ Active' \subseteq Active
      /\ pc[Intr] \notin HeldLabels
  BY <1>0, DeactivateXfer
  DEF Interrupt, Deactivate, holdVars, HeldLabels, HookLabels
<1>2. /\ waitdrain' \subseteq waitdrain /\ draining' \subseteq draining
      /\ excl' \in {excl, Intr}
      /\ pc' = pc \/ Goto(Intr, "start")
  BY <1>0 DEF IntrDone, IntrDrain
<1>3. Intr \in Ctx /\ "start" \in Labels \ HeldLabels
  BY ContextsDiffer DEF Labels, HeldLabels, HookLabels
<1>4. NoHold
  BY <1>1, <1>2, <1>3 DEF NoHold, Moves
<1>5. CtxType'
  <2>1. pc' \in [Ctx -> Labels]
    BY <1>2, <1>3, ContextMoves DEF CtxInv, CtxType, Moves
  <2>2. IsFiniteSet(postponed')
    BY <1>1, FS_Subset DEF CtxInv, CtxType
  <2>. QED
    BY <1>1, <1>2, <1>3, <2>1, <2>2 DEF CtxInv, CtxType
<1>6. SuspendQuiet'
  BY <1>1, <1>4, <1>5, NoHoldKeeps, StaysQuiet DEF CtxInv
<1>. QED
  BY <1>4, <1>5, <1>6, NoHoldKeeps DEF CtxInv

(* A turn of atastart: an ordinary transfer is started only while nothing    *)
(* holds the channel, and one left to the thread brings its own freeze.      *)
LEMMA CtxStart ==
  ASSUME XferInv, CtxInv, NEW c \in Ctx, AtaStart(c)
  PROVE  CtxInv'
<1>1. /\ pc[c] = "start" /\ pc[c] \notin HeldLabels
      /\ \/ pc' = pc
         \/ \E l \in {"idle", "turn", "top", "poll", "abort"} : Moves(c, l)
      /\ UNCHANGED <<flags, extra, stolen, waitdrain, draining>>
      /\ asleep' \subseteq asleep /\ ncq' \in BOOLEAN /\ inturn' \in BOOLEAN
      /\ excl' \in {Nobody, c} /\ cur' \in [Ctx -> Xfers \cup {Nobody}]
  BY StartMoves DEF CtxInv, HeldLabels, HookLabels
<1>2. {"idle", "turn", "top", "poll", "abort"} \subseteq Labels \ HeldLabels
  BY DEF Labels, HeldLabels, HookLabels
<1>3. \/ /\ UNCHANGED <<freeze, postponed>>
      \/ \E x \in Xfers : LeftToThread(c, x)
  <2>1. CASE StartNothing(c) \/ StartWakes(c)
    BY <2>1 DEF StartNothing, StartWakes, holdVars
  <2>2. CASE StartXfer(c)
    <3>1. Head(queue) \in Xfers
      BY <2>2, TailFacts DEF StartXfer, XferInv, XferType
    <3>. QED
      BY <2>2, <3>1 DEF StartXfer, Started, Polled, Aborted
  <2>. QED
    BY <2>1, <2>2 DEF AtaStart
<1>4. CtxType'
  <2>1. pc' \in [Ctx -> Labels]
    BY <1>1, <1>2, ContextMoves DEF CtxInv, CtxType
  <2>2. postponed' \subseteq Xfers /\ IsFiniteSet(postponed') /\ freeze' \in Int
    BY <1>3, FS_AddElement DEF LeftToThread, CtxInv, CtxType
  <2>. QED
    BY <1>1, <2>1, <2>2 DEF CtxInv, CtxType
<1>5. HoldersFreeze' /\ (Suspended' => Suspended)
  <2>1. CASE UNCHANGED <<freeze, postponed>>
    <3>1. NoHold
      BY <1>1, <1>2, <2>1 DEF NoHold
    <3>. QED
      BY <1>4, <3>1, NoHoldKeeps
  <2>2. ASSUME NEW x \in Xfers, LeftToThread(c, x)
        PROVE  HoldersFreeze' /\ (Suspended' => Suspended)
    <3>1. /\ Moves(c, "idle") /\ freeze' = freeze + 1
          /\ postponed' = postponed \cup {x}
          /\ "idle" \in Labels \ HeldLabels /\ "idle" # "suspended"
      BY <1>2, <2>2 DEF LeftToThread, Moves
    <3>2. Suspending' = Suspending /\ Hooked' = Hooked /\ Doubled' = Doubled
      BY <1>1, <3>1, HoldersStay DEF CtxInv
    <3>3. /\ Cardinality(postponed') <= Cardinality(postponed) + 1
          /\ Cardinality(postponed') \in Nat
      <4>1. IsFiniteSet(postponed) /\ Cardinality(postponed) \in Nat
        BY HoldersFinite DEF CtxInv
      <4>2. Cardinality(postponed') \in {Cardinality(postponed), Cardinality(postponed) + 1}
        BY <3>1, <4>1, FS_AddElement
      <4>. QED
        BY <4>1, <4>2
    <3>4. Held' = Cardinality(flags') + Cardinality(postponed')
                  + Cardinality(Suspending') + Cardinality(Hooked')
                  + Cardinality(Doubled')
      BY DEF Held, Doubled
    <3>5. Held' <= Held + 1 /\ Held' \in Nat /\ Held \in Nat
      BY <1>1, <3>2, <3>3, <3>4, HoldersFinite, HeldSum DEF CtxInv
    <3>6. freeze \in Int /\ (~stolen => freeze >= Held) /\ stolen' = stolen
      BY <1>1 DEF CtxInv, CtxType, HoldersFreeze
    <3>7. HoldersFreeze'
      BY <3>1, <3>5, <3>6 DEF HoldersFreeze
    <3>. QED
      BY <1>1, <3>1, <3>7, SuspendedStays DEF CtxInv
  <2>. QED
    BY <1>3, <2>1, <2>2
<1>6. SuspendQuiet'
  <2>1. CASE StartNothing(c) \/ StartWakes(c)
    <3>1. Active' = Active
      BY <2>1 DEF StartNothing, StartWakes, xferVars, Active
    <3>. QED
      BY <1>1, <1>5, <3>1, StaysQuiet DEF CtxInv
  <2>2. CASE StartXfer(c)
    <3>1. PICK x \in Xfers : Starts(x)
      BY <2>2, StartStarts
    <3>2. ASSUME Suspended, ~stolen PROVE x \in Skip
      <4>1. freeze # 0
        BY <3>2, HeldFrozen DEF CtxInv, CtxType
      <4>. QED
        BY <3>1, <4>1 DEF Starts, Admitted
    <3>. QED
      BY <1>1, <1>5, <3>1, <3>2 DEF Starts, CtxInv, SuspendQuiet
  <2>. QED
    BY <2>1, <2>2 DEF AtaStart
<1>. QED
  BY <1>4, <1>5, <1>6 DEF CtxInv

(* A hook that ended its transfer, or that is called again.                  *)
LEMMA CtxHook ==
  ASSUME XferInv, CtxInv, NEW c \in Ctx, Hook(c)
  PROVE  CtxInv'
<1>1. /\ pc[c] \notin HeldLabels
      /\ \E l \in {"idle", "turn", "top", "start", "abort"} : Goto(c, l)
      /\ UNCHANGED <<ncq, freeze, flags, extra, stolen, sleepVars>>
      /\ postponed' \subseteq postponed /\ inturn' \in BOOLEAN
      /\ excl' \in {Nobody, c, Intr, excl} /\ cur' \in [Ctx -> Xfers \cup {Nobody}]
  BY HookMoves DEF CtxInv, HeldLabels, HookLabels
<1>2. {"idle", "turn", "top", "start", "abort"} \subseteq Labels \ HeldLabels
  BY DEF Labels, HeldLabels, HookLabels
<1>3. NoHold
  BY <1>1, <1>2 DEF NoHold, Moves
<1>4. CtxType'
  <2>1. pc' \in [Ctx -> Labels] /\ Intr \in Ctx
    BY <1>1, <1>2, ContextMoves, ContextsDiffer DEF CtxInv, CtxType, Moves
  <2>2. IsFiniteSet(postponed')
    BY <1>1, FS_Subset DEF CtxInv, CtxType
  <2>. QED
    BY <1>1, <2>1, <2>2 DEF CtxInv, CtxType, sleepVars
<1>5. Active' \subseteq Active
  BY DeactivateXfer DEF Hook, PollDone, PollAgain, AbortDone, xferVars, Active
<1>6. SuspendQuiet'
  BY <1>1, <1>3, <1>4, <1>5, NoHoldKeeps, StaysQuiet DEF CtxInv
<1>. QED
  BY <1>3, <1>4, <1>6, NoHoldKeeps DEF CtxInv

(* A detach moves only the context that detaches.                            *)
LEMMA CtxKill ==
  ASSUME CtxInv, NEW d \in Detach, Kill(d)
  PROVE  CtxInv'
<1>0. d \in Drives /\ d \in Ctx
  BY ContextsDiffer
<1>1. /\ UNCHANGED <<freeze, flags, extra, stolen, ncq, postponed, cur, inturn, active>>
      /\ asleep' \subseteq asleep /\ excl' \in {Nobody, d, excl}
      /\ waitdrain' \subseteq waitdrain \cup {d}
      /\ draining' \subseteq draining \cup {d}
      /\ \/ pc' = pc
         \/ /\ pc[d] \in {"idle", "scan", "drain"}
            /\ \E l \in {"scan", "drain", "gone"} : Goto(d, l)
  <2>1. CASE KillBegin(d)
    BY <2>1 DEF KillBegin, xferVars, holdVars, sleepVars
  <2>2. CASE KillOne(d)
    BY <2>2 DEF KillOne, holdVars, sleepVars
  <2>3. CASE KillAgain(d)
    BY <2>3 DEF KillAgain, vars
  <2>4. CASE KillWait(d)
    BY <2>4 DEF KillWait, xferVars, holdVars
  <2>. QED
    BY <2>1, <2>2, <2>3, <2>4 DEF Kill
<1>2. /\ {"scan", "drain", "gone"} \subseteq Labels \ HeldLabels
      /\ {"idle", "scan", "drain"} \cap HeldLabels = {}
  BY DEF Labels, HeldLabels, HookLabels
<1>3. NoHold
  BY <1>0, <1>1, <1>2 DEF NoHold, Moves
<1>4. CtxType'
  <2>1. pc' \in [Ctx -> Labels]
    BY <1>0, <1>1, <1>2, ContextMoves DEF CtxInv, CtxType, Moves
  <2>. QED
    BY <1>0, <1>1, <2>1 DEF CtxInv, CtxType
<1>5. SuspendQuiet'
  BY <1>1, <1>3, <1>4, NoHoldKeeps, StaysQuiet DEF CtxInv, Active
<1>. QED
  BY <1>3, <1>4, <1>5, NoHoldKeeps DEF CtxInv

(* What a driver schedules brings its freeze with its flag.                  *)
LEMMA FreezeTaken ==
  ASSUME CtxType, HoldersFreeze, Held' \in Nat, Held' <= Held + 1,
         freeze' = freeze + 1, stolen' = stolen
  PROVE  HoldersFreeze'
BY HeldSum DEF HoldersFreeze, CtxType

(* A reset or recovery is scheduled to the thread.                           *)
LEMMA CtxAsked ==
  ASSUME CtxInv, NEW t \in Asks, Asked(t)
  PROVE  CtxInv'
<1>1. /\ freeze' = freeze + 1 /\ flags' = flags \cup {t} /\ t \in {"reset", "recover"}
      /\ Goto(Thr, Woken(pc[Thr]))
      /\ UNCHANGED <<xferVars, extra, postponed, cur, inturn, excl, sleepVars, stolen>>
  BY AttributeAssumption DEF Asked, Signal
<1>2. pc' = pc \/ (Moves(Thr, "awake") /\ pc[Thr] = "asleep")
  BY <1>1, ContextsDiffer DEF Moves, Woken, Goto, CtxInv, CtxType
<1>3. "awake" \in Labels \ HeldLabels /\ "asleep" \notin HeldLabels /\ Thr \in Ctx
  BY ContextsDiffer DEF Labels, HeldLabels, HookLabels
<1>4. CtxType'
  <2>1. pc' \in [Ctx -> Labels]
    BY <1>2, <1>3, ContextMoves DEF CtxInv, CtxType
  <2>. QED
    BY <1>1, <2>1 DEF CtxInv, CtxType, xferVars, sleepVars
<1>5. Suspending' = Suspending /\ Hooked' = Hooked /\ Doubled' = Doubled
  <2>1. CASE pc' = pc
    BY <1>1, <2>1 DEF Suspending, Hooked, Doubled, InHook
  <2>2. CASE Moves(Thr, "awake") /\ pc[Thr] = "asleep"
    BY <1>1, <1>3, <2>2, HoldersStay DEF CtxInv
  <2>. QED
    BY <1>2, <2>1, <2>2
<1>6. HoldersFreeze'
  <2>1. Cardinality(flags') \in {Cardinality(flags), Cardinality(flags) + 1}
    BY <1>1, HoldersFinite, FS_AddElement DEF CtxInv
  <2>2. Held' = Cardinality(flags') + Cardinality(postponed') + Cardinality(Suspending')
                + Cardinality(Hooked') + Cardinality(Doubled')
    BY DEF Held, Doubled
  <2>3. Held' <= Held + 1 /\ Held' \in Nat
    BY <1>1, <1>5, <2>1, <2>2, HoldersFinite, HeldSum DEF CtxInv
  <2>. QED
    BY <1>1, <2>3, FreezeTaken DEF CtxInv
<1>7. SuspendQuiet'
  <2>1. Suspended' => Suspended
    BY <1>2, <1>3, SuspendedStays DEF Suspended, CtxInv
  <2>. QED
    BY <1>1, <2>1, StaysQuiet DEF CtxInv, Active, xferVars
<1>. QED
  BY <1>4, <1>6, <1>7 DEF CtxInv

(* A run begins: the flag it takes over is counted as its extra freeze.      *)
LEMMA RunFreezes ==
  ASSUME CtxInv, CtxType', NEW c \in Runners, NEW t \in {"reset", "recover"}, NEW f \in Int,
         RunBegin(c, t, f), ~InHook(c), UNCHANGED <<postponed, stolen>>,
         IF c \in Suspending THEN f = freeze - 1 ELSE f = freeze
  PROVE  HoldersFreeze'
<1>1. /\ c \in Ctx /\ pc' = [pc EXCEPT ![c] = t] /\ pc \in [Ctx -> Labels]
      /\ extra' = [extra EXCEPT ![c] = t \in flags] /\ extra \in [Runners -> BOOLEAN]
      /\ Runners \subseteq Ctx /\ Users \subseteq Runners
      /\ flags' = flags \ {t} /\ freeze' = f + 1 /\ freeze \in Int
  BY ContextsDiffer DEF RunBegin, Goto, CtxInv, CtxType
<1>2. t \notin {"idlewait", "suspended"} /\ c \notin Hooked /\ InHook(c)'
  BY <1>1 DEF Hooked, InHook
<1>3. Suspending' = Suspending \ {c}
  BY <1>1, <1>2 DEF Suspending
<1>4. Hooked' = Hooked \cup {c}
  BY <1>1, <1>2 DEF Hooked, InHook
<1>5. Doubled' = IF t \in flags THEN Doubled \cup {c} ELSE Doubled
  <2>1. \A d \in Hooked : extra'[d] = extra[d]
    BY <1>1, <1>2 DEF Hooked
  <2>2. extra'[c] = (t \in flags)
    BY <1>1
  <2>. QED
    BY <1>2, <1>4, <2>1, <2>2 DEF Doubled
<1>6. c \notin Doubled
  BY <1>2 DEF Doubled
<1>7. Cardinality(Hooked') = Cardinality(Hooked) + 1
  BY <1>2, <1>4, HoldersFinite, FS_AddElement DEF CtxInv
<1>8. Cardinality(Suspending')
        = IF c \in Suspending THEN Cardinality(Suspending) - 1 ELSE Cardinality(Suspending)
  BY <1>3, HoldersFinite, FS_RemoveElement DEF CtxInv
<1>9. /\ t \in flags => /\ Cardinality(flags') = Cardinality(flags) - 1
                        /\ Cardinality(Doubled') = Cardinality(Doubled) + 1
      /\ t \notin flags => flags' = flags /\ Doubled' = Doubled
  <2>1. CASE t \in flags
    <3>1. Cardinality(flags') = Cardinality(flags) - 1
      BY <1>1, <2>1, HoldersFinite, FS_RemoveElement DEF CtxInv
    <3>2. Cardinality(Doubled') = Cardinality(Doubled) + 1
      BY <1>5, <1>6, <2>1, HoldersFinite, FS_AddElement DEF CtxInv
    <3>. QED
      BY <2>1, <3>1, <3>2
  <2>2. CASE t \notin flags
    BY <1>1, <1>5, <2>2
  <2>. QED
    BY <2>1, <2>2
<1>10. Held' = Cardinality(flags') + Cardinality(postponed') + Cardinality(Suspending')
               + Cardinality(Hooked') + Cardinality(Doubled')
  BY DEF Held, Doubled
<1>11. CtxType /\ postponed' = postponed /\ stolen' = stolen
  BY DEF CtxInv
<1>12. Held' = IF c \in Suspending THEN Held ELSE Held + 1
  <2>1. /\ Cardinality(flags) \in Nat /\ Cardinality(postponed) \in Nat
        /\ Cardinality(Suspending) \in Nat
        /\ Cardinality(Hooked) \in Nat /\ Cardinality(Doubled) \in Nat
        /\ Held = Cardinality(flags) + Cardinality(postponed)
                  + Cardinality(Suspending) + Cardinality(Hooked)
                  + Cardinality(Doubled)
    BY <1>11, HoldersFinite, HeldSum
  <2>2. Cardinality(postponed') = Cardinality(postponed)
    BY <1>11
  <2>3. Cardinality(flags') + Cardinality(Doubled')
          = Cardinality(flags) + Cardinality(Doubled)
    BY <1>9, <2>1
  <2>4. /\ Cardinality(flags') \in Int /\ Cardinality(Doubled') \in Int
    BY <1>9, <2>1
  <2>. QED
    BY <1>7, <1>8, <1>10, <2>1, <2>2, <2>3, <2>4
<1>13. /\ Held \in Nat /\ (~stolen => freeze >= Held)
       /\ freeze' = IF c \in Suspending THEN freeze ELSE freeze + 1
  BY <1>1, <1>11, HeldSum DEF CtxInv, HoldersFreeze
<1>. QED
  BY <1>1, <1>11, <1>12, <1>13 DEF HoldersFreeze

(* Among those who hold the channel nobody comes or goes.                    *)
LEMMA CtxWalk ==
  ASSUME XferInv, CtxInv, NEW c \in Runners, Walk(c) \/ KillActive(c)
  PROVE  CtxInv'
<1>1. /\ UNCHANGED <<freeze, flags, extra, stolen, ncq, cur, inturn, sleepVars>>
      /\ postponed' \subseteq postponed /\ excl' \in {c, excl, Nobody}
      /\ pc[c] \in HookLabels /\ c \in Ctx
      /\ pc' = pc \/ \E l \in {"walk", "held"} : Goto(c, l)
  BY ContextsDiffer DEF Walk, KillActive, Deactivate, xferVars, holdVars, HookLabels
<1>2. {"walk", "held"} \subseteq HookLabels /\ HookLabels \subseteq Labels
      /\ HookLabels \cap {"idlewait", "suspended"} = {}
  BY DEF HookLabels, Labels
<1>3. /\ pc' \in [Ctx -> Labels] /\ pc'[c] \in HookLabels
      /\ \A d \in Ctx \ {c} : pc'[d] = pc[d]
  BY <1>1, <1>2 DEF Goto, CtxInv, CtxType
<1>4. CtxType'
  <2>1. IsFiniteSet(postponed')
    BY <1>1, FS_Subset DEF CtxInv, CtxType
  <2>. QED
    BY <1>1, <1>3, <2>1 DEF CtxInv, CtxType, sleepVars
<1>5. Suspending' = Suspending /\ Hooked' = Hooked /\ Doubled' = Doubled
  <2>1. \A d \in Ctx : /\ InHook(d)' = InHook(d)
                       /\ pc'[d] \in {"idlewait", "suspended"}
                            <=> pc[d] \in {"idlewait", "suspended"}
    BY <1>1, <1>2, <1>3 DEF InHook, HookLabels
  <2>. QED
    BY <1>1, <2>1, ContextsDiffer DEF Suspending, Hooked, Doubled
<1>6. HoldersFreeze'
  BY <1>1, <1>4, <1>5, HoldKept DEF CtxInv
<1>7. SuspendQuiet'
  <2>1. Suspended' => Suspended
    BY <1>1, <1>2, <1>3, ContextsDiffer DEF Suspended
  <2>2. Active' \subseteq Active
    BY FirstActive, DeactivateXfer DEF Walk, KillActive, xferVars, Active
  <2>. QED
    BY <1>1, <2>1, <2>2, StaysQuiet DEF CtxInv
<1>. QED
  BY <1>4, <1>6, <1>7 DEF CtxInv

(* A run ends: the freeze it took, and its extra one, go with it.            *)
LEMMA CtxRunEnd ==
  ASSUME XferInv, CtxInv, NEW c \in Runners, RunEnd(c)
  PROVE  CtxInv'
<1>1. /\ pc[c] = "held" /\ freeze' = freeze - Thaws(c)
      /\ extra' = [extra EXCEPT ![c] = FALSE]
      /\ UNCHANGED <<xferVars, flags, postponed, cur, inturn, sleepVars, stolen>>
      /\ c \in Ctx /\ Thr \in Ctx
  BY ContextsDiffer DEF RunEnd
<1>2. /\ \E l \in {"start", "top", "idle"} : Moves(c, l)
      /\ excl' \in {Nobody, Thr, excl}
  <2>1. CASE c = Thr
    <3>1. EndTurn(freeze')
      BY <2>1 DEF RunEnd
    <3>. QED
      BY <2>1, <3>1 DEF EndTurn, Moves
  <2>2. CASE c # Thr
    BY <2>2 DEF RunEnd, Moves
  <2>. QED
    BY <2>1, <2>2
<1>3. PICK l \in {"start", "top", "idle"} : Moves(c, l)
  BY <1>2
<1>4. l \in Labels /\ l \notin HeldLabels /\ l # "suspended"
  BY DEF Labels, HeldLabels, HookLabels
<1>5. /\ pc' \in [Ctx -> Labels] /\ pc'[c] = l
      /\ \A d \in Ctx \ {c} :
           \/ pc'[d] = pc[d]
           \/ d = Thr /\ pc[d] = "asleep" /\ pc'[d] = "awake"
  BY <1>1, <1>3, <1>4, ContextMoves DEF CtxInv
<1>6. CtxType'
  BY <1>1, <1>2, <1>5 DEF CtxInv, CtxType, Thaws, xferVars, sleepVars
<1>7. /\ \A d \in Ctx \ {c} : /\ InHook(d)' = InHook(d)
                              /\ pc'[d] \in {"idlewait", "suspended"}
                                   <=> pc[d] \in {"idlewait", "suspended"}
      /\ ~InHook(c)' /\ InHook(c)
      /\ pc'[c] \notin {"idlewait", "suspended"}
      /\ pc[c] \notin {"idlewait", "suspended"}
  BY <1>1, <1>4, <1>5 DEF InHook, HeldLabels, HookLabels
<1>8. Suspending' = Suspending
  BY <1>7, ContextsDiffer DEF Suspending
<1>9. Hooked' = Hooked \ {c} /\ c \in Hooked
  BY <1>7, ContextsDiffer DEF Hooked
<1>10. Doubled' = Doubled \ {c} /\ (c \in Doubled <=> extra[c])
  <2>1. \A d \in Runners \ {c} : extra'[d] = extra[d]
    BY <1>1 DEF CtxInv, CtxType
  <2>. QED
    BY <1>9, <2>1 DEF Doubled, Hooked
<1>11. Held' = Held - Thaws(c)
  <2>1. CtxType
    BY DEF CtxInv
  <2>2. Cardinality(Hooked') = Cardinality(Hooked) - 1
    BY <1>9, <2>1, HoldersFinite, FS_RemoveElement
  <2>3. Cardinality(Doubled')
          = IF c \in Doubled THEN Cardinality(Doubled) - 1 ELSE Cardinality(Doubled)
    BY <1>10, <2>1, HoldersFinite, FS_RemoveElement
  <2>4. Held' = Cardinality(flags') + Cardinality(postponed') + Cardinality(Suspending')
                + Cardinality(Hooked') + Cardinality(Doubled')
    BY DEF Held, Doubled
  <2>5. Thaws(c) = IF c \in Doubled THEN 2 ELSE 1
    BY <1>10 DEF Thaws
  <2>. QED
    BY <1>1, <1>8, <2>1, <2>2, <2>3, <2>4, <2>5, HoldersFinite, HeldSum
<1>12. /\ Held \in Nat /\ freeze \in Int /\ Thaws(c) \in {1, 2}
       /\ (~stolen => freeze >= Held)
  BY HeldSum DEF CtxInv, CtxType, HoldersFreeze, Thaws
<1>13. HoldersFreeze'
  BY <1>1, <1>11, <1>12 DEF HoldersFreeze
<1>14. SuspendQuiet'
  <2>1. Suspended' => Suspended
    BY <1>1, <1>3, <1>4, SuspendedStays DEF CtxInv
  <2>. QED
    BY <1>1, <2>1, StaysQuiet DEF CtxInv, Active, xferVars
<1>. QED
  BY <1>6, <1>13, <1>14 DEF CtxInv

(* The thread takes one postponed transfer, and its freeze; taking an        *)
(* ordinary one for it is the theft the invariant excepts.                   *)
LEMMA CtxServeXfer ==
  ASSUME XferInv, CtxInv, ServeXfer
  PROVE  CtxInv'
<1>1. /\ freeze = 1 /\ freeze' = 0 /\ active # <<>>
      /\ postponed' = postponed \ {Head(active)}
      /\ stolen' = (stolen \/ Head(active) \notin postponed)
      /\ UNCHANGED <<xferVars, flags, extra, sleepVars>>
      /\ pc[Thr] \in {"awake", "top"} /\ Thr \in Ctx
  BY ContextsDiffer DEF ServeXfer, Serving
<1>2. /\ \E l \in {"start", "top", "abort"} : Goto(Thr, l)
      /\ excl' \in {Nobody, Thr} /\ inturn' \in BOOLEAN
      /\ cur' \in [Ctx -> Xfers \cup {Nobody}]
  <2>1. CASE EndTurn(0) /\ UNCHANGED <<cur, inturn>>
    BY <2>1, TurnMoves DEF CtxInv, CtxType
  <2>2. CASE /\ Goto(Thr, "abort") /\ excl' = Thr
             /\ cur' = [cur EXCEPT ![Thr] = Head(active)] /\ inturn' = TRUE
    <3>1. Head(active) \in Xfers
      BY <1>1, TailFacts DEF XferInv, XferType
    <3>. QED
      BY <2>2, <3>1 DEF CtxInv, CtxType
  <2>. QED
    BY <2>1, <2>2 DEF ServeXfer
<1>3. PICK l \in {"start", "top", "abort"} : Moves(Thr, l)
  BY <1>2 DEF Moves
<1>4. l \in Labels \ HeldLabels /\ pc[Thr] \notin HeldLabels /\ l # "suspended"
  BY <1>1 DEF Labels, HeldLabels, HookLabels
<1>5. CtxType'
  <2>1. IsFiniteSet(postponed')
    BY <1>1, FS_Subset DEF CtxInv, CtxType
  <2>2. pc' \in [Ctx -> Labels]
    BY <1>1, <1>3, <1>4, ContextMoves DEF CtxInv
  <2>. QED
    BY <1>1, <1>2, <2>1, <2>2 DEF CtxInv, CtxType, xferVars, sleepVars
<1>6. Suspending' = Suspending /\ Hooked' = Hooked /\ Doubled' = Doubled
  BY <1>1, <1>3, <1>4, HoldersStay DEF CtxInv
<1>7. HoldersFreeze'
  <2>. SUFFICES ASSUME ~stolen, Head(active) \in postponed PROVE freeze' >= Held'
    BY <1>1 DEF HoldersFreeze
  <2>1. CtxType /\ Held <= 1 /\ Held \in Nat
    BY <1>1, HeldSum DEF CtxInv, CtxType, HoldersFreeze
  <2>2. Cardinality(postponed') = Cardinality(postponed) - 1
    BY <1>1, <2>1, HoldersFinite, FS_RemoveElement
  <2>3. Held' = Cardinality(flags') + Cardinality(postponed') + Cardinality(Suspending')
                + Cardinality(Hooked') + Cardinality(Doubled')
    BY DEF Held, Doubled
  <2>4. Held' = Held - 1
    BY <1>1, <1>6, <2>1, <2>2, <2>3, HoldersFinite, HeldSum
  <2>. QED
    BY <1>1, <2>1, <2>4
<1>8. SuspendQuiet'
  <2>1. Suspended' => Suspended
    BY <1>1, <1>3, <1>4, SuspendedStays DEF CtxInv
  <2>. QED
    BY <1>1, <2>1, StaysQuiet DEF CtxInv, Active, xferVars
<1>. QED
  BY <1>5, <1>7, <1>8 DEF CtxInv

(* What the start of a run does besides taking its freeze.                   *)
LEMMA CtxRunBegin ==
  ASSUME CtxInv, NEW c \in Runners, NEW t \in {"reset", "recover"}, NEW f \in Int,
         RunBegin(c, t, f), ~InHook(c),
         IF c \in Suspending THEN f = freeze - 1 ELSE f = freeze,
         UNCHANGED <<xferVars, postponed, cur, inturn, sleepVars, stolen>>
  PROVE  CtxInv'
<1>1. c \in Ctx /\ t \in Labels /\ t # "suspended" /\ Moves(c, t)
  BY ContextsDiffer DEF RunBegin, Moves, Labels
<1>2. pc' \in [Ctx -> Labels]
  BY <1>1, ContextMoves DEF CtxInv
<1>3. CtxType'
  BY <1>2 DEF RunBegin, CtxInv, CtxType, xferVars, sleepVars
<1>4. HoldersFreeze'
  BY <1>3, RunFreezes
<1>5. SuspendQuiet'
  BY <1>1, SuspendedStays, StaysQuiet DEF CtxInv, Active, xferVars
<1>. QED
  BY <1>3, <1>4, <1>5 DEF CtxInv

(* The thread's turns.                                                       *)
LEMMA CtxThread ==
  ASSUME XferInv, CtxInv, Thread
  PROVE  CtxInv'
<1>0. Thr \in Runners /\ Thr \in Ctx /\ Thr \notin Users
  BY ContextsDiffer
<1>1. CASE ServeXfer
  BY <1>1, CtxServeXfer
<1>2. CASE ServeAsked
  <2>1. ~InHook(Thr) /\ Thr \notin Suspending /\ freeze \in Int
    BY <1>0, <1>2 DEF ServeAsked, Serving, InHook, Suspending, CtxInv, CtxType
  <2>2. PICK t \in {"reset", "recover"} : RunBegin(Thr, t, freeze)
    BY <1>2 DEF ServeAsked
  <2>3. UNCHANGED <<xferVars, postponed, cur, inturn, sleepVars, stolen>>
    BY <1>2 DEF ServeAsked
  <2>. QED
    BY <1>0, <2>1, <2>2, <2>3, CtxRunBegin
<1>3. CASE Sleep \/ ServePanic \/ ServeNothing
  <2>1. /\ UNCHANGED <<xferVars, holdVars, postponed, cur, inturn, sleepVars>>
        /\ pc[Thr] \in {"awake", "top", "turn"}
        /\ excl' \in {Nobody, Thr}
        /\ \E l \in {"asleep", "panic", "start", "top"} : Goto(Thr, l)
    BY <1>3, TurnMoves DEF Sleep, ServePanic, ServeNothing, Serving
  <2>2. /\ {"asleep", "panic", "start", "top"} \subseteq Labels \ HeldLabels
        /\ pc[Thr] \notin HeldLabels
    BY <2>1 DEF Labels, HeldLabels, HookLabels
  <2>3. NoHold
    BY <1>0, <2>1, <2>2 DEF NoHold, Moves, holdVars
  <2>4. CtxType'
    <3>1. pc' \in [Ctx -> Labels]
      BY <1>0, <2>1, <2>2, ContextMoves DEF CtxInv, Moves
    <3>. QED
      BY <1>0, <2>1, <3>1 DEF CtxInv, CtxType, xferVars, holdVars, sleepVars
  <2>5. SuspendQuiet'
    BY <2>1, <2>3, <2>4, NoHoldKeeps, StaysQuiet DEF CtxInv, Active, xferVars, holdVars
  <2>. QED
    BY <2>3, <2>4, <2>5, NoHoldKeeps DEF CtxInv
<1>. QED
  BY <1>1, <1>2, <1>3 DEF Thread

(* The ioctl, suspend and resume.                                            *)
LEMMA CtxUsers ==
  ASSUME XferInv, CtxInv, IoctlReset \/ Pmf
  PROVE  CtxInv'
<1>1. CASE IoctlReset
  <2>1. /\ "ioctl" \in Runners /\ ~InHook("ioctl") /\ "ioctl" \notin Suspending
        /\ freeze \in Int
    BY <1>1, ContextsDiffer DEF IoctlReset, InHook, Suspending, CtxInv, CtxType
  <2>2. /\ RunBegin("ioctl", "reset", freeze)
        /\ UNCHANGED <<xferVars, postponed, cur, inturn, sleepVars, stolen>>
    BY <1>1 DEF IoctlReset
  <2>. QED
    BY <2>1, <2>2, CtxRunBegin
<1>2. CASE Suspend
  <2>1. /\ pc["pmf"] = "idle" /\ "pmf" \in Users /\ "pmf" \in Ctx
        /\ freeze' = freeze + 1 /\ pc' = [pc EXCEPT !["pmf"] = "idlewait"]
        /\ UNCHANGED <<xferVars, flags, extra, postponed, cur, inturn, excl,
                       sleepVars, stolen>>
    BY <1>2, ContextsDiffer DEF Suspend, Goto
  <2>2. pc \in [Ctx -> Labels] /\ "idlewait" \in Labels /\ freeze \in Int
    BY DEF CtxInv, CtxType, Labels
  <2>3. CtxType'
    BY <2>1, <2>2 DEF CtxInv, CtxType, xferVars, sleepVars
  <2>4. Hooked' = Hooked /\ Doubled' = Doubled
    BY <2>1, <2>2, ContextsDiffer DEF Hooked, Doubled, InHook
  <2>5. Suspending' = Suspending \cup {"pmf"}
    BY <2>1, <2>2, ContextsDiffer DEF Suspending
  <2>6. Cardinality(Suspending') \in {Cardinality(Suspending), Cardinality(Suspending) + 1}
    BY <2>5, HoldersFinite, FS_AddElement DEF CtxInv
  <2>7. Held' = Cardinality(flags') + Cardinality(postponed') + Cardinality(Suspending')
                + Cardinality(Hooked') + Cardinality(Doubled')
    BY DEF Held, Doubled
  <2>8. Held' <= Held + 1 /\ Held' \in Nat
    BY <2>1, <2>4, <2>6, <2>7, HoldersFinite, HeldSum DEF CtxInv
  <2>9. HoldersFreeze'
    BY <2>1, <2>8, FreezeTaken DEF CtxInv
  <2>10. SuspendQuiet'
    BY <2>1, <2>2, StaysQuiet DEF CtxInv, Active, xferVars, Suspended
  <2>. QED
    BY <2>3, <2>9, <2>10 DEF CtxInv
<1>3. CASE Idle
  <2>1. /\ pc["pmf"] = "idlewait" /\ "pmf" \in Users /\ "pmf" \in Ctx
        /\ pc' = [pc EXCEPT !["pmf"] = "suspended"] /\ active = <<>>
        /\ UNCHANGED <<xferVars, holdVars, postponed, cur, inturn, excl, sleepVars>>
    BY <1>3, ContextsDiffer DEF Idle, Goto
  <2>2. pc \in [Ctx -> Labels] /\ "suspended" \in Labels
    BY DEF CtxInv, CtxType, Labels
  <2>3. CtxType'
    BY <2>1, <2>2 DEF CtxInv, CtxType, xferVars, holdVars, sleepVars
  <2>4. Suspending' = Suspending /\ Hooked' = Hooked /\ Doubled' = Doubled
    BY <2>1, <2>2, ContextsDiffer DEF Suspending, Hooked, Doubled, InHook, holdVars
  <2>5. HoldersFreeze'
    BY <2>1, <2>3, <2>4, HoldKept DEF CtxInv, holdVars
  <2>6. SuspendQuiet'
    BY <2>1 DEF SuspendQuiet, Active, ToSet, xferVars
  <2>. QED
    BY <2>3, <2>5, <2>6 DEF CtxInv
<1>4. CASE Resume
  <2>1. /\ pc["pmf"] = "suspended" /\ "pmf" \in Suspending /\ "pmf" \in Runners
        /\ "pmf" \in Ctx /\ "pmf" \in Users /\ freeze \in Int
        /\ UNCHANGED <<xferVars, postponed, cur, inturn, sleepVars, stolen>>
    BY <1>4, ContextsDiffer DEF Resume, Suspending, CtxInv, CtxType
  <2>2. CASE freeze # 0
    <3>1. RunBegin("pmf", "reset", freeze - 1)
      BY <1>4, <2>2 DEF Resume
    <3>2. ~InHook("pmf") /\ freeze - 1 \in Int
      BY <2>1 DEF InHook
    <3>. QED
      BY <2>1, <3>1, <3>2, CtxRunBegin
  <2>3. CASE freeze = 0
    <3>1. /\ pc' = [pc EXCEPT !["pmf"] = "idle"]
          /\ UNCHANGED <<freeze, flags, extra, excl>>
      BY <1>4, <2>3 DEF Resume, Goto
    <3>2. pc \in [Ctx -> Labels] /\ "idle" \in Labels
      BY DEF CtxInv, CtxType, Labels
    <3>3. CtxType'
      BY <2>1, <3>1, <3>2 DEF CtxInv, CtxType, xferVars, sleepVars
    <3>4. HoldersFreeze'
      <4>1. stolen
        BY <2>1, <2>3, HeldFrozen DEF Suspended
      <4>. QED
        BY <2>1, <4>1 DEF HoldersFreeze
    <3>5. SuspendQuiet'
      BY <2>1, <3>1, <3>2, StaysQuiet DEF CtxInv, Active, xferVars, Suspended
    <3>. QED
      BY <3>3, <3>4, <3>5 DEF CtxInv
  <2>. QED
    BY <2>2, <2>3
<1>. QED
  BY <1>1, <1>2, <1>3, <1>4 DEF Pmf

-----------------------------------------------------------------------------
(* The inductive invariant and what follows from it.                        *)

Inv == XferInv /\ CtxInv

(* Nothing is queued, active or held.                                        *)
LEMMA InitInv == Init => Inv
<1>. SUFFICES ASSUME Init PROVE Inv
  OBVIOUS
<1>1. Pending = {} /\ Active = {} /\ Len(active) = 0 /\ Len(queue) = 0
  BY DEF Init, Pending, Active, ToSet
<1>2. XferType /\ Lists /\ SlotsExact /\ Mix
  BY <1>1, OpeningsAssumption
  DEF Init, XferType, Lists, SlotsExact, Mix, Exclusive, SkipFirst, Slots,
      IsInjective
<1>3. Room
  BY <1>1, OpeningsAssumption DEF Room
<1>4. CtxType /\ SuspendQuiet
  <2>1. IsFiniteSet(postponed)
    BY FS_EmptySet DEF Init
  <2>2. pc \in [Ctx -> Labels]
    BY DEF Init, Labels
  <2>3. /\ ncq \in BOOLEAN /\ freeze \in Int /\ flags = {} /\ postponed = {}
        /\ extra \in [Runners -> BOOLEAN] /\ cur \in [Ctx -> Xfers \cup {Nobody}]
        /\ inturn \in BOOLEAN /\ excl = Nobody /\ asleep = {} /\ waitdrain = {}
        /\ draining = {} /\ stolen \in BOOLEAN
    <3>1. /\ extra = [c \in Runners |-> FALSE] /\ cur = [c \in Ctx |-> Nobody]
          /\ ncq = FALSE /\ freeze = 0 /\ inturn = FALSE /\ stolen = FALSE
      BY DEF Init
    <3>2. extra \in [Runners -> BOOLEAN] /\ cur \in [Ctx -> Xfers \cup {Nobody}]
      BY <3>1
    <3>3. /\ flags = {} /\ postponed = {} /\ excl = Nobody /\ asleep = {}
          /\ waitdrain = {} /\ draining = {}
      BY DEF Init
    <3>4. ncq \in BOOLEAN /\ inturn \in BOOLEAN /\ stolen \in BOOLEAN
      BY <3>1, Zenon
    <3>5. freeze \in Int
      BY <3>1
    <3>. QED
      BY <3>2, <3>3, <3>4, <3>5
  <2>. QED
    BY <1>1, <2>1, <2>2, <2>3 DEF CtxType, SuspendQuiet
<1>5. Suspending = {} /\ Hooked = {} /\ Doubled = {}
  BY ContextsDiffer DEF Init, Suspending, Hooked, Doubled, InHook
<1>6. HoldersFreeze
  <2>1. /\ Cardinality(flags) = 0 /\ Cardinality(postponed) = 0
        /\ Cardinality(Suspending) = 0 /\ Cardinality(Hooked) = 0
        /\ Cardinality(Doubled) = 0 /\ freeze = 0
    BY <1>5, FS_EmptySet DEF Init
  <2>. QED
    BY <1>4, <2>1, HeldSum DEF HoldersFreeze
<1>. QED
  BY <1>2, <1>3, <1>4, <1>6 DEF Inv, XferInv, CtxInv

(* Every action keeps both halves.                                           *)
LEMMA StepInv == Inv /\ [Next]_vars => Inv'
<1>. SUFFICES ASSUME Inv, [Next]_vars PROVE Inv'
  OBVIOUS
<1>1. XferInv'
  BY XferStep DEF Inv
<1>2. CtxInv'
  <2>1. ASSUME NEW x \in Xfers, ExecXfer(x) \/ WakeActive(x) PROVE CtxInv'
    BY <2>1, CtxSubmit DEF Inv
  <2>2. ASSUME NEW x \in Xfers, Interrupt(x) PROVE CtxInv'
    BY <2>2, CtxInterrupt DEF Inv
  <2>3. ASSUME NEW c \in Ctx, AtaStart(c) PROVE CtxInv'
    BY <2>3, CtxStart DEF Inv
  <2>4. ASSUME NEW c \in Ctx, Hook(c) PROVE CtxInv'
    BY <2>4, CtxHook DEF Inv
  <2>5. ASSUME NEW d \in Detach, Kill(d) PROVE CtxInv'
    BY <2>5, CtxKill DEF Inv
  <2>6. ASSUME NEW t \in Asks, Asked(t) PROVE CtxInv'
    BY <2>6, CtxAsked DEF Inv
  <2>7. ASSUME NEW c \in Runners, Run(c) PROVE CtxInv'
    BY <2>7, CtxWalk, CtxRunEnd DEF Inv, Run
  <2>8. CASE Thread
    BY <2>8, CtxThread DEF Inv
  <2>9. CASE IoctlReset \/ Pmf
    BY <2>9, CtxUsers DEF Inv
  <2>10. CASE UNCHANGED vars
    <3>1. UNCHANGED <<freeze, flags, extra, stolen, postponed, pc, active>>
      BY <2>10 DEF vars
    <3>2. CtxType'
      BY <2>10 DEF vars, Inv, CtxInv, CtxType
    <3>3. NoHold
      BY <3>1 DEF NoHold
    <3>. QED
      BY <3>1, <3>2, <3>3, NoHoldKeeps, StaysQuiet DEF Inv, CtxInv, Active
  <2>. QED
    BY <2>1, <2>2, <2>3, <2>4, <2>5, <2>6, <2>7, <2>8, <2>9, <2>10 DEF Next
<1>. QED
  BY <1>1, <1>2 DEF Inv

(* So they always hold.                                                      *)
LEMMA Invariance == Spec => []Inv
BY InitInv, StepInv, PTL DEF Spec

(* The variables keep their types: every assignment to the fields of the     *)
(* channel and its queue stores a value of the field's range; queue_freeze is  *)
(* a signed number, which thawing twice could take below zero.               *)
THEOREM TypeCorrect == Spec => []TypeOK
<1>1. Inv => TypeOK
  BY DEF Inv, XferInv, XferType, CtxInv, CtxType, TypeOK
<1>. QED
  BY <1>1, Invariance, PTL

(* active_xfers_used is exactly the set of slots of the active transfers,    *)
(* each held once, however transfers are started, completed, polled, aborted *)
(* or killed.                                                                *)
THEOREM SlotsAreExact == Spec => []SlotsExact
<1>1. Inv => SlotsExact
  BY DEF Inv, XferInv
<1>. QED
  BY <1>1, Invariance, PTL

(* queue_xfer and active_xfers never share a transfer and hold none twice.   *)
THEOREM OnePlaceEach == Spec => []OnePlace
<1>1. Inv => OnePlace
  BY DEF Inv, XferInv, Lists, OnePlace, IsInjective
<1>. QED
  BY <1>1, Invariance, PTL

(* The test of atastart against the first active transfer alone is enough:   *)
(* ordinary transfers share the channel only if all are NCQ on one drive.    *)
THEOREM ChannelIsExclusive == Spec => []Exclusive
<1>1. Inv => Exclusive
  BY DEF Inv, XferInv, Mix
<1>. QED
  BY <1>1, Invariance, PTL

(* queue_freeze is never less than what is scheduled, runs, is suspended or   *)
(* was postponed accounts for, in whatever order freezes are taken and given *)
(* up, as long as the thread has not thawed for a transfer that nobody       *)
(* postponed to it.                                                          *)
THEOREM HoldersKeepFrozen == Spec => []HoldersFreeze
<1>1. Inv => HoldersFreeze
  BY DEF Inv, CtxInv
<1>. QED
  BY <1>1, Invariance, PTL

(* Up to then a suspended channel has no ordinary transfer active, whatever  *)
(* is scheduled, run, postponed or reset while it is suspended.              *)
THEOREM SuspendedIsQuiet == Spec => []SuspendQuiet
<1>1. Inv => SuspendQuiet
  BY DEF Inv, CtxInv
<1>. QED
  BY <1>1, Invariance, PTL

(* The bitmap holds no more slots than there are active transfers.           *)
LEMMA SlotsBounded ==
  ASSUME XferInv
  PROVE  IsFiniteSet(used) /\ Cardinality(used) <= Len(active)
<1>. DEFINE D == 1 .. Len(active)
            f == [i \in D |-> slot[active[i]]]
<1>1. /\ active \in Seq(Xfers) /\ Len(active) \in Nat /\ DOMAIN active = D
      /\ used = {slot[x] : x \in Active}
  BY DEF XferInv, XferType, SlotsExact
<1>2. f \in Surjection(D, used)
  <2>1. f \in [D -> used]
    BY <1>1 DEF Active, ToSet
  <2>2. \A u \in used : \E i \in D : f[i] = u
    BY <1>1 DEF Active, ToSet
  <2>. QED
    BY <2>1, <2>2 DEF Surjection
<1>3. IsFiniteSet(D) /\ Cardinality(D) = Len(active)
  <2>1. IsFiniteSet(1 .. Len(active)) /\ Cardinality(1 .. Len(active)) = Len(active)
    <3>. PICK n \in Nat : n = Len(active)
      BY <1>1
    <3>1. 1 \in Int /\ n \in Int
      OBVIOUS
    <3>2. /\ IsFiniteSet(1 .. n)
          /\ Cardinality(1 .. n) = IF 1 > n THEN 0 ELSE n - 1 + 1
      BY <3>1, FS_Interval, Zenon
    <3>3. (IF 1 > n THEN 0 ELSE n - 1 + 1) = n
      OBVIOUS
    <3>. QED
      BY <3>2, <3>3, Zenon
  <2>. QED
    BY <2>1
<1>. HIDE DEF D, f
<1>4. IsFiniteSet(used) /\ Cardinality(used) <= Cardinality(D)
  BY <1>2, <1>3, FS_Surjection
<1>. QED
  BY <1>3, <1>4

(* A recovery command in the queue is its head and always finds an opening   *)
(* and a free slot: the panic of atastart ("channel busy, xfer not           *)
(* possible") is unreachable and its slot allocation cannot fail.            *)
THEOREM RecoveryIsReady == Spec => []RecoveryReady
<1>1. ASSUME XferInv, NEW x \in Skip \cap Pending
      PROVE  Head(queue) = x /\ HasOpening(x) /\ FreeSlots(x) # {}
  <2>1. /\ Openings > 1 /\ Openings \in Nat /\ MaxOpenings \in Nat
        /\ Openings <= MaxOpenings
    BY RecoveryAssumption, OpeningsAssumption
  <2>2. Active \cap Skip = {}
    BY <1>1, RecoveryAssumption DEF XferInv, Lists
  <2>3. Len(active) < Openings /\ Len(active) \in Nat
    BY <1>1, <2>1, <2>2 DEF XferInv, Room, XferType
  <2>4. DrvOpeningsOf(x) = MaxOpenings /\ ChqOpenings(x) = Openings
    BY <1>1, AttributeAssumption DEF DrvOpeningsOf, ChqOpenings
  <2>5. HasOpening(x)
    BY <2>1, <2>3, <2>4 DEF HasOpening
  <2>6. FreeSlots(x) = Slots \ used
    BY <2>1, <2>4 DEF FreeSlots, Slots
  <2>7. Slots \ used # {}
    <3>. SUFFICES ASSUME Slots \subseteq used PROVE FALSE
      OBVIOUS
    <3>1. IsFiniteSet(used) /\ Cardinality(used) <= Len(active)
      BY <1>1, SlotsBounded
    <3>2. Cardinality(Slots) = Openings
      BY <2>1, FS_Interval DEF Slots
    <3>3. Cardinality(Slots) <= Cardinality(used)
      BY <3>1, FS_Subset
    <3>4. Cardinality(used) \in Nat
      BY <3>1, FS_CardinalityType
    <3>. QED
      BY <2>1, <2>3, <3>1, <3>2, <3>3, <3>4
  <2>8. Head(queue) = x
    <3>1. PICK i \in DOMAIN queue : queue[i] = x
      BY <1>1 DEF Pending, ToSet
    <3>2. i = 1 /\ queue \in Seq(Xfers) /\ queue # <<>>
      BY <1>1, <3>1 DEF XferInv, XferType, Mix, SkipFirst
    <3>. QED
      BY <3>1, <3>2
  <2>. QED
    BY <2>5, <2>6, <2>7, <2>8
<1>2. Inv => RecoveryReady
  BY <1>1 DEF Inv, RecoveryReady
<1>. QED
  BY <1>2, Invariance, PTL

-----------------------------------------------------------------------------
(* Every step submits a transfer, starts one, or only takes some away.       *)
LEMMA KindsOfSteps ==
  ASSUME XferInv, [Next]_vars
  PROVE  \/ Leaves
         \/ \E x \in Xfers : ExecXfer(x)
         \/ \E x \in Xfers : Starts(x)
<1>1. UNCHANGED xferVars => Leaves
  BY DEF xferVars, Leaves, Pending, Active
<1>2. Ends => Leaves
  BY DeactivateXfer DEF Ends, Deactivate, Leaves
<1>3. ASSUME NEW d \in Detach, KillOne(d) PROVE Leaves
  BY <1>3, DequeueXfer DEF KillOne, Dequeued, Leaves
<1>. QED
  BY <1>1, <1>2, <1>3, Steps, StartStarts

(* While the hook of a reset or of recovery works, queue_freeze keeps       *)
(* atastart from starting anything but recovery's own command, as long as   *)
(* nobody has thawed what was not his.                                      *)
THEOREM RecoveryGoesFirst == Spec => RecoveryOvertakes
<1>. DEFINE Overtakes == Hooked # {} /\ ~stolen => Active' \ Active \subseteq Skip
<1>1. ASSUME Inv, [Next]_vars PROVE Overtakes
  <2>. SUFFICES ASSUME Hooked # {}, ~stolen PROVE Active' \ Active \subseteq Skip
    OBVIOUS
  <2>1. CASE Leaves
    BY <2>1 DEF Leaves
  <2>2. ASSUME NEW x \in Xfers, ExecXfer(x) PROVE Active' = Active
    BY <2>2 DEF ExecXfer, Active
  <2>3. ASSUME NEW x \in Xfers, Starts(x) PROVE Active' \ Active \subseteq Skip
    <3>1. freeze >= 1
      BY <1>1, HeldFrozen DEF Inv
    <3>2. x \in Skip
      BY <2>3, <3>1 DEF Starts, Admitted
    <3>. QED
      BY <2>3, <3>2 DEF Starts
  <2>. QED
    BY <1>1, <2>1, <2>2, <2>3, KindsOfSteps DEF Inv
<1>2. Inv /\ [Next]_vars => [Overtakes]_vars
  BY <1>1
<1>. QED
  BY <1>2, Invariance, PTL DEF Spec, RecoveryOvertakes

-----------------------------------------------------------------------------
(* ATACH_NCQ.  A recovery command is queued or active while the thread is in *)
(* its recovery hook only, so that outside it the flag is what the latest    *)
(* ordinary transfer was started with, and Exclusive says the same of the    *)
(* others.                                                                   *)

SkipRecovers == Skip \cap (Pending \cup Active) # {} => pc[Thr] = "recover"

(* No recovery command, and no command active.                               *)
LEMMA FlagInit == Init => SkipRecovers /\ NcqFlagExact
<1>1. Init => Pending = {} /\ Active = {}
  BY DEF Init, Pending, Active, ToSet
<1>. QED
  BY <1>1 DEF SkipRecovers, NcqFlagExact

(* The thread goes on to requeue what recovery interrupted when its command  *)
(* is done, and stops recovering when nothing is active.                     *)
LEMMA RecoveryMoves ==
  ASSUME Inv, [Next]_vars
  PROVE  /\ pc[Thr] = "recover" /\ pc'[Thr] # "recover"
              => /\ pc'[Thr] = "walk" /\ Skip \cap (Pending \cup Active) = {}
                 /\ UNCHANGED xferVars
         /\ pc[Thr] = "walk" /\ pc'[Thr] # "walk"
              => Active = {} /\ UNCHANGED xferVars
<1>0. /\ Thr \in Ctx /\ Thr \in Runners /\ pc \in [Ctx -> Labels]
      /\ Thr \notin Xfers \cup Drives \cup Users \cup {Intr}
  BY ContextsDiffer DEF Inv, CtxInv, CtxType
<1>. SUFFICES ASSUME pc[Thr] \in {"recover", "walk"}, pc'[Thr] # pc[Thr]
              PROVE  \/ /\ pc[Thr] = "recover" /\ pc'[Thr] = "walk"
                        /\ Skip \cap (Pending \cup Active) = {} /\ UNCHANGED xferVars
                     \/ pc[Thr] = "walk" /\ Active = {} /\ UNCHANGED xferVars
  OBVIOUS
<1>1. ASSUME NEW c \in Ctx, NEW l, Moves(c, l),
             c # Thr \/ pc[c] \notin {"recover", "walk"}
      PROVE  FALSE
  BY <1>0, <1>1 DEF Moves, Goto, GotoSignal, Woken
<1>2. ASSUME NEW x \in Xfers, ExecXfer(x) \/ WakeActive(x) \/ Interrupt(x) PROVE FALSE
  <2>1. x \in Ctx /\ x # Thr /\ Intr \in Ctx /\ Intr # Thr
    BY <1>0, ContextsDiffer
  <2>. QED
    BY <1>1, <1>2, <2>1 DEF ExecXfer, WakeActive, Interrupt, IntrDone, IntrDrain, Moves
<1>3. ASSUME NEW c \in Ctx, AtaStart(c) PROVE FALSE
  <2>1. /\ pc[c] = "start"
        /\ pc' = pc \/ \E l \in {"idle", "turn", "top", "poll", "abort"} : Moves(c, l)
    BY <1>3, StartMoves DEF Inv, CtxInv
  <2>. QED
    BY <1>1, <2>1
<1>4. ASSUME NEW c \in Ctx, Hook(c) PROVE FALSE
  <2>1. /\ pc[c] \in {"poll", "abort"}
        /\ \E l \in {"idle", "turn", "top", "start", "abort"} : Goto(c, l)
    BY <1>4, HookMoves DEF Inv, CtxInv
  <2>. QED
    BY <1>1, <2>1 DEF Moves
<1>5. ASSUME NEW d \in Detach, Kill(d) PROVE FALSE
  <2>1. d \in Ctx /\ d # Thr
    BY <1>0, ContextsDiffer
  <2>. QED
    BY <1>1, <1>5, <2>1 DEF Kill, KillBegin, KillOne, KillAgain, KillWait, vars, Moves
<1>6. ASSUME NEW t \in Asks, Asked(t) PROVE FALSE
  BY <1>0, <1>6 DEF Asked, Signal, Goto, Woken
<1>7. ASSUME NEW c \in Runners, Walk(c) \/ KillActive(c) PROVE c = Thr
  BY <1>1, <1>7, ContextsDiffer DEF Walk, KillActive, Moves
<1>8. ASSUME NEW c \in Runners, RunEnd(c) PROVE FALSE
  <2>1. CASE c = Thr
    BY <1>8, <2>1 DEF RunEnd
  <2>2. CASE c # Thr
    BY <1>1, <1>8, <2>2, ContextsDiffer DEF RunEnd, Moves
  <2>. QED
    BY <2>1, <2>2
<1>9. CASE Thread
  <2>1. pc[Thr] \in {"awake", "top", "turn"}
    BY <1>9 DEF Thread, Sleep, ServeAsked, ServeXfer, ServePanic, ServeNothing, Serving
  <2>. QED
    BY <2>1
<1>10. CASE IoctlReset \/ Pmf
  <2>1. "ioctl" # Thr /\ "pmf" # Thr
    BY DEF Thr
  <2>. QED
    BY <1>1, <1>10, <2>1, ContextsDiffer
    DEF IoctlReset, Pmf, Suspend, Idle, Resume, RunBegin, Moves, Runners, Ctx
<1>11. CASE Walk(Thr)
  <2>1. /\ pc'[Thr] = "walk" /\ UNCHANGED xferVars
        /\ pc[Thr] = "recover" =>
             \A x \in Skip : x \notin Pending \cup Active
    BY <1>0, <1>11 DEF Walk, Goto
  <2>. QED
    BY <2>1
<1>12. CASE KillActive(Thr)
  <2>1. pc[Thr] = "walk" /\ active = <<>> /\ UNCHANGED xferVars
    BY <1>12 DEF KillActive
  <2>. QED
    BY <2>1 DEF Active, ToSet
<1>13. CASE UNCHANGED vars
  BY <1>13 DEF vars
<1>. QED
  BY <1>0, <1>2, <1>3, <1>4, <1>5, <1>6, <1>7, <1>8, <1>9, <1>10, <1>11, <1>12,
     <1>13 DEF Next, Run

(* A start sets the flag for the transfer it starts; recovery clears and     *)
(* sets it while only its own command is new.                                *)
LEMMA FlagStep ==
  Inv /\ Inv' /\ SkipRecovers /\ NcqFlagExact /\ [Next]_vars
    => SkipRecovers' /\ NcqFlagExact'
<1>. SUFFICES ASSUME Inv, Inv', SkipRecovers, NcqFlagExact, [Next]_vars
              PROVE  SkipRecovers' /\ NcqFlagExact'
  OBVIOUS
<1>1. Recovering /\ ~Recovering' => Active' = {}
  <2>1. UNCHANGED xferVars => Active' = Active
    BY DEF xferVars, Active
  <2>. QED
    BY <2>1, RecoveryMoves DEF Recovering
<1>2. ASSUME Leaves PROVE SkipRecovers' /\ NcqFlagExact'
  <2>1. SkipRecovers'
    BY <1>2, RecoveryMoves DEF SkipRecovers, Leaves
  <2>2. NcqFlagExact'
    BY <1>1, <1>2 DEF NcqFlagExact, Leaves
  <2>. QED
    BY <2>1, <2>2
<1>3. ASSUME NEW x \in Xfers, ExecXfer(x) PROVE SkipRecovers' /\ NcqFlagExact'
  <2>1. /\ Pending' = Pending \cup {x} /\ Active' = Active /\ ncq' = ncq
        /\ x \in Skip => pc[Thr] = "recover"
    BY <1>3, EnqueueXfer DEF ExecXfer, Inv
  <2>2. pc'[Thr] = pc[Thr]
    BY <1>3, ContextsDiffer DEF ExecXfer, Goto, Inv, CtxInv, CtxType
  <2>. QED
    BY <2>1, <2>2 DEF SkipRecovers, NcqFlagExact, Recovering
<1>4. ASSUME NEW x \in Xfers, Starts(x) PROVE SkipRecovers' /\ NcqFlagExact'
  <2>1. SkipRecovers'
    <3>1. x \in Pending /\ Pending' \cup Active' = Pending \cup Active /\ x \in Active'
      BY <1>4 DEF Starts
    <3>2. UNCHANGED xferVars => Active' = Active /\ Pending' = Pending
      BY DEF xferVars, Active, Pending
    <3>. QED
      BY <3>1, <3>2, RecoveryMoves DEF SkipRecovers
  <2>2. ASSUME NEW y \in Active' \ Skip, ~Recovering' PROVE ncq' = (y \in NCQ)
    <3>1. x \notin Skip
      BY <1>1, <1>4, <2>2 DEF Starts, SkipRecovers, Recovering
    <3>2. x \in Active' \ Skip /\ Exclusive' /\ ncq' = (x \in NCQ)
      BY <1>4, <3>1 DEF Starts, Inv, XferInv, Mix
    <3>3. x # y => x \in NCQ /\ y \in NCQ
      BY <2>2, <3>2 DEF Exclusive
    <3>. QED
      BY <3>2, <3>3
  <2>. QED
    BY <2>1, <2>2 DEF NcqFlagExact
<1>. QED
  BY <1>2, <1>3, <1>4, KindsOfSteps DEF Inv

(* ATACH_NCQ (atastart sets and clears it) tells how the ordinary           *)
(* transfers that are active were issued whenever no recovery is under way:  *)
(* the flag decides how a failed command is recovered.                       *)
THEOREM NcqFlagIsExact == Spec => []NcqFlagExact
<1>1. Inv /\ SkipRecovers /\ NcqFlagExact /\ [Next]_vars
        => (SkipRecovers /\ NcqFlagExact)'
  BY FlagStep, StepInv
<1>. QED
  BY <1>1, FlagInit, Invariance, PTL DEF Spec

-----------------------------------------------------------------------------
(* Detachment.  From the moment ata_kill_pending has gone past the queue    *)
(* nothing is queued for the drive any more, hence nothing can become       *)
(* active; so when it finds nothing active there never will be.             *)
-----------------------------------------------------------------------------
(* Detachment.  From the moment ata_kill_pending has gone past the queue    *)
(* nothing is queued for the drive any more, hence nothing can become       *)
(* active; so when it finds nothing active there never will be.             *)

Dismissed ==
  \A d \in Detach :
    pc[d] \in {"drain", "gone"} => \A x \in Pending : DriveOf[x] # d

(* Only ata_kill_pending gets a drive so far.                               *)
LEMMA DriveMoves ==
  ASSUME Inv, [Next]_vars, NEW d \in Detach, pc'[d] \in {"drain", "gone"}
  PROVE  \/ pc[d] = pc'[d]
         \/ /\ UNCHANGED xferVars /\ (pc[d] = "drain" \/ Pending = {})
            /\ pc'[d] = "gone" => ~DrvActive(d)
<1>0. d \in Ctx /\ pc \in [Ctx -> Labels] /\ d \notin Runners /\ d # Thr
  BY ContextsDiffer DEF Inv, CtxInv, CtxType
<1>. SUFFICES ASSUME pc'[d] # pc[d]
              PROVE  /\ UNCHANGED xferVars /\ (pc[d] = "drain" \/ Pending = {})
                     /\ pc'[d] = "gone" => ~DrvActive(d)
  OBVIOUS
<1>1. ASSUME NEW c \in Ctx, NEW l, Moves(c, l), c # d \/ l \notin {"drain", "gone"}
      PROVE  FALSE
  BY <1>0, <1>1 DEF Moves, Goto, GotoSignal
<1>2. ASSUME NEW x \in Xfers, ExecXfer(x) \/ WakeActive(x) \/ Interrupt(x) PROVE FALSE
  BY <1>1, <1>2, ContextsDiffer
  DEF ExecXfer, WakeActive, Interrupt, IntrDone, IntrDrain, Moves
<1>3. ASSUME NEW c \in Ctx, AtaStart(c) PROVE FALSE
  <2>1. pc' = pc \/ \E l \in {"idle", "turn", "top", "poll", "abort"} : Moves(c, l)
    BY <1>3, StartMoves DEF Inv, CtxInv
  <2>. QED
    BY <1>1, <2>1
<1>4. ASSUME NEW c \in Ctx, Hook(c) PROVE FALSE
  <2>1. \E l \in {"idle", "turn", "top", "start", "abort"} : Goto(c, l)
    BY <1>4, HookMoves DEF Inv, CtxInv
  <2>. QED
    BY <1>1, <2>1 DEF Moves
<1>5. ASSUME NEW t \in Asks, Asked(t) PROVE FALSE
  BY <1>0, <1>5 DEF Asked, Signal, Goto
<1>6. ASSUME NEW c \in Runners, NEW l, Moves(c, l) PROVE FALSE
  BY <1>0, <1>1, <1>6, ContextsDiffer
<1>7. ASSUME NEW c \in Runners, Run(c) PROVE FALSE
  <2>1. ASSUME RunEnd(c) PROVE FALSE
    <3>1. Thr \in Runners
      BY ContextsDiffer
    <3>. QED
      BY <1>6, <2>1, <3>1 DEF RunEnd, EndTurn, Moves
  <2>. QED
    BY <1>6, <1>7, <2>1 DEF Run, Walk, KillActive, Moves
<1>8. CASE Thread
  <2>1. Thr \in Runners
    BY ContextsDiffer
  <2>. QED
    BY <1>6, <1>8, <2>1 DEF Thread, Sleep, ServeAsked, ServeXfer, ServePanic,
       ServeNothing, RunBegin, EndTurn, Moves
<1>9. CASE IoctlReset \/ Pmf
  <2>1. Users \subseteq Runners
    BY ContextsDiffer
  <2>. QED
    BY <1>6, <1>9, <2>1 DEF IoctlReset, Pmf, Suspend, Idle, Resume, RunBegin, Moves
<1>10. ASSUME NEW e \in Detach, KillBegin(e) \/ KillOne(e) \/ KillAgain(e) PROVE FALSE
  BY <1>1, <1>10, ContextsDiffer DEF KillBegin, KillOne, KillAgain, vars, Moves
<1>11. ASSUME NEW e \in Detach, KillWait(e)
       PROVE  /\ UNCHANGED xferVars /\ (pc[d] = "drain" \/ Pending = {})
              /\ pc'[d] = "gone" => ~DrvActive(d)
  <2>1. e = d
    BY <1>1, <1>11, ContextsDiffer DEF KillWait, Moves
  <2>2. pc[d] = "drain" \/ queue = <<>>
    BY <1>11, <2>1 DEF KillWait
  <2>3. DrvActive(d) => Goto(d, "drain")
    BY <1>11, <2>1 DEF KillWait
  <2>. QED
    BY <1>0, <1>11, <2>2, <2>3 DEF KillWait, Goto, Pending, ToSet
<1>12. CASE UNCHANGED vars
  BY <1>12 DEF vars
<1>. QED
  BY <1>2, <1>3, <1>4, <1>5, <1>7, <1>8, <1>9, <1>10, <1>11, <1>12 DEF Next, Kill

(* A drive whose detach has passed a scan finds nothing new in it.           *)
LEMMA DetachStep ==
  Inv /\ Dismissed /\ DetachComplete /\ [Next]_vars => Dismissed' /\ DetachComplete'
<1>. SUFFICES ASSUME Inv, Dismissed, DetachComplete, [Next]_vars,
                     NEW d \in Detach, pc'[d] \in {"drain", "gone"}
              PROVE  /\ \A x \in Pending' : DriveOf[x] # d
                     /\ pc'[d] = "gone" => \A x \in Active' : DriveOf[x] # d
  BY DEF Dismissed, DetachComplete
<1>1. CASE pc[d] # pc'[d]
  <2>1. Pending' = Pending /\ Active' = Active
    BY <1>1, DriveMoves DEF xferVars, Pending, Active
  <2>. QED
    BY <1>1, <2>1, DriveMoves DEF Dismissed, DrvActive
<1>2. CASE pc[d] = pc'[d]
  <2>1. CASE Leaves
    BY <1>2, <2>1 DEF Leaves, Dismissed, DetachComplete
  <2>2. ASSUME NEW x \in Xfers, ExecXfer(x)
        PROVE  /\ \A y \in Pending' : DriveOf[y] # d
               /\ pc'[d] = "gone" => \A y \in Active' : DriveOf[y] # d
    <3>1. Pending' = Pending \cup {x} /\ Active' = Active /\ pc[DriveOf[x]] = "idle"
      BY <2>2, EnqueueXfer DEF ExecXfer, Inv
    <3>. QED
      BY <1>2, <3>1 DEF Dismissed, DetachComplete
  <2>3. ASSUME NEW x \in Xfers, Starts(x)
        PROVE  /\ \A y \in Pending' : DriveOf[y] # d
               /\ pc'[d] = "gone" => \A y \in Active' : DriveOf[y] # d
    BY <1>2, <2>3 DEF Starts, Dismissed, DetachComplete
  <2>. QED
    BY <2>1, <2>2, <2>3, KindsOfSteps DEF Inv
<1>. QED
  BY <1>1, <1>2

(* When ata_kill_pending has returned no transfer of the drive is queued or  *)
(* active, and none ever will be, however often it slept on queue_drain and  *)
(* whatever interrupts, pollers and other drives did meanwhile.              *)
THEOREM DetachIsComplete == Spec => []DetachComplete
<1>1. Init => Dismissed /\ DetachComplete
  BY ContextsDiffer DEF Init, Dismissed, DetachComplete
<1>2. Inv /\ Dismissed /\ DetachComplete /\ [Next]_vars => (Dismissed /\ DetachComplete)'
  BY DetachStep
<1>. QED
  BY <1>1, <1>2, Invariance, PTL DEF Spec

-----------------------------------------------------------------------------
(* AtaQueue implements AtaIssue: every step of a context is a step of the   *)
(* abstract queue, or changes nothing submitters and the controller see.    *)

Tag == [x \in Active |-> slot[x]]

(* The initial states correspond.                                            *)
LEMMA InitIssues == Init => Promise!Init
<1>. SUFFICES ASSUME Init PROVE Promise!Init
  OBVIOUS
<1>1. Pending = {} /\ Active = {} /\ freeze = 0
  BY DEF Init, Pending, Active, ToSet
<1>. QED
  BY <1>1 DEF Promise!Init

(* ata_exec_xfer submits.                                                   *)
LEMMA ExecSubmits ==
  ASSUME XferInv, NEW x \in Xfers, ExecXfer(x)
  PROVE  Promise!Submit(x)
<1>1. /\ Pending' = Pending \cup {x} /\ Active' = Active
      /\ slot' = slot /\ freeze' = freeze /\ x \notin Pending \cup Active
  BY EnqueueXfer DEF ExecXfer, holdVars
<1>2. Tag' = Tag
  BY <1>1 DEF Tag
<1>. QED
  BY <1>1, <1>2 DEF Promise!Submit, Promise!Issued, Tag

(* atastart issues the head, which may be issued: a recovery command queued *)
(* would be the head, and whatever is compatible with the first active      *)
(* transfer is compatible with all.                                         *)
LEMMA HeadMayIssue ==
  ASSUME XferInv, queue # <<>>, NEW x, x = Head(queue), x \in Xfers, Admitted(x)
  PROVE  Promise!MayIssue(x)
<1>. SUFFICES ASSUME x \notin Skip
              PROVE  /\ ~(freeze > 0)
                     /\ Pending \cap Skip = {}
                     /\ \A y \in Active :
                          <<x, y>> \in {p \in NCQ \X NCQ :
                                          DriveOf[p[1]] = DriveOf[p[2]]}
  BY DEF Promise!MayIssue, Promise!Issued
<1>1. freeze = 0 /\ Compatible(x)
  BY DEF Admitted
<1>2. Pending \cap Skip = {}
  <2>1. x = queue[1]
    BY TailFacts DEF XferInv, XferType, Lists
  <2>. QED
    BY <2>1 DEF Pending, ToSet, XferInv, Mix, SkipFirst
<1>3. ASSUME NEW y \in Active
      PROVE  x \in NCQ /\ y \in NCQ /\ DriveOf[x] = DriveOf[y]
  <2>0. active # <<>>
    BY <1>3 DEF Active, ToSet
  <2>1. /\ x \in NCQ /\ Head(active) \in NCQ
        /\ DriveOf[x] = DriveOf[Head(active)]
    BY <1>1, <2>0 DEF Compatible
  <2>2. /\ Head(active) = active[1] /\ Head(active) \in Active
        /\ active[1] \notin Skip
    BY <2>0, <2>1, TailFacts, AttributeAssumption
    DEF XferInv, XferType, Lists, Active
  <2>3. y \notin Skip
    BY <1>3, <2>2 DEF Active, ToSet, XferInv, Mix, SkipFirst
  <2>. QED
    BY <1>3, <2>1, <2>2, <2>3 DEF XferInv, Mix, Exclusive
<1>. QED
  BY <1>1, <1>2, <1>3

(* Starting the head of the queue is an Issue; one left to the thread holds  *)
(* the channel at the same time.                                             *)
LEMMA StartIssues ==
  ASSUME XferInv, CtxInv, NEW c \in Ctx, StartXfer(c)
  PROVE  \E x \in Xfers : Promise!Issue(x)
<1>0. queue # <<>> /\ Head(queue) \in Xfers
  BY TailFacts DEF StartXfer, XferInv, XferType, Lists
<1>. PICK x \in Xfers : x = Head(queue)
  BY <1>0
<1>1. PICK s \in FreeSlots(x) : slot' = [slot EXCEPT ![x] = s]
                               /\ used' = used \cup {s}
  BY DEF StartXfer
<1>2. /\ queue # <<>> /\ Admitted(x) /\ HasOpening(x)
      /\ queue' = Tail(queue) /\ active' = Activated(x)
      /\ freeze' = freeze \/ LeftToThread(c, x)
  BY DEF StartXfer, Startable, Dequeued, Started, Polled, Aborted
<1>3. /\ x \in Pending /\ Pending' = Pending \ {x}
      /\ x \notin Active /\ Active' = Active \cup {x}
  BY <1>1, <1>2, StartHead
<1>4. Promise!MayIssue(x)
  BY <1>2, HeadMayIssue
<1>5. s \in Slots \ {Tag[y] : y \in Active}
  BY <1>1 DEF FreeSlots, Tag, XferInv, SlotsExact
<1>6. Tag' = [y \in Active \cup {x} |-> IF y = x THEN s ELSE Tag[y]]
  <2>1. slot \in [Xfers -> Slots] /\ Active \subseteq Xfers
    BY DEF XferInv, XferType, Active, ToSet
  <2>2. /\ slot'[x] = s
        /\ \A y \in Active : slot'[y] = slot[y]
    BY <1>1, <1>3, <2>1
  <2>. QED
    BY <1>3, <2>2 DEF Tag
<1>7. (freeze' > 0) = (freeze > 0) \/ (freeze' > 0) = TRUE
  <2>1. CASE freeze' = freeze
    BY <2>1
  <2>2. CASE LeftToThread(c, x)
    <3>1. freeze = 0 /\ freeze' = freeze + 1
      BY <1>2, <2>2, AttributeAssumption DEF LeftToThread, Admitted
    <3>. QED
      BY <3>1
  <2>. QED
    BY <1>2, <2>1, <2>2
<1>8. Promise!Issue(x)
  BY <1>3, <1>4, <1>5, <1>6, <1>7
  DEF Promise!Issue, Promise!Issued, Promise!TagsInUse, Tag
<1>. QED
  BY <1>8

(* Whatever deactivates a transfer finishes it.                             *)
LEMMA DeactivateFinishes ==
  ASSUME XferInv, NEW i \in DOMAIN active, Deactivate(i), freeze' = freeze
  PROVE  \E x \in Xfers : Promise!Finish(x)
<1>0. active[i] \in Active /\ active[i] \in Xfers
  BY DEF Active, ToSet, XferInv, XferType
<1>1. PICK x \in Xfers : x = active[i] /\ x \in Active
  BY <1>0
<1>2. /\ Active' = Active \ {x} /\ Pending' = Pending
      /\ \A y \in Active' : slot'[y] = slot[y]
  BY <1>1, DeactivateXfer
<1>3. Tag' = [y \in Active \ {x} |-> Tag[y]]
  BY <1>2 DEF Tag
<1>4. Promise!Finish(x)
  BY <1>1, <1>2, <1>3 DEF Promise!Finish, Promise!Issued, Tag
<1>. QED
  BY <1>1, <1>4

(* c_kill_xfer of a queued transfer cancels it.                             *)
LEMMA KillCancels ==
  ASSUME XferInv, NEW d \in Detach, KillOne(d)
  PROVE  \E x \in Xfers : Promise!Cancel(x)
<1>. DEFINE x == Head(queue)
<1>1. /\ Pending' = Pending \ {x} /\ x \in Pending /\ Active' = Active
      /\ slot' = slot /\ freeze' = freeze
  BY DequeueXfer DEF KillOne, Dequeued, holdVars
<1>2. x \in Xfers
  BY <1>1 DEF Pending, ToSet, XferInv, XferType
<1>. HIDE DEF x
<1>3. Tag' = Tag
  BY <1>1 DEF Tag
<1>4. Promise!Cancel(x)
  BY <1>1, <1>3 DEF Promise!Cancel, Tag
<1>. QED
  BY <1>2, <1>4

(* A change of queue_freeze alone holds the channel, releases it, or is not *)
(* seen.                                                                    *)
LEMMA FreezeHolds ==
  ASSUME freeze' \in Int, UNCHANGED xferVars
  PROVE  Promise!Hold \/ Promise!Release
<1>1. Tag' = Tag /\ Pending' = Pending
  BY DEF Tag, Active, Pending, xferVars
<1>2. CASE freeze' > 0
  BY <1>1, <1>2 DEF Promise!Hold, Tag
<1>3. CASE ~(freeze' > 0)
  BY <1>1, <1>3 DEF Promise!Release, Tag
<1>. QED
  BY <1>2, <1>3

(* Every step is a step of the promise.                                      *)
LEMMA StepIssues == Inv /\ [Next]_vars => [Promise!IssueNext]_(Promise!issueVars)
<1>. SUFFICES ASSUME Inv, [Next]_vars
              PROVE  [Promise!IssueNext]_(Promise!issueVars)
  OBVIOUS
<1>0. XferInv /\ CtxInv /\ freeze' \in Int
  BY StepInv DEF Inv, CtxInv, CtxType
<1>1. CASE UNCHANGED xferVars
  BY <1>0, <1>1, FreezeHolds DEF Promise!IssueNext
<1>2. ASSUME NEW i \in DOMAIN active, Deactivate(i), freeze' = freeze
      PROVE  Promise!IssueNext
  BY <1>0, <1>2, DeactivateFinishes DEF Promise!IssueNext
<1>3. ASSUME NEW x \in Xfers, ExecXfer(x) PROVE Promise!IssueNext
  BY <1>0, <1>3, ExecSubmits DEF Promise!IssueNext
<1>4. ASSUME NEW c \in Ctx, StartXfer(c) PROVE Promise!IssueNext
  BY <1>0, <1>4, StartIssues DEF Promise!IssueNext
<1>5. ASSUME NEW d \in Detach, KillOne(d) PROVE Promise!IssueNext
  BY <1>0, <1>5, KillCancels DEF Promise!IssueNext
<1>6. ASSUME NEW c \in Runners, KillActive(c) PROVE [Promise!IssueNext]_(Promise!issueVars)
  BY <1>0, <1>1, <1>2, <1>6, FirstActive DEF KillActive, holdVars
<1>7. ASSUME NEW x \in Xfers, Interrupt(x) PROVE Promise!IssueNext
  BY <1>2, <1>7 DEF Interrupt, holdVars
<1>8. ASSUME NEW c \in Ctx, PollDone(c) \/ AbortDone(c) PROVE Promise!IssueNext
  BY <1>2, <1>8 DEF PollDone, AbortDone, holdVars
<1>9. CASE \E c \in Ctx : Quiet(c)
  BY <1>1, <1>9, QuietSteps
<1>10. CASE UNCHANGED vars
  BY <1>1, <1>10 DEF vars, xferVars
<1>11. Intr \in Ctx
  BY DEF Ctx
<1>. QED
  BY <1>3, <1>4, <1>5, <1>6, <1>7, <1>8, <1>9, <1>10, <1>11
  DEF Next, AtaStart, Hook, Kill, Run, Quiet

(* What submitters and the controller observe of the queue is a behaviour   *)
(* of the abstract one (ata_exec_xfer, atastart, ata_deactivate_xfer).      *)
THEOREM QueueKeepsPromise == Spec => KeepsPromise
BY InitIssues, StepIssues, Invariance, PTL
DEF Spec, KeepsPromise, Promise!IssueSpec

=============================================================================
