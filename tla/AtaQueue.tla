------------------------------ MODULE AtaQueue ------------------------------
(***************************************************************************)
(* The transfer queue of one ATA channel, src/sys/dev/ata/ata.c: how       *)
(* transfers enter queue_xfer (ata_exec_xfer), how they are started        *)
(* (atastart, ata_xfer_start, ata_activate_xfer_locked), how they end      *)
(* (ata_deactivate_xfer, ata_free_xfer, ata_kill_active, ata_kill_pending, *)
(* ata_waitdrain_xfer_check), and how the channel is frozen and thawed     *)
(* meanwhile: by transfers that c_start postpones to the channel's thread, *)
(* by resets and recoveries scheduled to it (ata_thread_run), by the reset *)
(* ioctl, and by suspension.                                               *)
(*                                                                         *)
(* A context is whoever runs this code: the thread that submits a          *)
(* transfer, the thread that detaches a drive, the channel's own thread    *)
(* (atabus_thread), the ioctl, suspend and resume, or the interrupt        *)
(* handler.  Contexts interleave wherever ch_lock is dropped; an interrupt *)
(* handler runs to its end before any thread goes on.                      *)
(***************************************************************************)
EXTENDS Integers, Sequences, FiniteSets, SequencesExt

CONSTANTS
  Xfers,        \* struct ata_xfer, each with fixed attributes
  Drives,       \* indexes of ch_drive[]
  DriveOf,      \* c_drive of every transfer
  NCQ,          \* transfers with C_NCQ
  Skip,         \* transfers with C_SKIP_QUEUE (recovery)
  Poll,         \* transfers with C_POLL
  PollWait,     \* those of Poll that also have C_WAIT
  Openings,     \* queue_openings
  DrvOpenings,  \* drv_openings of every drive
  MaxOpenings,  \* ATA_MAX_OPENINGS
  Postponable,  \* those whose c_start may return ATASTART_TH
  Detach,       \* drives that may be detached
  Asks,         \* what drivers schedule to the thread: "reset", "recover"
  Users,        \* others who hold the channel: "ioctl", "pmf"
  Nobody        \* no context

Intr == "intr"
Thr == "thread"                            \* atabus_thread
Runners == {Thr} \cup Users                \* who calls ata_thread_run
Ctx == Xfers \cup Drives \cup Runners \cup {Intr}
Slots == 0 .. (Openings - 1)

ASSUME AttributeAssumption ==
  /\ DriveOf \in [Xfers -> Drives]
  /\ NCQ \subseteq Xfers /\ Skip \subseteq Xfers /\ Poll \subseteq Xfers
  /\ PollWait \subseteq Poll
  /\ NCQ \cap (Skip \cup Poll) = {}
  /\ Postponable \subseteq Xfers \ (NCQ \cup Skip \cup Poll)
  /\ Detach \subseteq Drives
  /\ Asks \subseteq {"reset", "recover"} /\ Users \subseteq {"ioctl", "pmf"}

ASSUME OpeningsAssumption ==
  /\ MaxOpenings \in Nat /\ Openings \in 1 .. MaxOpenings
  /\ DrvOpenings \in [Drives -> 1 .. MaxOpenings]

(* Recovery issues one command at a time, on channels that queue commands.  *)
ASSUME RecoveryAssumption ==
  /\ \A x, y \in Skip : x = y
  /\ Skip # {} => Openings > 1

ASSUME ContextAssumption ==
  LET Fixed == {Thr, "ioctl", "pmf", Intr} IN
    /\ Xfers \cap Drives = {} /\ (Xfers \cup Drives) \cap Fixed = {}
    /\ Nobody \notin Xfers \cup Drives \cup Fixed

VARIABLES
  queue,      \* queue_xfer: transfers waiting to be started
  active,     \* active_xfers; queue_active is its length
  slot,       \* c_slot of every transfer
  used,       \* active_xfers_used: slots of the active transfers
  ncq,        \* ATACH_NCQ in ch_flags
  freeze,     \* queue_freeze
  flags,      \* ATACH_TH_RESET and ATACH_TH_RECOVERY in ch_flags
  extra,      \* threset of every ata_thread_run
  postponed,  \* active transfers that c_start left to the thread
  pc,         \* where every context is
  cur,        \* the transfer a context polls or aborts
  inturn,     \* c_abort called the thread's atastart in the middle of a turn
  excl,       \* the context that runs without interleaving, or Nobody
  asleep,     \* transfers whose submitter sleeps on c_active
  waitdrain,  \* drives with ATA_DRIVE_WAITDRAIN
  draining,   \* drives whose detaching thread sleeps on queue_drain
  stolen      \* history: the thread has thawed for a transfer nobody postponed

vars == <<queue, active, slot, used, ncq, freeze, flags, extra, postponed, pc,
          cur, inturn, excl, asleep, waitdrain, draining, stolen>>

xferVars  == <<queue, active, slot, used, ncq>>
holdVars  == <<freeze, flags, extra, stolen>>
sleepVars == <<asleep, waitdrain, draining>>

Init ==
  /\ queue = <<>> /\ active = <<>>
  /\ slot = [x \in Xfers |-> 0] /\ used = {} /\ ncq = FALSE
  /\ freeze = 0 /\ flags = {} /\ extra = [c \in Runners |-> FALSE]
  /\ postponed = {}
  /\ pc = [c \in Ctx |-> IF c = Thr THEN "asleep" ELSE "idle"]
  /\ cur = [c \in Ctx |-> Nobody] /\ inturn = FALSE
  /\ excl = Nobody
  /\ asleep = {} /\ waitdrain = {} /\ draining = {}
  /\ stolen = FALSE

Pending == ToSet(queue)
Active == ToSet(active)
WaitAct(x) == pc[x] = "waitact"            \* C_WAITACT
Mine(c) == excl \in {Nobody, c}
Goto(c, l) == pc' = [pc EXCEPT ![c] = l]

(* cv_signal(&chp->ch_thr_idle), on which only the thread sleeps; with a    *)
(* step of the context that signals, and alone.                             *)
Woken(l) == IF l = "asleep" THEN "awake" ELSE l
GotoSignal(c, l) ==
  pc' = [d \in Ctx |->
           IF d = c THEN l ELSE IF d = Thr THEN Woken(pc[d]) ELSE pc[d]]
Signal == Goto(Thr, Woken(pc[Thr]))

-----------------------------------------------------------------------------
(* Submission: ata_exec_xfer.                                               *)

\* Mutant: recovery commands are queued last.
EnqueuedLast(x) == Append(queue, x)

Enqueued(x) == IF x \in Skip THEN <<x>> \o queue ELSE Append(queue, x)
MayPoll(x, q) == active = <<>> /\ q # <<>> /\ Head(q) = x

(* A new transfer enters the queue; one that polls and may sleep waits      *)
(* until it is at the head of an idle channel.  Nothing is submitted to a   *)
(* drive being detached, and recovery commands only during recovery.        *)
ExecXfer(x) ==
  /\ excl = Nobody /\ pc[x] = "idle"
  /\ x \notin Pending \cup Active
  /\ pc[DriveOf[x]] = "idle"
  /\ x \in Skip => pc[Thr] = "recover"
  /\ queue' = Enqueued(x)
  /\ IF x \in PollWait /\ ~MayPoll(x, queue')
     THEN Goto(x, "waitact") /\ asleep' = asleep \cup {x}
     ELSE Goto(x, "start") /\ UNCHANGED asleep
  /\ UNCHANGED <<active, slot, used, ncq, holdVars, postponed, cur, inturn,
                 excl, waitdrain, draining>>

(* The submitter was woken: it sleeps again, or goes on to atastart.        *)
WakeActive(x) ==
  /\ excl = Nobody /\ WaitAct(x) /\ x \notin asleep
  /\ IF MayPoll(x, queue)
     THEN Goto(x, "start") /\ UNCHANGED asleep
     ELSE asleep' = asleep \cup {x} /\ UNCHANGED pc
  /\ UNCHANGED <<xferVars, holdVars, postponed, cur, inturn, excl, waitdrain,
                 draining>>

-----------------------------------------------------------------------------
(* Starting transfers: atastart.  Every step is one turn of its loop, with  *)
(* ch_lock held; a turn that goes "again" keeps the lock.                    *)

\* Mutant: NCQ transfers to any drives may be active together.
CompatibleAnyDrive(x) ==
  IF active = <<>> THEN TRUE ELSE x \in NCQ /\ Head(active) \in NCQ

Compatible(x) ==
  IF active = <<>> THEN TRUE
  ELSE /\ x \in NCQ /\ Head(active) \in NCQ
       /\ DriveOf[x] = DriveOf[Head(active)]

ChqOpenings(x) ==
  IF x \notin Skip /\ Openings > 1 THEN Openings - 1 ELSE Openings
DrvOpeningsOf(x) == IF x \in NCQ THEN DrvOpenings[DriveOf[x]] ELSE MaxOpenings
HasOpening(x) ==
  Len(active) < ChqOpenings(x) /\ Len(active) < DrvOpeningsOf(x)

\* Mutant: a slot in use may be allocated.
FreeSlotsTaken(x) == {s \in Slots : s < DrvOpeningsOf(x)}

(* ata_queue_alloc_slot takes a slot below the drive's openings, if any.    *)
FreeSlots(x) == {s \in Slots : s < DrvOpeningsOf(x)} \ used

Admitted(x) == x \in Skip \/ (freeze = 0 /\ Compatible(x))
Startable(x) == Admitted(x) /\ HasOpening(x) /\ FreeSlots(x) # {}

\* Mutant: the transfer stays queued.
DequeuedKept == queue

(* SIMPLEQ_REMOVE_HEAD on queue_xfer.                                       *)
Dequeued == Tail(queue)

Activated(x) == IF x \in Skip THEN <<x>> \o active ELSE Append(active, x)

(* Where atastart returns to: the thread goes on with the turn it was in,   *)
(* or with the next one.                                                    *)
Return(c) ==
  /\ Goto(c, IF c # Thr THEN "idle" ELSE IF inturn THEN "turn" ELSE "top")
  /\ inturn' = (inturn /\ c # Thr)

StartNothing(c) ==
  /\ pc[c] = "start" /\ Mine(c)
  /\ \/ queue = <<>>
     \/ /\ queue # <<>>
        /\ LET x == Head(queue) IN
             /\ ~WaitAct(x) /\ ~Startable(x)
             /\ x \in Skip => HasOpening(x)        \* else it panics
  /\ Return(c) /\ excl' = Nobody
  /\ UNCHANGED <<xferVars, holdVars, postponed, cur, sleepVars>>

\* Mutant: c_active is not broadcast.
StartWakesNobody(c) ==
  /\ pc[c] = "start" /\ Mine(c)
  /\ queue # <<>> /\ WaitAct(Head(queue))
  /\ Return(c) /\ excl' = Nobody
  /\ UNCHANGED <<xferVars, holdVars, postponed, cur, sleepVars>>

(* The head's submitter waits to poll it: it is woken and starts it itself. *)
StartWakes(c) ==
  /\ pc[c] = "start" /\ Mine(c)
  /\ queue # <<>> /\ WaitAct(Head(queue))
  /\ asleep' = {}
  /\ Return(c) /\ excl' = Nobody
  /\ UNCHANGED <<xferVars, holdVars, postponed, cur, waitdrain, draining>>

More(x, n) == x \notin Skip /\ n < Openings

(* What c_start may return, and where ata_xfer_start leaves the context.    *)
Started(c, x) ==
  /\ x \notin Poll
  /\ IF More(x, Len(active'))
     THEN excl' = c /\ UNCHANGED <<pc, inturn>>
     ELSE excl' = Nobody /\ Return(c)
  /\ UNCHANGED <<freeze, postponed, cur>>
Polled(c, x) ==
  /\ x \in Poll
  /\ Goto(c, "poll") /\ cur' = [cur EXCEPT ![c] = x] /\ excl' = c
  /\ UNCHANGED <<freeze, postponed, inturn>>
Aborted(c, x) ==
  /\ Goto(c, "abort") /\ cur' = [cur EXCEPT ![c] = x] /\ excl' = c
  /\ UNCHANGED <<freeze, postponed, inturn>>

\* Mutant: the thread is not signalled.
LeftSilently(c, x) ==
  /\ x \in Postponable /\ c # Thr
  /\ freeze' = freeze + 1 /\ postponed' = postponed \cup {x}
  /\ Goto(c, "idle") /\ excl' = Nobody
  /\ UNCHANGED <<cur, inturn>>

(* ATASTART_TH, never for the thread itself: the transfer stays active, the *)
(* channel is frozen and the thread woken (ata_thread_wake_locked).         *)
LeftToThread(c, x) ==
  /\ x \in Postponable /\ c # Thr
  /\ freeze' = freeze + 1 /\ postponed' = postponed \cup {x}
  /\ GotoSignal(c, "idle") /\ excl' = Nobody
  /\ UNCHANGED <<cur, inturn>>

StartXfer(c) ==
  /\ pc[c] = "start" /\ Mine(c)
  /\ queue # <<>>
  /\ LET x == Head(queue) IN
       /\ ~WaitAct(x) /\ Startable(x)
       /\ queue' = Dequeued
       /\ active' = Activated(x)
       /\ ncq' = (x \in NCQ)
       /\ \E s \in FreeSlots(x) :
            /\ slot' = [slot EXCEPT ![x] = s]
            /\ used' = used \cup {s}
       /\ Started(c, x) \/ Polled(c, x) \/ Aborted(c, x) \/ LeftToThread(c, x)
  /\ UNCHANGED <<flags, extra, stolen, sleepVars>>

-----------------------------------------------------------------------------
(* The end of a transfer: ata_deactivate_xfer, then ata_free_xfer.          *)

\* Mutant: the slot stays marked in active_xfers_used.
DeactivateKeepsSlot(i) ==
  /\ active' = RemoveAt(active, i)
  /\ slot' = [slot EXCEPT ![active[i]] = 0]
  /\ postponed' = postponed \ {active[i]}
  /\ UNCHANGED <<queue, used, ncq>>

(* c_slot means nothing from then on: 0 stands for whatever stays in it.    *)
Deactivate(i) ==
  /\ active' = RemoveAt(active, i)
  /\ used' = used \ {slot[active[i]]}
  /\ slot' = [slot EXCEPT ![active[i]] = 0]
  /\ postponed' = postponed \ {active[i]}
  /\ UNCHANGED <<queue, ncq>>

(* A thread dropped the lock for the hook, an interrupt handler goes on.     *)
OnGoing(c) == IF c = Intr THEN Intr ELSE Nobody

(* c_poll completes the transfer; atastart then takes its next turn.        *)
PollDone(c) ==
  /\ pc[c] = "poll"
  /\ \E i \in DOMAIN active : active[i] = cur[c] /\ Deactivate(i)
  /\ cur' = [cur EXCEPT ![c] = Nobody]
  /\ IF More(cur[c], Len(active'))
     THEN Goto(c, "start") /\ excl' = OnGoing(c) /\ UNCHANGED inturn
     ELSE Return(c) /\ excl' = Nobody
  /\ UNCHANGED <<holdVars, sleepVars>>

(* c_poll asks for another c_start, which gives the transfer up.            *)
PollAgain(c) ==
  /\ pc[c] = "poll" /\ Goto(c, "abort")
  /\ UNCHANGED <<xferVars, holdVars, postponed, cur, inturn, excl, sleepVars>>

(* c_abort completes the transfer with an error and restarts the queue.     *)
AbortDone(c) ==
  /\ pc[c] = "abort"
  /\ \E i \in DOMAIN active : active[i] = cur[c] /\ Deactivate(i)
  /\ cur' = [cur EXCEPT ![c] = Nobody]
  /\ Goto(c, "start") /\ excl' = OnGoing(c)
  /\ UNCHANGED <<holdVars, inturn, sleepVars>>

(* A completion interrupt.  On a drive being drained the transfer is killed *)
(* and the draining thread signalled, otherwise it completes and the        *)
(* handler restarts the queue.                                              *)
IntrDone(i) ==
  /\ DriveOf[active[i]] \notin waitdrain
  /\ Goto(Intr, "start") /\ excl' = Intr
  /\ UNCHANGED <<waitdrain, draining>>
IntrDrain(i) ==
  /\ DriveOf[active[i]] \in waitdrain
  /\ waitdrain' = waitdrain \ {DriveOf[active[i]]}
  /\ IF draining = {} THEN UNCHANGED draining
     ELSE \E d \in draining : draining' = draining \ {d}
  /\ UNCHANGED <<pc, excl>>

Interrupt(x) ==
  /\ excl = Nobody /\ pc[Intr] = "idle" /\ x \notin postponed
  /\ \E i \in DOMAIN active :
       /\ active[i] = x
       /\ Deactivate(i)
       /\ IntrDone(i) \/ IntrDrain(i)
  /\ UNCHANGED <<holdVars, cur, inturn, asleep>>

-----------------------------------------------------------------------------
(* Detaching a drive: ata_kill_pending.                                     *)

KillBegin(d) ==
  /\ d \in Detach /\ excl = Nobody /\ pc[d] = "idle"
  /\ Goto(d, "scan") /\ excl' = d
  /\ UNCHANGED <<xferVars, holdVars, postponed, cur, inturn, sleepVars>>

(* c_kill_xfer ends the head.  It is called with the lock held, so that it  *)
(* cannot call ata_free_xfer, which would wake a submitter that waits.      *)
KillOne(d) ==
  /\ pc[d] = "scan" /\ queue # <<>> /\ DriveOf[Head(queue)] = d
  /\ queue' = Dequeued
  /\ UNCHANGED <<active, slot, used, ncq, holdVars, postponed, pc, cur, inturn,
                 excl, sleepVars>>

(* The head belongs to another drive: "continue" looks at the same head     *)
(* again, with the lock held.                                               *)
KillAgain(d) ==
  /\ pc[d] = "scan" /\ queue # <<>> /\ DriveOf[Head(queue)] # d
  /\ UNCHANGED vars

DrvActive(d) == \E x \in Active : DriveOf[x] = d

\* Mutant: the wait for the drive's transfers is not a loop.
KillWaitOnce(d) ==
  /\ Mine(d)
  /\ \/ /\ pc[d] = "scan" /\ queue = <<>> /\ DrvActive(d)
        /\ waitdrain' = waitdrain \cup {d}
        /\ draining' = draining \cup {d}
        /\ Goto(d, "drain")
     \/ /\ \/ pc[d] = "scan" /\ queue = <<>> /\ ~DrvActive(d)
           \/ pc[d] = "drain" /\ d \notin draining
        /\ Goto(d, "gone") /\ UNCHANGED <<waitdrain, draining>>
  /\ excl' = Nobody
  /\ UNCHANGED <<xferVars, holdVars, postponed, cur, inturn, asleep>>

KillWait(d) ==
  /\ Mine(d)
  /\ \/ pc[d] = "scan" /\ queue = <<>>
     \/ pc[d] = "drain" /\ d \notin draining
  /\ IF DrvActive(d)
     THEN /\ waitdrain' = waitdrain \cup {d}
          /\ draining' = draining \cup {d}
          /\ Goto(d, "drain")
     ELSE Goto(d, "gone") /\ UNCHANGED <<waitdrain, draining>>
  /\ excl' = Nobody
  /\ UNCHANGED <<xferVars, holdVars, postponed, cur, inturn, asleep>>

-----------------------------------------------------------------------------
(* ata_thread_run: scheduling to the thread.  Drivers schedule a reset or a *)
(* recovery when a command they have issued fails.                          *)

Asked(t) ==
  /\ excl = Nobody /\ t \in Asks \ flags
  /\ \E x \in Active : x \notin postponed
  /\ t = "recover" => ncq /\ pc[Thr] # "recover"
  /\ freeze' = freeze + 1 /\ flags' = flags \cup {t}
  /\ Signal
  /\ UNCHANGED <<xferVars, extra, postponed, cur, inturn, excl, sleepVars, stolen>>

(* ata_thread_run by a context that may wait: up to the controller's hook,  *)
(* which drops the lock, and after it; f is queue_freeze before.            *)

\* Mutant: ata_thread_run does not freeze before it calls the hook.
RunBeginThawed(c, t, f) ==
  /\ freeze' = f
  /\ extra' = [extra EXCEPT ![c] = t \in flags]
  /\ flags' = flags \ {t}
  /\ Goto(c, t) /\ excl' = Nobody

RunBegin(c, t, f) ==
  /\ freeze' = f + 1
  /\ extra' = [extra EXCEPT ![c] = t \in flags]
  /\ flags' = flags \ {t}
  /\ Goto(c, t) /\ excl' = Nobody

(* The hook goes through the active transfers: a reset when the controller  *)
(* is quiet, recovery when its command is done, or when it needed none.     *)
Walk(c) ==
  /\ excl = Nobody /\ pc[c] \in {"reset", "recover"}
  /\ pc[c] = "recover" =>
       \A x \in Skip : x \notin Pending \cup Active /\ pc[x] = "idle"
  /\ Goto(c, "walk") /\ excl' = c
  /\ UNCHANGED <<xferVars, holdVars, postponed, cur, inturn, sleepVars>>

\* Mutant: the hook leaves the transfers active.
WalkPast(c) ==
  /\ pc[c] = "walk"
  /\ Goto(c, "held") /\ excl' = Nobody
  /\ UNCHANGED <<xferVars, holdVars, postponed, cur, inturn, sleepVars>>

(* ata_kill_active.  It drops ch_lock round each c_kill_xfer, but the hook   *)
(* has quieted the controller, c_kill_xfer does not sleep, and threads that *)
(* are not MPSAFE are not preempted: no other context runs between kills.   *)
KillActive(c) ==
  /\ pc[c] = "walk"
  /\ IF active # <<>>
     THEN Deactivate(1) /\ UNCHANGED <<pc, excl>>
     ELSE Goto(c, "held") /\ excl' = Nobody /\ UNCHANGED <<xferVars, postponed>>
  /\ UNCHANGED <<holdVars, cur, inturn, sleepVars>>

\* Mutant: it always thaws one more time.
ThawsTwice(c) == 2

(* One extra time for the freeze of a schedule that the run took over.      *)
Thaws(c) == IF extra[c] THEN 2 ELSE 1

(* The end of the thread's turn: it runs down the queue, or looks again     *)
(* without having dropped the lock; f is queue_freeze.                      *)
EndTurn(f) ==
  IF f = 0 THEN Goto(Thr, "start") /\ excl' = Nobody
           ELSE Goto(Thr, "top") /\ excl' = Thr

(* The hook returned: "Allow commands to run again".                        *)
RunEnd(c) ==
  /\ excl = Nobody /\ pc[c] = "held"
  /\ freeze' = freeze - Thaws(c)
  /\ extra' = [extra EXCEPT ![c] = FALSE]
  /\ IF c = Thr THEN EndTurn(freeze') ELSE GotoSignal(c, "idle") /\ UNCHANGED excl
  /\ UNCHANGED <<xferVars, flags, postponed, cur, inturn, sleepVars, stolen>>

-----------------------------------------------------------------------------
(* The thread: the loop of atabus_thread.                                   *)

MustSleep == flags = {} /\ (active = <<>> \/ freeze = 0)

Sleep ==
  /\ Mine(Thr) /\ pc[Thr] = "top" /\ MustSleep
  /\ Goto(Thr, "asleep") /\ excl' = Nobody
  /\ UNCHANGED <<xferVars, holdVars, postponed, cur, inturn, sleepVars>>

(* Woken, it does not look at the condition again.                          *)
Serving ==
  Mine(Thr) /\ (pc[Thr] = "awake" \/ (pc[Thr] = "top" /\ ~MustSleep))

ServeAsked ==
  /\ Serving
  /\ \/ "reset" \in flags /\ RunBegin(Thr, "reset", freeze)
     \/ flags = {"recover"} /\ RunBegin(Thr, "recover", freeze)
  /\ UNCHANGED <<xferVars, postponed, cur, inturn, sleepVars, stolen>>

(* "Caller has bumped queue_freeze, decrease it": the first active transfer *)
(* is taken for one that was postponed, and c_start called for it, again if *)
(* it was not.  c_start aborts it or issues it; c_abort runs atastart.      *)
ServeXfer ==
  /\ Serving /\ flags = {} /\ active # <<>> /\ freeze = 1
  /\ freeze' = 0
  /\ postponed' = postponed \ {Head(active)}
  /\ stolen' = (stolen \/ Head(active) \notin postponed)
  /\ \/ EndTurn(0) /\ UNCHANGED <<cur, inturn>>
     \/ /\ Goto(Thr, "abort") /\ excl' = Thr
        /\ cur' = [cur EXCEPT ![Thr] = Head(active)] /\ inturn' = TRUE
  /\ UNCHANGED <<xferVars, flags, extra, sleepVars>>

ServePanic ==
  /\ Serving /\ flags = {} /\ freeze > 1
  /\ Goto(Thr, "panic") /\ excl' = Thr
  /\ UNCHANGED <<xferVars, holdVars, postponed, cur, inturn, sleepVars>>

ServeNothing ==
  /\ \/ Serving /\ flags = {} /\ freeze <= 1 /\ (active = <<>> \/ freeze < 1)
     \/ Mine(Thr) /\ pc[Thr] = "turn"
  /\ EndTurn(freeze)
  /\ UNCHANGED <<xferVars, holdVars, postponed, cur, inturn, sleepVars>>

-----------------------------------------------------------------------------
(* The reset ioctl; suspend and resume.                                     *)

IoctlReset ==
  /\ excl = Nobody /\ "ioctl" \in Users /\ pc["ioctl"] = "idle"
  /\ RunBegin("ioctl", "reset", freeze)
  /\ UNCHANGED <<xferVars, postponed, cur, inturn, sleepVars, stolen>>

Suspend ==
  /\ excl = Nobody /\ "pmf" \in Users /\ pc["pmf"] = "idle"
  /\ freeze' = freeze + 1 /\ Goto("pmf", "idlewait")
  /\ UNCHANGED <<xferVars, flags, extra, postponed, cur, inturn, excl, sleepVars,
                 stolen>>

\* Mutant: ata_channel_idle returns without waiting.
IdleAtOnce ==
  /\ excl = Nobody /\ "pmf" \in Users /\ pc["pmf"] = "idlewait"
  /\ Goto("pmf", "suspended")
  /\ UNCHANGED <<xferVars, holdVars, postponed, cur, inturn, excl, sleepVars>>

(* ata_channel_idle looks every tick whether the channel is idle.           *)
Idle ==
  /\ excl = Nobody /\ "pmf" \in Users /\ pc["pmf"] = "idlewait"
  /\ active = <<>>
  /\ Goto("pmf", "suspended")
  /\ UNCHANGED <<xferVars, holdVars, postponed, cur, inturn, excl, sleepVars>>

(* atabus_resume does nothing if somebody has thawed the channel; otherwise *)
(* it thaws and, without dropping the lock, runs a reset.                   *)
Resume ==
  /\ excl = Nobody /\ "pmf" \in Users /\ pc["pmf"] = "suspended"
  /\ IF freeze = 0 THEN Goto("pmf", "idle") /\ UNCHANGED <<freeze, flags, extra, excl>>
                   ELSE RunBegin("pmf", "reset", freeze - 1)
  /\ UNCHANGED <<xferVars, postponed, cur, inturn, sleepVars, stolen>>

-----------------------------------------------------------------------------
AtaStart(c) == StartNothing(c) \/ StartWakes(c) \/ StartXfer(c)
Hook(c) == PollDone(c) \/ PollAgain(c) \/ AbortDone(c)
Kill(d) == KillBegin(d) \/ KillOne(d) \/ KillAgain(d) \/ KillWait(d)
Run(c) == Walk(c) \/ KillActive(c) \/ RunEnd(c)
Thread == Sleep \/ ServeAsked \/ ServeXfer \/ ServePanic \/ ServeNothing
Pmf == Suspend \/ Idle \/ Resume

Next ==
  \/ \E x \in Xfers : ExecXfer(x) \/ WakeActive(x) \/ Interrupt(x)
  \/ \E c \in Ctx : AtaStart(c) \/ Hook(c)
  \/ \E d \in Detach : Kill(d)
  \/ \E t \in Asks : Asked(t)
  \/ \E c \in Runners : Run(c)
  \/ Thread \/ IoctlReset \/ Pmf

Spec == Init /\ [][Next]_vars

(* A context that can run, again and again, runs; the device completes or   *)
(* times out commands; hooks return, and a thread that has begun goes on.   *)
(* Nobody has to submit, detach, suspend or reset.                          *)
Fairness ==
  /\ \A x \in Xfers : SF_vars(WakeActive(x) \/ AtaStart(x) \/ Hook(x))
  /\ WF_vars(AtaStart(Intr) \/ Hook(Intr))
  /\ SF_vars(\E x \in Xfers : Interrupt(x))
  /\ \A d \in Detach : SF_vars(KillOne(d) \/ KillAgain(d) \/ KillWait(d))
  /\ SF_vars(Thread \/ AtaStart(Thr) \/ Hook(Thr) \/ Run(Thr))
  /\ SF_vars(Idle \/ Resume)
  /\ \A c \in Users : SF_vars(Run(c))

FairSpec == Spec /\ Fairness
-----------------------------------------------------------------------------
(* Properties.                                                              *)

Labels == {"idle", "waitact", "start", "poll", "abort", "scan", "drain", "gone",
           "idlewait", "suspended", "reset", "recover", "walk", "held",
           "asleep", "awake", "top", "turn", "panic"}

(* Types of the variables of the model of ata_queue and its contexts.       *)
TypeOK ==
  /\ queue \in Seq(Xfers) /\ active \in Seq(Xfers)
  /\ slot \in [Xfers -> Slots] /\ used \subseteq Slots /\ ncq \in BOOLEAN
  /\ freeze \in Int /\ flags \subseteq {"reset", "recover"}
  /\ extra \in [Runners -> BOOLEAN]
  /\ postponed \subseteq Xfers
  /\ pc \in [Ctx -> Labels]
  /\ cur \in [Ctx -> Xfers \cup {Nobody}] /\ inturn \in BOOLEAN
  /\ excl \in Ctx \cup {Nobody}
  /\ asleep \subseteq Xfers
  /\ waitdrain \subseteq Drives /\ draining \subseteq Drives
  /\ stolen \in BOOLEAN

(* The bitmap of slots says which slots the active transfers hold, and no   *)
(* two of them share one: what ata_activate_xfer_locked and                 *)
(* ata_deactivate_xfer assert one bit at a time, across every way a         *)
(* transfer can end.                                                        *)
SlotsExact ==
  /\ used = {slot[x] : x \in Active}
  /\ \A i, j \in DOMAIN active : slot[active[i]] = slot[active[j]] => i = j

(* A transfer is never both queued and active, nor queued twice or active   *)
(* twice, whoever starts, restarts, kills, polls or completes it.           *)
OnePlace ==
  /\ Pending \cap Active = {}
  /\ \A i, j \in DOMAIN queue : queue[i] = queue[j] => i = j
  /\ \A i, j \in DOMAIN active : active[i] = active[j] => i = j

(* Ordinary transfers that are active together are all NCQ and go to one    *)
(* drive, although atastart compares the new one with the first only, and   *)
(* recovery puts its own transfer first.                                    *)
Exclusive ==
  \A x, y \in Active \ Skip :
    x # y => x \in NCQ /\ y \in NCQ /\ DriveOf[x] = DriveOf[y]

(* A queued recovery command is the next to be started and finds an opening *)
(* and a slot, however many transfers are active: atastart neither panics   *)
(* nor leaves it in the queue.                                              *)
RecoveryReady ==
  \A x \in Skip \cap Pending :
    Head(queue) = x /\ HasOpening(x) /\ FreeSlots(x) # {}

(* Once ata_channel_idle has returned no ordinary transfer is active until  *)
(* the channel is resumed, whatever is scheduled, postponed, restarted or   *)
(* reset meanwhile, unless the thread has thawed a freeze that was not for   *)
(* it to thaw.                                                              *)
Suspended == "pmf" \in Users /\ pc["pmf"] = "suspended"
SuspendQuiet == Suspended /\ ~stolen => Active \subseteq Skip

(* The same without the exception ("freeze the queue and wait for the        *)
(* controller to be idle.  Caller has to unfreeze/restart the queue").       *)
SuspendQuietAlways == Suspended => Active \subseteq Skip

InHook(c) == pc[c] \in {"reset", "recover", "walk", "held"}
Suspending == {c \in Users : pc[c] \in {"idlewait", "suspended"}}
Hooked == {c \in Runners : InHook(c)}
Held ==
  Cardinality(flags) + Cardinality(postponed) + Cardinality(Suspending)
  + Cardinality(Hooked) + Cardinality({c \in Hooked : extra[c]})

(* What is scheduled, runs, is suspended or was postponed to the thread     *)
(* keeps the channel frozen, in whatever order it ends, unless the thread   *)
(* has thawed for a transfer that nobody postponed: queue_freeze is never   *)
(* less than its holders account for.                                       *)
HoldersFreeze == ~stolen => freeze >= Held

Recovering == pc[Thr] \in {"recover", "walk"}

(* ATACH_NCQ tells how the active ordinary transfers were issued, except    *)
(* while recovery runs its own command among them.                          *)
NcqFlagExact == ~Recovering => \A x \in Active \ Skip : ncq = (x \in NCQ)

(* While the hook of a reset or of recovery works no ordinary transfer is   *)
(* started, whoever calls atastart meanwhile ("Block execution of other     *)
(* commands during reset"), as long as no freeze has been stolen.           *)
RecoveryOvertakes ==
  [][Hooked # {} /\ ~stolen => Active' \ Active \subseteq Skip]_vars

(* The queue implements its abstract specification: what submitters and the *)
(* controller can observe of the lists, the slots and the freeze count.     *)
Promise == INSTANCE AtaIssue WITH
  Recovery <- Skip,
  Together <- {p \in NCQ \X NCQ : DriveOf[p[1]] = DriveOf[p[2]]},
  Tags <- Slots,
  pending <- Pending,
  tag <- [x \in Active |-> slot[x]],
  held <- freeze > 0

KeepsPromise == Promise!IssueSpec

(* Every queued transfer is eventually taken off the queue, whatever else   *)
(* is submitted, polled, aborted or frozen meanwhile.                       *)
QueueProgress == \A x \in Xfers : x \in Pending ~> x \notin Pending

(* A transfer that c_start postponed is restarted by the thread, or ended.  *)
PostponedRestarts == \A x \in Xfers : x \in postponed ~> x \notin postponed

(* A detach that waits for the drive's active transfers goes on once there  *)
(* are none ("Wait until all active transfers on the drive finish").        *)
DrainReturns ==
  \A d \in Detach : (pc[d] = "drain" /\ ~DrvActive(d)) ~> pc[d] = "gone"

(* When ata_kill_pending has returned no transfer of the drive is queued or *)
(* active, although interrupts, pollers and other drives ran while it slept. *)
DetachComplete ==
  \A d \in Detach : pc[d] = "gone" =>
    \A x \in Pending \cup Active : DriveOf[x] # d

(* ata_kill_pending gets past the queue ("Kill off all pending xfers for a  *)
(* drive").                                                                 *)
KillScanReturns == \A d \in Detach : pc[d] = "scan" ~> pc[d] # "scan"

(* A submitter that waits to poll its transfer goes on once the transfer is *)
(* killed ("Free xfer now if it there was attempt to free it while we were  *)
(* waiting").                                                               *)
KilledWaiterReturns ==
  \A x \in PollWait : (WaitAct(x) /\ x \notin Pending) ~> ~WaitAct(x)
=============================================================================
