----------------------------- MODULE AtaThread -----------------------------
(***************************************************************************)
(* The kernel thread of an ATA channel and everything that freezes and     *)
(* thaws the channel around it, src/sys/dev/ata/ata.c: atabus_thread,      *)
(* ata_thread_run, ata_thread_wake_locked, suspend and resume, the reset   *)
(* ioctl, rescan, and the shutdown handshake of atabus_detach.             *)
(*                                                                         *)
(* One step is what a context does while it holds ch_lock.  The transfer   *)
(* queue is reduced to the one thing the thread looks at: whether a        *)
(* transfer is active, and whether c_start postponed it to the thread.     *)
(***************************************************************************)
EXTENDS Integers, FiniteSets

CONSTANTS
  NDrives,    \* ch_ndrives
  Asks,       \* what drivers schedule to the thread: a subset of Types
  MaxAsks,    \* bound on how often they do
  Starts,     \* what c_start makes of a transfer: "running", "postponed"
  Users       \* other contexts: a subset of {"ioctl", "pmf", "rescan", "detach"}

Types == {"reset", "drvreset", "recovery"}      \* ATACH_TH_*
Runners == {"thread", "ioctl", "pmf"}           \* who calls ata_thread_run
Ctx == Runners \cup {"detach"}
DriveIds == 0 .. (NDrives - 1)

ASSUME ThreadAssumption ==
  /\ NDrives \in Nat /\ MaxAsks \in Nat /\ Starts \subseteq {"running", "postponed"}
  /\ Asks \subseteq Types
  /\ Users \subseteq {"ioctl", "pmf", "rescan", "detach"}

VARIABLES
  flags,      \* ATACH_TH_*, ATACH_TH_RESCAN and ATACH_SHUTDOWN in ch_flags
  drvreset,   \* drives with ATA_DRIVE_TH_RESET
  freeze,     \* queue_freeze
  xfer,       \* the active transfer: "none", "running" or "postponed"
  idle,       \* contexts asleep on ch_thr_idle
  pc,         \* where every context is
  extra,      \* threset of every ata_thread_run
  drv,        \* the loop variable of the thread's loop over drives
  asks,       \* how often drivers have scheduled something
  astray      \* ghost: freezes whose holder is gone, less those taken from one

vars == <<flags, drvreset, freeze, xfer, idle, pc, extra, drv, asks, astray>>

Init ==
  /\ flags = {} /\ drvreset = {} /\ freeze = 0 /\ xfer = "none"
  /\ idle = {} /\ pc = [c \in Ctx |-> IF c = "thread" THEN "top" ELSE "idle"]
  /\ extra = [c \in Runners |-> FALSE] /\ drv = 0 /\ asks = 0
  /\ astray = 0

(* A condition as a number of freezes.                                      *)
Bit(b) == IF b THEN 1 ELSE 0

(* Between two turns of its loop the thread may keep the lock.              *)
Free == pc["thread"] \notin {"loop", "panic"}
Goto(c, l) == pc' = [pc EXCEPT ![c] = l]

(* cv_signal(&chp->ch_thr_idle)                                             *)
Signal ==
  IF idle = {} THEN UNCHANGED idle ELSE \E c \in idle : idle' = idle \ {c}

-----------------------------------------------------------------------------
(* ata_thread_run by a context that may wait: up to the controller's hook,  *)
(* which drops the lock, and after it.                                      *)

\* Mutant: threset stays false.
RunBeginForgets(c, t, f) ==
  /\ freeze' = f + 1
  /\ extra' = [extra EXCEPT ![c] = FALSE]
  /\ flags' = flags \ {t}

RunBegin(c, t, f) ==
  /\ freeze' = f + 1
  /\ extra' = [extra EXCEPT ![c] = t \in flags]
  /\ flags' = flags \ {t}

Thaws(c) == IF extra[c] THEN 2 ELSE 1

(* The freeze of a transfer that was postponed is not returned with it.     *)
Orphaned == Bit(xfer = "postponed" /\ xfer' # "postponed")

(* A channel reset kills what is active; the other hooks may.               *)
RunEnd(c, t) ==
  /\ freeze' = freeze - Thaws(c)
  /\ xfer' \in IF t = "reset" THEN {"none"} ELSE {"none", xfer}
  /\ astray' = astray + Orphaned
  /\ Signal

(* ata_thread_run by a context that may not wait schedules to the thread.   *)
(* A driver does so for a command it started, hence not while the only      *)
(* active transfer is one it postponed.                                     *)
Ask(t) ==
  /\ asks < MaxAsks /\ asks' = asks + 1
  /\ xfer # "postponed"
  /\ IF t \in flags THEN UNCHANGED <<flags, freeze>>
                    ELSE flags' = flags \cup {t} /\ freeze' = freeze + 1
  /\ Signal
  /\ UNCHANGED <<xfer, pc, extra, drv, astray>>

Gone == "shutdown" \in flags \/ pc["thread"] = "gone"

AskReset ==
  /\ Free /\ ~Gone /\ "reset" \in Asks \ flags
  /\ Ask("reset") /\ UNCHANGED drvreset
AskDrive(d) ==
  /\ Free /\ ~Gone /\ "drvreset" \in Asks /\ d \notin drvreset
  /\ Ask("drvreset") /\ drvreset' = drvreset \cup {d}
AskRecovery ==
  /\ Free /\ ~Gone /\ "recovery" \in Asks /\ pc["thread"] # "recovery"
  /\ Ask("recovery") /\ UNCHANGED drvreset

-----------------------------------------------------------------------------
(* The thread: atabus_thread after its first probe.                         *)

Enter(l) == Goto("thread", l)

\* At the end of a turn it runs down the queue, or loops with the lock held.
EndTurn(f) == Enter(IF f = 0 THEN "kick" ELSE "loop")

\* Mutant: the thread does not look at ATACH_TH_RECOVERY before it sleeps.
MustSleepRecovering ==
  /\ flags \cap {"reset", "drvreset", "shutdown"} = {}
  /\ xfer = "none" \/ freeze = 0

MustSleep ==
  /\ flags \cap (Types \cup {"shutdown"}) = {}
  /\ xfer = "none" \/ freeze = 0

AtTop == pc["thread"] \in {"top", "loop"}
Awake == (AtTop /\ ~MustSleep) \/ (pc["thread"] = "asleep" /\ "thread" \notin idle)

Sleep ==
  /\ AtTop /\ MustSleep
  /\ idle' = idle \cup {"thread"} /\ Enter("asleep")
  /\ UNCHANGED <<flags, drvreset, freeze, xfer, extra, drv, asks, astray>>

\* Mutant: the thread leaves without a signal.
ExitSilently ==
  /\ Awake /\ "shutdown" \in flags
  /\ Enter("gone")
  /\ UNCHANGED <<flags, drvreset, freeze, xfer, idle, extra, drv, asks, astray>>

Exit ==
  /\ Awake /\ "shutdown" \in flags
  /\ Enter("gone") /\ Signal
  /\ UNCHANGED <<flags, drvreset, freeze, xfer, extra, drv, asks, astray>>

(* atabusconfig runs with the lock released.                                *)
Rescan ==
  /\ Awake /\ "shutdown" \notin flags /\ "rescan" \in flags
  /\ flags' = flags \ {"rescan"} /\ Enter("rescan")
  /\ UNCHANGED <<drvreset, freeze, xfer, idle, extra, drv, asks, astray>>

Serving ==
  \/ Awake /\ flags \cap {"shutdown", "rescan"} = {}
  \/ pc["thread"] = "rescan"

ServeReset ==
  /\ Serving /\ "reset" \in flags
  /\ RunBegin("thread", "reset", freeze) /\ Enter("reset")
  /\ UNCHANGED <<drvreset, xfer, idle, drv, asks, astray>>

(* The next turn of the loop over drives, which keeps the lock; f and a are *)
(* queue_freeze and astray at that moment.  The flag is cleared at the end, *)
(* whether or not a hook has taken it over.                                 *)
NextDrive(i, set, f, a) ==
  LET rest == {d \in set : d >= i} IN
    IF rest # {}
    THEN /\ drv' = CHOOSE d \in rest : \A e \in rest : d <= e
         /\ RunBegin("thread", "drvreset", f) /\ Enter("drvreset") /\ astray' = a
    ELSE /\ flags' = flags \ {"drvreset"} /\ freeze' = f
         /\ astray' = a + Bit("drvreset" \in flags)
         /\ EndTurn(f) /\ UNCHANGED <<extra, drv>>

ServeDrives ==
  /\ Serving /\ "reset" \notin flags /\ "drvreset" \in flags
  /\ NextDrive(0, drvreset, freeze, astray)
  /\ UNCHANGED <<drvreset, xfer, idle, asks>>

(* The hook may clear ATA_DRIVE_TH_RESET, this file never does.             *)
DriveDone ==
  /\ pc["thread"] = "drvreset"
  /\ drvreset' \in {drvreset, drvreset \ {drv}}
  /\ xfer' \in {"none", xfer} /\ Signal
  /\ NextDrive(drv + 1, drvreset', freeze - Thaws("thread"), astray + Orphaned)
  /\ UNCHANGED asks

ServeRecovery ==
  /\ Serving /\ flags \cap {"reset", "drvreset"} = {} /\ "recovery" \in flags
  /\ RunBegin("thread", "recovery", freeze) /\ Enter("recovery")
  /\ UNCHANGED <<drvreset, xfer, idle, drv, asks, astray>>

HookDone ==
  /\ pc["thread"] \in {"reset", "recovery"}
  /\ RunEnd("thread", pc["thread"]) /\ EndTurn(freeze')
  /\ UNCHANGED <<flags, drvreset, extra, drv, asks>>

\* Mutant: scheduled work does not come first.
NothingAskedYet == Serving

NothingAsked == Serving /\ flags \cap Types = {}

(* The caller has bumped queue_freeze: thaw and start its transfer.  The    *)
(* thread has no other sign of that than the two counters.                  *)
ServeXfer ==
  /\ NothingAsked /\ xfer # "none" /\ freeze = 1
  /\ freeze' = 0 /\ xfer' \in {"running", "none"} /\ EndTurn(0)
  /\ astray' = astray - Bit(xfer # "postponed")
  /\ UNCHANGED <<flags, drvreset, idle, extra, drv, asks>>

ServePanic ==
  /\ NothingAsked /\ freeze > 1
  /\ Enter("panic")
  /\ UNCHANGED <<flags, drvreset, freeze, xfer, idle, extra, drv, asks, astray>>

ServeNothing ==
  /\ NothingAsked /\ freeze <= 1 /\ ~(xfer # "none" /\ freeze = 1)
  /\ EndTurn(freeze)
  /\ UNCHANGED <<flags, drvreset, freeze, xfer, idle, extra, drv, asks, astray>>

(* atastart by the thread, for which c_start postpones nothing.             *)
Kick ==
  /\ pc["thread"] = "kick"
  /\ xfer' \in {xfer} \cup IF xfer = "none" /\ freeze = 0
                           THEN Starts \cap {"running"} ELSE {}
  /\ Enter("top")
  /\ UNCHANGED <<flags, drvreset, freeze, idle, extra, drv, asks, astray>>

Thread ==
  \/ Sleep \/ Exit \/ Rescan \/ ServeReset \/ ServeDrives \/ DriveDone
  \/ ServeRecovery \/ HookDone \/ ServeXfer \/ ServePanic \/ ServeNothing \/ Kick

-----------------------------------------------------------------------------
(* Transfers: atastart by anybody else, and completion.                     *)

Submit ==
  /\ Free /\ ~Gone /\ xfer = "none" /\ freeze = 0
  /\ xfer' \in Starts
  /\ IF xfer' = "postponed" THEN freeze' = freeze + 1 /\ Signal
                            ELSE UNCHANGED <<freeze, idle>>
  /\ UNCHANGED <<flags, drvreset, pc, extra, drv, asks, astray>>

Complete ==
  /\ Free /\ xfer = "running" /\ xfer' = "none"
  /\ UNCHANGED <<flags, drvreset, freeze, idle, pc, extra, drv, asks, astray>>

-----------------------------------------------------------------------------
(* The reset ioctl, suspend and resume, rescan, detach.                     *)

IoctlReset ==
  /\ Free /\ "ioctl" \in Users /\ pc["ioctl"] = "idle"
  /\ RunBegin("ioctl", "reset", freeze) /\ Goto("ioctl", "reset")
  /\ UNCHANGED <<drvreset, xfer, idle, drv, asks, astray>>

UserDone(c) ==
  /\ Free /\ pc[c] = "reset"
  /\ RunEnd(c, "reset") /\ Goto(c, "idle")
  /\ UNCHANGED <<flags, drvreset, extra, drv, asks>>

Suspend ==
  /\ Free /\ "pmf" \in Users /\ pc["pmf"] = "idle"
  /\ freeze' = freeze + 1 /\ Goto("pmf", "idlewait")
  /\ UNCHANGED <<flags, drvreset, xfer, idle, extra, drv, asks, astray>>

Suspended ==
  /\ Free /\ pc["pmf"] = "idlewait" /\ xfer = "none"
  /\ Goto("pmf", "suspended")
  /\ UNCHANGED <<flags, drvreset, freeze, xfer, idle, extra, drv, asks, astray>>

(* A channel that is not frozen any more was robbed of the suspension's     *)
(* freeze, and nothing is undone.                                           *)
Resume ==
  /\ Free /\ pc["pmf"] = "suspended"
  /\ IF freeze # 0 /\ NDrives > 0
     THEN RunBegin("pmf", "reset", freeze - 1) /\ Goto("pmf", "reset")
     ELSE freeze' = freeze - Bit(freeze # 0) /\ Goto("pmf", "idle") /\ UNCHANGED <<flags, extra>>
  /\ astray' = astray + Bit(freeze = 0)
  /\ UNCHANGED <<drvreset, xfer, idle, drv, asks>>

(* atabus_rescan is refused while drives are attached.                      *)
RequestRescan ==
  /\ Free /\ "rescan" \in Users /\ ~Gone /\ xfer = "none"
  /\ flags' = flags \cup {"rescan"} /\ Signal
  /\ UNCHANGED <<drvreset, freeze, xfer, pc, extra, drv, asks, astray>>

(* atabus_detach, once the drives are gone.                                 *)
DetachLoop ==
  IF pc["thread"] = "gone"
  THEN Goto("detach", "done") /\ UNCHANGED idle
  ELSE /\ idle' = {"detach"}            \* cv_signal, then cv_wait
       /\ Goto("detach", "wait")

Detach ==
  /\ Free /\ "detach" \in Users /\ pc["detach"] = "idle" /\ xfer = "none"
  /\ flags' = flags \cup {"shutdown"}
  /\ DetachLoop
  /\ UNCHANGED <<drvreset, freeze, xfer, extra, drv, asks, astray>>

DetachWakes ==
  /\ Free /\ pc["detach"] = "wait" /\ "detach" \notin idle
  /\ DetachLoop
  /\ UNCHANGED <<flags, drvreset, freeze, xfer, extra, drv, asks, astray>>

-----------------------------------------------------------------------------
Next ==
  \/ Thread
  \/ Submit \/ Complete
  \/ AskReset \/ AskRecovery \/ \E d \in DriveIds : AskDrive(d)
  \/ IoctlReset \/ Suspend \/ Suspended \/ Resume
  \/ \E c \in {"ioctl", "pmf"} : UserDone(c)
  \/ RequestRescan \/ Detach \/ DetachWakes

Spec == Init /\ [][Next]_vars

(* The thread runs when it can, hooks return, a transfer that runs ends,    *)
(* and the detaching thread goes on.  Nobody has to ask for anything.       *)
Fairness ==
  /\ SF_vars(Thread) /\ WF_vars(Complete)
  /\ \A c \in {"ioctl", "pmf"} : SF_vars(UserDone(c))
  /\ SF_vars(DetachWakes)

FairSpec == Spec /\ Fairness
-----------------------------------------------------------------------------
(* Properties.                                                              *)

(* Types of the flags, the freeze count and the places of the contexts.     *)
TypeOK ==
  /\ flags \subseteq Types \cup {"rescan", "shutdown"}
  /\ drvreset \subseteq DriveIds
  /\ freeze \in Int /\ astray \in Int
  /\ xfer \in {"none", "running", "postponed"}
  /\ idle \subseteq {"thread", "detach"}
  /\ pc \in [Ctx -> {"top", "loop", "asleep", "kick", "panic", "gone", "rescan",
                     "idle", "idlewait", "suspended", "wait", "done"} \cup Types]
  /\ extra \in [Runners -> BOOLEAN]
  /\ drv \in Nat /\ asks \in 0 .. MaxAsks

(* The thread never sleeps with work scheduled to it: no wakeup is lost,    *)
(* however the signals of ch_thr_idle fall between it and a detach, and     *)
(* whoever else runs resets or suspends the channel.                        *)
NoLostWakeup ==
  idle = {"thread"} => flags \cap (Types \cup {"shutdown"}) = {}

In(c) == pc[c] \in Types
Waits == pc["pmf"] \in {"idlewait", "suspended"}

(* Who has a right to a freeze: a scheduled request, a run of               *)
(* ata_thread_run and the request it took over, a postponed transfer, a     *)
(* suspension.                                                              *)
Held ==
  Cardinality(flags \cap Types)
  + Cardinality({c \in Runners : In(c)})
  + Cardinality({c \in Runners : In(c) /\ extra[c]})
  + Bit(xfer = "postponed") + Bit(Waits)

(* queue_freeze is what its holders account for, whoever runs, takes over   *)
(* or kills what, but for what the code itself sends astray: the freeze of  *)
(* a postponed transfer that a hook ends, that of a drive's reset whose     *)
(* flag is cleared unserved, and the one the thread takes from a holder     *)
(* when it restarts a transfer that nobody postponed.                       *)
FreezeCounts == freeze = Held + astray

(* The thread restarts a transfer only if the transfer was postponed to it  *)
(* ("Caller has bumped queue_freeze, decrease it").                         *)
RestartsPostponed == [][ServeXfer => xfer = "postponed"]_vars

(* What misleads the thread, which infers from the two counters that a      *)
(* transfer was postponed, or that something is wrong and it panics: a      *)
(* freeze held by another's reset or by a suspension, or one left behind.   *)
Misled == (ServeXfer /\ xfer # "postponed") \/ ServePanic
OnlyHoldersMislead == [][Misled => In("ioctl") \/ In("pmf") \/ Waits \/ astray > 0]_vars

(* The thread never finds queue_freeze above one with nothing to do.        *)
NoFreezePanic == pc["thread"] # "panic"

Panicked == pc["thread"] = "panic"

(* What is scheduled to the thread is taken up, unless the bus is detached. *)
WorkDone == \A t \in Types : t \in flags ~> t \notin flags \/ "shutdown" \in flags \/ Panicked

(* Once drivers stop asking, the channel thaws ("this will unfreeze the     *)
(* channel", "Allow commands to run again").                                *)
Unfreezes == freeze > 0 ~> freeze = 0 \/ pc["thread"] \in {"panic", "gone"}

(* The shutdown handshake ends: the thread exits and atabus_detach returns. *)
DetachReturns == pc["detach"] = "wait" ~> pc["detach"] = "done" \/ Panicked
=============================================================================
