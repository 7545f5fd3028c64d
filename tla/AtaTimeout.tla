----------------------------- MODULE AtaTimeout -----------------------------
(***************************************************************************)
(* The life of an ATA transfer (struct ata_xfer), from ata_get_xfer to     *)
(* ata_free_xfer, against the one timeout callout of its channel           *)
(* (ch.c_timo_callout).  Queueing is AtaQueue's subject: here a transfer   *)
(* waits in a set until one of the channel's openings is free.             *)
(*                                                                         *)
(* Outside the repository, and modelled from how ata.c uses it:            *)
(*  - callout(9): a start of a transfer (the driver's c_start hook) resets *)
(*    the callout, which makes it pending and no longer invoking; it       *)
(*    expires while pending and is then invoking until callout_ack;        *)
(*    callout_stop takes back what is pending only;                        *)
(*  - the callout handler: it holds the transfers that were active when    *)
(*    the callout expired, raises the interrupt level, acknowledges, and   *)
(*    asks ata_timo_xfer_check about each before it ends it;               *)
(*  - an interrupt handler runs to its end: deactivation, AT_DONE, the     *)
(*    start of the next transfer.                                          *)
(***************************************************************************)
EXTENDS Integers, FiniteSets

CONSTANTS
  Xfers,      \* the transfer structures of ata_xfer_pool
  Threads,    \* the threads that issue commands and wait for them
  Openings,   \* the numbers of openings a channel may have
  None        \* no transfer

ASSUME OpeningsAssumption == Openings \subseteq Nat \ {0}
ASSUME NoneAssumption == None \notin Xfers

VARIABLES
  openings,   \* ch_queue->queue_openings, given by the controller driver
  free,       \* how often each structure is in ata_xfer_pool
  own,        \* the transfer of each thread
  pc,         \* where each thread is
  queued,     \* queue_xfer
  active,     \* active_xfers
  done,       \* transfers whose command has AT_DONE
  waittimo,   \* transfers with C_WAITTIMO
  cfree,      \* transfers with C_FREE
  pending,    \* c_timo_callout is scheduled
  invoking,   \* callout_invoking(&c_timo_callout)
  phase,      \* the callout handler: "none", "begun", "timing" or "panic"
  hand        \* the transfers the handler has yet to look at

thread == <<own, pc>>
xfer == <<queued, active, done>>
callout == <<pending, invoking, phase, hand>>
vars == <<openings, free, thread, xfer, waittimo, cfree, callout>>

Init ==
  /\ openings \in Openings
  /\ free = [x \in Xfers |-> 1]
  /\ own = [t \in Threads |-> None] /\ pc = [t \in Threads |-> "idle"]
  /\ queued = {} /\ active = {} /\ done = {}
  /\ waittimo = {} /\ cfree = {}
  /\ pending = FALSE /\ invoking = FALSE /\ phase = "none" /\ hand = {}

Alive == phase # "panic"

-----------------------------------------------------------------------------
(* What several operations do.                                             *)

\* Mutant: the callout is stopped whenever a transfer ends.
StopAlways(X) == pending' = FALSE

(* ata_deactivate_xfer: only the last active transfer stops the callout.    *)
StopLast(X) == pending' = (pending /\ active \ X # {})

\* Mutant: a callout that is about to run is not noticed.
MarkNone(X) == UNCHANGED waittimo

MarkInvoked(X) == waittimo' = waittimo \cup (IF invoking THEN X ELSE {})

\* Mutant: the end of a command is not broadcast.
WakeNobody(X) == UNCHANGED pc

(* cv_broadcast(&chq->c_cmd_finish)                                         *)
WakeWaiters(X) == pc' = [t \in Threads |-> IF pc[t] = "asleep" THEN "wait" ELSE pc[t]]

(* The transfers of X leave the active list and their commands are done.    *)
End(X) ==
  /\ StopLast(X) /\ MarkInvoked(X)
  /\ active' = active \ X
  /\ done' = done \cup X
  /\ WakeWaiters(X)

\* Mutant: a transfer the callout handler holds goes back to the pool.
FreeAtOnce(x) == free' = [free EXCEPT ![x] = @ + 1] /\ UNCHANGED cfree

(* ata_free_xfer *)
FreeXfer(x) ==
  IF x \in waittimo THEN cfree' = cfree \cup {x} /\ UNCHANGED free
                    ELSE free' = [free EXCEPT ![x] = @ + 1] /\ UNCHANGED cfree

-----------------------------------------------------------------------------
(* A thread issues a command and waits for it, as ata_get_params does.      *)

(* ata_get_xfer: pool_get with PR_ZERO.                                     *)
GetXfer(t) ==
  /\ Alive /\ pc[t] = "idle"
  /\ \E x \in Xfers :
       /\ free[x] > 0 /\ free' = [free EXCEPT ![x] = @ - 1]
       /\ own' = [own EXCEPT ![t] = x] /\ pc' = [pc EXCEPT ![t] = "got"]
       /\ done' = done \ {x} /\ waittimo' = waittimo \ {x} /\ cfree' = cfree \ {x}
  /\ UNCHANGED <<openings, queued, active, callout>>

(* ata_exec_xfer queues; atastart follows.                                  *)
ExecXfer(t) ==
  /\ Alive /\ pc[t] = "got"
  /\ queued' = queued \cup {own[t]} /\ pc' = [pc EXCEPT ![t] = "wait"]
  /\ UNCHANGED <<openings, free, own, active, done, waittimo, cfree, callout>>

(* atastart, ata_activate_xfer_locked and the driver's hook.                *)
StartXfer(x) ==
  /\ Alive /\ x \in queued /\ Cardinality(active) < openings
  /\ queued' = queued \ {x} /\ active' = active \cup {x}
  /\ pending' = TRUE /\ invoking' = FALSE
  /\ UNCHANGED <<openings, free, thread, done, waittimo, cfree, phase, hand>>

(* ata_wait_cmd *)
WaitCmd(t) ==
  /\ Alive /\ pc[t] = "wait"
  /\ pc' = [pc EXCEPT ![t] = IF own[t] \in done THEN "done" ELSE "asleep"]
  /\ UNCHANGED <<openings, free, own, xfer, waittimo, cfree, callout>>

(* The caller frees the transfer when it has looked at the outcome.         *)
FreeDone(t) ==
  /\ Alive /\ pc[t] = "done"
  /\ FreeXfer(own[t])
  /\ own' = [own EXCEPT ![t] = None] /\ pc' = [pc EXCEPT ![t] = "idle"]
  /\ UNCHANGED <<openings, xfer, waittimo, callout>>

-----------------------------------------------------------------------------
(* Transfers end: by interrupt, or killed by a reset.  Neither happens      *)
(* while the callout handler has raised the interrupt level.                *)

Interrupt(x) ==
  /\ phase \notin {"timing", "panic"} /\ x \in active
  /\ End({x})
  /\ UNCHANGED <<openings, free, own, queued, cfree, invoking, phase, hand>>

KillActive ==
  /\ phase \notin {"timing", "panic"} /\ active # {}
  /\ End(active)
  /\ UNCHANGED <<openings, free, own, queued, cfree, invoking, phase, hand>>

-----------------------------------------------------------------------------
(* The callout.                                                             *)

Expire ==
  /\ phase = "none" /\ pending
  /\ pending' = FALSE /\ invoking' = TRUE
  /\ phase' = "begun" /\ hand' = active
  /\ UNCHANGED <<openings, free, thread, xfer, waittimo, cfree>>

Acknowledge ==
  /\ phase = "begun"
  /\ invoking' = FALSE /\ phase' = "timing"
  /\ UNCHANGED <<openings, free, thread, xfer, waittimo, cfree, pending, hand>>

(* ata_timo_xfer_check returns true: the transfer ended, and may have been  *)
(* freed, after the callout had expired.                                    *)
Raced(x) ==
  /\ x \in waittimo /\ waittimo' = waittimo \ {x} /\ hand' = hand \ {x}
  /\ IF x \in cfree
     THEN cfree' = cfree \ {x} /\ free' = [free EXCEPT ![x] = @ + 1]
     ELSE UNCHANGED <<free, cfree>>

CheckRaced(x) ==
  /\ phase = "timing" /\ x \in hand /\ Raced(x)
  /\ UNCHANGED <<openings, thread, xfer, pending, invoking, phase>>

(* It returns false: the driver ends the transfer, whose deactivation       *)
(* asserts that it is active.                                               *)
CheckTimeout(x) ==
  /\ phase = "timing" /\ x \in hand \ waittimo /\ x \in active
  /\ End({x}) /\ hand' = hand \ {x}
  /\ UNCHANGED <<openings, free, own, queued, cfree, invoking, phase>>

CheckPanics(x) ==
  /\ phase = "timing" /\ x \in (hand \ waittimo) \ active
  /\ phase' = "panic"
  /\ UNCHANGED <<openings, free, thread, xfer, waittimo, cfree, pending, invoking, hand>>

HandlerReturns ==
  /\ phase = "timing" /\ hand = {}
  /\ phase' = "none"
  /\ UNCHANGED <<openings, free, thread, xfer, waittimo, cfree, pending, invoking, hand>>

Check(x) == CheckRaced(x) \/ CheckTimeout(x) \/ CheckPanics(x)
Step(t) == ExecXfer(t) \/ WaitCmd(t) \/ FreeDone(t)

Next ==
  \/ \E t \in Threads : GetXfer(t) \/ Step(t)
  \/ \E x \in Xfers : StartXfer(x) \/ Interrupt(x) \/ Check(x)
  \/ KillActive \/ Expire \/ Acknowledge \/ HandlerReturns

(* Threads and softclock run, a pending callout expires; nothing says that  *)
(* a device ever interrupts.                                                *)
Fairness ==
  /\ \A t \in Threads : WF_vars(Step(t))
  /\ \A x \in Xfers : SF_vars(StartXfer(x)) /\ WF_vars(Check(x))
  /\ WF_vars(Expire) /\ WF_vars(Acknowledge) /\ WF_vars(HandlerReturns)

Spec == Init /\ [][Next]_vars /\ Fairness

-----------------------------------------------------------------------------
TypeOK ==
  /\ openings \in Openings
  /\ free \in [Xfers -> 0..1]
  /\ own \in [Threads -> Xfers \cup {None}]
  /\ pc \in [Threads -> {"idle", "got", "wait", "asleep", "done"}]
  /\ queued \subseteq Xfers /\ active \subseteq Xfers /\ done \subseteq Xfers
  /\ waittimo \subseteq Xfers /\ cfree \subseteq Xfers /\ hand \subseteq Xfers
  /\ pending \in BOOLEAN /\ invoking \in BOOLEAN
  /\ phase \in {"none", "begun", "timing", "panic"}

Owned == {own[t] : t \in Threads} \ {None}

(* ata_free_xfer and ata_timo_xfer_check between them give every structure  *)
(* back exactly once: it is in the pool, or a thread holds it, or the       *)
(* callout handler will free it, and never two of these.  A structure in    *)
(* the pool is in no list and bears no mark; one on which C_WAITTIMO defers *)
(* the free is in the hand of the handler that will clear it.               *)
FreedOnce ==
  /\ \A x \in Xfers :
       /\ free[x] + (IF x \in Owned THEN 1 ELSE 0) + (IF x \in cfree THEN 1 ELSE 0) = 1
       /\ free[x] = 1 => x \notin queued \cup active \cup waittimo
  /\ cfree \subseteq waittimo /\ waittimo \subseteq hand

(* On a channel with one opening, as the port's controller has, the handler *)
(* never ends a transfer that ended before: what it holds is active still   *)
(* or marked.  With more openings the start of another transfer clears the  *)
(* invoking state, and a transfer that ends after it is not marked.         *)
HandKnown == openings = 1 => hand \subseteq active \cup waittimo

(* While a transfer is active its timeout is scheduled, or is being served  *)
(* and has it in hand: stopping the callout with the last transfer only     *)
(* leaves none without a timeout.                                           *)
TimerRuns == active # {} => pending \/ active \subseteq hand

(* On such a channel every thread that waits for a command gets on, even    *)
(* if the device never interrupts again.                                    *)
CommandReturns ==
  \A t \in Threads : (openings = 1 /\ pc[t] = "wait") ~> pc[t] = "idle"
=============================================================================
