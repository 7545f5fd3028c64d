--------------------------- MODULE AtaTimeoutProofs ---------------------------
(***************************************************************************)
(* Proofs about AtaTimeout, for any transfers, threads and openings: a     *)
(* structure is freed once, an active transfer has its timeout, and on a   *)
(* channel with one opening the callout handler panics never.              *)
(***************************************************************************)
EXTENDS AtaTimeout, FiniteSetTheorems, TLAPS

-----------------------------------------------------------------------------
(* The inductive invariant.                                                 *)

(* A thread that is not idle owns a transfer, and nobody else does.         *)
Ownership ==
  /\ \A t \in Threads : (own[t] = None) <=> (pc[t] = "idle")
  /\ \A t, u \in Threads : own[t] = own[u] /\ own[t] # None => t = u

(* A transfer in use is owned, is in one place, and is done only when it    *)
(* has left both lists.                                                     *)
Places ==
  /\ queued \cup active \subseteq Owned
  /\ queued \cap active = {}
  /\ done \cap (queued \cup active) = {}
  /\ \A t \in Threads :
       /\ pc[t] = "got" => own[t] \notin done \cup queued \cup active
       /\ pc[t] = "done" => own[t] \in done
  /\ IsFiniteSet(active)

(* The callout is invoking only until its handler has acknowledged it, and  *)
(* what is active then is in the handler's hand; what is marked has ended.  *)
Marks ==
  /\ invoking => phase = "begun" /\ active \subseteq hand
  /\ phase = "none" => hand = {}
  /\ waittimo \subseteq done

(* With one opening a transfer starts only when all that the handler holds  *)
(* has ended and is marked, which is when the callout stops invoking.       *)
OneOpening ==
  openings = 1 =>
    /\ phase = "begun" /\ ~invoking => hand \subseteq waittimo
    /\ phase # "panic"

Inv ==
  /\ TypeOK
  /\ Ownership
  /\ Places
  /\ FreedOnce
  /\ Marks
  /\ TimerRuns
  /\ HandKnown
  /\ OneOpening

(* A structure from the pool is owned by nobody, in no list and not marked. *)
LEMMA GetXferKeeps ==
  ASSUME Inv, NEW t \in Threads, GetXfer(t)
  PROVE  Inv'
<1>. USE DEF Inv
<1>1. PICK x \in Xfers :
        /\ free[x] > 0 /\ free' = [free EXCEPT ![x] = @ - 1]
        /\ own' = [own EXCEPT ![t] = x] /\ pc' = [pc EXCEPT ![t] = "got"]
        /\ done' = done \ {x} /\ waittimo' = waittimo \ {x} /\ cfree' = cfree \ {x}
  BY DEF GetXfer
<1>2. x \notin Owned /\ x \notin cfree /\ free'[x] = 0 /\ own[t] = None /\ x # None
  BY <1>1, NoneAssumption DEF GetXfer, TypeOK, FreedOnce, Ownership
<1>3. Owned' = Owned \cup {x}
  BY <1>1, <1>2 DEF Owned, TypeOK
<1>4. TypeOK'
  BY DEF GetXfer, callout, TypeOK
<1>5. Ownership'
  BY <1>1, <1>2 DEF GetXfer, TypeOK, Ownership, Owned
<1>6. Places'
  BY <1>2, <1>3 DEF GetXfer, Places, Owned
<1>7. FreedOnce'
  BY <1>2, <1>3 DEF GetXfer, callout, FreedOnce
<1>8. Marks'
  BY DEF GetXfer, callout, Marks
<1>9. TimerRuns'
  BY DEF GetXfer, callout, TimerRuns
<1>10. HandKnown'
  BY <1>2 DEF GetXfer, callout, FreedOnce, HandKnown
<1>11. OneOpening'
  BY <1>2 DEF GetXfer, callout, FreedOnce, OneOpening
<1>. QED
  BY <1>4, <1>5, <1>6, <1>7, <1>8, <1>9, <1>10, <1>11

(* A transfer that was got is in no list before it is queued.               *)
LEMMA ExecXferKeeps ==
  ASSUME Inv, NEW t \in Threads, ExecXfer(t)
  PROVE  Inv'
<1>. USE DEF Inv
<1>1. TypeOK'
  BY DEF ExecXfer, callout, TypeOK, Ownership
<1>2. Ownership'
  BY DEF ExecXfer, Ownership
<1>3. Places'
  BY DEF ExecXfer, TypeOK, Ownership, Places, Owned
<1>4. FreedOnce'
  BY DEF ExecXfer, callout, Ownership, FreedOnce, Owned
<1>5. Marks'
  BY DEF ExecXfer, callout, Marks
<1>6. TimerRuns'
  BY DEF ExecXfer, callout, TimerRuns
<1>7. HandKnown'
  BY DEF ExecXfer, callout, HandKnown
<1>8. OneOpening'
  BY DEF ExecXfer, callout, OneOpening
<1>. QED
  BY <1>1, <1>2, <1>3, <1>4, <1>5, <1>6, <1>7, <1>8

(* A started transfer has its timeout; with one opening nothing was active, *)
(* so that whatever the handler holds has ended and is marked.              *)
LEMMA StartXferKeeps ==
  ASSUME Inv, NEW x \in Xfers, StartXfer(x)
  PROVE  Inv'
<1>. USE DEF Inv
<1>1. openings = 1 => active = {}
  <2>1. Cardinality(active) \in Nat
    BY FS_CardinalityType DEF Places
  <2>. QED
    BY <2>1, FS_EmptySet DEF StartXfer, Places
<1>2. active' = active \cup {x} /\ IsFiniteSet(active')
  BY FS_AddElement DEF StartXfer, Alive, thread, Places
<1>3. TypeOK'
  BY DEF StartXfer, thread, TypeOK
<1>4. Ownership'
  BY DEF StartXfer, thread, Ownership
<1>5. Places'
  BY <1>2 DEF StartXfer, thread, Places, Owned
<1>6. FreedOnce'
  BY DEF StartXfer, thread, FreedOnce, Owned
<1>7. Marks'
  BY DEF StartXfer, Marks
<1>8. TimerRuns'
  BY DEF StartXfer, TimerRuns
<1>9. HandKnown'
  BY DEF StartXfer, HandKnown
<1>10. OneOpening'
  BY <1>1 DEF StartXfer, HandKnown, OneOpening
<1>. QED
  BY <1>3, <1>4, <1>5, <1>6, <1>7, <1>8, <1>9, <1>10

(* Looking at AT_DONE changes only where the thread is.                     *)
LEMMA WaitCmdKeeps ==
  ASSUME Inv, NEW t \in Threads, WaitCmd(t)
  PROVE  Inv'
<1>. USE DEF Inv
<1>1. TypeOK'
  BY DEF WaitCmd, xfer, callout, TypeOK
<1>2. Ownership'
  BY DEF WaitCmd, Ownership
<1>3. Places'
  BY DEF WaitCmd, xfer, Places, Owned
<1>4. FreedOnce'
  BY DEF WaitCmd, xfer, callout, FreedOnce, Owned
<1>5. Marks'
  BY DEF WaitCmd, xfer, callout, Marks
<1>6. TimerRuns'
  BY DEF WaitCmd, xfer, callout, TimerRuns
<1>7. HandKnown'
  BY DEF WaitCmd, xfer, callout, HandKnown
<1>8. OneOpening'
  BY DEF WaitCmd, callout, OneOpening
<1>. QED
  BY <1>1, <1>2, <1>3, <1>4, <1>5, <1>6, <1>7, <1>8

(* A transfer whose command is done is in no list: it goes back to the pool,*)
(* or is left to the handler that has it in hand.                           *)
LEMMA FreeDoneKeeps ==
  ASSUME Inv, NEW t \in Threads, FreeDone(t)
  PROVE  Inv'
<1>. USE DEF Inv
<1>1. own[t] \in Xfers /\ own[t] \in Owned /\ Owned' = Owned \ {own[t]}
  BY NoneAssumption DEF FreeDone, TypeOK, Ownership, Owned
<1>2. TypeOK'
  BY <1>1 DEF FreeDone, FreeXfer, xfer, callout, TypeOK, FreedOnce
<1>3. Ownership'
  BY DEF FreeDone, TypeOK, Ownership
<1>4. Places'
  BY <1>1 DEF FreeDone, xfer, TypeOK, Places
<1>5. FreedOnce'
  BY <1>1 DEF FreeDone, FreeXfer, xfer, callout, TypeOK, Ownership, Places, FreedOnce
<1>6. Marks'
  BY DEF FreeDone, xfer, callout, Marks
<1>7. TimerRuns'
  BY DEF FreeDone, xfer, callout, TimerRuns
<1>8. HandKnown'
  BY DEF FreeDone, xfer, callout, HandKnown
<1>9. OneOpening'
  BY DEF FreeDone, callout, OneOpening
<1>. QED
  BY <1>2, <1>3, <1>4, <1>5, <1>6, <1>7, <1>8, <1>9

(* A transfer that ends while the callout is invoking is in the handler's   *)
(* hand and is marked.                                                      *)
LEMMA InterruptKeeps ==
  ASSUME Inv, NEW x \in Xfers, Interrupt(x)
  PROVE  Inv'
<1>. USE DEF Inv
<1>1. active' = active \ {x} /\ IsFiniteSet(active')
  BY FS_RemoveElement DEF Interrupt, End, StopLast, MarkInvoked, WakeWaiters, Places
<1>2. TypeOK'
  BY DEF Interrupt, End, StopLast, MarkInvoked, WakeWaiters, TypeOK
<1>3. Ownership'
  BY DEF Interrupt, End, WakeWaiters, Ownership
<1>4. Places'
  BY <1>1 DEF Interrupt, End, WakeWaiters, Places, Owned
<1>5. FreedOnce'
  BY DEF Interrupt, End, MarkInvoked, FreedOnce, Marks, Owned
<1>6. Marks'
  BY DEF Interrupt, End, MarkInvoked, Marks
<1>7. TimerRuns'
  BY DEF Interrupt, End, StopLast, TimerRuns
<1>8. HandKnown'
  BY DEF Interrupt, End, MarkInvoked, TypeOK, Marks, HandKnown, OneOpening
<1>9. OneOpening'
  BY DEF Interrupt, End, MarkInvoked, OneOpening
<1>. QED
  BY <1>2, <1>3, <1>4, <1>5, <1>6, <1>7, <1>8, <1>9

(* So is every transfer that a reset ends.                                  *)
LEMMA KillActiveKeeps ==
  ASSUME Inv, KillActive
  PROVE  Inv'
<1>. USE DEF Inv
<1>1. active' = {} /\ IsFiniteSet(active')
  BY FS_EmptySet DEF KillActive, End, StopLast, MarkInvoked, WakeWaiters, Places
<1>2. TypeOK'
  BY DEF KillActive, End, StopLast, MarkInvoked, WakeWaiters, TypeOK
<1>3. Ownership'
  BY DEF KillActive, End, WakeWaiters, Ownership
<1>4. Places'
  BY <1>1 DEF KillActive, End, WakeWaiters, Places, Owned
<1>5. FreedOnce'
  BY DEF KillActive, End, MarkInvoked, FreedOnce, Marks, Owned
<1>6. Marks'
  BY DEF KillActive, End, MarkInvoked, Marks
<1>7. TimerRuns'
  BY <1>1 DEF KillActive, TimerRuns
<1>8. HandKnown'
  BY DEF KillActive, End, MarkInvoked, TypeOK, Marks, HandKnown, OneOpening
<1>9. OneOpening'
  BY DEF KillActive, End, MarkInvoked, OneOpening
<1>. QED
  BY <1>2, <1>3, <1>4, <1>5, <1>6, <1>7, <1>8, <1>9

(* The handler that begins holds what is active; the last one held nothing. *)
LEMMA ExpireKeeps ==
  ASSUME Inv, Expire
  PROVE  Inv'
<1>. USE DEF Inv
<1>1. TypeOK'
  BY DEF Expire, thread, xfer, TypeOK
<1>2. Ownership'
  BY DEF Expire, thread, Ownership
<1>3. Places'
  BY DEF Expire, thread, xfer, Places, Owned
<1>4. FreedOnce'
  BY DEF Expire, thread, xfer, FreedOnce, Marks, Owned
<1>5. Marks'
  BY DEF Expire, xfer, Marks
<1>6. TimerRuns'
  BY DEF Expire, xfer, TimerRuns
<1>7. HandKnown'
  BY DEF Expire, xfer, HandKnown
<1>8. OneOpening'
  BY DEF Expire, OneOpening
<1>. QED
  BY <1>1, <1>2, <1>3, <1>4, <1>5, <1>6, <1>7, <1>8

(* What the handler holds is marked or active when it has acknowledged.     *)
LEMMA AcknowledgeKeeps ==
  ASSUME Inv, Acknowledge
  PROVE  Inv'
<1>. USE DEF Inv
<1>1. TypeOK'
  BY DEF Acknowledge, thread, xfer, TypeOK
<1>2. Ownership'
  BY DEF Acknowledge, thread, Ownership
<1>3. Places'
  BY DEF Acknowledge, thread, xfer, Places, Owned
<1>4. FreedOnce'
  BY DEF Acknowledge, thread, xfer, FreedOnce, Owned
<1>5. Marks'
  BY DEF Acknowledge, xfer, Marks
<1>6. TimerRuns'
  BY DEF Acknowledge, xfer, TimerRuns
<1>7. HandKnown'
  BY DEF Acknowledge, xfer, HandKnown
<1>8. OneOpening'
  BY DEF Acknowledge, OneOpening
<1>. QED
  BY <1>1, <1>2, <1>3, <1>4, <1>5, <1>6, <1>7, <1>8

(* A marked transfer is not active, and is freed if its owner has left it.  *)
LEMMA CheckRacedKeeps ==
  ASSUME Inv, NEW x \in Xfers, CheckRaced(x)
  PROVE  Inv'
<1>. USE DEF Inv
<1>1. TypeOK'
  BY DEF CheckRaced, Raced, thread, xfer, TypeOK, FreedOnce
<1>2. Ownership'
  BY DEF CheckRaced, thread, Ownership
<1>3. Places'
  BY DEF CheckRaced, thread, xfer, Places, Owned
<1>4. FreedOnce'
  BY DEF CheckRaced, Raced, thread, xfer, TypeOK, Places, FreedOnce, Owned
<1>5. Marks'
  BY DEF CheckRaced, Raced, xfer, Marks
<1>6. TimerRuns'
  BY DEF CheckRaced, Raced, xfer, Places, Marks, TimerRuns
<1>7. HandKnown'
  BY DEF CheckRaced, Raced, xfer, HandKnown
<1>8. OneOpening'
  BY DEF CheckRaced, OneOpening
<1>. QED
  BY <1>1, <1>2, <1>3, <1>4, <1>5, <1>6, <1>7, <1>8

(* A transfer that the handler ends is not marked, for it is not invoking.  *)
LEMMA CheckTimeoutKeeps ==
  ASSUME Inv, NEW x \in Xfers, CheckTimeout(x)
  PROVE  Inv'
<1>. USE DEF Inv
<1>1. active' = active \ {x} /\ IsFiniteSet(active')
  BY FS_RemoveElement DEF CheckTimeout, End, StopLast, MarkInvoked, WakeWaiters, Places
<1>2. TypeOK'
  BY DEF CheckTimeout, End, StopLast, MarkInvoked, WakeWaiters, TypeOK
<1>3. Ownership'
  BY DEF CheckTimeout, End, WakeWaiters, Ownership
<1>4. Places'
  BY <1>1 DEF CheckTimeout, End, WakeWaiters, Places, Owned
<1>5. FreedOnce'
  BY DEF CheckTimeout, End, MarkInvoked, FreedOnce, Marks, Owned
<1>6. Marks'
  BY DEF CheckTimeout, End, MarkInvoked, Marks
<1>7. TimerRuns'
  BY DEF CheckTimeout, End, StopLast, TimerRuns
<1>8. HandKnown'
  BY DEF CheckTimeout, End, MarkInvoked, HandKnown
<1>9. OneOpening'
  BY DEF CheckTimeout, OneOpening
<1>. QED
  BY <1>2, <1>3, <1>4, <1>5, <1>6, <1>7, <1>8, <1>9

(* With one opening this never happens.                                     *)
LEMMA CheckPanicsKeeps ==
  ASSUME Inv, NEW x \in Xfers, CheckPanics(x)
  PROVE  Inv'
<1>. USE DEF Inv
<1>1. TypeOK'
  BY DEF CheckPanics, thread, xfer, TypeOK
<1>2. Ownership'
  BY DEF CheckPanics, thread, Ownership
<1>3. Places'
  BY DEF CheckPanics, thread, xfer, Places, Owned
<1>4. FreedOnce'
  BY DEF CheckPanics, thread, xfer, FreedOnce, Owned
<1>5. Marks'
  BY DEF CheckPanics, xfer, Marks
<1>6. TimerRuns'
  BY DEF CheckPanics, xfer, TimerRuns
<1>7. HandKnown'
  BY DEF CheckPanics, HandKnown
<1>8. OneOpening'
  BY DEF CheckPanics, HandKnown, OneOpening
<1>. QED
  BY <1>1, <1>2, <1>3, <1>4, <1>5, <1>6, <1>7, <1>8

(* The handler returns with nothing in its hand.                            *)
LEMMA HandlerReturnsKeeps ==
  ASSUME Inv, HandlerReturns
  PROVE  Inv'
<1>. USE DEF Inv
<1>1. TypeOK'
  BY DEF HandlerReturns, thread, xfer, TypeOK
<1>2. Ownership'
  BY DEF HandlerReturns, thread, Ownership
<1>3. Places'
  BY DEF HandlerReturns, thread, xfer, Places, Owned
<1>4. FreedOnce'
  BY DEF HandlerReturns, thread, xfer, FreedOnce, Owned
<1>5. Marks'
  BY DEF HandlerReturns, xfer, Marks
<1>6. TimerRuns'
  BY DEF HandlerReturns, xfer, TimerRuns
<1>7. HandKnown'
  BY DEF HandlerReturns, HandKnown
<1>8. OneOpening'
  BY DEF HandlerReturns, OneOpening
<1>. QED
  BY <1>1, <1>2, <1>3, <1>4, <1>5, <1>6, <1>7, <1>8

-----------------------------------------------------------------------------
(* The channel starts in the invariant, and every step keeps it.            *)

(* An idle channel satisfies the invariant.                                 *)
LEMMA InitKeeps == Init => Inv
<1>. SUFFICES ASSUME Init PROVE Inv
  OBVIOUS
<1>1. Owned = {}
  BY DEF Init, Owned
<1>2. TypeOK
  <2>1. free \in [Xfers -> 0..1]
    BY DEF Init
  <2>2. own \in [Threads -> Xfers \cup {None}]
    BY DEF Init
  <2>3. pc \in [Threads -> {"idle", "got", "wait", "asleep", "done"}]
    BY DEF Init
  <2>. QED
    BY <2>1, <2>2, <2>3 DEF Init, TypeOK
<1>3. Ownership
  BY DEF Init, Ownership
<1>4. Marks /\ TimerRuns /\ HandKnown /\ OneOpening
  BY DEF Init, Marks, TimerRuns, HandKnown, OneOpening
<1>5. Places
  BY <1>1, FS_EmptySet DEF Init, Places
<1>6. FreedOnce
  BY <1>1 DEF Init, FreedOnce
<1>. QED
  BY <1>2, <1>3, <1>4, <1>5, <1>6 DEF Inv

(* Each action, by its lemma, and stuttering.                               *)
LEMMA NextKeeps == Inv /\ [Next]_vars => Inv'
<1>. SUFFICES ASSUME Inv, [Next]_vars PROVE Inv'
  OBVIOUS
<1>1. ASSUME NEW t \in Threads, GetXfer(t) \/ Step(t) PROVE Inv'
  BY <1>1, GetXferKeeps, ExecXferKeeps, WaitCmdKeeps, FreeDoneKeeps DEF Step
<1>2. ASSUME NEW x \in Xfers, StartXfer(x) \/ Interrupt(x) \/ Check(x) PROVE Inv'
  BY <1>2, StartXferKeeps, InterruptKeeps, CheckRacedKeeps, CheckTimeoutKeeps, CheckPanicsKeeps
     DEF Check
<1>3. CASE KillActive \/ Expire \/ Acknowledge \/ HandlerReturns
  BY <1>3, KillActiveKeeps, ExpireKeeps, AcknowledgeKeeps, HandlerReturnsKeeps
<1>4. CASE UNCHANGED vars
  BY <1>4 DEF Inv, TypeOK, Ownership, Places, FreedOnce, Marks, TimerRuns, HandKnown,
              OneOpening, Owned, vars, thread, xfer, callout
<1>. QED
  BY <1>1, <1>2, <1>3, <1>4 DEF Next

(* The invariant holds always.                                              *)
THEOREM TimeoutInv == Spec => []Inv
<1>. QED
  BY InitKeeps, NextKeeps, PTL DEF Spec

-----------------------------------------------------------------------------
(* Every variable keeps its type; in particular no structure is in the pool *)
(* twice (pool_put in ata_free_xfer and ata_timo_xfer_check).               *)
THEOREM TimeoutTypes == Spec => []TypeOK
<1>1. Inv => TypeOK
  BY DEF Inv
<1>. QED
  BY <1>1, TimeoutInv, PTL

(* C_WAITTIMO and C_FREE decide who gives a transfer back: exactly one.     *)
THEOREM FreedExactlyOnce == Spec => []FreedOnce
<1>1. Inv => FreedOnce
  BY DEF Inv
<1>. QED
  BY <1>1, TimeoutInv, PTL

(* An active transfer has its timeout scheduled or is in the handler's      *)
(* hand, whatever was stopped and started on the channel.                   *)
THEOREM ActiveIsTimed == Spec => []TimerRuns
<1>1. Inv => TimerRuns
  BY DEF Inv
<1>. QED
  BY <1>1, TimeoutInv, PTL

(* With one opening the handler knows what has become of all it holds.      *)
THEOREM HandIsKnown == Spec => []HandKnown
<1>1. Inv => HandKnown
  BY DEF Inv
<1>. QED
  BY <1>1, TimeoutInv, PTL

(* With one opening the assertion of ata_deactivate_xfer that the transfer  *)
(* is active never fails in the callout handler.                            *)
THEOREM OneOpeningNoPanic == Spec => [](openings = 1 => Alive)
<1>1. Inv => (openings = 1 => Alive)
  BY DEF Inv, OneOpening, Alive
<1>. QED
  BY <1>1, TimeoutInv, PTL
===============================================================================
