--------------------------- MODULE AtaThreadProofs ---------------------------
(***************************************************************************)
(* Theorems about AtaThread, for any number of drives, any bound on what   *)
(* drivers schedule and any of the users.                                  *)
(*                                                                         *)
(* NoLostWakeup rests on WakeInv: the thread sleeps only while no flag     *)
(* asks for it, because every context that sets one also signals, and the  *)
(* thread looks at the flags under the lock that it sleeps with.  It needs *)
(* no assumption.                                                          *)
(*                                                                         *)
(* The others rest on CountInv: queue_freeze is the sum of the accounts of *)
(* those who hold it, and of what went astray.  An account moves when      *)
(* ata_thread_run takes a request over (threset), and disappears with the  *)
(* transfer or the flag it is about, which is where the code loses count.  *)
(***************************************************************************)
EXTENDS AtaThread, ListLemmas, FiniteSetTheorems

(* A set that one element may have joined.                                   *)
LEMMA CountMore ==
  ASSUME NEW S, NEW T, NEW x, IsFiniteSet(S), x \notin S, T = S \/ T = S \cup {x}
  PROVE  /\ IsFiniteSet(T)
         /\ Cardinality(T) = Cardinality(S) + Bit(x \in T)
<1>1. CASE T = S
  BY <1>1, FS_CardinalityType DEF Bit
<1>2. CASE T = S \cup {x}
  BY <1>2, FS_AddElement DEF Bit
<1>. QED
  BY <1>1, <1>2

(* The size of a set of at most three, as a sum.                             *)
LEMMA CountThree ==
  ASSUME NEW a, NEW b, NEW c, a # b, b # c, a # c, NEW S, S \subseteq {a, b, c}
  PROVE  Cardinality(S) = Bit(a \in S) + Bit(b \in S) + Bit(c \in S)
<1>1. IsFiniteSet({}) /\ Cardinality({}) = 0
  BY FS_EmptySet
<1>. DEFINE A == S \cap {a}  B == S \cap {a, b}
<1>2. a \notin {} /\ (A = {} \/ A = {} \cup {a}) /\ (a \in A <=> a \in S)
      /\ b \notin A /\ (B = A \/ B = A \cup {b}) /\ (b \in B <=> b \in S)
      /\ c \notin B /\ (S = B \/ S = B \cup {c})
  OBVIOUS
<1>. HIDE DEF A, B
<1>3. IsFiniteSet(A) /\ Cardinality(A) = Cardinality({}) + Bit(a \in A)
  BY <1>1, <1>2, CountMore
<1>4. IsFiniteSet(B) /\ Cardinality(B) = Cardinality(A) + Bit(b \in B)
  BY <1>2, <1>3, CountMore
<1>5. Cardinality(S) = Cardinality(B) + Bit(c \in S)
  BY <1>2, <1>4, CountMore
<1>. QED
  BY <1>1, <1>2, <1>3, <1>4, <1>5 DEF Bit

(* Who holds queue_freeze up: each scheduled request, each run of            *)
(* ata_thread_run and the request it took over, a transfer left to the       *)
(* thread, a suspension.                                                     *)
Accounts ==
    Bit("reset" \in flags) + Bit("drvreset" \in flags) + Bit("recovery" \in flags)
  + Bit(In("thread")) + Bit(In("ioctl")) + Bit(In("pmf"))
  + Bit(In("thread") /\ extra["thread"]) + Bit(In("ioctl") /\ extra["ioctl"])
  + Bit(In("pmf") /\ extra["pmf"])
  + Bit(xfer = "postponed") + Bit(Waits)

(* The model's count of the holders is this sum.                             *)
LEMMA HeldIsAccounts == Held = Accounts
<1>1. Cardinality(flags \cap Types)
        = Bit("reset" \in flags) + Bit("drvreset" \in flags) + Bit("recovery" \in flags)
  <2>. DEFINE S == flags \cap Types
  <2>0. S \subseteq {"reset", "drvreset", "recovery"}
    BY DEF Types
  <2>1. ("reset" \in S <=> "reset" \in flags) /\ ("drvreset" \in S <=> "drvreset" \in flags)
        /\ ("recovery" \in S <=> "recovery" \in flags)
    BY DEF Types
  <2>. HIDE DEF S
  <2>2. Cardinality(S) = Bit("reset" \in S) + Bit("drvreset" \in S) + Bit("recovery" \in S)
    BY <2>0, CountThree DEF Bit
  <2>. QED
    BY <2>1, <2>2 DEF S
<1>2. Cardinality({c \in Runners : In(c)}) = Bit(In("thread")) + Bit(In("ioctl")) + Bit(In("pmf"))
  <2>. DEFINE S == {c \in Runners : In(c)}
  <2>0. S \subseteq {"thread", "ioctl", "pmf"}
    BY DEF Runners
  <2>1. ("thread" \in S <=> In("thread")) /\ ("ioctl" \in S <=> In("ioctl"))
        /\ ("pmf" \in S <=> In("pmf"))
    BY DEF Runners
  <2>. HIDE DEF S
  <2>2. Cardinality(S) = Bit("thread" \in S) + Bit("ioctl" \in S) + Bit("pmf" \in S)
    BY <2>0, CountThree DEF Bit
  <2>. QED
    BY <2>1, <2>2 DEF S, Bit
<1>3. Cardinality({c \in Runners : In(c) /\ extra[c]})
        = Bit(In("thread") /\ extra["thread"]) + Bit(In("ioctl") /\ extra["ioctl"])
          + Bit(In("pmf") /\ extra["pmf"])
  <2>. DEFINE S == {c \in Runners : In(c) /\ extra[c]}
  <2>0. S \subseteq {"thread", "ioctl", "pmf"}
    BY DEF Runners
  <2>1. ("thread" \in S <=> In("thread") /\ extra["thread"])
        /\ ("ioctl" \in S <=> In("ioctl") /\ extra["ioctl"])
        /\ ("pmf" \in S <=> In("pmf") /\ extra["pmf"])
    BY DEF Runners
  <2>. HIDE DEF S
  <2>2. Cardinality(S) = Bit("thread" \in S) + Bit("ioctl" \in S) + Bit("pmf" \in S)
    BY <2>0, CountThree DEF Bit
  <2>. QED
    BY <2>1, <2>2 DEF S
<1>4. xfer = "postponed" \/ xfer # "postponed"
  OBVIOUS
<1>. QED
  BY <1>1, <1>2, <1>3 DEF Held, Accounts, Bit

(* Where a context can be.                                                   *)
Labels == {"top", "loop", "asleep", "kick", "panic", "gone", "rescan",
           "idle", "idlewait", "suspended", "wait", "done"} \cup Types

(* What every variable can be, freeze apart.                                 *)
Kinds ==
  /\ flags \subseteq Types \cup {"rescan", "shutdown"}
  /\ drvreset \subseteq DriveIds
  /\ xfer \in {"none", "running", "postponed"}
  /\ idle \subseteq {"thread", "detach"}
  /\ pc \in [Ctx -> Labels]
  /\ extra \in [Runners -> BOOLEAN]
  /\ drv \in Nat /\ asks \in 0 .. MaxAsks

(* The thread sleeps on ch_thr_idle only while nothing asks for it, and      *)
(* another context only after it has asked for the shutdown.                 *)
Sleepers ==
  /\ "thread" \in idle =>
       pc["thread"] = "asleep" /\ flags \cap (Types \cup {"shutdown"}) = {}
  /\ "detach" \in idle \/ pc["detach"] # "idle" => "shutdown" \in flags

(* What excludes a lost wakeup.                                              *)
WakeInv == Kinds /\ Sleepers

(* The loop over drives counts up.                                           *)
LEMMA DrivesAreNaturals == DriveIds \subseteq Nat
  BY DEF DriveIds

(* A turn of the loop over drives ends in the hook, for a drive not before   *)
(* i, or leaves the loop.                                                    *)
LEMMA NextDriveKinds ==
  ASSUME Kinds, NEW i \in Nat, NEW set \in SUBSET DriveIds, NEW f, NEW a,
         NextDrive(i, set, f, a)
  PROVE  /\ drv' \in Nat /\ flags' \subseteq flags
         /\ extra' \in [Runners -> BOOLEAN]
         /\ \E l \in {"drvreset", "kick", "loop"} : pc' = [pc EXCEPT !["thread"] = l]
         /\ pc'["thread"] = "drvreset" => drv' \in set /\ drv' >= i
<1>. DEFINE rest == {d \in set : d >= i}
<1>1. CASE rest # {}
  <2>. DEFINE m == CHOOSE d \in rest : \A e \in rest : d <= e
  <2>1. m \in rest
    <3>1. rest \subseteq Nat
      BY DrivesAreNaturals
    <3>2. \E d \in rest : \A e \in rest : d <= e
      BY <1>1, <3>1, Least
    <3>. QED
      BY <3>2
  <2>2. drv' = m /\ RunBegin("thread", "drvreset", f) /\ Enter("drvreset")
    BY <1>1 DEF NextDrive
  <2>3. m \in set /\ m \in Nat /\ m >= i
    BY <2>1, DrivesAreNaturals
  <2>. HIDE DEF m, rest
  <2>. QED
    BY <2>2, <2>3 DEF RunBegin, Enter, Goto, Kinds, Runners
<1>2. CASE rest = {}
  <2>1. /\ flags' = flags \ {"drvreset"} /\ EndTurn(f) /\ UNCHANGED <<extra, drv>>
    BY <1>2 DEF NextDrive
  <2>. QED
    BY <2>1 DEF EndTurn, Enter, Goto, Kinds, Runners, Ctx
<1>. QED
  BY <1>1, <1>2

(* Scheduling to the thread sets one flag and wakes at most one sleeper; the *)
(* only sleeper is woken.                                                    *)
LEMMA AskKinds ==
  ASSUME Kinds, NEW t \in Types, Ask(t)
  PROVE  /\ asks' \in 0 .. MaxAsks /\ flags' = flags \cup {t} /\ idle' \subseteq idle
         /\ \A c \in idle : idle' # {} => idle # {c}
<1>1. asks' \in 0 .. MaxAsks
  BY ThreadAssumption DEF Ask, Kinds
<1>2. flags' = flags \cup {t}
  BY DEF Ask
<1>3. idle' \subseteq idle /\ \A c \in idle : idle' # {} => idle # {c}
  BY DEF Ask, Signal
<1>. QED
  BY <1>1, <1>2, <1>3

(* The thread goes to sleep only when nothing asks for it.                   *)
LEMMA SleepWake ==
  ASSUME WakeInv, Sleep
  PROVE  WakeInv'
<1>. USE DEF WakeInv
<1>1. Kinds'
  <2>1. pc' \in [Ctx -> Labels]
    BY DEF Sleep, Enter, Goto, Kinds, Labels
  <2>2. flags' \subseteq Types \cup {"rescan", "shutdown"} /\ extra' \in [Runners -> BOOLEAN]
    BY DEF Sleep, Kinds
  <2>3. idle' \subseteq {"thread", "detach"}
    BY DEF Sleep, Kinds
  <2>. QED
    BY <2>1 DEF Sleep, Kinds
<1>2. Sleepers'
  BY DEF Sleep, MustSleep, Enter, Goto, Kinds, Sleepers, Runners, Ctx
<1>. QED
  BY <1>1, <1>2

(* The thread that leaves is not asleep.                                     *)
LEMMA ExitWake ==
  ASSUME WakeInv, Exit
  PROVE  WakeInv'
<1>. USE DEF WakeInv
<1>1. Kinds'
  <2>1. pc' \in [Ctx -> Labels]
    BY DEF Exit, Enter, Goto, Kinds, Labels
  <2>2. flags' \subseteq Types \cup {"rescan", "shutdown"} /\ extra' \in [Runners -> BOOLEAN]
    BY DEF Exit, Kinds
  <2>3. idle' \subseteq {"thread", "detach"}
    BY DEF Exit, Signal, Kinds
  <2>. QED
    BY <2>1, <2>3 DEF Exit, Kinds
<1>2. Sleepers'
  BY DEF Exit, Signal, Sleepers
<1>. QED
  BY <1>1, <1>2

(* A thread at work is not asleep, whatever it clears.                       *)
LEMMA RescanWake ==
  ASSUME WakeInv, Rescan
  PROVE  WakeInv'
<1>. USE DEF WakeInv
<1>1. Kinds'
  <2>1. pc' \in [Ctx -> Labels]
    BY DEF Rescan, Enter, Goto, Kinds, Labels
  <2>2. flags' \subseteq Types \cup {"rescan", "shutdown"} /\ extra' \in [Runners -> BOOLEAN]
    BY DEF Rescan, Kinds
  <2>3. idle' \subseteq {"thread", "detach"}
    BY DEF Rescan, Kinds
  <2>. QED
    BY <2>1 DEF Rescan, Kinds
<1>2. Sleepers'
  BY DEF Rescan, Awake, AtTop, Enter, Goto, Sleepers
<1>. QED
  BY <1>1, <1>2

(* A thread at work is not asleep.                                           *)
LEMMA ServeResetWake ==
  ASSUME WakeInv, ServeReset
  PROVE  WakeInv'
<1>. USE DEF WakeInv
<1>1. Kinds'
  <2>1. pc' \in [Ctx -> Labels]
    BY DEF ServeReset, Enter, Goto, Kinds, Labels
  <2>2. flags' \subseteq Types \cup {"rescan", "shutdown"} /\ extra' \in [Runners -> BOOLEAN]
    BY DEF ServeReset, RunBegin, Kinds
  <2>3. idle' \subseteq {"thread", "detach"}
    BY DEF ServeReset, Kinds
  <2>. QED
    BY <2>1, <2>2 DEF ServeReset, Kinds
<1>2. Sleepers'
  BY DEF ServeReset, Serving, Awake, AtTop, RunBegin, Enter, Goto, Sleepers
<1>. QED
  BY <1>1, <1>2

(* A thread at work is not asleep.                                           *)
LEMMA ServeDrivesWake ==
  ASSUME WakeInv, ServeDrives
  PROVE  WakeInv'
<1>. USE DEF WakeInv
<1>0. Kinds /\ drvreset \in SUBSET DriveIds /\ 0 \in Nat
      /\ NextDrive(0, drvreset, freeze, astray)
  BY DEF ServeDrives, Kinds
<1>1. /\ drv' \in Nat /\ flags' \subseteq flags /\ extra' \in [Runners -> BOOLEAN]
      /\ \E l \in {"drvreset", "kick", "loop"} : pc' = [pc EXCEPT !["thread"] = l]
  BY <1>0, NextDriveKinds
<1>2. Kinds'
  BY <1>1 DEF ServeDrives, Kinds, Labels
<1>3. Sleepers'
  BY DEF ServeDrives, NextDrive, RunBegin, EndTurn, Enter, Goto, Kinds, Sleepers, Ctx
<1>. QED
  BY <1>2, <1>3

(* A thread at work is not asleep.                                           *)
LEMMA DriveDoneWake ==
  ASSUME WakeInv, DriveDone
  PROVE  WakeInv'
<1>. USE DEF WakeInv
<1>0. Kinds /\ drvreset' \in SUBSET DriveIds /\ drv + 1 \in Nat
      /\ NextDrive(drv + 1, drvreset', freeze - Thaws("thread"), astray + Orphaned)
  BY DEF DriveDone, Kinds
<1>1. /\ drv' \in Nat /\ flags' \subseteq flags /\ extra' \in [Runners -> BOOLEAN]
      /\ \E l \in {"drvreset", "kick", "loop"} : pc' = [pc EXCEPT !["thread"] = l]
  BY <1>0, NextDriveKinds
<1>2. Kinds'
  <2>1. /\ drvreset' \in SUBSET DriveIds /\ idle' \subseteq idle
        /\ xfer' \in {"none", xfer} /\ asks' = asks
    BY <1>0 DEF DriveDone, Signal
  <2>2. pc' \in [Ctx -> Labels]
    <3>1. PICK l \in {"drvreset", "kick", "loop"} : pc' = [pc EXCEPT !["thread"] = l]
      BY <1>1
    <3>2. l \in Labels
      BY DEF Labels, Types
    <3>3. pc \in [Ctx -> Labels]
      BY <1>0 DEF Kinds
    <3>. QED
      BY <3>1, <3>2, <3>3
  <2>. QED
    BY <1>0, <1>1, <2>1, <2>2 DEF Kinds
<1>3. Sleepers'
  BY DEF DriveDone, NextDrive, RunBegin, EndTurn, Enter, Goto, Signal, Kinds, Sleepers,
     Ctx
<1>. QED
  BY <1>2, <1>3

(* A thread at work is not asleep.                                           *)
LEMMA ServeRecoveryWake ==
  ASSUME WakeInv, ServeRecovery
  PROVE  WakeInv'
<1>. USE DEF WakeInv
<1>1. Kinds'
  <2>1. pc' \in [Ctx -> Labels]
    BY DEF ServeRecovery, Enter, Goto, Kinds, Labels
  <2>2. flags' \subseteq Types \cup {"rescan", "shutdown"} /\ extra' \in [Runners -> BOOLEAN]
    BY DEF ServeRecovery, RunBegin, Kinds
  <2>3. idle' \subseteq {"thread", "detach"}
    BY DEF ServeRecovery, Kinds
  <2>. QED
    BY <2>1, <2>2 DEF ServeRecovery, Kinds
<1>2. Sleepers'
  BY DEF ServeRecovery, Serving, Awake, AtTop, RunBegin, Enter, Goto, Sleepers
<1>. QED
  BY <1>1, <1>2

(* A hook that returns wakes, if anybody, a sleeper.                         *)
LEMMA HookDoneWake ==
  ASSUME WakeInv, HookDone
  PROVE  WakeInv'
<1>. USE DEF WakeInv
<1>1. Kinds'
  <2>1. pc' \in [Ctx -> Labels]
    BY DEF HookDone, EndTurn, Enter, Goto, Kinds, Labels
  <2>2. flags' \subseteq Types \cup {"rescan", "shutdown"} /\ extra' \in [Runners -> BOOLEAN]
    BY DEF HookDone, Kinds
  <2>3. idle' \subseteq {"thread", "detach"}
    BY DEF HookDone, RunEnd, Signal, Kinds
  <2>. QED
    BY <2>1, <2>3 DEF HookDone, RunEnd, Kinds
<1>2. Sleepers'
  BY DEF HookDone, RunEnd, Signal, EndTurn, Enter, Goto, Sleepers
<1>. QED
  BY <1>1, <1>2

(* A thread at work is not asleep.                                           *)
LEMMA ServeXferWake ==
  ASSUME WakeInv, ServeXfer
  PROVE  WakeInv'
<1>. USE DEF WakeInv
<1>1. Kinds'
  <2>1. pc' \in [Ctx -> Labels]
    BY DEF ServeXfer, EndTurn, Enter, Goto, Kinds, Labels
  <2>2. flags' \subseteq Types \cup {"rescan", "shutdown"} /\ extra' \in [Runners -> BOOLEAN]
    BY DEF ServeXfer, Kinds
  <2>3. idle' \subseteq {"thread", "detach"}
    BY DEF ServeXfer, Kinds
  <2>. QED
    BY <2>1 DEF ServeXfer, Kinds
<1>2. Sleepers'
  BY DEF ServeXfer, NothingAsked, Serving, Awake, AtTop, EndTurn, Enter, Goto, Sleepers
<1>. QED
  BY <1>1, <1>2

(* A thread that panics is not asleep.                                       *)
LEMMA ServePanicWake ==
  ASSUME WakeInv, ServePanic
  PROVE  WakeInv'
<1>. USE DEF WakeInv
<1>1. Kinds'
  <2>1. pc' \in [Ctx -> Labels]
    BY DEF ServePanic, Enter, Goto, Kinds, Labels
  <2>2. flags' \subseteq Types \cup {"rescan", "shutdown"} /\ extra' \in [Runners -> BOOLEAN]
    BY DEF ServePanic, Kinds
  <2>3. idle' \subseteq {"thread", "detach"}
    BY DEF ServePanic, Kinds
  <2>. QED
    BY <2>1 DEF ServePanic, Kinds
<1>2. Sleepers'
  BY DEF ServePanic, NothingAsked, Serving, Awake, AtTop, Enter, Goto, Sleepers
<1>. QED
  BY <1>1, <1>2

(* A thread at work is not asleep.                                           *)
LEMMA ServeNothingWake ==
  ASSUME WakeInv, ServeNothing
  PROVE  WakeInv'
<1>. USE DEF WakeInv
<1>1. Kinds'
  <2>1. pc' \in [Ctx -> Labels]
    BY DEF ServeNothing, EndTurn, Enter, Goto, Kinds, Labels
  <2>2. flags' \subseteq Types \cup {"rescan", "shutdown"} /\ extra' \in [Runners -> BOOLEAN]
    BY DEF ServeNothing, Kinds
  <2>3. idle' \subseteq {"thread", "detach"}
    BY DEF ServeNothing, Kinds
  <2>. QED
    BY <2>1 DEF ServeNothing, Kinds
<1>2. Sleepers'
  BY DEF ServeNothing, NothingAsked, Serving, Awake, AtTop, EndTurn, Enter, Goto, Sleepers
<1>. QED
  BY <1>1, <1>2

(* A thread at work is not asleep.                                           *)
LEMMA KickWake ==
  ASSUME WakeInv, Kick
  PROVE  WakeInv'
<1>. USE DEF WakeInv
<1>1. Kinds'
  <2>1. pc' \in [Ctx -> Labels]
    BY DEF Kick, Enter, Goto, Kinds, Labels
  <2>2. flags' \subseteq Types \cup {"rescan", "shutdown"} /\ extra' \in [Runners -> BOOLEAN]
    BY DEF Kick, Kinds
  <2>3. idle' \subseteq {"thread", "detach"}
    BY DEF Kick, Kinds
  <2>. QED
    BY <2>1 DEF Kick, Kinds
<1>2. Sleepers'
  BY DEF Kick, Enter, Goto, Sleepers
<1>. QED
  BY <1>1, <1>2

(* A postponed transfer comes with a signal.                                 *)
LEMMA SubmitWake ==
  ASSUME WakeInv, Submit
  PROVE  WakeInv'
<1>. USE DEF WakeInv
<1>1. Kinds'
  <2>1. pc' \in [Ctx -> Labels]
    BY DEF Submit, Kinds
  <2>2. flags' \subseteq Types \cup {"rescan", "shutdown"} /\ extra' \in [Runners -> BOOLEAN]
    BY DEF Submit, Kinds
  <2>3. idle' \subseteq {"thread", "detach"}
    BY DEF Submit, Signal, Kinds
  <2>. QED
    BY <2>3, ThreadAssumption DEF Submit, Kinds
<1>2. Sleepers'
  BY DEF Submit, Signal, Sleepers
<1>. QED
  BY <1>1, <1>2

(* A completion asks for nothing.                                            *)
LEMMA CompleteWake ==
  ASSUME WakeInv, Complete
  PROVE  WakeInv'
<1>. USE DEF WakeInv
<1>1. Kinds'
  <2>1. pc' \in [Ctx -> Labels]
    BY DEF Complete, Kinds
  <2>2. flags' \subseteq Types \cup {"rescan", "shutdown"} /\ extra' \in [Runners -> BOOLEAN]
    BY DEF Complete, Kinds
  <2>3. idle' \subseteq {"thread", "detach"}
    BY DEF Complete, Kinds
  <2>. QED
    BY DEF Complete, Kinds
<1>2. Sleepers'
  BY DEF Complete, Sleepers
<1>. QED
  BY <1>1, <1>2

(* The request comes with a signal to the only sleeper.                      *)
LEMMA AskResetWake ==
  ASSUME WakeInv, AskReset
  PROVE  WakeInv'
<1>. USE DEF WakeInv
<1>0. Kinds /\ Ask("reset") /\ "reset" \in Types
  BY DEF AskReset, Types
<1>1. Kinds'
  BY <1>0, AskKinds DEF AskReset, Ask, Kinds
<1>2. Sleepers'
  BY DEF AskReset, Ask, Signal, Kinds, Sleepers
<1>. QED
  BY <1>1, <1>2

(* The request comes with a signal to the only sleeper.                      *)
LEMMA AskRecoveryWake ==
  ASSUME WakeInv, AskRecovery
  PROVE  WakeInv'
<1>. USE DEF WakeInv
<1>0. Kinds /\ Ask("recovery") /\ "recovery" \in Types
  BY DEF AskRecovery, Types
<1>1. Kinds'
  BY <1>0, AskKinds DEF AskRecovery, Ask, Kinds
<1>2. Sleepers'
  BY DEF AskRecovery, Ask, Signal, Kinds, Sleepers
<1>. QED
  BY <1>1, <1>2

(* The request comes with a signal to the only sleeper.                      *)
LEMMA AskDriveWake ==
  ASSUME WakeInv, NEW d \in DriveIds, AskDrive(d)
  PROVE  WakeInv'
<1>. USE DEF WakeInv
<1>0. Kinds /\ Ask("drvreset") /\ "drvreset" \in Types
  BY DEF AskDrive, Types
<1>1. Kinds'
  BY <1>0, AskKinds DEF AskDrive, Ask, Kinds
<1>2. Sleepers'
  BY DEF AskDrive, Ask, Signal, Kinds, Sleepers
<1>. QED
  BY <1>1, <1>2

(* A caller that may wait runs the hook itself.                              *)
LEMMA IoctlResetWake ==
  ASSUME WakeInv, IoctlReset
  PROVE  WakeInv'
<1>. USE DEF WakeInv
<1>1. Kinds'
  <2>1. pc' \in [Ctx -> Labels]
    BY DEF IoctlReset, Goto, Kinds, Labels, Types
  <2>2. flags' \subseteq Types \cup {"rescan", "shutdown"} /\ extra' \in [Runners -> BOOLEAN]
    BY DEF IoctlReset, RunBegin, Kinds, Runners
  <2>3. idle' \subseteq {"thread", "detach"}
    BY DEF IoctlReset, Kinds
  <2>. QED
    BY <2>1, <2>2 DEF IoctlReset, Kinds
<1>2. Sleepers'
  BY DEF IoctlReset, RunBegin, Goto, Sleepers
<1>. QED
  BY <1>1, <1>2

(* A suspension asks nothing of the thread.                                  *)
LEMMA SuspendWake ==
  ASSUME WakeInv, Suspend
  PROVE  WakeInv'
<1>. USE DEF WakeInv
<1>1. Kinds'
  <2>1. pc' \in [Ctx -> Labels]
    BY DEF Suspend, Goto, Kinds, Labels
  <2>2. flags' \subseteq Types \cup {"rescan", "shutdown"} /\ extra' \in [Runners -> BOOLEAN]
    BY DEF Suspend, Kinds
  <2>3. idle' \subseteq {"thread", "detach"}
    BY DEF Suspend, Kinds
  <2>. QED
    BY <2>1 DEF Suspend, Kinds
<1>2. Sleepers'
  BY DEF Suspend, Goto, Sleepers
<1>. QED
  BY <1>1, <1>2

(* A suspension asks nothing of the thread.                                  *)
LEMMA SuspendedWake ==
  ASSUME WakeInv, Suspended
  PROVE  WakeInv'
<1>. USE DEF WakeInv
<1>1. Kinds'
  <2>1. pc' \in [Ctx -> Labels]
    BY DEF Suspended, Goto, Kinds, Labels
  <2>2. flags' \subseteq Types \cup {"rescan", "shutdown"} /\ extra' \in [Runners -> BOOLEAN]
    BY DEF Suspended, Kinds
  <2>3. idle' \subseteq {"thread", "detach"}
    BY DEF Suspended, Kinds
  <2>. QED
    BY <2>1 DEF Suspended, Kinds
<1>2. Sleepers'
  BY DEF Suspended, Goto, Sleepers
<1>. QED
  BY <1>1, <1>2

(* A resume runs its reset itself.                                           *)
LEMMA ResumeWake ==
  ASSUME WakeInv, Resume
  PROVE  WakeInv'
<1>. USE DEF WakeInv
<1>1. Kinds'
  <2>1. pc' \in [Ctx -> Labels]
    BY DEF Resume, Goto, Kinds, Labels, Types
  <2>2. flags' \subseteq Types \cup {"rescan", "shutdown"} /\ extra' \in [Runners -> BOOLEAN]
    <3>1. CASE freeze # 0 /\ NDrives > 0
      <4>1. RunBegin("pmf", "reset", freeze - 1)
        BY <3>1 DEF Resume
      <4>. QED
        BY <4>1 DEF RunBegin, Kinds, Runners
    <3>2. CASE ~(freeze # 0 /\ NDrives > 0)
      BY <3>2 DEF Resume, Kinds
    <3>. QED
      BY <3>1, <3>2
  <2>3. idle' \subseteq {"thread", "detach"}
    BY DEF Resume, Kinds
  <2>. QED
    BY <2>1, <2>2 DEF Resume, Kinds
<1>2. Sleepers'
  BY DEF Resume, RunBegin, Goto, Kinds, Sleepers, Runners, Ctx
<1>. QED
  BY <1>1, <1>2

(* A hook that returns wakes, if anybody, a sleeper.                         *)
LEMMA UserDoneWake ==
  ASSUME WakeInv, NEW c \in {"ioctl", "pmf"}, UserDone(c)
  PROVE  WakeInv'
<1>. USE DEF WakeInv
<1>1. Kinds'
  <2>1. pc' \in [Ctx -> Labels]
    BY DEF UserDone, Goto, Kinds, Labels
  <2>2. flags' \subseteq Types \cup {"rescan", "shutdown"} /\ extra' \in [Runners -> BOOLEAN]
    BY DEF UserDone, Kinds
  <2>3. idle' \subseteq {"thread", "detach"}
    BY DEF UserDone, RunEnd, Signal, Kinds
  <2>. QED
    BY <2>1, <2>3 DEF UserDone, RunEnd, Kinds
<1>2. Sleepers'
  BY DEF UserDone, RunEnd, Signal, Goto, Sleepers
<1>. QED
  BY <1>1, <1>2

(* ATACH_TH_RESCAN is not among the flags a sleeper watches.                 *)
LEMMA RequestRescanWake ==
  ASSUME WakeInv, RequestRescan
  PROVE  WakeInv'
<1>. USE DEF WakeInv
<1>1. Kinds'
  <2>1. pc' \in [Ctx -> Labels]
    BY DEF RequestRescan, Kinds
  <2>2. flags' \subseteq Types \cup {"rescan", "shutdown"} /\ extra' \in [Runners -> BOOLEAN]
    BY DEF RequestRescan, Kinds
  <2>3. idle' \subseteq {"thread", "detach"}
    BY DEF RequestRescan, Signal, Kinds
  <2>. QED
    BY <2>3 DEF RequestRescan, Kinds
<1>2. Sleepers'
  BY DEF RequestRescan, Signal, Kinds, Sleepers
<1>. QED
  BY <1>1, <1>2

(* The shutdown comes with a signal, sent before the detaching context       *)
(* sleeps.                                                                   *)
LEMMA DetachWake ==
  ASSUME WakeInv, Detach
  PROVE  WakeInv'
<1>. USE DEF WakeInv
<1>1. Kinds'
  <2>1. pc' \in [Ctx -> Labels]
    BY DEF Detach, DetachLoop, Goto, Kinds, Labels
  <2>2. flags' \subseteq Types \cup {"rescan", "shutdown"} /\ extra' \in [Runners -> BOOLEAN]
    BY DEF Detach, Kinds
  <2>3. idle' \subseteq {"thread", "detach"}
    BY DEF Detach, DetachLoop, Kinds
  <2>. QED
    BY <2>1, <2>3 DEF Detach, Kinds
<1>2. Sleepers'
  BY DEF Detach, DetachLoop, Sleepers
<1>. QED
  BY <1>1, <1>2

(* The detaching context sleeps again under the shutdown flag, or goes on.   *)
LEMMA DetachWakesWake ==
  ASSUME WakeInv, DetachWakes
  PROVE  WakeInv'
<1>. USE DEF WakeInv
<1>1. Kinds'
  <2>1. pc' \in [Ctx -> Labels]
    BY DEF DetachWakes, DetachLoop, Goto, Kinds, Labels
  <2>2. flags' \subseteq Types \cup {"rescan", "shutdown"} /\ extra' \in [Runners -> BOOLEAN]
    BY DEF DetachWakes, Kinds
  <2>3. idle' \subseteq {"thread", "detach"}
    BY DEF DetachWakes, DetachLoop, Kinds
  <2>. QED
    BY <2>1, <2>3 DEF DetachWakes, Kinds
<1>2. Sleepers'
  BY DEF DetachWakes, DetachLoop, Sleepers
<1>. QED
  BY <1>1, <1>2

(* queue_freeze is the sum of its holders and of what went astray.           *)
Balanced == freeze \in Int /\ astray \in Int /\ freeze = Accounts + astray

(* What keeps queue_freeze balanced.                                         *)
CountInv == Kinds /\ Balanced

(* What a context holds by a run of ata_thread_run.                          *)
Run(c) == Bit(In(c)) + Bit(In(c) /\ extra[c])

(* What is scheduled to the thread.                                          *)
Scheduled == Bit("reset" \in flags) + Bit("drvreset" \in flags) + Bit("recovery" \in flags)

(* The freeze of a transfer left to the thread.                              *)
Left == Bit(xfer = "postponed")

(* The accounts by holder; every one is a natural number.                    *)
LEMMA AccountsByHolder ==
  /\ Accounts = Scheduled + Run("thread") + Run("ioctl") + Run("pmf") + Left + Bit(Waits)
  /\ Scheduled \in Nat /\ (\A c : Run(c) \in Nat) /\ Left \in Nat /\ Bit(Waits) \in Nat
<1>1. \A c : Run(c) \in Nat
  BY DEF Run, Bit
<1>2. Scheduled \in Nat /\ Left \in Nat /\ Bit(Waits) \in Nat
  BY DEF Scheduled, Left, Bit
<1>3. Accounts = Scheduled + Run("thread") + Run("ioctl") + Run("pmf") + Left + Bit(Waits)
  BY DEF Accounts, Scheduled, Run, Left, Bit
<1>. QED
  BY <1>1, <1>2, <1>3

(* The same after a step.                                                    *)
LEMMA AccountsAfter ==
  /\ Accounts' = Scheduled' + Run("thread")' + Run("ioctl")' + Run("pmf")' + Left' + Bit(Waits)'
  /\ Scheduled' \in Nat /\ (\A c : Run(c)' \in Nat) /\ Left' \in Nat /\ Bit(Waits)' \in Nat
<1>1. \A c : Run(c)' \in Nat
  BY DEF Run, Bit
<1>2. Scheduled' \in Nat /\ Left' \in Nat /\ Bit(Waits)' \in Nat
  BY DEF Scheduled, Left, Bit
<1>3. Accounts' = Scheduled' + Run("thread")' + Run("ioctl")' + Run("pmf")' + Left' + Bit(Waits)'
  BY DEF Accounts, Scheduled, Run, Left, Bit
<1>. QED
  BY <1>1, <1>2, <1>3

(* An action that moves no account keeps the balance.                        *)
LEMMA NothingMoves ==
  ASSUME CountInv, UNCHANGED <<flags, freeze, xfer, extra, astray>>,
         \A c \in Runners : Run(c)' = Run(c), Waits' = Waits
  PROVE  Balanced'
<1>1. Scheduled' = Scheduled /\ Left' = Left /\ Bit(Waits)' = Bit(Waits)
  BY DEF Scheduled, Left, Bit
<1>2. Accounts' = Accounts
  BY <1>1, AccountsByHolder, AccountsAfter DEF Runners
<1>. QED
  BY <1>2 DEF CountInv, Balanced

(* The begin of ata_thread_run moves the request's account to the caller's,  *)
(* and takes one freeze of its own; a hook it ran before has returned its    *)
(* own.                                                                      *)
LEMMA RunBeginAccounts ==
  ASSUME Kinds, NEW c \in Runners, NEW t \in Types, NEW f, RunBegin(c, t, f), Goto(c, t)
  PROVE  Accounts' = Accounts + 1 - Run(c) - Bit(c = "pmf" /\ Waits) - Left + Left'
<1>1. Scheduled' = Scheduled - Bit(t \in flags)
  BY DEF RunBegin, Scheduled, Types, Bit
<1>2. extra'[c] = (t \in flags) /\ pc'[c] = t
  BY DEF RunBegin, Goto, Kinds, Runners, Ctx
<1>3. Run(c)' = 1 + Bit(t \in flags)
  BY <1>2 DEF Run, In, Bit
<1>4. \A r \in Runners \ {c} : Run(r)' = Run(r)
  BY DEF RunBegin, Goto, Run, In
<1>5. Bit(Waits)' = Bit(Waits) - Bit(c = "pmf" /\ Waits)
  BY <1>2 DEF Waits, Goto, Types, Bit
<1>6. Bit(t \in flags) \in Nat /\ Bit(c = "pmf" /\ Waits) \in Nat
  BY DEF Bit
<1>. QED
  BY <1>1, <1>3, <1>4, <1>5, <1>6, AccountsByHolder, AccountsAfter DEF Runners

(* The end of ata_thread_run returns what the caller held.                   *)
LEMMA RunEndAccounts ==
  ASSUME Kinds, NEW c \in Runners, In(c), UNCHANGED <<flags, extra>>,
         NEW l \in {"idle", "kick", "loop"}, Goto(c, l)
  PROVE  Accounts' = Accounts - Thaws(c) - Left + Left'
<1>1. Scheduled' = Scheduled
  BY DEF Scheduled, Bit
<1>2. pc'[c] = l
  BY DEF Goto, Kinds, Runners, Ctx
<1>3. Run(c)' = 0 /\ Run(c) = Thaws(c)
  BY <1>2 DEF Run, In, Thaws, Types, Bit, Kinds
<1>4. \A r \in Runners \ {c} : Run(r)' = Run(r)
  BY DEF Goto, Run, In
<1>5. Bit(Waits)' = Bit(Waits)
  BY <1>2 DEF Waits, Goto, In, Types, Bit
<1>. QED
  BY <1>1, <1>3, <1>4, <1>5, AccountsByHolder, AccountsAfter DEF Runners

(* What a hook ends is orphaned if it was left to the thread.                *)
LEMMA OrphanedIsLeft ==
  ASSUME xfer' \in {"none", xfer}
  PROVE  Orphaned = Left - Left' /\ Orphaned \in Nat
<1>1. CASE xfer = "postponed"
  BY <1>1 DEF Orphaned, Left, Bit
<1>2. CASE xfer # "postponed"
  BY <1>2 DEF Orphaned, Left, Bit
<1>. QED
  BY <1>1, <1>2

(* Going to sleep freezes nothing.                                           *)
LEMMA SleepCount ==
  ASSUME CountInv, Sleep
  PROVE  Balanced'
<1>1. UNCHANGED <<flags, freeze, xfer, extra, astray>>
  BY DEF Sleep
<1>2. \A c \in Runners : Run(c)' = Run(c)
  BY DEF Sleep, AtTop, Enter, Goto, Run, In, Bit, Types, Runners, CountInv, Kinds, Ctx
<1>3. Waits' = Waits
  BY DEF Sleep, AtTop, Enter, Goto, Waits
<1>. QED
  BY <1>1, <1>2, <1>3, NothingMoves

(* Leaving freezes nothing.                                                  *)
LEMMA ExitCount ==
  ASSUME CountInv, Exit
  PROVE  Balanced'
<1>1. UNCHANGED <<flags, freeze, xfer, extra, astray>>
  BY DEF Exit
<1>2. \A c \in Runners : Run(c)' = Run(c)
  BY DEF Exit, Awake, AtTop, Enter, Goto, Run, In, Bit, Types, Runners, CountInv, Kinds, Ctx
<1>3. Waits' = Waits
  BY DEF Exit, Awake, AtTop, Enter, Goto, Waits
<1>. QED
  BY <1>1, <1>2, <1>3, NothingMoves

(* A rescan keeps every freeze.                                              *)
LEMMA RescanCount ==
  ASSUME CountInv, Rescan
  PROVE  Balanced'
<1>1. UNCHANGED <<freeze, astray>> /\ Scheduled' = Scheduled /\ Left' = Left
  BY DEF Rescan, Scheduled, Left
<1>2. \A c \in Runners : Run(c)' = Run(c)
  BY DEF Rescan, Awake, AtTop, Enter, Goto, Run, In, Bit, Types, Runners, CountInv, Kinds, Ctx
<1>3. Bit(Waits)' = Bit(Waits)
  BY DEF Rescan, Enter, Goto, Waits, Bit
<1>4. Accounts' = Accounts
  BY <1>1, <1>2, <1>3, AccountsByHolder, AccountsAfter DEF Runners
<1>. QED
  BY <1>1, <1>4 DEF CountInv, Balanced

(* The thread serves with no hook of its own under way.                      *)
LEMMA ServingHoldsNothing ==
  ASSUME Serving
  PROVE  ~In("thread") /\ Run("thread") = 0
<1>1. ~In("thread")
  BY DEF Serving, Awake, AtTop, In, Types
<1>. QED
  BY <1>1 DEF Run, Bit

(* The freeze of the request passes to the hook that serves it.              *)
LEMMA ServeResetCount ==
  ASSUME CountInv, ServeReset
  PROVE  Balanced'
<1>1. /\ RunBegin("thread", "reset", freeze) /\ Goto("thread", "reset")
      /\ UNCHANGED <<xfer, astray>> /\ Serving
  BY DEF ServeReset, Enter
<1>2. Accounts' = Accounts + 1 - Run("thread") - Bit("thread" = "pmf" /\ Waits) - Left + Left'
  BY <1>1, RunBeginAccounts DEF CountInv, Runners, Types
<1>3. Run("thread") = 0 /\ Bit("thread" = "pmf" /\ Waits) = 0 /\ Left' = Left
  BY <1>1, ServingHoldsNothing DEF Bit, Left
<1>4. Accounts' = Accounts + 1
  BY <1>2, <1>3, AccountsByHolder DEF Left, Bit, Accounts
<1>. QED
  BY <1>1, <1>4, AccountsByHolder DEF RunBegin, CountInv, Balanced

(* The freeze of the request passes to the hook that serves it.              *)
LEMMA ServeRecoveryCount ==
  ASSUME CountInv, ServeRecovery
  PROVE  Balanced'
<1>1. /\ RunBegin("thread", "recovery", freeze) /\ Goto("thread", "recovery")
      /\ UNCHANGED <<xfer, astray>> /\ Serving
  BY DEF ServeRecovery, Enter
<1>2. Accounts' = Accounts + 1 - Run("thread") - Bit("thread" = "pmf" /\ Waits) - Left + Left'
  BY <1>1, RunBeginAccounts DEF CountInv, Runners, Types
<1>3. Run("thread") = 0 /\ Bit("thread" = "pmf" /\ Waits) = 0 /\ Left' = Left
  BY <1>1, ServingHoldsNothing DEF Bit, Left
<1>4. Accounts' = Accounts + 1
  BY <1>2, <1>3, AccountsByHolder DEF Left, Bit, Accounts
<1>. QED
  BY <1>1, <1>4, AccountsByHolder DEF RunBegin, CountInv, Balanced

(* A turn of the loop over drives, entered with the balance f and a: either  *)
(* the next hook takes a freeze, or the flag is cleared and a freeze it      *)
(* stands for goes astray.                                                   *)
LEMMA NextDriveCount ==
  ASSUME Kinds, NEW i \in Nat, NEW set \in SUBSET DriveIds, NEW f \in Int, NEW a \in Int,
         NextDrive(i, set, f, a), f = Accounts - Run("thread") - Left + Left' + a
  PROVE  Balanced'
<1>. DEFINE rest == {d \in set : d >= i}
<1>1. CASE rest # {}
  <2>1. RunBegin("thread", "drvreset", f) /\ Goto("thread", "drvreset") /\ astray' = a
    BY <1>1 DEF NextDrive, Enter
  <2>2. Accounts' = Accounts + 1 - Run("thread") - Bit("thread" = "pmf" /\ Waits) - Left + Left'
    BY <2>1, RunBeginAccounts DEF Runners, Types
  <2>3. Bit("thread" = "pmf" /\ Waits) = 0 /\ Accounts \in Nat /\ Left' \in Nat
    BY DEF Bit, Accounts, Left
  <2>. QED
    BY <2>1, <2>2, <2>3, AccountsByHolder DEF RunBegin, Balanced
<1>2. CASE rest = {}
  <2>1. /\ flags' = flags \ {"drvreset"} /\ freeze' = f /\ UNCHANGED extra
        /\ astray' = a + Bit("drvreset" \in flags)
        /\ \E l \in {"kick", "loop"} : Goto("thread", l)
    BY <1>2 DEF NextDrive, EndTurn, Enter
  <2>2. Scheduled' = Scheduled - Bit("drvreset" \in flags) /\ Bit("drvreset" \in flags) \in Nat
    BY <2>1 DEF Scheduled, Bit
  <2>3. pc'["thread"] \in {"kick", "loop"}
    BY <2>1 DEF Goto, Kinds, Runners, Ctx
  <2>4. Run("thread")' = 0
    BY <2>3 DEF Run, In, Types, Bit
  <2>5. Run("ioctl")' = Run("ioctl") /\ Run("pmf")' = Run("pmf") /\ Bit(Waits)' = Bit(Waits)
    BY <2>1 DEF Goto, Run, In, Waits, Bit
  <2>6. Accounts' = Accounts - Bit("drvreset" \in flags) - Run("thread") - Left + Left'
    BY <2>2, <2>4, <2>5, AccountsByHolder, AccountsAfter
  <2>7. Left' \in Nat /\ Accounts \in Nat
    BY DEF Left, Accounts, Bit
  <2>. QED
    BY <2>1, <2>2, <2>6, <2>7, AccountsByHolder DEF Balanced
<1>. QED
  BY <1>1, <1>2

(* The request passes to the first drive's hook.                             *)
LEMMA ServeDrivesCount ==
  ASSUME CountInv, ServeDrives
  PROVE  Balanced'
<1>1. /\ NextDrive(0, drvreset, freeze, astray) /\ drvreset \in SUBSET DriveIds
      /\ Left' = Left /\ Run("thread") = 0 /\ Kinds
  BY ServingHoldsNothing DEF ServeDrives, CountInv, Kinds, Left
<1>2. freeze \in Int /\ astray \in Int /\ freeze = Accounts + astray /\ Accounts \in Nat
      /\ Left \in Nat
  BY DEF CountInv, Balanced, Accounts, Left, Bit
<1>3. freeze = Accounts - Run("thread") - Left + Left' + astray
  BY <1>1, <1>2
<1>. QED
  BY <1>1, <1>2, <1>3, NextDriveCount

(* A drive's hook returns what it held before the next one is looked for.    *)
LEMMA DriveDoneCount ==
  ASSUME CountInv, DriveDone
  PROVE  Balanced'
<1>1. /\ NextDrive(drv + 1, drvreset', freeze - Thaws("thread"), astray + Orphaned)
      /\ drvreset' \in SUBSET DriveIds /\ xfer' \in {"none", xfer} /\ drv + 1 \in Nat /\ Kinds
      /\ pc["thread"] = "drvreset"
  BY DEF DriveDone, CountInv, Kinds
<1>2. Run("thread") = Thaws("thread") /\ Thaws("thread") \in Nat
  BY <1>1 DEF Run, In, Thaws, Types, Bit, Kinds
<1>3. Orphaned = Left - Left' /\ Orphaned \in Nat
  BY <1>1, OrphanedIsLeft
<1>4. freeze \in Int /\ astray \in Int /\ freeze = Accounts + astray /\ Accounts \in Nat
      /\ Left \in Nat /\ Left' \in Nat
  BY DEF CountInv, Balanced, Accounts, Left, Bit
<1>5. /\ freeze - Thaws("thread") = Accounts - Run("thread") - Left + Left' + (astray + Orphaned)
      /\ freeze - Thaws("thread") \in Int /\ astray + Orphaned \in Int
  BY <1>2, <1>3, <1>4
<1>. QED
  BY <1>1, <1>5, NextDriveCount

(* A run returns its freezes, and what it ends is orphaned.                  *)
LEMMA RunEndCount ==
  ASSUME CountInv, NEW c \in Runners, In(c), UNCHANGED <<flags, extra>>, NEW t, RunEnd(c, t),
         NEW l \in {"idle", "kick", "loop"}, Goto(c, l)
  PROVE  Balanced'
<1>1. Accounts' = Accounts - Thaws(c) - Left + Left'
  BY RunEndAccounts DEF CountInv
<1>2. xfer' \in {"none", xfer} /\ freeze' = freeze - Thaws(c) /\ astray' = astray + Orphaned
  BY DEF RunEnd
<1>3. Orphaned = Left - Left' /\ Orphaned \in Nat
  BY <1>2, OrphanedIsLeft
<1>4. Thaws(c) \in Nat /\ Left \in Nat /\ Left' \in Nat /\ Accounts \in Nat
  BY DEF Thaws, Left, Accounts, Bit
<1>. QED
  BY <1>1, <1>2, <1>3, <1>4 DEF CountInv, Balanced

(* The hook returns the freezes it took.                                     *)
LEMMA HookDoneCount ==
  ASSUME CountInv, HookDone
  PROVE  Balanced'
<1>1. /\ pc["thread"] \in {"reset", "recovery"} /\ RunEnd("thread", pc["thread"])
      /\ UNCHANGED <<flags, extra>>
      /\ \E l \in {"idle", "kick", "loop"} : Goto("thread", l)
  BY DEF HookDone, EndTurn, Enter
<1>2. In("thread") /\ "thread" \in Runners
  BY <1>1 DEF In, Types, Runners
<1>. QED
  BY <1>1, <1>2, RunEndCount

(* The hook returns the freezes it took.                                     *)
LEMMA UserDoneCount ==
  ASSUME CountInv, NEW c \in {"ioctl", "pmf"}, UserDone(c)
  PROVE  Balanced'
<1>1. RunEnd(c, "reset") /\ Goto(c, "idle") /\ UNCHANGED <<flags, extra>> /\ pc[c] = "reset"
  BY DEF UserDone
<1>2. In(c) /\ c \in Runners
  BY <1>1 DEF In, Types, Runners
<1>. QED
  BY <1>1, <1>2, RunEndCount

(* The thread returns the freeze of a postponed transfer, or takes another's.*)
LEMMA ServeXferCount ==
  ASSUME CountInv, ServeXfer
  PROVE  Balanced'
<1>1. /\ UNCHANGED <<flags, extra>> /\ freeze = 1 /\ freeze' = 0 /\ xfer' # "postponed"
      /\ astray' = astray - Bit(xfer # "postponed") /\ Serving
      /\ Goto("thread", "kick")
  BY DEF ServeXfer, NothingAsked, EndTurn, Enter
<1>2. Scheduled' = Scheduled /\ Left' = 0 /\ Left = 1 - Bit(xfer # "postponed")
  BY <1>1 DEF Scheduled, Left, Bit
<1>3. pc'["thread"] = "kick"
  BY <1>1 DEF Goto, CountInv, Kinds, Runners, Ctx
<1>4. Run("thread") = 0 /\ Run("thread")' = 0
  BY <1>1, <1>3, ServingHoldsNothing DEF Run, In, Types, Bit
<1>5. Run("ioctl")' = Run("ioctl") /\ Run("pmf")' = Run("pmf") /\ Bit(Waits)' = Bit(Waits)
  BY <1>1 DEF Goto, Run, In, Waits, Bit
<1>6. Accounts' = Accounts - Left
  BY <1>2, <1>4, <1>5, AccountsByHolder, AccountsAfter
<1>7. Bit(xfer # "postponed") \in Nat /\ Accounts \in Nat
  BY DEF Bit, Accounts
<1>. QED
  BY <1>1, <1>2, <1>6, <1>7 DEF CountInv, Balanced

(* A panic changes no freeze.                                                *)
LEMMA ServePanicCount ==
  ASSUME CountInv, ServePanic
  PROVE  Balanced'
<1>1. UNCHANGED <<flags, freeze, xfer, extra, astray>>
  BY DEF ServePanic
<1>2. \A c \in Runners : Run(c)' = Run(c)
  BY DEF ServePanic, NothingAsked, Serving, Awake, AtTop, Enter, Goto, Run, In, Bit, Types, Runners, CountInv, Kinds, Ctx
<1>3. Waits' = Waits
  BY DEF ServePanic, NothingAsked, Serving, Awake, AtTop, Enter, Goto, Waits
<1>. QED
  BY <1>1, <1>2, <1>3, NothingMoves

(* A turn with nothing to do changes no freeze.                              *)
LEMMA ServeNothingCount ==
  ASSUME CountInv, ServeNothing
  PROVE  Balanced'
<1>1. UNCHANGED <<flags, freeze, xfer, extra, astray>>
  BY DEF ServeNothing
<1>2. \A c \in Runners : Run(c)' = Run(c)
  BY DEF ServeNothing, NothingAsked, EndTurn, Serving, Awake, AtTop, Enter, Goto, Run, In, Bit, Types, Runners, CountInv, Kinds, Ctx
<1>3. Waits' = Waits
  BY DEF ServeNothing, NothingAsked, EndTurn, Serving, Awake, AtTop, Enter, Goto, Waits
<1>. QED
  BY <1>1, <1>2, <1>3, NothingMoves

(* The thread starts transfers without postponing them.                      *)
LEMMA KickCount ==
  ASSUME CountInv, Kick
  PROVE  Balanced'
<1>1. UNCHANGED <<flags, freeze, extra, astray>> /\ Left' = Left /\ Scheduled' = Scheduled
  BY DEF Kick, Left, Bit, Scheduled
<1>2. \A c \in Runners : Run(c)' = Run(c)
  BY DEF Kick, Enter, Goto, Run, In, Bit, Types, Runners, CountInv, Kinds, Ctx
<1>3. Bit(Waits)' = Bit(Waits)
  BY DEF Kick, Enter, Goto, Waits, Bit
<1>4. Accounts' = Accounts
  BY <1>1, <1>2, <1>3, AccountsByHolder, AccountsAfter DEF Runners
<1>. QED
  BY <1>1, <1>4 DEF CountInv, Balanced

(* A postponed transfer takes one freeze, on a channel that had none.        *)
LEMMA SubmitCount ==
  ASSUME CountInv, Submit
  PROVE  Balanced'
<1>1. Scheduled' = Scheduled /\ Bit(Waits)' = Bit(Waits) /\ \A c : Run(c)' = Run(c)
  BY DEF Submit, Scheduled, Waits, Run, In, Bit
<1>2. Left = 0 /\ Left' = Bit(xfer' = "postponed") /\ freeze' = freeze + Left' /\ astray' = astray
  BY DEF Submit, Left, Bit, CountInv, Balanced
<1>3. Left' \in Nat
  BY DEF Left, Bit
<1>4. Accounts' = Accounts + Left'
  BY <1>1, <1>2, <1>3, AccountsByHolder, AccountsAfter
<1>5. Accounts \in Nat
  BY DEF Accounts, Bit
<1>. QED
  BY <1>2, <1>3, <1>4, <1>5 DEF CountInv, Balanced

(* A transfer that completes was not postponed.                              *)
LEMMA CompleteCount ==
  ASSUME CountInv, Complete
  PROVE  Balanced'
<1>1. UNCHANGED <<freeze, astray>>
  BY DEF Complete
<1>2. Accounts' = Accounts
  BY DEF Complete, Accounts, In, Waits
<1>. QED
  BY <1>1, <1>2 DEF CountInv, Balanced

(* A request takes one freeze, the first time it is made.                    *)
LEMMA AskCount ==
  ASSUME CountInv, NEW t \in Types, Ask(t)
  PROVE  Balanced'
<1>1. Left' = Left /\ Bit(Waits)' = Bit(Waits) /\ (\A c : Run(c)' = Run(c)) /\ astray' = astray
  BY DEF Ask, Left, Waits, Run, In, Bit
<1>2. Scheduled' = Scheduled + Bit(t \notin flags) /\ freeze' = freeze + Bit(t \notin flags)
  BY DEF Ask, Scheduled, Types, Bit, CountInv, Balanced
<1>3. Bit(t \notin flags) \in Nat /\ Accounts \in Nat
  BY DEF Bit, Accounts
<1>4. Accounts' = Accounts + Bit(t \notin flags)
  BY <1>1, <1>2, <1>3, AccountsByHolder, AccountsAfter
<1>. QED
  BY <1>1, <1>2, <1>3, <1>4 DEF CountInv, Balanced

(* The caller's freeze, and that of the request it took over, are its own.   *)
LEMMA IoctlResetCount ==
  ASSUME CountInv, IoctlReset
  PROVE  Balanced'
<1>1. /\ RunBegin("ioctl", "reset", freeze) /\ Goto("ioctl", "reset")
      /\ UNCHANGED <<xfer, astray>> /\ pc["ioctl"] = "idle"
  BY DEF IoctlReset
<1>2. Accounts' = Accounts + 1 - Run("ioctl") - Bit("ioctl" = "pmf" /\ Waits) - Left + Left'
  BY <1>1, RunBeginAccounts DEF CountInv, Runners, Types
<1>3. Run("ioctl") = 0 /\ Bit("ioctl" = "pmf" /\ Waits) = 0 /\ Left' = Left
  BY <1>1 DEF Run, In, Types, Bit, Left
<1>4. Accounts \in Nat /\ Left \in Nat
  BY DEF Accounts, Left, Bit
<1>5. Accounts' = Accounts + 1
  BY <1>2, <1>3, <1>4
<1>. QED
  BY <1>1, <1>4, <1>5 DEF RunBegin, CountInv, Balanced

(* A suspension that waits holds one freeze.                                 *)
LEMMA SuspendCount ==
  ASSUME CountInv, Suspend
  PROVE  Balanced'
<1>1. /\ UNCHANGED <<flags, xfer, extra, astray>> /\ freeze' = freeze + 1
      /\ pc["pmf"] = "idle" /\ Goto("pmf", "idlewait")
  BY DEF Suspend
<1>2. pc'["pmf"] = "idlewait"
  BY <1>1 DEF Goto, CountInv, Kinds, Ctx, Runners
<1>3. Bit(Waits) = 0 /\ Bit(Waits)' = 1 /\ Run("pmf") = 0 /\ Run("pmf")' = 0
  BY <1>1, <1>2 DEF Waits, Run, In, Types, Bit
<1>4. Run("thread")' = Run("thread") /\ Run("ioctl")' = Run("ioctl")
      /\ Scheduled' = Scheduled /\ Left' = Left
  BY <1>1 DEF Goto, Run, In, Scheduled, Left, Bit
<1>5. Accounts' = Accounts + 1 /\ Accounts \in Nat
  BY <1>3, <1>4, AccountsByHolder, AccountsAfter
<1>. QED
  BY <1>1, <1>5 DEF CountInv, Balanced

(* A suspension holds one freeze until the resume.                           *)
LEMMA SuspendedCount ==
  ASSUME CountInv, Suspended
  PROVE  Balanced'
<1>1. UNCHANGED <<flags, freeze, xfer, extra, astray>> /\ pc["pmf"] = "idlewait"
      /\ Goto("pmf", "suspended")
  BY DEF Suspended
<1>2. pc'["pmf"] = "suspended"
  BY <1>1 DEF Goto, CountInv, Kinds, Ctx, Runners
<1>3. \A c \in Runners : Run(c)' = Run(c)
  BY <1>1, <1>2 DEF Goto, Run, In, Bit, Types, Runners
<1>4. Waits' = Waits
  BY <1>1, <1>2 DEF Waits
<1>. QED
  BY <1>1, <1>3, <1>4, NothingMoves

(* The freeze of the suspension is returned before the reset takes its own,  *)
(* or was taken from it and is not returned.                                 *)
LEMMA ResumeCount ==
  ASSUME CountInv, Resume
  PROVE  Balanced'
<1>1. /\ pc["pmf"] = "suspended" /\ UNCHANGED xfer /\ astray' = astray + Bit(freeze = 0)
      /\ \/ freeze # 0 /\ RunBegin("pmf", "reset", freeze - 1) /\ Goto("pmf", "reset")
         \/ freeze' = freeze - Bit(freeze # 0) /\ Goto("pmf", "idle") /\ UNCHANGED <<flags, extra>>
  BY DEF Resume
<1>2. /\ Waits /\ Bit(Waits) = 1 /\ Run("pmf") = 0 /\ Left' = Left
      /\ Left \in Nat /\ Accounts \in Nat
  BY <1>1 DEF Waits, Run, In, Types, Bit, Left, Accounts
<1>3. CASE freeze # 0 /\ RunBegin("pmf", "reset", freeze - 1) /\ Goto("pmf", "reset")
  <2>1. Accounts' = Accounts + 1 - Run("pmf") - Bit("pmf" = "pmf" /\ Waits) - Left + Left'
    BY <1>3, RunBeginAccounts DEF CountInv, Runners, Types
  <2>2. Bit("pmf" = "pmf" /\ Waits) = 1
    BY <1>2 DEF Bit
  <2>3. Accounts' = Accounts
    BY <1>2, <2>1, <2>2
  <2>4. freeze' = (freeze - 1) + 1 /\ astray' = astray
    BY <1>1, <1>3 DEF RunBegin, Bit, CountInv, Balanced
  <2>. QED
    BY <2>3, <2>4 DEF CountInv, Balanced
<1>4. CASE freeze' = freeze - Bit(freeze # 0) /\ Goto("pmf", "idle") /\ UNCHANGED <<flags, extra>>
  <2>1. pc'["pmf"] = "idle"
    BY <1>4 DEF Goto, CountInv, Kinds, Ctx, Runners
  <2>2. Bit(Waits)' = 0 /\ Run("pmf")' = 0
    BY <2>1 DEF Waits, Run, In, Types, Bit
  <2>3. Run("thread")' = Run("thread") /\ Run("ioctl")' = Run("ioctl") /\ Scheduled' = Scheduled
    BY <1>4 DEF Goto, Run, In, Scheduled, Bit
  <2>4. Accounts' = Accounts - 1
    BY <1>2, <2>2, <2>3, AccountsByHolder, AccountsAfter
  <2>5. Bit(freeze # 0) = 1 - Bit(freeze = 0) /\ Bit(freeze = 0) \in Nat
    BY DEF Bit
  <2>. QED
    BY <1>1, <1>2, <1>4, <2>4, <2>5 DEF CountInv, Balanced
<1>. QED
  BY <1>1, <1>3, <1>4

(* A request for a rescan freezes nothing.                                   *)
LEMMA RequestRescanCount ==
  ASSUME CountInv, RequestRescan
  PROVE  Balanced'
<1>1. UNCHANGED <<freeze, astray>>
  BY DEF RequestRescan
<1>2. Accounts' = Accounts
  BY DEF RequestRescan, Accounts, In, Waits
<1>. QED
  BY <1>1, <1>2 DEF CountInv, Balanced

(* A detach freezes nothing.                                                 *)
LEMMA DetachCount ==
  ASSUME CountInv, Detach
  PROVE  Balanced'
<1>1. /\ UNCHANGED <<freeze, xfer, extra, astray>> /\ \E l \in {"done", "wait"} : Goto("detach", l)
      /\ \A t \in Types : t \in flags' <=> t \in flags
  BY DEF Detach, DetachLoop, Types
<1>2. \A c \in Runners : pc'[c] = pc[c]
  BY <1>1 DEF Goto, Runners
<1>3. \A c \in Runners : Run(c)' = Run(c)
  BY <1>1, <1>2 DEF Run, In
<1>4. Scheduled' = Scheduled /\ Left' = Left /\ Bit(Waits)' = Bit(Waits)
  BY <1>1, <1>2 DEF Scheduled, Left, Waits, Types, Runners
<1>5. Accounts' = Accounts
  BY <1>3, <1>4, AccountsByHolder, AccountsAfter DEF Runners
<1>. QED
  BY <1>1, <1>5 DEF CountInv, Balanced

(* A detach freezes nothing.                                                 *)
LEMMA DetachWakesCount ==
  ASSUME CountInv, DetachWakes
  PROVE  Balanced'
<1>1. /\ UNCHANGED <<freeze, xfer, extra, astray>> /\ \E l \in {"done", "wait"} : Goto("detach", l)
      /\ \A t \in Types : t \in flags' <=> t \in flags
  BY DEF DetachWakes, DetachLoop, Types
<1>2. \A c \in Runners : pc'[c] = pc[c]
  BY <1>1 DEF Goto, Runners
<1>3. \A c \in Runners : Run(c)' = Run(c)
  BY <1>1, <1>2 DEF Run, In
<1>4. Scheduled' = Scheduled /\ Left' = Left /\ Bit(Waits)' = Bit(Waits)
  BY <1>1, <1>2 DEF Scheduled, Left, Waits, Types, Runners
<1>5. Accounts' = Accounts
  BY <1>3, <1>4, AccountsByHolder, AccountsAfter DEF Runners
<1>. QED
  BY <1>1, <1>5 DEF CountInv, Balanced

(* The channel begins with the thread awake.                                 *)
LEMMA WakeInit == Init => WakeInv
<1>. SUFFICES ASSUME Init PROVE WakeInv
  OBVIOUS
<1>1. pc \in [Ctx -> Labels] /\ extra \in [Runners -> BOOLEAN]
  BY DEF Init, Labels
<1>2. Kinds
  BY <1>1, ThreadAssumption DEF Init, Kinds
<1>3. Sleepers
  BY DEF Init, Sleepers, Ctx
<1>. QED
  BY <1>2, <1>3 DEF WakeInv

(* Each action, by its lemma, and stuttering.                                *)
LEMMA WakeNext == WakeInv /\ [Next]_vars => WakeInv'
<1>. SUFFICES ASSUME WakeInv, [Next]_vars PROVE WakeInv'
  OBVIOUS
<1>1. CASE Thread
  BY <1>1, SleepWake, ExitWake, RescanWake, ServeResetWake, ServeDrivesWake,
     DriveDoneWake, ServeRecoveryWake, HookDoneWake, ServeXferWake, ServePanicWake,
     ServeNothingWake, KickWake DEF Thread
<1>2. CASE Submit \/ Complete \/ AskReset \/ AskRecovery
  BY <1>2, SubmitWake, CompleteWake, AskResetWake, AskRecoveryWake
<1>3. ASSUME NEW d \in DriveIds, AskDrive(d) PROVE WakeInv'
  BY <1>3, AskDriveWake
<1>4. CASE IoctlReset \/ Suspend \/ Suspended \/ Resume
  BY <1>4, IoctlResetWake, SuspendWake, SuspendedWake, ResumeWake
<1>5. ASSUME NEW c \in {"ioctl", "pmf"}, UserDone(c) PROVE WakeInv'
  BY <1>5, UserDoneWake
<1>6. CASE RequestRescan \/ Detach \/ DetachWakes
  BY <1>6, RequestRescanWake, DetachWake, DetachWakesWake
<1>7. CASE UNCHANGED vars
  BY <1>7 DEF vars, WakeInv, Kinds, Sleepers
<1>. QED
  BY <1>1, <1>2, <1>3, <1>4, <1>5, <1>6, <1>7 DEF Next

(* The thread never sleeps on a request.                                     *)
LEMMA WakeAlways == Spec => []WakeInv
<1>. QED
  BY WakeInit, WakeNext, PTL DEF Spec

(* The channel begins thawed and with no holders.                            *)
LEMMA CountInit == Init => Balanced
<1>. SUFFICES ASSUME Init PROVE Balanced
  OBVIOUS
<1>. QED
  BY DEF Init, Balanced, Accounts, In, Waits, Types, Ctx, Runners, Bit

(* Each action, by its lemma, and stuttering.                                *)
LEMMA CountNext ==
  ASSUME CountInv, [Next]_vars
  PROVE  Balanced'
<1>1. CASE Thread
  BY <1>1, SleepCount, ExitCount, RescanCount, ServeResetCount, ServeDrivesCount,
     DriveDoneCount, ServeRecoveryCount, HookDoneCount, ServeXferCount, ServePanicCount,
     ServeNothingCount, KickCount DEF Thread
<1>2. CASE Submit \/ Complete
  BY <1>2, SubmitCount, CompleteCount
<1>3. CASE AskReset \/ AskRecovery \/ \E d \in DriveIds : AskDrive(d)
  <2>1. \E t \in Types : Ask(t)
    BY <1>3 DEF AskReset, AskRecovery, AskDrive, Types
  <2>. QED
    BY <2>1, AskCount
<1>4. CASE IoctlReset \/ Suspend \/ Suspended \/ Resume
  BY <1>4, IoctlResetCount, SuspendCount, SuspendedCount, ResumeCount
<1>5. ASSUME NEW c \in {"ioctl", "pmf"}, UserDone(c) PROVE Balanced'
  BY <1>5, UserDoneCount
<1>6. CASE RequestRescan \/ Detach \/ DetachWakes
  BY <1>6, RequestRescanCount, DetachCount, DetachWakesCount
<1>7. CASE UNCHANGED vars
  BY <1>7 DEF vars, CountInv, Balanced, Accounts, In, Waits
<1>. QED
  BY <1>1, <1>2, <1>3, <1>4, <1>5, <1>6, <1>7 DEF Next

(* The counter is always balanced.                                           *)
LEMMA CountAlways == Spec => []CountInv
<1>1. Init => Balanced
  BY CountInit
<1>2. CountInv /\ [Next]_vars => Balanced'
  BY CountNext
<1>3. WakeInv => Kinds
  BY DEF WakeInv
<1>4. CountInv <=> Kinds /\ Balanced
  BY DEF CountInv
<1>. QED
  BY <1>1, <1>2, <1>3, <1>4, WakeAlways, PTL DEF Spec

(* No wakeup is lost (cv_signal and cv_wait on ch_thr_idle): a thread that   *)
(* is asleep has nothing to do, and the one signal of a shutdown or of a     *)
(* request never goes to a context that can do nothing with it.  For any     *)
(* number of drives and any users.                                           *)
THEOREM NoWakeupLost == Spec => []NoLostWakeup
<1>1. WakeInv => NoLostWakeup
  BY DEF WakeInv, Sleepers, NoLostWakeup
<1>. QED
  BY <1>1, WakeAlways, PTL

(* queue_freeze is exactly what its holders account for                      *)
(* (ata_channel_freeze_locked, ata_channel_thaw_locked), but for the three   *)
(* ways in which the code loses count, each to its number: whatever drivers  *)
(* schedule, on how many drives, beside any reset, suspension and transfer.  *)
THEOREM FreezeIsCounted == Spec => []FreezeCounts
<1>1. CountInv => FreezeCounts
  BY HeldIsAccounts DEF CountInv, Balanced, FreezeCounts
<1>. QED
  BY <1>1, CountAlways, PTL

(* Every variable keeps its type.                                            *)
THEOREM ThreadTypes == Spec => []TypeOK
<1>1. CountInv => TypeOK
  BY DEF CountInv, Balanced, Kinds, Labels, TypeOK
<1>. QED
  BY <1>1, CountAlways, PTL

(* The thread's inference from the two counters (atabus_thread's thaw and    *)
(* start of a transfer, and its panic) goes wrong only beside a reset or a   *)
(* suspension of another context, or by a freeze that lost its holder: not   *)
(* by what is scheduled, nor by a transfer postponed.                        *)
THEOREM OnlyHoldersMisleadIt == Spec => OnlyHoldersMislead
<1>1. ASSUME CountInv, Misled PROVE In("ioctl") \/ In("pmf") \/ Waits \/ astray > 0
  <2>1. Serving /\ flags \cap Types = {} /\ Run("thread") = 0
    BY <1>1, ServingHoldsNothing DEF Misled, ServeXfer, ServePanic, NothingAsked
  <2>2. Scheduled = 0
    BY <2>1 DEF Scheduled, Types, Bit
  <2>3. freeze > Left
    BY <1>1 DEF Misled, ServeXfer, ServePanic, Left, Bit, CountInv, Balanced
  <2>. SUFFICES ASSUME ~In("ioctl"), ~In("pmf"), ~Waits PROVE astray > 0
    OBVIOUS
  <2>4. Run("ioctl") = 0 /\ Run("pmf") = 0 /\ Bit(Waits) = 0
    BY DEF Run, Bit
  <2>5. Accounts = Left /\ Left \in Nat
    BY <2>1, <2>2, <2>4, AccountsByHolder
  <2>. QED
    BY <1>1, <2>3, <2>5 DEF CountInv, Balanced
<1>2. CountInv /\ [Next]_vars => [Misled => In("ioctl") \/ In("pmf") \/ Waits \/ astray > 0]_vars
  BY <1>1
<1>. QED
  BY <1>2, CountAlways, PTL DEF Spec, OnlyHoldersMislead

===============================================================================
