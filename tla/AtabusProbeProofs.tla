-------------------------- MODULE AtabusProbeProofs --------------------------
(***************************************************************************)
(* Theorems about AtabusProbe, for any set of buses.                       *)
(*                                                                         *)
(* A rescan upsets the queue and the count of references, so all that is   *)
(* claimed beyond the types ends with the first one (ProbeInv).  Until     *)
(* then a config thread is the bus's at the head of the queue (Queued),    *)
(* which needs that a bus that probes has its entry, and that none probes  *)
(* again once its config thread exists or could not be created.  The count *)
(* follows from the queue (Counted).                                       *)
(***************************************************************************)
EXTENDS AtabusProbe, ListLemmas, FiniteSetTheorems

(* Where a bus and its thread can be.                                        *)
States == {"none", "dead", "nothread", "probe", "order", "top", "wait", "busy", "gone"}

(* Types, whatever is rescanned.                                             *)
Shape ==
  pc \in [Buses -> States] /\ rescans \in [Buses -> Nat] /\ spawned \in [Buses -> Nat]

(* A config thread works for the bus whose entry is the first, and will take *)
(* that one for its own.                                                     *)
Serves(t) ==
  /\ t[1] \in Buses /\ t = <<t[1], 0>> /\ spawned[t[1]] = 1
  /\ initq # <<>> /\ Head(initq) = t
  /\ conf[t] \in {NoEntry, t}

(* Every entry is the one of a bus that has attached, a bus that probes has  *)
(* its own, and does not probe again.                                        *)
Queued ==
  /\ initq \in Seq(Buses \X Nat) /\ IsInjective(initq)
  /\ rescan = {} /\ wild = FALSE
  /\ \A e \in ToSet(initq) : e[2] = 0 /\ pc[e[1]] # "none"
  /\ \A b \in Probing : <<b, 0>> \in ToSet(initq)
  /\ \A b \in Buses : spawned[b] # 0 \/ b \in orphans => pc[b] \notin {"none", "probe", "order"}
  /\ \A t \in Confs : Serves(t)

(* The uses of the adapter can be counted, and are.                          *)
Counted ==
  /\ IsFiniteSet(Probing) /\ IsFiniteSet(orphans) /\ IsFiniteSet(opened)
  /\ refs = Cardinality(Probing) + Cardinality(Confs) + Cardinality(orphans)
              + Cardinality(opened)
  /\ powered = (refs > 0)

(* The inductive invariant.                                                  *)
ProbeInv == Shape /\ (rescans = Zero => Queued /\ Counted)

(* The first entry.                                                          *)
LEMMA FirstEntry ==
  ASSUME Queued, initq # <<>>
  PROVE  /\ Head(initq) \in ToSet(initq) /\ Head(initq) = <<Head(initq)[1], 0>>
         /\ Head(initq)[1] \in Buses
<1>1. /\ initq \in Seq(Buses \X Nat) /\ 1 \in DOMAIN initq /\ Head(initq) = initq[1]
      /\ initq[1] \in Buses \X Nat
  BY DEF Queued
<1>2. Head(initq) \in ToSet(initq)
  BY <1>1 DEF ToSet
<1>3. Head(initq)[2] = 0
  BY <1>2 DEF Queued
<1>. QED
  BY <1>1, <1>2, <1>3

(* Only one config thread at a time.                                         *)
LEMMA OneConfig ==
  ASSUME Queued
  PROVE  /\ IsFiniteSet(Confs) /\ Cardinality(Confs) \in Nat /\ Cardinality(Confs) <= 1
         /\ \A t \in Confs : Confs = {t} /\ Cardinality(Confs) = 1
<1>1. CASE Confs = {}
  BY <1>1, FS_EmptySet
<1>2. CASE Confs # {}
  <2>1. PICK t \in Confs : TRUE
    BY <1>2
  <2>2. Confs = {t}
    <3>1. \A u \in Confs : u = Head(initq)
      BY DEF Queued, Serves
    <3>. QED
      BY <2>1, <3>1
  <2>3. IsFiniteSet({t}) /\ Cardinality({t}) = 1
    BY FS_Singleton
  <2>. QED
    BY <2>2, <2>3
<1>. QED
  BY <1>1, <1>2

(* A bus at its turn has the first entry, and no config thread is at work.   *)
LEMMA AtItsTurn ==
  ASSUME Shape, Queued, NEW b \in Buses, pc[b] = "order", MyTurn(b)
  PROVE  /\ initq # <<>> /\ Head(initq) = <<b, 0>>
         /\ Confs = {} /\ spawned[b] = 0 /\ b \notin orphans
<1>1. initq # <<>> /\ Head(initq)[1] = b
  BY DEF MyTurn, First
<1>2. Head(initq) = <<b, 0>>
  BY <1>1, FirstEntry
<1>3. spawned[b] = 0 /\ b \notin orphans
  BY DEF Queued
<1>4. \A t \in Confs : t[1] = b /\ spawned[b] = 1
  BY <1>1 DEF Queued, Serves
<1>. QED
  BY <1>1, <1>2, <1>3, <1>4

(* What the end of a probe takes off the queue.                              *)
LEMMA Removed ==
  ASSUME Queued, NEW e, EndProbe(e)
  PROVE  /\ initq' \in Seq(Buses \X Nat) /\ IsInjective(initq')
         /\ ToSet(initq') = ToSet(initq) \ {e}
<1>1. PICK i \in DOMAIN initq : initq[i] = e /\ initq' = RemoveAt(initq, i)
  BY DEF EndProbe
<1>2. initq \in Seq(Buses \X Nat) /\ IsInjective(initq)
  BY DEF Queued
<1>3. initq' \in Seq(Buses \X Nat)
  BY <1>1, <1>2, RemoveAtFacts
<1>4. IsInjective(initq')
  BY <1>1, <1>2, RemoveAtDistinct
<1>5. ToSet(initq') = ToSet(initq) \ {e}
  BY <1>1, <1>2, RemoveAtSet
<1>. QED
  BY <1>3, <1>4, <1>5

(* What an attachment puts at the end of the queue.                          *)
LEMMA Added ==
  ASSUME Queued, NEW b \in Buses, <<b, 0>> \notin ToSet(initq),
         initq' = Append(initq, <<b, 0>>)
  PROVE  /\ initq' \in Seq(Buses \X Nat) /\ IsInjective(initq')
         /\ ToSet(initq') = ToSet(initq) \cup {<<b, 0>>}
         /\ initq # <<>> => initq' # <<>> /\ Head(initq') = Head(initq)
<1>. DEFINE e == <<b, 0>>
            S == Buses \X Nat
<1>1. initq \in Seq(S) /\ IsInjective(initq) /\ e \in S
  BY DEF Queued
<1>. HIDE DEF e, S
<1>2. initq' = Append(initq, e) /\ e \notin ToSet(initq)
  BY DEF e
<1>3. initq' \in Seq(S) /\ ToSet(initq') = ToSet(initq) \cup {e}
  <2>1. Append(initq, e) \in Seq(S) /\ ToSet(Append(initq, e)) = ToSet(initq) \cup {e}
    BY <1>1, AppendFacts
  <2>. QED
    BY <1>2, <2>1
<1>4. IsInjective(initq')
  BY <1>1, <1>2, AppendDistinct
<1>5. initq # <<>> => initq' # <<>> /\ Head(initq') = Head(initq)
  BY <1>1, <1>2
<1>. QED
  BY <1>3, <1>4, <1>5 DEF e, S

(* One reference more, and one less.                                         *)
LEMMA AddRefPowers ==
  ASSUME refs \in Nat, powered = (refs > 0), AddRef
  PROVE  refs' = refs + 1 /\ powered' = (refs' > 0)
<1>1. refs' = refs + 1 /\ refs' > 0
  BY DEF AddRef
<1>2. powered'
  <2>1. refs > 0 \/ refs = 0
    OBVIOUS
  <2>. QED
    BY <2>1, Zenon DEF AddRef
<1>3. powered' \in BOOLEAN
  BY Zenon DEF AddRef
<1>. QED
  BY <1>1, <1>2, <1>3

(* ata_delref drops one reference, and the last one powers the adapter down.*)
LEMMA DelRefPowersDown ==
  ASSUME refs \in Nat \ {0}, powered = (refs > 0), DelRef
  PROVE  refs' = refs - 1 /\ powered' = (refs' > 0)
<1>1. refs' = refs - 1 /\ (refs' > 0 <=> refs # 1) /\ refs > 0
  BY DEF DelRef
<1>2. powered' <=> refs # 1
  BY <1>1, Zenon DEF DelRef
<1>3. powered' \in BOOLEAN
  BY Zenon DEF DelRef
<1>. QED
  BY <1>1, <1>2, <1>3

(* The count is a natural number.                                            *)
LEMMA CountedNat ==
  ASSUME Queued, Counted
  PROVE  /\ Cardinality(Probing) \in Nat /\ Cardinality(orphans) \in Nat
         /\ Cardinality(opened) \in Nat /\ Cardinality(Confs) \in Nat /\ refs \in Nat
<1>1. /\ Cardinality(Probing) \in Nat /\ Cardinality(orphans) \in Nat
      /\ Cardinality(opened) \in Nat
  BY FS_CardinalityType DEF Counted
<1>2. Cardinality(Confs) \in Nat
  BY OneConfig
<1>. QED
  BY <1>1, <1>2 DEF Counted

(* Where a thread goes, and what that makes of the buses that probe.         *)
LEMMA Goes ==
  ASSUME Shape, NEW b \in Buses, NEW l \in States, pc' = [pc EXCEPT ![b] = l]
  PROVE  /\ pc' \in [Buses -> States] /\ pc'[b] = l
         /\ \A c \in Buses : c # b => pc'[c] = pc[c]
         /\ Probing' = IF l \in {"probe", "order"} THEN Probing \cup {b} ELSE Probing \ {b}
<1>1. /\ pc' \in [Buses -> States] /\ pc'[b] = l
      /\ \A c \in Buses : c # b => pc'[c] = pc[c]
  BY DEF Shape
<1>2. Probing' = {c \in Buses : pc'[c] \in {"probe", "order"}}
  BY DEF Probing
<1>3. CASE l \in {"probe", "order"}
  <2>1. Probing' = Probing \cup {b}
    BY <1>1, <1>2, <1>3 DEF Probing
  <2>. QED
    BY <1>1, <1>3, <2>1
<1>4. CASE l \notin {"probe", "order"}
  <2>1. Probing' = Probing \ {b}
    BY <1>1, <1>2, <1>4 DEF Probing
  <2>. QED
    BY <1>1, <1>4, <2>1
<1>. QED
  BY <1>3, <1>4

(* Steps that move a thread, or have a config thread take its entry, and     *)
(* leave the queue and the count.                                            *)
Quiet ==
  /\ UNCHANGED <<initq, rescan, spawned, orphans, wild, refs, powered, opened>>
  /\ UNCHANGED Confs /\ \A t \in Confs : conf'[t] \in {NoEntry, t}
  /\ \A b \in Buses : pc[b] = "none" <=> pc'[b] = "none"
  /\ \A b \in Buses : pc[b] \in {"probe", "order"} <=> pc'[b] \in {"probe", "order"}

(* A step that changes neither entries nor references nor who probes keeps  *)
(* the order and the count.                                                 *)
LEMMA QuietKeeps ==
  ASSUME Queued, Counted, Quiet
  PROVE  Queued' /\ Counted'
<1>1. Probing' = Probing
  BY DEF Quiet, Probing
<1>2. \A t \in Confs : Serves(t)'
  BY DEF Quiet, Queued, Serves
<1>3. \A e \in ToSet(initq) : e[2] = 0 /\ pc'[e[1]] # "none"
  <2>1. ASSUME NEW e \in ToSet(initq) PROVE e[1] \in Buses
    <3>1. initq \in Seq(Buses \X Nat) /\ \E i \in DOMAIN initq : e = initq[i]
      BY <2>1 DEF Queued, ToSet
    <3>2. e \in Buses \X Nat
      BY <3>1
    <3>. QED
      BY <3>2
  <2>. QED
    BY <2>1 DEF Quiet, Queued
<1>4. Queued'
  BY <1>1, <1>2, <1>3 DEF Quiet, Queued
<1>5. Counted'
  BY <1>1 DEF Quiet, Counted
<1>. QED
  BY <1>4, <1>5

(* What a bus and its users do apart from the entries.                       *)
LEMMA QuietActions ==
  ASSUME Shape, Queued, NEW b \in Buses,
         \/ Probe(b) \/ AwaitTurn(b) \/ Sleep(b) \/ Wake(b) \/ NoRescan(b) \/ WorkDone(b)
         \/ Exit(b) \/ Detach(b)
  PROVE  Quiet
<1>1. UNCHANGED <<initq, rescan, spawned, orphans, wild, refs, powered, opened, conf>>
  BY DEF Probe, AwaitTurn, Sleep, Wake, NoRescan, WorkDone, Exit, Detach, refVars
<1>2. \/ UNCHANGED pc
      \/ pc[b] = "probe" /\ pc' = [pc EXCEPT ![b] = "order"]
      \/ /\ pc[b] \in {"dead", "nothread", "top", "wait", "busy"}
         /\ \E l \in {"wait", "busy", "top", "gone"} : pc' = [pc EXCEPT ![b] = l]
  BY DEF Probe, AwaitTurn, Sleep, Wake, NoRescan, WorkDone, Exit, Detach, Goto, Awake
<1>3. /\ \A c \in Buses : pc[c] = "none" <=> pc'[c] = "none"
      /\ \A c \in Buses : pc[c] \in {"probe", "order"} <=> pc'[c] \in {"probe", "order"}
  BY <1>2 DEF Shape
<1>4. UNCHANGED Confs /\ \A t \in Confs : conf'[t] \in {NoEntry, t}
  BY <1>1 DEF Confs, Queued, Serves
<1>. QED
  BY <1>1, <1>3, <1>4 DEF Quiet

(* The first entry is the config thread's own.                               *)
LEMMA QuietConfigs ==
  ASSUME Shape, Queued, NEW t \in Confs, ConfBegin(t) \/ ConfAttach(t)
  PROVE  Quiet
<1>1. UNCHANGED <<initq, rescan, spawned, orphans, wild, refs, powered, opened, pc>>
  BY DEF ConfBegin, ConfAttach, refVars
<1>2. UNCHANGED Confs
  BY DEF ConfBegin, ConfAttach, Confs
<1>3. First = t
  BY DEF Queued, Serves, First
<1>4. ASSUME NEW u \in Confs PROVE conf'[u] \in {NoEntry, u}
  <2>1. conf[u] \in {NoEntry, u}
    BY DEF Queued, Serves
  <2>2. CASE ConfBegin(t)
    BY <1>3, <2>1, <2>2 DEF ConfBegin, Confs
  <2>3. CASE ConfAttach(t)
    BY <2>1, <2>3 DEF ConfAttach
  <2>. QED
    BY <2>2, <2>3
<1>. QED
  BY <1>1, <1>2, <1>4 DEF Quiet

(* A bus that attaches has an entry and a reference, and a thread or none.   *)
LEMMA AttachKeeps ==
  ASSUME Shape, Queued, Counted, NEW b \in Buses, Attach(b)
  PROVE  Queued' /\ Counted'
<1>1. /\ pc[b] = "none" /\ UNCHANGED <<rescan, wild, spawned, conf, opened>>
      /\ UNCHANGED Confs
  BY DEF Attach, Confs
<1>2. b \notin Probing /\ spawned[b] = 0 /\ b \notin orphans
  BY <1>1 DEF Probing, Queued
<1>3. \A e \in ToSet(initq) : e[1] # b /\ e[1] \in Buses
  <2>1. ASSUME NEW e \in ToSet(initq) PROVE e[1] \in Buses
    <3>1. initq \in Seq(Buses \X Nat) /\ \E i \in DOMAIN initq : e = initq[i]
      BY <2>1 DEF Queued, ToSet
    <3>2. e \in Buses \X Nat
      BY <3>1
    <3>. QED
      BY <3>2
  <2>. QED
    BY <1>1, <2>1 DEF Queued
<1>4. CASE AddRefFails /\ Goto(b, "dead") /\ UNCHANGED <<initq, orphans>>
  <2>1. /\ pc'[b] = "dead" /\ \A c \in Buses : c # b => pc'[c] = pc[c]
        /\ Probing' = Probing
    <3>1. /\ pc'[b] = "dead" /\ \A c \in Buses : c # b => pc'[c] = pc[c]
          /\ Probing' = Probing \ {b}
      BY <1>4, Goes DEF Goto, States
    <3>. QED
      BY <1>2, <3>1
  <2>2. \A t \in Confs : Serves(t)'
    BY <1>1, <1>4 DEF Queued, Serves
  <2>3. Queued'
    BY <1>1, <1>2, <1>3, <1>4, <2>1, <2>2 DEF Queued
  <2>4. UNCHANGED <<refs, powered>>
    BY <1>4 DEF AddRefFails, refVars
  <2>5. Counted'
    BY <1>1, <1>4, <2>1, <2>4 DEF Counted
  <2>. QED
    BY <2>3, <2>5
<1>5. CASE AddRef /\ initq' = Append(initq, <<b, 0>>)
  <2>1. /\ initq' \in Seq(Buses \X Nat) /\ IsInjective(initq')
        /\ ToSet(initq') = ToSet(initq) \cup {<<b, 0>>}
        /\ initq # <<>> => initq' # <<>> /\ Head(initq') = Head(initq)
    <3>1. <<b, 0>> \notin ToSet(initq)
      BY <1>3
    <3>. QED
      BY <1>5, <3>1, Added
  <2>2. \A t \in Confs : Serves(t)'
    BY <1>1, <2>1 DEF Queued, Serves
  <2>3. refs \in Nat /\ refs' = refs + 1 /\ powered' = (refs' > 0)
    <3>1. refs \in Nat /\ powered = (refs > 0)
      BY CountedNat DEF Counted
    <3>. QED
      BY <1>5, <3>1, AddRefPowers
  <2>4. CASE Goto(b, "probe") /\ UNCHANGED orphans
    <3>1. /\ pc'[b] = "probe" /\ \A c \in Buses : c # b => pc'[c] = pc[c]
          /\ Probing' = Probing \cup {b}
      BY <2>4, Goes DEF Goto, States
    <3>2. Queued'
      <4>1. \A e \in ToSet(initq') : e[2] = 0 /\ pc'[e[1]] # "none"
        <5>. SUFFICES ASSUME NEW e \in ToSet(initq') PROVE e[2] = 0 /\ pc'[e[1]] # "none"
          OBVIOUS
        <5>1. CASE e = <<b, 0>>
          BY <3>1, <5>1
        <5>2. CASE e \in ToSet(initq)
          BY <1>3, <3>1, <5>2 DEF Queued
        <5>. QED
          BY <2>1, <5>1, <5>2
      <4>2. \A c \in Probing' : <<c, 0>> \in ToSet(initq')
        BY <2>1, <3>1 DEF Queued
      <4>3. \A c \in Buses : spawned'[c] # 0 \/ c \in orphans' => pc'[c] \notin {"none", "probe", "order"}
        BY <1>1, <1>2, <2>4, <3>1 DEF Queued
      <4>. QED
        BY <1>1, <2>1, <2>2, <4>1, <4>2, <4>3 DEF Queued
    <3>3. IsFiniteSet(Probing') /\ Cardinality(Probing') = Cardinality(Probing) + 1
      BY <1>2, <3>1, FS_AddElement DEF Counted
    <3>4. Counted'
      BY <1>1, <2>3, <2>4, <3>3, CountedNat DEF Counted
    <3>. QED
      BY <3>2, <3>4
  <2>5. CASE Goto(b, "nothread") /\ orphans' = orphans \cup {b}
    <3>1. /\ pc'[b] = "nothread" /\ \A c \in Buses : c # b => pc'[c] = pc[c]
          /\ Probing' = Probing
      <4>1. /\ pc'[b] = "nothread" /\ \A c \in Buses : c # b => pc'[c] = pc[c]
            /\ Probing' = Probing \ {b}
        BY <2>5, Goes DEF Goto, States
      <4>. QED
        BY <1>2, <4>1
    <3>2. Queued'
      <4>1. \A e \in ToSet(initq') : e[2] = 0 /\ pc'[e[1]] # "none"
        <5>. SUFFICES ASSUME NEW e \in ToSet(initq') PROVE e[2] = 0 /\ pc'[e[1]] # "none"
          OBVIOUS
        <5>1. CASE e = <<b, 0>>
          BY <3>1, <5>1
        <5>2. CASE e \in ToSet(initq)
          BY <1>3, <3>1, <5>2 DEF Queued
        <5>. QED
          BY <2>1, <5>1, <5>2
      <4>2. \A c \in Probing' : <<c, 0>> \in ToSet(initq')
        BY <2>1, <3>1 DEF Queued
      <4>3. \A c \in Buses : spawned'[c] # 0 \/ c \in orphans' => pc'[c] \notin {"none", "probe", "order"}
        BY <1>1, <2>5, <3>1 DEF Queued
      <4>. QED
        BY <1>1, <2>1, <2>2, <4>1, <4>2, <4>3 DEF Queued
    <3>3. IsFiniteSet(orphans') /\ Cardinality(orphans') = Cardinality(orphans) + 1
      BY <1>2, <2>5, FS_AddElement DEF Counted
    <3>4. Counted'
      BY <1>1, <2>3, <3>1, <3>3, CountedNat DEF Counted
    <3>. QED
      BY <3>2, <3>4
  <2>. QED
    BY <1>5, <2>4, <2>5 DEF Attach, Goto, AddRefFails, AddRef
<1>. QED
  BY <1>4, <1>5 DEF Attach

(* A probe that found nothing ends with its entry and its reference.         *)
LEMMA NoDrivesKeeps ==
  ASSUME Shape, Queued, Counted, NEW b \in Buses, NoDrives(b)
  PROVE  Queued' /\ Counted'
<1>1. /\ pc[b] = "order" /\ MyTurn(b) /\ EndProbe(Head(initq)) /\ DelRef
      /\ UNCHANGED <<rescan, wild, spawned, conf, orphans, opened>> /\ UNCHANGED Confs
  BY DEF NoDrives, EndProbe, Confs
<1>2. Head(initq) = <<b, 0>> /\ Confs = {} /\ spawned[b] = 0 /\ b \notin orphans
  BY <1>1, AtItsTurn
<1>3. /\ initq' \in Seq(Buses \X Nat) /\ IsInjective(initq')
      /\ ToSet(initq') = ToSet(initq) \ {<<b, 0>>}
  BY <1>1, <1>2, Removed
<1>4. /\ pc'[b] = "top" /\ \A c \in Buses : c # b => pc'[c] = pc[c]
      /\ Probing' = Probing \ {b}
  BY Goes DEF NoDrives, Goto, States
<1>5. b \in Probing
  BY <1>1 DEF Probing
<1>6. Queued'
  <2>1. \A e \in ToSet(initq') : e[1] \in Buses
    <3>1. ASSUME NEW e \in ToSet(initq') PROVE e \in Buses \X Nat
      BY <1>3 DEF ToSet
    <3>. QED
      BY <3>1
  <2>2. \A c \in Probing' : <<c, 0>> \in ToSet(initq')
    BY <1>3, <1>4 DEF Queued
  <2>. QED
    BY <1>1, <1>2, <1>3, <1>4, <2>1, <2>2 DEF Queued
<1>7. IsFiniteSet(Probing') /\ Cardinality(Probing') = Cardinality(Probing) - 1
  BY <1>4, <1>5, FS_RemoveElement DEF Counted
<1>8. refs \in Nat \ {0} /\ refs' = refs - 1 /\ powered' = (refs' > 0)
  <2>1. Cardinality(Probing) # 0
    BY <1>5, FS_EmptySet DEF Counted
  <2>2. refs \in Nat \ {0} /\ powered = (refs > 0)
    BY <2>1, CountedNat DEF Counted
  <2>. QED
    BY <1>1, <2>2, DelRefPowersDown
<1>9. Counted'
  BY <1>1, <1>7, <1>8, CountedNat DEF Counted
<1>. QED
  BY <1>6, <1>9

(* The drives go to a config thread, or to nobody: entry and reference stay. *)
LEMMA SpawnKeeps ==
  ASSUME Shape, Queued, Counted, NEW b \in Buses, SpawnConfig(b)
  PROVE  Queued' /\ Counted'
<1>1. /\ pc[b] = "order" /\ MyTurn(b)
      /\ UNCHANGED <<initq, rescan, wild, refs, powered, opened>>
  BY DEF SpawnConfig, refVars
<1>2. initq # <<>> /\ Head(initq) = <<b, 0>> /\ Confs = {} /\ spawned[b] = 0 /\ b \notin orphans
  BY <1>1, AtItsTurn
<1>3. /\ pc'[b] = "top" /\ \A c \in Buses : c # b => pc'[c] = pc[c]
      /\ Probing' = Probing \ {b}
  BY Goes DEF SpawnConfig, Goto, States
<1>4. /\ IsFiniteSet(Probing') /\ Cardinality(Probing') = Cardinality(Probing) - 1
      /\ b \in Probing
  <2>1. b \in Probing
    BY <1>1 DEF Probing
  <2>. QED
    BY <1>3, <2>1, FS_RemoveElement DEF Counted
<1>5. \A e \in ToSet(initq) : pc'[e[1]] # "none"
  <2>1. ASSUME NEW e \in ToSet(initq) PROVE e[1] \in Buses
    <3>1. initq \in Seq(Buses \X Nat) /\ \E i \in DOMAIN initq : e = initq[i]
      BY <2>1 DEF Queued, ToSet
    <3>2. e \in Buses \X Nat
      BY <3>1
    <3>. QED
      BY <3>2
  <2>. QED
    BY <1>3, <2>1 DEF Queued
<1>6. CASE /\ conf' = [t \in Confs \cup {<<b, spawned[b]>>} |-> IF t \in Confs THEN conf[t] ELSE NoEntry]
           /\ spawned' = [spawned EXCEPT ![b] = @ + 1] /\ UNCHANGED orphans
  <2>1. Confs' = {<<b, 0>>} /\ conf'[<<b, 0>>] = NoEntry
    BY <1>2, <1>6 DEF Confs
  <2>2. spawned'[b] = 1 /\ \A c \in Buses : c # b => spawned'[c] = spawned[c]
    BY <1>2, <1>6 DEF Shape
  <2>3. \A t \in Confs' : Serves(t)'
    BY <1>1, <1>2, <2>1, <2>2 DEF Serves
  <2>4. Queued'
    BY <1>1, <1>3, <1>5, <1>6, <2>2, <2>3 DEF Queued
  <2>5. Cardinality(Confs) = 0 /\ Cardinality(Confs') = 1
    BY <1>2, <2>1, FS_EmptySet, FS_Singleton
  <2>6. Counted'
    BY <1>1, <1>4, <1>6, <2>5, CountedNat DEF Counted
  <2>. QED
    BY <2>4, <2>6
<1>7. CASE orphans' = orphans \cup {b} /\ UNCHANGED <<conf, spawned>>
  <2>1. Confs' = {}
    BY <1>2, <1>7 DEF Confs
  <2>2. Queued'
    BY <1>1, <1>3, <1>5, <1>7, <2>1 DEF Queued
  <2>3. IsFiniteSet(orphans') /\ Cardinality(orphans') = Cardinality(orphans) + 1
    BY <1>2, <1>7, FS_AddElement DEF Counted
  <2>4. Counted'
    BY <1>1, <1>2, <1>4, <2>1, <2>3, CountedNat DEF Counted
  <2>. QED
    BY <2>2, <2>4
<1>. QED
  BY <1>6, <1>7 DEF SpawnConfig

(* A config thread goes with its own entry and its reference.                *)
LEMMA ConfEndKeeps ==
  ASSUME Shape, Queued, Counted, NEW t \in Confs, ConfEnd(t)
  PROVE  Queued' /\ Counted'
<1>1. /\ conf[t] # NoEntry /\ EndProbe(conf[t]) /\ DelRef
      /\ conf' = [u \in Confs \ {t} |-> conf[u]]
      /\ UNCHANGED <<pc, rescan, wild, spawned, orphans, opened>>
  BY DEF ConfEnd, EndProbe
<1>2. conf[t] = t /\ t[1] \in Buses /\ t = <<t[1], 0>> /\ spawned[t[1]] = 1
  BY <1>1 DEF Queued, Serves
<1>3. Confs = {t} /\ Cardinality(Confs) = 1
  BY OneConfig
<1>4. Confs' = {} /\ Cardinality(Confs') = 0
  BY <1>1, <1>3, FS_EmptySet DEF Confs
<1>5. /\ initq' \in Seq(Buses \X Nat) /\ IsInjective(initq')
      /\ ToSet(initq') = ToSet(initq) \ {t}
  BY <1>1, <1>2, Removed
<1>6. Probing' = Probing /\ t[1] \notin Probing
  BY <1>1, <1>2 DEF Probing, Queued
<1>7. Queued'
  <2>1. \A c \in Probing' : <<c, 0>> \in ToSet(initq')
    <3>. SUFFICES ASSUME NEW c \in Probing' PROVE <<c, 0>> \in ToSet(initq')
      OBVIOUS
    <3>1. <<c, 0>> \in ToSet(initq) /\ c # t[1]
      BY <1>6 DEF Queued
    <3>2. <<c, 0>> # t
      BY <3>1
    <3>. QED
      BY <1>5, <3>1, <3>2, Zenon
  <2>. QED
    BY <1>1, <1>4, <1>5, <2>1 DEF Queued
<1>8. refs \in Nat \ {0} /\ refs' = refs - 1 /\ powered' = (refs' > 0)
  <2>1. refs \in Nat \ {0} /\ powered = (refs > 0)
    BY <1>3, CountedNat DEF Counted
  <2>. QED
    BY <1>1, <2>1, DelRefPowersDown
<1>9. Counted'
  <2>1. refs' = Cardinality(Probing') + Cardinality(Confs') + Cardinality(orphans') + Cardinality(opened')
    <3>1. refs = Cardinality(Probing) + 1 + Cardinality(orphans) + Cardinality(opened)
      BY <1>3 DEF Counted
    <3>2. /\ Cardinality(Probing') = Cardinality(Probing) /\ Cardinality(orphans') = Cardinality(orphans)
          /\ Cardinality(opened') = Cardinality(opened) /\ Cardinality(Confs') = 0
      BY <1>1, <1>4, <1>6, Zenon
    <3>. QED
      BY <1>8, <3>1, <3>2, CountedNat
  <2>2. IsFiniteSet(Probing') /\ IsFiniteSet(orphans') /\ IsFiniteSet(opened')
    BY <1>1, <1>6 DEF Counted
  <2>. QED
    BY <1>8, <2>1, <2>2 DEF Counted
<1>. QED
  BY <1>7, <1>9

(* An open node has its reference, and drops it.                             *)
LEMMA OpenKeeps ==
  ASSUME Queued, Counted, NEW b, Open(b) \/ Close(b)
  PROVE  Queued' /\ Counted'
<1>1. UNCHANGED <<initq, rescan, wild, spawned, conf, orphans, pc>>
  BY DEF Open, Close, probeVars
<1>2. Confs' = Confs /\ Probing' = Probing
  BY <1>1 DEF Confs, Probing
<1>3. Queued'
  <2>1. \A t \in Confs : Serves(t)'
    BY <1>1 DEF Queued, Serves
  <2>. QED
    BY <1>1, <1>2, <2>1 DEF Queued
<1>4. CASE b \notin opened /\ AddRef /\ opened' = opened \cup {b}
  <2>1. IsFiniteSet(opened') /\ Cardinality(opened') = Cardinality(opened) + 1
    BY <1>4, FS_AddElement DEF Counted
  <2>2. refs' = refs + 1 /\ powered' = (refs' > 0)
    <3>1. refs \in Nat /\ powered = (refs > 0)
      BY CountedNat DEF Counted
    <3>. QED
      BY <1>4, <3>1, AddRefPowers
  <2>. QED
    BY <1>1, <1>2, <1>3, <2>1, <2>2, CountedNat DEF Counted
<1>5. CASE b \in opened /\ DelRef /\ opened' = opened \ {b}
  <2>1. /\ IsFiniteSet(opened') /\ Cardinality(opened') = Cardinality(opened) - 1
        /\ Cardinality(opened) # 0
    BY <1>5, FS_RemoveElement, FS_EmptySet DEF Counted
  <2>2. refs' = refs - 1 /\ powered' = (refs' > 0)
    <3>1. refs \in Nat \ {0} /\ powered = (refs > 0)
      BY <2>1, CountedNat DEF Counted
    <3>. QED
      BY <1>5, <3>1, DelRefPowersDown
  <2>. QED
    BY <1>1, <1>2, <1>3, <2>1, <2>2, CountedNat DEF Counted
<1>6. CASE UNCHANGED <<refs, powered, opened>>
  BY <1>1, <1>2, <1>3, <1>6 DEF Counted
<1>. QED
  BY <1>4, <1>5, <1>6 DEF Open, Close, AddRefFails, refVars

(* An entry is there whenever one is looked for, and it is the right one.    *)
LEMMA NothingStray ==
  ASSUME Queued
  PROVE  /\ \A b \in Buses : ~FindsNoEntry(b) /\ ~TakeRescan(b)
         /\ \A t \in Confs : ~ConfStray(t)
<1>1. ASSUME NEW b \in Buses, pc[b] = "order" PROVE initq # <<>>
  <2>1. <<b, 0>> \in ToSet(initq)
    BY <1>1 DEF Queued, Probing
  <2>2. initq \in Seq(Buses \X Nat) /\ DOMAIN initq # {}
    BY <2>1 DEF Queued, ToSet
  <2>. QED
    BY <2>2
<1>2. ASSUME NEW t \in Confs PROVE conf[t] \in {NoEntry} \cup ToSet(initq)
  <2>1. initq # <<>> /\ Head(initq) = t /\ conf[t] \in {NoEntry, t}
    BY <1>2 DEF Queued, Serves
  <2>. QED
    BY <2>1, FirstEntry
<1>. QED
  BY <1>1, <1>2 DEF FindsNoEntry, TakeRescan, ConfStray, Queued

-----------------------------------------------------------------------------
(* Types.                                                                    *)
LEMMA ShapeKept ==
  ASSUME Shape, [Next]_vars
  PROVE  Shape'
<1>1. pc' \in [Buses -> States]
  <2>1. UNCHANGED pc \/ \E b \in Buses, l \in States : pc' = [pc EXCEPT ![b] = l]
    <3>1. ASSUME NEW b \in Buses, Attach(b) \/ Thread(b)
          PROVE  UNCHANGED pc \/ \E l \in States : pc' = [pc EXCEPT ![b] = l]
      BY <3>1 DEF States, Attach, Thread, Probe, AwaitTurn, FindsNoEntry, Stray, NoDrives, SpawnConfig,
         Sleep, Wake, TakeRescan, NoRescan, WorkDone, Exit, Goto
    <3>2. ASSUME NEW b \in Buses, User(b)
          PROVE  UNCHANGED pc \/ \E l \in States : pc' = [pc EXCEPT ![b] = l]
      BY <3>2 DEF States, User, RequestRescan, Detach, Open, Close, Goto, probeVars
    <3>3. ASSUME NEW t \in Confs, Config(t) PROVE UNCHANGED pc
      BY <3>3 DEF Config, ConfBegin, ConfAttach, ConfStray, Stray, ConfEnd
    <3>4. CASE UNCHANGED vars
      BY <3>4 DEF vars, probeVars
    <3>. QED
      BY <3>1, <3>2, <3>3, <3>4, ProbeAssumption DEF Next
  <2>. QED
    BY <2>1 DEF Shape
<1>2. rescans' \in [Buses -> Nat] /\ spawned' \in [Buses -> Nat]
  <2>1. \/ UNCHANGED <<rescans, spawned>>
        \/ \E b \in Buses : SpawnConfig(b) \/ RequestRescan(b)
    <3>1. ASSUME NEW b \in Buses, Attach(b) \/ Thread(b)
          PROVE  SpawnConfig(b) \/ UNCHANGED <<rescans, spawned>>
      BY <3>1 DEF Attach, Thread, Probe, AwaitTurn, FindsNoEntry, Stray, NoDrives, Sleep, Wake,
         TakeRescan, NoRescan, WorkDone, Exit
    <3>2. ASSUME NEW b \in Buses, User(b)
          PROVE  RequestRescan(b) \/ UNCHANGED <<rescans, spawned>>
      BY <3>2 DEF User, Detach, Open, Close, probeVars
    <3>3. ASSUME NEW t \in Confs, Config(t) PROVE UNCHANGED <<rescans, spawned>>
      BY <3>3 DEF Config, ConfBegin, ConfAttach, ConfStray, Stray, ConfEnd
    <3>4. CASE UNCHANGED vars
      BY <3>4 DEF vars, probeVars
    <3>. QED
      BY <3>1, <3>2, <3>3, <3>4, ProbeAssumption DEF Next
  <2>2. ASSUME NEW b \in Buses, SpawnConfig(b) PROVE rescans' \in [Buses -> Nat] /\ spawned' \in [Buses -> Nat]
    BY <2>2 DEF SpawnConfig, Shape
  <2>3. ASSUME NEW b \in Buses, RequestRescan(b) PROVE rescans' \in [Buses -> Nat] /\ spawned' \in [Buses -> Nat]
    BY <2>3 DEF RequestRescan, Shape
  <2>. QED
    BY <2>1, <2>2, <2>3 DEF Shape
<1>. QED
  BY <1>1, <1>2 DEF Shape

(* No step takes a rescan back.                                              *)
LEMMA RescansStay ==
  ASSUME Shape, [Next]_vars, rescans' = Zero
  PROVE  /\ rescans = Zero
         /\ \A b \in Buses : ~RequestRescan(b)
<1>1. ASSUME NEW b \in Buses, RequestRescan(b) PROVE FALSE
  <2>1. rescans'[b] = rescans[b] + 1 /\ rescans[b] \in Nat
    BY <1>1 DEF RequestRescan, Shape
  <2>. QED
    BY <2>1 DEF Zero
<1>2. ASSUME NEW b \in Buses, Attach(b) \/ Thread(b) PROVE UNCHANGED rescans
  BY <1>2 DEF Attach, Thread, Probe, AwaitTurn, FindsNoEntry, Stray, NoDrives, SpawnConfig, Sleep,
     Wake, TakeRescan, NoRescan, WorkDone, Exit
<1>3. ASSUME NEW b \in Buses, User(b) PROVE UNCHANGED rescans
  BY <1>1, <1>3 DEF User, Detach, Open, Close, probeVars
<1>4. ASSUME NEW t \in Confs, Config(t) PROVE UNCHANGED rescans
  BY <1>4 DEF Config, ConfBegin, ConfAttach, ConfStray, Stray, ConfEnd
<1>5. ASSUME UNCHANGED vars PROVE UNCHANGED rescans
  BY <1>5 DEF vars, probeVars
<1>6. UNCHANGED rescans
  BY <1>2, <1>3, <1>4, <1>5, ProbeAssumption DEF Next
<1>7. rescans = Zero
  BY <1>6 DEF Zero
<1>. QED
  BY <1>1, <1>7

(* Before the first atabus_attach the invariant holds.                      *)
LEMMA ProbeInit == Init => ProbeInv
<1>. SUFFICES ASSUME Init PROVE ProbeInv
  OBVIOUS
<1>1. Shape
  BY DEF Init, Shape, States, Zero
<1>2. Probing = {} /\ Confs = {}
  BY DEF Init, Probing, Confs
<1>3. Queued
  <2>1. initq \in Seq(Buses \X Nat) /\ IsInjective(initq) /\ ToSet(initq) = {}
    BY DEF Init, IsInjective, ToSet
  <2>. QED
    BY <1>2, <2>1 DEF Init, Queued, Zero
<1>4. Counted
  <2>1. IsFiniteSet({}) /\ Cardinality({}) = 0
    BY FS_EmptySet
  <2>2. /\ orphans = {} /\ opened = {} /\ refs = 0 /\ powered = FALSE
    BY DEF Init
  <2>3. powered = (refs > 0)
    <3>1. ~(refs > 0)
      BY <2>2
    <3>2. (refs > 0) = FALSE
      BY <3>1
    <3>. QED
      BY <2>2, <3>2, Zenon
  <2>4. refs = Cardinality(Probing) + Cardinality(Confs) + Cardinality(orphans) + Cardinality(opened)
    BY <1>2, <2>1, <2>2
  <2>. QED
    BY <1>2, <2>1, <2>2, <2>3, <2>4, Zenon DEF Counted
<1>. QED
  BY <1>1, <1>3, <1>4 DEF ProbeInv

(* Every step of the buses, their config threads and their users keeps it.  *)
LEMMA ProbeStep ==
  ASSUME ProbeInv, [Next]_vars
  PROVE  ProbeInv'
<1>1. Shape /\ Shape'
  BY ShapeKept DEF ProbeInv
<1>2. ASSUME rescans' = Zero PROVE Queued' /\ Counted'
  <2>1. Queued /\ Counted /\ \A b \in Buses : ~RequestRescan(b)
    BY <1>1, <1>2, RescansStay DEF ProbeInv
  <2>2. ASSUME NEW b \in Buses, Attach(b) PROVE Queued' /\ Counted'
    BY <1>1, <2>1, <2>2, AttachKeeps
  <2>3. ASSUME NEW b \in Buses, Thread(b) PROVE Queued' /\ Counted'
    <3>1. CASE NoDrives(b)
      BY <1>1, <2>1, <3>1, NoDrivesKeeps
    <3>2. CASE SpawnConfig(b)
      BY <1>1, <2>1, <3>2, SpawnKeeps
    <3>3. CASE Probe(b) \/ AwaitTurn(b) \/ Sleep(b) \/ Wake(b) \/ NoRescan(b) \/ WorkDone(b)
               \/ Exit(b)
      BY <1>1, <2>1, <3>3, QuietActions, QuietKeeps
    <3>. QED
      BY <2>1, <2>3, <3>1, <3>2, <3>3, NothingStray DEF Thread
  <2>4. ASSUME NEW b \in Buses, User(b) PROVE Queued' /\ Counted'
    <3>1. CASE Detach(b)
      BY <1>1, <2>1, <3>1, QuietActions, QuietKeeps
    <3>2. CASE Open(b) \/ Close(b)
      BY <2>1, <3>2, OpenKeeps
    <3>. QED
      BY <2>1, <2>4, <3>1, <3>2 DEF User
  <2>5. ASSUME NEW t \in Confs, Config(t) PROVE Queued' /\ Counted'
    <3>1. CASE ConfBegin(t) \/ ConfAttach(t)
      BY <1>1, <2>1, <3>1, QuietConfigs, QuietKeeps
    <3>2. CASE ConfEnd(t)
      BY <1>1, <2>1, <3>2, ConfEndKeeps
    <3>. QED
      BY <2>1, <2>5, <3>1, <3>2, NothingStray DEF Config
  <2>6. CASE UNCHANGED vars
    <3>1. UNCHANGED <<initq, rescan, wild, spawned, conf, orphans, pc, refs, powered, opened>>
      BY <2>6 DEF vars, probeVars, refVars
    <3>2. Quiet
      BY <2>1, <3>1 DEF Quiet, Confs, Queued, Serves
    <3>. QED
      BY <2>1, <3>2, QuietKeeps
  <2>. QED
    BY <2>2, <2>3, <2>4, <2>5, <2>6, ProbeAssumption DEF Next
<1>. QED
  BY <1>1, <1>2 DEF ProbeInv

(* The invariant.                                                            *)
LEMMA ProbeInvariant == Spec => []ProbeInv
<1>1. ProbeInv /\ [Next]_vars => ProbeInv'
  BY ProbeStep
<1>. QED
  BY ProbeInit, <1>1, PTL DEF Spec

(* Drives are attached by one thread at a time, in the order in which the    *)
(* buses attached, until a rescan.                                           *)
THEOREM ConfigsInOrder == Spec => []InOrder
<1>1. ProbeInv => InOrder
  BY OneConfig DEF ProbeInv, InOrder, Queued, Serves
<1>. QED
  BY ProbeInvariant, <1>1, PTL

(* No thread reads the queue empty or removes an entry twice, until a        *)
(* rescan: not even after a thread could not be created.                     *)
THEOREM OwnEntries == Spec => []EntriesAreOwn
<1>1. ProbeInv => EntriesAreOwn
  BY DEF ProbeInv, EntriesAreOwn, Queued
<1>. QED
  BY ProbeInvariant, <1>1, PTL

(* The adapter is powered while it is used, or was left behind by a thread   *)
(* that could not be created, until a rescan.                                *)
THEOREM PowerFollowsUse == Spec => []PoweredExactly
<1>1. ProbeInv => PoweredExactly
  BY DEF ProbeInv, PoweredExactly, Counted
<1>. QED
  BY ProbeInvariant, <1>1, PTL
=============================================================================
