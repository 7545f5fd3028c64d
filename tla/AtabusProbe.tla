---------------------------- MODULE AtabusProbe ----------------------------
(***************************************************************************)
(* How the ATA buses of a system probe their drives in attachment order,   *)
(* src/sys/dev/ata/ata.c: atabus_attach queues an entry in                 *)
(* atabus_initq_head and starts the bus's thread; the thread probes        *)
(* (atabusconfig), waits for its turn, and leaves the attachment of the    *)
(* drives to a second thread (atabusconfig_thread), which removes the      *)
(* entry.  A rescan queues another entry.  The adapter the buses share is  *)
(* powered while ata_addref has been called more often than ata_delref.    *)
(***************************************************************************)
EXTENDS Integers, Sequences, FiniteSets, SequencesExt

CONSTANTS
  Buses,         \* the atabus instances, all of one adapter
  Used,          \* the buses that users rescan, detach, open and close
  MaxRescans,    \* bound on the rescans of every bus
  SpawnMayFail,  \* kthread_create may fail
  EnableMayFail, \* adapt_enable may fail
  Work           \* the buses whose thread gets work other than rescans

ASSUME ProbeAssumption ==
  /\ MaxRescans \in Nat
  /\ SpawnMayFail \in BOOLEAN /\ EnableMayFail \in BOOLEAN
  /\ Work \subseteq Buses /\ Used \subseteq Buses

Serials == 0 .. MaxRescans
Entries == Buses \X Serials        \* struct atabus_initq: the bus, and which
NoEntry == <<>>
Null == <<"null">>                 \* TAILQ_FIRST of an empty queue

VARIABLES
  initq,      \* atabus_initq_head
  waiting,    \* buses whose thread sleeps on atabus_qcv
  pc,         \* where the thread of every bus is
  asleep,     \* buses whose thread sleeps on ch_thr_idle
  rescan,     \* buses with ATACH_TH_RESCAN
  shutdown,   \* buses with ATACH_SHUTDOWN
  found,      \* buses on which the last probe found a drive
  attached,   \* buses with a drv_softc
  conf,       \* config threads: bus and serial |-> the entry they took
  spawned,    \* how many config threads every bus has created
  rescans,    \* how many rescans every bus was asked for
  refs,       \* adapt_refcnt
  powered,    \* adapt_enable(1) was the last successful call
  opened,     \* buses with ATABUSCF_OPEN
  orphans,    \* buses for which a thread could not be created
  wild        \* an entry that is not in the queue was used

probeVars == <<initq, waiting, pc, asleep, rescan, shutdown, found, attached,
               conf, spawned, rescans, orphans, wild>>
refVars   == <<refs, powered>>
vars == <<probeVars, refVars, opened>>

Zero == [b \in Buses |-> 0]

Init ==
  /\ initq = <<>> /\ waiting = {} /\ asleep = {}
  /\ pc = [b \in Buses |-> "none"]
  /\ rescan = {} /\ shutdown = {} /\ found = {} /\ attached = {}
  /\ conf = [t \in {} |-> NoEntry] /\ spawned = Zero /\ rescans = Zero
  /\ refs = 0 /\ powered = FALSE
  /\ opened = {}
  /\ orphans = {} /\ wild = FALSE

Goto(b, l) == pc' = [pc EXCEPT ![b] = l]
Confs == DOMAIN conf

-----------------------------------------------------------------------------
(* ata_addref and ata_delref: the first reference powers the adapter up,    *)
(* the last one down.                                                       *)

AddRef ==
  /\ refs' = refs + 1
  /\ powered' = (powered \/ refs = 0)
AddRefFails ==
  EnableMayFail /\ refs = 0 /\ UNCHANGED refVars

\* Mutant: the adapter is left powered.
DelRefPowered ==
  /\ refs' = refs - 1
  /\ UNCHANGED powered

DelRef ==
  /\ refs' = refs - 1
  /\ powered' = (powered /\ refs # 1)

Broadcast == waiting' = {}                     \* cv_broadcast(&atabus_qcv)

\* Mutant: nobody is woken.
EndProbeQuietly(e) ==
  /\ \E i \in DOMAIN initq : initq[i] = e /\ initq' = RemoveAt(initq, i)
  /\ UNCHANGED waiting
  /\ DelRef

(* The end of a probe: the entry goes, and the reference of the attachment. *)
EndProbe(e) ==
  /\ \E i \in DOMAIN initq : initq[i] = e /\ initq' = RemoveAt(initq, i)
  /\ Broadcast
  /\ DelRef

-----------------------------------------------------------------------------
(* atabus_attach.  If the adapter cannot be powered the bus stays without   *)
(* a thread and without an entry; if kthread_create fails it stays without  *)
(* a thread, with the entry and the reference.                              *)

Attach(b) ==
  /\ pc[b] = "none"
  /\ \/ AddRefFails /\ Goto(b, "dead") /\ UNCHANGED <<initq, orphans>>
     \/ /\ AddRef
        /\ initq' = Append(initq, <<b, 0>>)
        /\ \/ Goto(b, "probe") /\ UNCHANGED orphans
           \/ SpawnMayFail /\ Goto(b, "nothread") /\ orphans' = orphans \cup {b}
  /\ UNCHANGED <<waiting, asleep, rescan, shutdown, found, attached, conf,
                 spawned, rescans, wild, opened>>

(* atabusconfig: atac_probe, with no lock held, finds drives or none.       *)
Probe(b) ==
  /\ pc[b] = "probe"
  /\ found' \in {found \cup {b}, found \ {b}}
  /\ Goto(b, "order")
  /\ UNCHANGED <<initq, waiting, asleep, rescan, shutdown, attached, conf,
                 spawned, rescans, orphans, wild, refVars, opened>>

\* Mutant: a bus does not wait for its turn.
MyTurnAlways(b) == TRUE

First == IF initq = <<>> THEN Null ELSE Head(initq)
MyTurn(b) == initq # <<>> /\ First[1] = b

(* What the code does with a null entry, or with one that is freed, is      *)
(* beyond the model, which stops there.                                     *)
Stray == /\ wild' = TRUE
         /\ UNCHANGED <<initq, waiting, pc, asleep, rescan, shutdown, found, attached, conf,
                        spawned, rescans, orphans, refVars, opened>>

(* Waits until the first entry is its own, and reads it unseen.             *)
AwaitTurn(b) ==
  /\ pc[b] = "order" /\ b \notin waiting /\ initq # <<>> /\ ~MyTurn(b)
  /\ waiting' = waiting \cup {b}
  /\ UNCHANGED <<initq, pc, asleep, rescan, shutdown, found, attached, conf,
                 spawned, rescans, orphans, wild, refVars, opened>>

FindsNoEntry(b) ==
  /\ pc[b] = "order" /\ b \notin waiting /\ initq = <<>>
  /\ Stray

(* No drive, or the bus was shut down: nothing is left to do.               *)
NoDrives(b) ==
  /\ pc[b] = "order" /\ b \notin waiting /\ MyTurn(b)
  /\ b \notin found \/ b \in shutdown
  /\ EndProbe(Head(initq))
  /\ Goto(b, "top")
  /\ UNCHANGED <<asleep, rescan, shutdown, found, attached, conf, spawned,
                 rescans, orphans, wild, opened>>

(* Otherwise the drives are left to a thread of their own.  When it cannot  *)
(* be created the entry and the reference stay.                             *)
SpawnConfig(b) ==
  /\ pc[b] = "order" /\ b \notin waiting /\ MyTurn(b)
  /\ b \in found \ shutdown
  /\ \/ /\ conf' = [t \in Confs \cup {<<b, spawned[b]>>} |->
                      IF t \in Confs THEN conf[t] ELSE NoEntry]
        /\ spawned' = [spawned EXCEPT ![b] = @ + 1]
        /\ UNCHANGED orphans
     \/ SpawnMayFail /\ orphans' = orphans \cup {b} /\ UNCHANGED <<conf, spawned>>
  /\ Goto(b, "top")
  /\ UNCHANGED <<initq, waiting, asleep, rescan, shutdown, found, attached,
                 rescans, wild, refVars, opened>>

-----------------------------------------------------------------------------
(* atabusconfig_thread: it takes the first entry for its own, whatever it   *)
(* is (the KASSERT is not compiled in), attaches the drives, and removes    *)
(* the entry.                                                               *)

ConfBegin(t) ==
  /\ conf[t] = NoEntry
  /\ conf' = [conf EXCEPT ![t] = First]
  /\ UNCHANGED <<initq, waiting, pc, asleep, rescan, shutdown, found, attached,
                 spawned, rescans, orphans, wild, refVars, opened>>

ConfAttach(t) ==
  /\ conf[t] # NoEntry /\ t[1] \in found \ attached
  /\ attached' = attached \cup {t[1]}
  /\ UNCHANGED <<initq, waiting, pc, asleep, rescan, shutdown, found, conf,
                 spawned, rescans, orphans, wild, refVars, opened>>

(* It was taken out, and freed, by another meanwhile.                       *)
ConfStray(t) ==
  /\ conf[t] \notin {NoEntry} \cup ToSet(initq)
  /\ Stray

(* A drive whose driver did not attach is forgotten.                        *)
ConfEnd(t) ==
  /\ conf[t] # NoEntry /\ conf[t] \in ToSet(initq)
  /\ found' = IF t[1] \in attached THEN found ELSE found \ {t[1]}
  /\ EndProbe(conf[t])
  /\ conf' = [u \in Confs \ {t} |-> conf[u]]
  /\ UNCHANGED <<pc, asleep, rescan, shutdown, attached, spawned, rescans,
                 orphans, wild, opened>>

-----------------------------------------------------------------------------
(* The loop of atabus_thread, as far as rescans and shutdown are concerned. *)
(* It does not look at ATACH_TH_RESCAN before it sleeps.                    *)

Sleep(b) ==
  /\ pc[b] = "top" /\ b \notin shutdown
  /\ asleep' = asleep \cup {b} /\ Goto(b, "wait")
  /\ UNCHANGED <<initq, waiting, rescan, shutdown, found, attached, conf,
                 spawned, rescans, orphans, wild, refVars, opened>>

(* Other work wakes the thread, or is there before it sleeps.               *)
Wake(b) ==
  /\ b \in Work \cap asleep
  /\ asleep' = asleep \ {b}
  /\ UNCHANGED <<initq, waiting, pc, rescan, shutdown, found, attached, conf,
                 spawned, rescans, orphans, wild, refVars, opened>>

Awake(b) ==
  \/ pc[b] = "wait" /\ b \notin asleep
  \/ pc[b] = "top" /\ b \in shutdown \cup Work

TakeRescan(b) ==
  /\ Awake(b) /\ b \in rescan \ shutdown
  /\ rescan' = rescan \ {b} /\ Goto(b, "probe")
  /\ UNCHANGED <<initq, waiting, asleep, shutdown, found, attached, conf,
                 spawned, rescans, orphans, wild, refVars, opened>>
(* The lock is dropped for the other work.                                  *)
NoRescan(b) ==
  /\ Awake(b) /\ b \notin rescan \cup shutdown
  /\ Goto(b, "busy")
  /\ UNCHANGED <<initq, waiting, asleep, rescan, shutdown, found, attached,
                 conf, spawned, rescans, orphans, wild, refVars, opened>>
WorkDone(b) ==
  /\ pc[b] = "busy" /\ Goto(b, "top")
  /\ UNCHANGED <<initq, waiting, asleep, rescan, shutdown, found, attached,
                 conf, spawned, rescans, orphans, wild, refVars, opened>>
(* atabus_detach frees the drives once the thread is gone.                  *)
Exit(b) ==
  /\ Awake(b) /\ b \in shutdown
  /\ Goto(b, "gone") /\ found' = found \ {b}
  /\ UNCHANGED <<initq, waiting, asleep, rescan, shutdown, attached, conf,
                 spawned, rescans, orphans, wild, refVars, opened>>

-----------------------------------------------------------------------------
Present(b) == pc[b] \notin {"none", "gone"}

(* atabus_rescan is refused while a drive is attached.                      *)
RequestRescan(b) ==
  /\ Present(b) /\ b \notin attached \cup shutdown
  /\ rescans[b] < MaxRescans
  /\ rescans' = [rescans EXCEPT ![b] = @ + 1]
  /\ initq' = Append(initq, <<b, rescans[b] + 1>>)
  /\ rescan' = rescan \cup {b}
  /\ asleep' = asleep \ {b}
  /\ UNCHANGED <<waiting, pc, shutdown, found, attached, conf, spawned,
                 orphans, wild, refVars, opened>>

(* atabus_detach: the drives go, then the thread, if there is one, is told  *)
(* to exit.                                                                 *)
Detach(b) ==
  /\ Present(b) /\ b \notin shutdown
  /\ attached' = attached \ {b} /\ found' = found \ (attached \cap {b})
  /\ shutdown' = shutdown \cup {b}
  /\ asleep' = asleep \ {b}
  /\ IF pc[b] \in {"dead", "nothread"} THEN Goto(b, "gone") ELSE UNCHANGED pc
  /\ UNCHANGED <<initq, waiting, rescan, conf, spawned, rescans, orphans, wild,
                 refVars, opened>>

(* atabusopen and atabusclose.                                              *)
Open(b) ==
  /\ Present(b) /\ b \notin opened
  /\ \/ AddRefFails /\ UNCHANGED opened
     \/ /\ AddRef
        /\ opened' = opened \cup {b}
  /\ UNCHANGED probeVars
Close(b) ==
  /\ b \in opened
  /\ DelRef
  /\ opened' = opened \ {b}
  /\ UNCHANGED probeVars

-----------------------------------------------------------------------------
Thread(b) ==
  \/ Probe(b) \/ AwaitTurn(b) \/ FindsNoEntry(b) \/ NoDrives(b) \/ SpawnConfig(b)
  \/ Sleep(b) \/ Wake(b) \/ TakeRescan(b) \/ NoRescan(b) \/ WorkDone(b) \/ Exit(b)
Config(t) == ConfBegin(t) \/ ConfAttach(t) \/ ConfStray(t) \/ ConfEnd(t)
User(b) == RequestRescan(b) \/ Detach(b) \/ Open(b) \/ Close(b)

Next ==
  /\ ~wild
  /\ \/ \E b \in Buses : Attach(b) \/ Thread(b)
     \/ \E b \in Used : User(b)
     \/ \E t \in Confs : Config(t)

Spec == Init /\ [][Next]_vars

(* Threads run when they can; attaching drives comes to an end.             *)
Fairness ==
  /\ \A b \in Buses :
       WF_vars(~wild /\ (Probe(b) \/ AwaitTurn(b) \/ NoDrives(b) \/ SpawnConfig(b)))
  /\ \A t \in Buses \X Serials :
       WF_vars(~wild /\ t \in Confs /\ (ConfBegin(t) \/ ConfEnd(t)))

FairSpec == Spec /\ Fairness
-----------------------------------------------------------------------------
(* Properties.                                                              *)

(* Types of the queue of entries, the threads and the reference count.      *)
TypeOK ==
  /\ initq \in Seq(Entries)
  /\ waiting \subseteq Buses /\ asleep \subseteq Buses /\ rescan \subseteq Buses
  /\ shutdown \subseteq Buses /\ found \subseteq Buses /\ attached \subseteq Buses
  /\ pc \in [Buses -> {"none", "dead", "nothread", "probe", "order", "top", "wait", "busy",
                       "gone"}]
  /\ Confs \subseteq Entries /\ \A t \in Confs : conf[t] \in Entries \cup {NoEntry, Null}
  /\ refs \in Int /\ powered \in BOOLEAN /\ opened \subseteq Buses
  /\ orphans \subseteq Buses /\ wild \in BOOLEAN

(* The drives of two buses are never attached at the same time, nor of a    *)
(* bus whose predecessor in attachment order is not done ("Make sure the    *)
(* devices probe in atabus order"), until a rescan is asked for; with that, *)
(* the KASSERT of the config thread holds.                                  *)
InOrder ==
  rescans = Zero =>
    /\ Cardinality(Confs) <= 1
    /\ \A t \in Confs : initq # <<>> /\ Head(initq)[1] = t[1]

(* Buses whose thread probes or waits for its turn.                         *)
Probing == {b \in Buses : pc[b] \in {"probe", "order"}}

(* The adapter is powered exactly while a probe or an attachment of drives  *)
(* is under way, a device node is open, or the thread of a bus could not be *)
(* created: every path out of a probe drops the reference that              *)
(* atabus_attach took, but for that last one, which stays for ever.  A      *)
(* rescan takes none, so this is so only until the first rescan.            *)
PoweredExactly ==
  rescans = Zero =>
    /\ refs = Cardinality(Probing) + Cardinality(Confs) + Cardinality(orphans)
                + Cardinality(opened)
    /\ powered = (refs > 0)

(* No thread reads an entry off an empty queue or removes one that another  *)
(* has freed, until a rescan is asked for: whichever buses find nothing,    *)
(* are detached in the middle or get no thread, each keeps its own entry.   *)
EntriesAreOwn == rescans = Zero => ~wild

(* Every bus gets its turn, as no wakeup of atabus_qcv is lost: unless an   *)
(* entry that nobody removes is ahead, or a rescan was asked for.           *)
TurnComes ==
  \A b \in Buses : pc[b] = "order" ~> pc[b] # "order" \/ orphans # {} \/ rescans # Zero

(* The assertion of the config thread: the first entry is of its bus.       *)
HeadIsMine ==
  \A t \in Confs : conf[t] = NoEntry => initq # <<>> /\ Head(initq)[1] = t[1]
=============================================================================
