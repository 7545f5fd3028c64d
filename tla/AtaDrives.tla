------------------------------ MODULE AtaDrives ------------------------------
(***************************************************************************)
(* The drive table of an ATA channel (ch_drive[], ch_ndrives): allocation  *)
(* and replacement, what a probe finds, the config thread that attaches    *)
(* drives and negotiates their modes, and detaching by ioctl or with the   *)
(* bus, at any moment at which the config thread sleeps, whose table the   *)
(* detach may free.                                                        *)
(*                                                                         *)
(* Controller drivers, which are not in the repository, probe the bus and  *)
(* call atabus_alloc_drives; another context may allocate at the same      *)
(* time, for the same number of drives.  One config thread is at work at a *)
(* time (AtabusProbe shows when that fails).                               *)
(***************************************************************************)
EXTENDS AtaModes

CONSTANTS
  Sizes,        \* numbers of drives a controller asks for
  Allocators,   \* contexts that call atabus_alloc_drives
  Absent        \* no drive in the slot

ASSUME SizesAssumption == Sizes \subseteq Nat /\ \A n \in Sizes : 0..(n - 1) \subseteq Slots

VARIABLES
  table,        \* drives the allocated table has room for; 0: ch_drive is NULL
  ndrives,      \* ch_ndrives
  kmem,         \* (history) room kmem_zalloc gave less what kmem_free got back
  alloc,        \* what each allocator waits for: "idle", a size in kmem_zalloc, "done"
  want,         \* the size asked for by this probe
  conf,         \* "idle", "probe", "config": the probe and the config thread
  leaving       \* ATACH_SHUTDOWN, until the bus is gone

tableVars == <<table, ndrives, kmem, alloc, want, leaving>>
vars == <<modes, tableVars, conf>>

Init ==
  /\ atac \in Controllers /\ cf \in Configs
  /\ drv = [d \in Slots |-> Zeroed] /\ disk = [d \in Slots |-> Absent]
  /\ cur = NotProbing /\ own = [d \in Slots |-> {}] /\ streak = [d \in Slots |-> 0]
  /\ table = 0 /\ ndrives = 0 /\ kmem = 0
  /\ alloc = [c \in Allocators |-> "idle"] /\ want \in Sizes /\ conf = "idle"
  /\ leaving = FALSE

Present == 0..(ndrives - 1)

-----------------------------------------------------------------------------
(* atabus_alloc_drives, atabus_free_drives                                  *)

FreeDrives == kmem' = kmem - ndrives /\ table' = 0 /\ ndrives' = 0

(* The first part: a table of another size goes, and if there is none the   *)
(* lock is dropped to allocate one.                                         *)
AllocBegin(c) ==
  /\ conf = "probe" /\ alloc[c] = "idle"
  /\ IF ndrives # want /\ table # 0 THEN FreeDrives ELSE UNCHANGED <<kmem, table, ndrives>>
  /\ alloc' = [alloc EXCEPT ![c] = IF table' = 0 THEN "waits" ELSE "done"]
  /\ UNCHANGED <<modes, want, conf, leaving>>

\* Mutant: the table is replaced although another context was faster.
AllocReplaces(c) ==
  /\ alloc[c] = "waits"
  /\ kmem' = kmem + want /\ table' = want /\ ndrives' = want
  /\ drv' = [d \in Slots |-> Zeroed]
  /\ alloc' = [alloc EXCEPT ![c] = "done"]
  /\ UNCHANGED <<atac, cf, disk, cur, own, streak, want, conf, leaving>>

(* The second part: unless another context was faster the table is new.     *)
AllocEnd(c) ==
  /\ alloc[c] = "waits"
  /\ IF table # 0 THEN UNCHANGED <<kmem, table, ndrives, drv>>
     ELSE /\ kmem' = kmem + want /\ table' = want /\ ndrives' = want
          /\ drv' = [d \in Slots |-> Zeroed]
  /\ alloc' = [alloc EXCEPT ![c] = "done"]
  /\ UNCHANGED <<atac, cf, disk, cur, own, streak, want, conf, leaving>>

-----------------------------------------------------------------------------
(* A probe, and the config thread: atabusconfig, atabusconfig_thread.       *)

(* atabus_rescan refuses while a drive is attached; a bus that was detached  *)
(* attaches again.                                                          *)
Rescan ==
  /\ conf = "idle" /\ ~leaving /\ \A c \in Allocators : alloc[c] # "waits"
  /\ \A d \in Present : ~drv[d].softc
  /\ conf' = "probe" /\ want' \in Sizes
  /\ alloc' = [c \in Allocators |-> "idle"]
  /\ UNCHANGED <<modes, table, ndrives, kmem, leaving>>

(* What the controller's probe finds; an ATAPI device has no bus to attach  *)
(* to in this port and counts as none.  On a bus that is being detached the *)
(* drives are left alone.                                                   *)
Found ==
  /\ conf = "probe" /\ \A c \in Allocators : alloc[c] = "done"
  /\ disk' \in [Slots -> UNION {Disks[d] : d \in Slots} \cup {Absent}]
  /\ \A d \in Slots : disk'[d] \in (IF d \in Present THEN Disks[d] \cup {Absent} ELSE {Absent})
  /\ drv' = [d \in Slots |-> IF d \in Present
               THEN [drv[d] EXCEPT !.type = IF disk'[d] = Absent THEN "NONE" ELSE "ATA"]
               ELSE drv[d]]
  /\ conf' = IF ~leaving /\ \E d \in Present : drv'[d].type # "NONE" THEN "config" ELSE "idle"
  /\ own' = [d \in Slots |-> {}]
  /\ UNCHANGED <<atac, cf, cur, streak, tableVars>>

Unattached == {d \in Present : drv[d].type = "ATA" /\ ~drv[d].softc /\ d >= cur.d}

Nothing(r) == [r EXCEPT !.type = "NONE", !.softc = FALSE, !.flags = {}]

(* The loop over the drives: config_found attaches one, or finds no driver. *)
AttachDrive ==
  /\ conf = "config" /\ cur.at = "none" /\ Unattached # {}
  /\ LET d == Min(Unattached) IN
     \/ /\ drv' = [drv EXCEPT ![d].softc = TRUE,
                              ![d].n_dmaerrs = IF @ = 0 THEN NERRS_MAX - 1 ELSE @]
        /\ cur' = [NotProbing EXCEPT !.d = d, !.at = "identify"]
     \/ drv' = [drv EXCEPT ![d].type = "NONE"] /\ UNCHANGED cur
  /\ UNCHANGED <<atac, cf, disk, own, streak, tableVars, conf>>

NextDrive ==
  /\ conf = "config" /\ cur.at = "done"
  /\ cur' = [NotProbing EXCEPT !.d = d0 + 1]
  /\ UNCHANGED <<atac, cf, drv, disk, own, streak, tableVars, conf>>

\* Mutant: the slots that are empty in the end are not reset.
ResetNothing == UNCHANGED drv

ResetUnattached ==
  drv' = [d \in Slots |-> IF d \in Present /\ ~drv[d].softc THEN Nothing(drv[d]) ELSE drv[d]]

(* The controller sets its modes, and unattached drives are reset.          *)
ConfEnd ==
  /\ conf = "config" /\ cur.at = "none" /\ Unattached = {}
  /\ ResetUnattached /\ cur' = NotProbing /\ conf' = "idle"
  /\ UNCHANGED <<atac, cf, disk, own, streak, tableVars>>

Negotiate == d0 \in Present /\ ProbeCaps /\ UNCHANGED <<tableVars, conf>>

(* ata_probe_caps goes on in a table that was freed, to its end.  Whom that *)
(* memory belongs to by then is beyond the model.                           *)
Astray ==
  /\ cur.at \notin {"none", "done"} /\ d0 \notin Present
  /\ Go("done")
  /\ UNCHANGED <<atac, cf, drv, disk, own, streak, tableVars, conf>>

Config == AttachDrive \/ NextDrive \/ ConfEnd \/ Negotiate \/ Astray

-----------------------------------------------------------------------------
(* Detaching.                                                               *)

(* atabus_childdetached *)
ChildDetached(d) == Set(d, Nothing(drv[d]))

(* ATABUSIODETACH looks at the first two drives of the table.               *)
Ioctl(d) ==
  /\ table >= 2 /\ d \in {0, 1} /\ drv[d].softc
  /\ ChildDetached(d) /\ streak' = [streak EXCEPT ![d] = 0]
  /\ UNCHANGED <<atac, cf, disk, cur, own, tableVars, conf>>

(* atabus_detach: the drives that are attached go first.                    *)
BusDetach ==
  /\ ~leaving /\ leaving' = TRUE
  /\ drv' = [d \in Slots |-> IF drv[d].softc THEN Nothing(drv[d]) ELSE drv[d]]
  /\ streak' = [d \in Slots |-> 0]
  /\ UNCHANGED <<atac, cf, disk, cur, own, table, ndrives, kmem, alloc, want, conf>>

(* The table follows when the bus's thread is gone; the config thread is    *)
(* not waited for.                                                          *)
BusGone ==
  /\ leaving /\ conf # "probe" /\ leaving' = FALSE
  /\ FreeDrives
  /\ drv' = [d \in Slots |-> Zeroed]
  /\ streak' = [d \in Slots |-> 0]
  /\ UNCHANGED <<atac, cf, disk, cur, own, alloc, want, conf>>

Dma(d) == DmaTransfer(d) \/ DmaErr(d)

Next ==
  \/ \E c \in Allocators : AllocBegin(c) \/ AllocEnd(c)
  \/ Rescan \/ Found \/ Config \/ BusDetach \/ BusGone
  \/ \E d \in Present : Ioctl(d) \/ (Dma(d) /\ UNCHANGED <<tableVars, conf>>)

Spec == Init /\ [][Next]_vars

-----------------------------------------------------------------------------
(* Outside a probe, a slot without a drive has no type and no flags that    *)
(* the next drive would inherit, although a drive may be detached while its *)
(* modes are negotiated and the negotiation goes on to set flags.  Only the *)
(* table of a bus on its way out is left as a last probe filled it.         *)
EmptySlotClean ==
  conf = "idle" /\ ~leaving =>
    \A d \in Present : ~drv[d].softc => drv[d].type = "NONE" /\ drv[d].flags = {}

(* The drive reports a PIO mode that the controller cannot do.              *)
Beyond(p) == atac.modes /\ \E i \in p.pio : i + 3 > atac.pio_cap

(* A mode a drive's flags claim was negotiated with, or configured for, the *)
(* drive that is now in the slot, the drive supports one at least as fast,  *)
(* and the controller can do it.  A drive with a PIO mode beyond the        *)
(* controller is the exception: if it accepts that one and refuses the      *)
(* others, ATA_DRIVE_MODE is set over a PIO mode nobody negotiated.         *)
ModesNegotiated ==
  \A d \in Present :
    LET r == drv[d] IN
    (r.softc /\ conf = "idle") =>
      /\ "MODE" \in r.flags => "PIO" \in own[d] \/ Fixed \/ Beyond(disk[d])
      /\ "DMA" \in r.flags => "DMA" \in own[d]
      /\ "UDMA" \in r.flags => "UDMA" \in own[d]
      /\ ("UDMA" \in r.flags /\ cf.udma = None) =>
            /\ \E i \in disk[d].udma : i >= r.UDMA_mode
            /\ atac.modes => r.UDMA_mode <= atac.udma_cap
      /\ ("DMA" \in r.flags /\ cf.dma = None) =>
            r.DMA_mode \in disk[d].dma /\ (atac.modes => r.DMA_mode <= atac.dma_cap)

(* A drive on which every DMA transfer fails is soon given a slower mode,   *)
(* whatever the counters held: ata_dmaerr restarts them at most once in a   *)
(* row of errors.                                                           *)
ErrorsBounded == \A d \in Present : streak[d] < 2 * NERRS_MAX

(* ch_ndrives is the size of the table there is, so that the size given to  *)
(* kmem_free is the size that was allocated, and a lost race leaks nothing. *)
TableExact == table = ndrives /\ kmem = table

(* No table is freed under the config thread, nor under a drive it attached *)
(* after atabus_detach had seen to the others.                              *)
TableOutlivesUse ==
  [][BusGone => cur.at \in {"none", "done"} /\ \A d \in Present : ~drv[d].softc]_vars

TypeOK ==
  /\ table \in Sizes \cup {0} /\ want \in Sizes
  /\ alloc \in [Allocators -> {"idle", "waits", "done"}]
  /\ conf \in {"idle", "probe", "config"}
  /\ leaving \in BOOLEAN
  /\ cur.at \in {"none", "identify", "again", "pio", "dma", "udma", "finish", "done"}
  /\ conf # "config" => cur.at = "none"
  /\ \A d \in Slots : drv[d].PIO_mode \in 0..7 /\ drv[d].n_dmaerrs \in 0..(NERRS_MAX - 1)
                      /\ drv[d].n_xfers \in 0..(NXFER + 1)
=============================================================================
