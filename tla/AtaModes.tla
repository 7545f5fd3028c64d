------------------------------ MODULE AtaModes ------------------------------
(***************************************************************************)
(* Transfer modes of the drives of an ATA channel: what ata_probe_caps     *)
(* negotiates with a drive when it attaches, one command after the other,  *)
(* and what DMA errors do to it later (ata_dmaerr, ata_downgrade_mode).    *)
(* AtaDrives composes this with the drive table and with attaching and     *)
(* detaching, which go on in between: every command sleeps.                *)
(*                                                                         *)
(* A drive's answer to SET_FEATURES is free.  The driver that counts       *)
(* transfers (n_xfers) and reports DMA errors is not in the repository.    *)
(***************************************************************************)
EXTENDS Integers, FiniteSets, FiniteSetsExt

CONSTANTS
  Slots,        \* indices of ch_drive[]
  Disks,        \* what the drives in a slot report: the fields of struct ataparams read here
  Controllers,  \* what controllers can do: the fields of struct atac_softc read here
  Configs,      \* the modes given by flags in the kernel configuration
  NERRS_MAX, NXFER,   \* thresholds of the downgrade
  None, Disable \* no such mode in the configuration; a mode turned off there

ASSUME ThresholdAssumption == NERRS_MAX \in Nat \ {0, 1} /\ NXFER \in Nat /\ NERRS_MAX <= NXFER

ASSUME KindsAssumption ==
  /\ None # Disable
  /\ Disks \in [Slots -> SUBSET [modes : BOOLEAN, pio : SUBSET (0 .. 7), dma : SUBSET (0 .. 7),
                                 udmamodes : BOOLEAN, udma : SUBSET (0 .. 7),
                                 wfua : BOOLEAN, ncq : Nat]]
  /\ Controllers \subseteq
       [modes : BOOLEAN, dma : BOOLEAN, udma : BOOLEAN, ncq : BOOLEAN, data32 : BOOLEAN,
        nostream : BOOLEAN, pio_cap : Nat, dma_cap : Nat, udma_cap : Nat]
  /\ Configs \subseteq [pio : 0 .. 7 \cup {None}, dma : 0 .. 7 \cup {None, Disable},
                        udma : 0 .. 7 \cup {None, Disable}]

VARIABLES
  atac, cf,     \* the channel's controller; the drives' cf_flags
  drv,          \* ch_drive[]
  disk,         \* the drive in each slot
  cur,          \* where ata_probe_caps is: drive, step, mode number, printed
  own,          \* (history) the modes set for the drive now in the slot
  streak        \* (history) DMA errors in a row since the mode was set

modes == <<atac, cf, drv, disk, cur, own, streak>>

(* What kmem_zalloc gives.                                                  *)
Zeroed == [type |-> "NONE", softc |-> FALSE, flags |-> {}, PIO_mode |-> 0, PIO_cap |-> 0,
           DMA_mode |-> 0, UDMA_mode |-> 0, ata_vers |-> 0, drv_openings |-> 0,
           n_dmaerrs |-> 0, n_xfers |-> 0]

NotProbing == [at |-> "none", d |-> 0, i |-> 8, printed |-> FALSE]

(* Modes whose command the controller's driver makes it worth to send.      *)
Answers(asks) == IF asks THEN BOOLEAN ELSE {TRUE}

(* The modes of S that the loop has yet to look at, from 7 down.            *)
Left(S) == {i \in S : i < cur.i}

d0 == cur.d
this == drv[cur.d]
params == disk[cur.d]

Go(at) == cur' = [cur EXCEPT !.at = at, !.i = 8, !.printed = FALSE]
Continue(i, printed) == cur' = [cur EXCEPT !.i = i, !.printed = printed]
Set(d, r) == drv' = [drv EXCEPT ![d] = r]
Owns(d, what) == own' = [own EXCEPT ![d] = @ \cup what]
Flagged(r, on) == [r EXCEPT !.flags = @ \cup on]

-----------------------------------------------------------------------------
(* ata_probe_caps *)

AfterIdentify == IF params.modes THEN "pio" ELSE "finish"

(* IDENTIFY, and once more with 32-bit transfers where the controller       *)
(* claims both widths, which must give the same.                            *)
Identify ==
  /\ cur.at = "identify"
  /\ \/ Go("done") /\ UNCHANGED drv
     \/ ~atac.data32 /\ Go(AfterIdentify) /\ UNCHANGED drv
     \/ atac.data32 /\ Go("again") /\ Set(d0, Flagged(this, {"CAP32"}))
  /\ UNCHANGED <<atac, cf, disk, own, streak>>

IdentifyAgain ==
  /\ cur.at = "again" /\ Go(AfterIdentify)
  /\ \/ UNCHANGED drv
     \/ Set(d0, [this EXCEPT !.flags = @ \ {"CAP32"}])
  /\ UNCHANGED <<atac, cf, disk, own, streak>>

(* A mode above 4 ends the probe, as no mode at all does.                   *)
NoPio == Go("done") /\ UNCHANGED <<drv, own>>

PioFound == Go("dma") /\ Set(d0, Flagged(this, {"MODE"})) /\ UNCHANGED own

PioFits(i) == ~atac.modes \/ atac.pio_cap >= i + 3

TryPio(i) ==
  \E ok \in Answers(atac.modes) :
    IF ok /\ PioFits(i)
    THEN /\ Go("dma")
         /\ Set(d0, Flagged([this EXCEPT !.PIO_mode = i + 3, !.PIO_cap = i + 3], {"MODE"}))
         /\ Owns(d0, {"PIO"})
    ELSE Continue(i, ok \/ cur.printed) /\ UNCHANGED <<drv, own>>

PioLoop ==
  /\ cur.at = "pio"
  /\ IF Left(params.pio) = {} THEN IF cur.printed THEN PioFound ELSE NoPio
     ELSE LET i == Max(Left(params.pio)) IN IF i > 4 THEN NoPio ELSE TryPio(i)
  /\ UNCHANGED <<atac, cf, disk, streak>>

AfterDma == IF params.udmamodes THEN "udma" ELSE "finish"

DmaLoop ==
  /\ cur.at = "dma"
  /\ IF Left(params.dma) = {} THEN Go(AfterDma) /\ UNCHANGED <<drv, own>>
     ELSE LET i == Max(Left(params.dma)) IN
       \E ok \in Answers(atac.dma /\ atac.modes) :
         IF ~ok \/ (atac.dma /\ atac.modes /\ atac.dma_cap < i)
         THEN Continue(i, TRUE) /\ UNCHANGED <<drv, own>>
         ELSE /\ Go(AfterDma)
              /\ IF atac.dma
                 THEN Set(d0, Flagged([this EXCEPT !.DMA_mode = i], {"DMA"})) /\ Owns(d0, {"DMA"})
                 ELSE UNCHANGED <<drv, own>>
  /\ UNCHANGED <<atac, cf, disk, streak>>

\* Mutant: a mode above the controller's is taken if the drive accepts it.
UdmaFitsAlways(i) == TRUE

UdmaFits(i) == ~atac.modes \/ atac.udma_cap >= i

UdmaLoop ==
  /\ cur.at = "udma"
  /\ IF Left(params.udma) = {} THEN Go("finish") /\ UNCHANGED <<drv, own>>
     ELSE LET i == Max(Left(params.udma)) IN
       \E ok \in Answers(atac.udma /\ atac.modes) :
         IF ~ok \/ (atac.udma /\ ~UdmaFits(i))
         THEN Continue(i, TRUE) /\ UNCHANGED <<drv, own>>
         ELSE /\ Go("finish")
              /\ IF atac.udma
                 THEN Set(d0, Flagged([this EXCEPT !.UDMA_mode = i], {"UDMA"})) /\ Owns(d0, {"UDMA"})
                 ELSE UNCHANGED <<drv, own>>
  /\ UNCHANGED <<atac, cf, disk, streak>>

(* What follows the loops, in order; it does not sleep.                     *)
Streams(r) ==
  [r EXCEPT !.flags = IF atac.nostream THEN @ \cup {"NOSTREAM"} ELSE @ \ {"NOSTREAM"}]

Version(r) ==
  [r EXCEPT !.ata_vers = CASE @ # 0 -> @ [] "UDMA" \in r.flags -> 4
                           [] r.PIO_cap > 2 -> 2 [] OTHER -> @]

CfPio(r) ==
  IF cf.pio = None THEN r ELSE Flagged([r EXCEPT !.PIO_mode = cf.pio], {"MODE"})

CfDma(r) ==
  CASE cf.dma = None -> r
    [] cf.dma = Disable -> [r EXCEPT !.flags = @ \ {"DMA"}]
    [] OTHER -> Flagged([r EXCEPT !.DMA_mode = cf.dma], {"DMA", "MODE"})

Wfua(r) == IF "DMA" \in r.flags /\ params.wfua THEN Flagged(r, {"WFUA"}) ELSE r

Queueing(r) ==
  IF params.ncq = 0 THEN [r EXCEPT !.drv_openings = 1]
  ELSE Flagged([r EXCEPT !.drv_openings = params.ncq], IF atac.ncq THEN {"NCQ"} ELSE {})

CfUdma(r) ==
  CASE cf.udma = None -> r
    [] cf.udma = Disable -> [r EXCEPT !.flags = @ \ {"UDMA"}]
    [] OTHER -> Flagged([r EXCEPT !.UDMA_mode = cf.udma], {"UDMA", "MODE"})

CfOwn ==
  (IF cf.pio = None THEN {} ELSE {"PIO"})
    \cup (IF atac.dma /\ cf.dma # None THEN {"DMA"} ELSE {})
    \cup (IF atac.dma /\ atac.udma /\ cf.udma # None THEN {"UDMA"} ELSE {})

Finish ==
  /\ cur.at = "finish" /\ Go("done")
  /\ LET guessed == CfPio(Version(Streams(this)))
         queueing == Queueing(Wfua(CfDma(guessed)))
     IN  Set(d0, IF ~atac.dma THEN guessed
                 ELSE IF ~atac.udma THEN queueing ELSE CfUdma(queueing))
  /\ Owns(d0, CfOwn)
  /\ UNCHANGED <<atac, cf, disk, streak>>

ProbeCaps == Identify \/ IdentifyAgain \/ PioLoop \/ DmaLoop \/ UdmaLoop \/ Finish

-----------------------------------------------------------------------------
(* DMA errors, in a kernel with ATA_DOWNGRADE_MODE.                         *)

ByDma(r) == r.flags \cap {"DMA", "UDMA"} # {}

Fixed == cf # [pio |-> None, dma |-> None, udma |-> None]
CanDowngrade(r) == "MODE" \in r.flags /\ atac.modes /\ ~Fixed /\ ByDma(r)

(* ata_downgrade_mode *)
Downgraded(r) ==
  CASE ~CanDowngrade(r) -> r
    [] CanDowngrade(r) /\ "UDMA" \in r.flags /\ r.UDMA_mode >= 2 ->
         [r EXCEPT !.UDMA_mode = @ - 1]
    [] OTHER -> [r EXCEPT !.flags = @ \ {"DMA", "UDMA"}, !.PIO_mode = r.PIO_cap]

\* Mutant: an error after many good transfers leaves the counters alone.
CountedOn(r) ==
  LET n == r.n_dmaerrs + 1 IN
  IF n >= NERRS_MAX /\ r.n_xfers <= NXFER
  THEN [Downgraded(r) EXCEPT !.n_dmaerrs = NERRS_MAX - 1, !.n_xfers = 0]
  ELSE [r EXCEPT !.n_dmaerrs = IF n > NERRS_MAX THEN NERRS_MAX ELSE n]

(* ata_dmaerr *)
Counted(r) ==
  LET n == r.n_dmaerrs + 1 IN
  CASE n >= NERRS_MAX /\ r.n_xfers <= NXFER ->
         [Downgraded(r) EXCEPT !.n_dmaerrs = NERRS_MAX - 1, !.n_xfers = 0]
    [] r.n_xfers > NXFER -> [r EXCEPT !.n_dmaerrs = 1, !.n_xfers = 1]
    [] OTHER -> [r EXCEPT !.n_dmaerrs = n]

(* The driver counts the transfers it starts up to one above NXFER.         *)
Begun(r) == [r EXCEPT !.n_xfers = IF @ <= NXFER THEN @ + 1 ELSE @]

DmaTransfer(d) ==
  /\ drv[d].softc /\ ByDma(drv[d])
  /\ Set(d, Begun(drv[d])) /\ streak' = [streak EXCEPT ![d] = 0]
  /\ UNCHANGED <<atac, cf, disk, cur, own>>

SameMode(r, q) == r.flags = q.flags /\ r.UDMA_mode = q.UDMA_mode

(* Errors are counted in a row while a downgrade is possible.               *)
DmaErr(d) ==
  /\ drv[d].softc /\ ByDma(drv[d])
  /\ LET r == Begun(drv[d]) IN
     /\ Set(d, Counted(r))
     /\ streak' = [streak EXCEPT ![d] =
          IF CanDowngrade(r) /\ SameMode(r, Counted(r)) THEN @ + 1 ELSE 0]
  /\ UNCHANGED <<atac, cf, disk, cur, own>>
=============================================================================
