-------------------------- MODULE AtaDrivesProofs --------------------------
(***************************************************************************)
(* What AtaDrives promises, for any number of slots, any drives,           *)
(* controllers and configurations, any thresholds of the downgrade and any *)
(* number of contexts that allocate the table.                             *)
(*                                                                         *)
(* The four properties are about moments at which no probe is running.     *)
(* DrivesInv adds what holds in between: while atabusconfig_thread sleeps  *)
(* in ata_probe_caps a drive may be detached, and the probe still goes on  *)
(* to set flags in a slot that is empty by then; or the table may go with  *)
(* the bus.                                                                *)
(***************************************************************************)
EXTENDS AtaDrives, ListLemmas

(* ATA_DRIVE_CAP32 and the other drive_flags that are kept here.             *)
Flags == {"CAP32", "MODE", "DMA", "UDMA", "NOSTREAM", "WFUA", "NCQ"}

(* What struct ata_drive_datas can hold.  A drive that counts errors has     *)
(* fewer than NERRS_MAX of them between two.                                 *)
Drives ==
  [type : {"NONE", "ATA"}, softc : BOOLEAN, flags : SUBSET Flags, PIO_mode : Nat, PIO_cap : Nat,
   DMA_mode : Nat, UDMA_mode : Nat, ata_vers : Nat, drv_openings : Nat,
   n_dmaerrs : 0 .. (NERRS_MAX - 1), n_xfers : Nat]

(* The steps of ata_probe_caps.                                              *)
Stages == {"none", "identify", "again", "pio", "dma", "udma", "finish", "done"}

(* Where ata_probe_caps can be.                                              *)
Places == [at : Stages, d : Nat, i : 0 .. 8, printed : BOOLEAN]

(* Modes can come from the negotiation or from the configuration.            *)
Origins == SUBSET {"PIO", "DMA", "UDMA"}

(* What every variable can be, and that a table is allocated during a probe  *)
(* only.                                                                     *)
Kinds ==
  /\ atac \in Controllers /\ cf \in Configs
  /\ drv \in [Slots -> Drives]
  /\ cur \in Places
  /\ own \in [Slots -> Origins] /\ streak \in [Slots -> Nat]
  /\ want \in Sizes /\ ndrives \in Sizes \cup {0}
  /\ conf \in {"idle", "probe", "config"}
  /\ \A c \in Allocators : alloc[c] = "waits" => conf = "probe"

(* A slot that no driver holds has nothing to hand on, unless the config     *)
(* thread is at work and has yet to reset it, or the table goes with the     *)
(* bus.                                                                      *)
Vacant ==
  \A d \in Slots :
    /\ d \notin Present \/ conf = "probe" => ~drv[d].softc
    /\ ~drv[d].softc => streak[d] = 0
    /\ ~drv[d].softc /\ (d \notin Present \/ conf = "probe" \/ (conf = "idle" /\ ~leaving)) =>
         drv[d].type = "NONE" /\ drv[d].flags = {}
    /\ drv[d].softc => drv[d].type # "NONE"
    /\ drv[d].type # "NONE" => disk[d] \in Disks[d]

(* The config thread works on a drive of the table, if there still is one;   *)
(* and it passes a PIO mode over that the drive accepts only if that is      *)
(* beyond the controller.                                                    *)
Probing ==
  /\ cur.at # "none" => conf = "config"
  /\ cur.at \notin {"none", "done"} /\ cur.d \in Present => disk[cur.d] \in Disks[cur.d]
  /\ cur.at = "pio" /\ cur.printed => Beyond(disk[cur.d])

(* The modes of a drive r, with origin o, are those of a disk p.             *)
Justified(r, o, p) ==
  /\ "MODE" \in r.flags => "PIO" \in o \/ Fixed \/ Beyond(p)
  /\ "DMA" \in r.flags => "DMA" \in o
  /\ "UDMA" \in r.flags => "UDMA" \in o
  /\ ("UDMA" \in r.flags /\ cf.udma = None) =>
        /\ \E i \in p.udma : i >= r.UDMA_mode
        /\ atac.modes => r.UDMA_mode <= atac.udma_cap
  /\ ("DMA" \in r.flags /\ cf.dma = None) =>
        r.DMA_mode \in p.dma /\ (atac.modes => r.DMA_mode <= atac.dma_cap)

(* The modes of every drive are its own, while they are negotiated too.      *)
Negotiated == \A d \in Present : Justified(drv[d], own[d], disk[d])

(* n errors in a row: either each was counted, or the counters were started  *)
(* again once since, and then at least as many transfers were.               *)
Restarted(r, n) ==
  n <= r.n_dmaerrs \/ (n <= NERRS_MAX - 1 + r.n_dmaerrs /\ r.n_xfers <= r.n_dmaerrs)

(* So it is with the errors of every drive.                                  *)
Bounded == \A d \in Slots : Restarted(drv[d], streak[d])

(* What holds of the table at every moment.                                  *)
DrivesInv == Kinds /\ TableExact /\ Vacant /\ Probing /\ Negotiated /\ Bounded

-----------------------------------------------------------------------------

(* The table's indices are slots.                                            *)
LEMMA PresentSlots ==
  ASSUME Kinds
  PROVE  Present \subseteq Slots /\ Present \subseteq Nat
BY SizesAssumption DEF Kinds, Present

(* What a drive reports.                                                     *)
LEMMA Reports ==
  ASSUME NEW d \in Slots, NEW p \in Disks[d]
  PROVE  /\ p.modes \in BOOLEAN /\ p.udmamodes \in BOOLEAN /\ p.wfua \in BOOLEAN /\ p.ncq \in Nat
         /\ p.pio \subseteq 0 .. 7 /\ p.dma \subseteq 0 .. 7 /\ p.udma \subseteq 0 .. 7
<1>. DEFINE P == [modes : BOOLEAN, pio : SUBSET (0 .. 7), dma : SUBSET (0 .. 7),
                  udmamodes : BOOLEAN, udma : SUBSET (0 .. 7), wfua : BOOLEAN, ncq : Nat]
<1>1. p \in P
  BY KindsAssumption
<1>. QED
  BY <1>1

(* What a controller can do, and the configuration can say.                  *)
LEMMA Powers ==
  ASSUME Kinds
  PROVE  /\ atac.modes \in BOOLEAN /\ atac.dma \in BOOLEAN /\ atac.udma \in BOOLEAN
         /\ atac.ncq \in BOOLEAN /\ atac.data32 \in BOOLEAN /\ atac.nostream \in BOOLEAN
         /\ atac.pio_cap \in Nat /\ atac.dma_cap \in Nat /\ atac.udma_cap \in Nat
         /\ cf.pio \in 0 .. 7 \cup {None}
         /\ cf.dma \in 0 .. 7 \cup {None, Disable} /\ cf.udma \in 0 .. 7 \cup {None, Disable}
BY KindsAssumption DEF Kinds

-----------------------------------------------------------------------------
(* What a command of ata_probe_caps may do to the drive it is about.         *)
Improves(r, o) ==
  /\ r \in Drives /\ o \in Origins
  /\ r.type = this.type /\ r.softc = this.softc
  /\ r.n_dmaerrs = this.n_dmaerrs /\ r.n_xfers = this.n_xfers
  /\ Justified(this, own[d0], params) => Justified(r, o, params)

(* A step of ata_probe_caps: one drive, one place.                           *)
Negotiates ==
  /\ UNCHANGED <<atac, cf, disk, streak>>
  /\ cur.at \notin {"none", "done"}
  /\ cur' \in Places /\ cur'.at # "none" /\ cur'.d = cur.d
  /\ cur'.at = "pio" /\ cur'.printed => Beyond(params)
  /\ \E r, o : /\ Improves(r, o)
               /\ drv' = [drv EXCEPT ![d0] = r] /\ own' = [own EXCEPT ![d0] = o]

(* A step that sets nothing sets what there is.                              *)
LEMMA StaysPut ==
  ASSUME Kinds, d0 \in Slots
  PROVE  /\ this \in Drives /\ own[d0] \in Origins
         /\ Improves(this, own[d0])
         /\ drv = [drv EXCEPT ![d0] = this] /\ own = [own EXCEPT ![d0] = own[d0]]
<1>1. this \in Drives /\ own[d0] \in Origins
  BY DEF Kinds, this, d0
<1>2. drv = [drv EXCEPT ![d0] = this] /\ own = [own EXCEPT ![d0] = own[d0]]
  BY DEF Kinds, this, d0
<1>. QED
  BY <1>1, <1>2 DEF Improves

(* On to the next loop.                                                      *)
LEMMA Goes ==
  ASSUME Kinds, NEW at \in Stages, Go(at)
  PROVE  cur' \in Places /\ cur'.at = at /\ cur'.d = cur.d /\ cur'.printed = FALSE
<1>1. cur \in Places
  BY DEF Kinds
<1>2. cur' = [at |-> at, d |-> cur.d, i |-> 8, printed |-> FALSE]
  BY <1>1, Zenon DEF Go, Places
<1>. QED
  BY <1>1, <1>2 DEF Places

(* On with this loop.                                                        *)
LEMMA Continues ==
  ASSUME Kinds, NEW i \in 0 .. 7, NEW printed \in BOOLEAN, Continue(i, printed)
  PROVE  cur' \in Places /\ cur'.at = cur.at /\ cur'.d = cur.d /\ cur'.printed = printed
<1>1. cur \in Places
  BY DEF Kinds
<1>2. cur' = [at |-> cur.at, d |-> cur.d, i |-> i, printed |-> printed]
  BY <1>1, Zenon DEF Continue, Places
<1>. QED
  BY <1>1, <1>2 DEF Places

(* The mode a loop tries next is one the drive reports.                      *)
LEMMA Highest ==
  ASSUME NEW S, S \subseteq 0 .. 7, Left(S) # {}
  PROVE  Max(Left(S)) \in S /\ Max(Left(S)) \in 0 .. 7
<1>1. Left(S) \subseteq S /\ Left(S) \subseteq 0 .. 7
  BY DEF Left
<1>2. Max(Left(S)) \in Left(S)
  BY <1>1, MaxFacts
<1>. QED
  BY <1>1, <1>2

(* ATA_DRIVE_CAP32 is no mode.                                               *)
LEMMA IdentifyNegotiates ==
  ASSUME Kinds, d0 \in Slots, Identify \/ IdentifyAgain
  PROVE  Negotiates
<1>0. /\ cur.at \notin {"none", "done"} /\ UNCHANGED <<atac, cf, disk, own, streak>>
      /\ this \in Drives /\ own[d0] \in Origins
  BY StaysPut DEF Identify, IdentifyAgain
<1>1. PICK at \in Stages : Go(at) /\ at # "none"
  BY DEF Identify, IdentifyAgain, AfterIdentify, Stages
<1>2. cur' \in Places /\ cur'.at = at /\ cur'.d = cur.d /\ cur'.printed = FALSE
  BY <1>1, Goes
<1>3. \/ UNCHANGED drv \/ Set(d0, Flagged(this, {"CAP32"}))
      \/ Set(d0, [this EXCEPT !.flags = @ \ {"CAP32"}])
  BY DEF Identify, IdentifyAgain
<1>4. CASE UNCHANGED drv
  BY <1>0, <1>1, <1>2, <1>4, StaysPut DEF Negotiates
<1>5. ASSUME NEW r, Set(d0, r), r = Flagged(this, {"CAP32"}) \/ r = [this EXCEPT !.flags = @ \ {"CAP32"}]
      PROVE  Negotiates
  <2>1. r \in Drives
    BY <1>0, <1>5 DEF Drives, Flags, Flagged
  <2>2. /\ r.type = this.type /\ r.softc = this.softc
        /\ r.n_dmaerrs = this.n_dmaerrs /\ r.n_xfers = this.n_xfers
        /\ r.DMA_mode = this.DMA_mode /\ r.UDMA_mode = this.UDMA_mode
        /\ \A f \in {"MODE", "DMA", "UDMA"} : f \in r.flags <=> f \in this.flags
    BY <1>0, <1>5 DEF Drives, Flagged
  <2>3. Improves(r, own[d0])
    BY <1>0, <2>1, <2>2 DEF Improves, Justified
  <2>4. drv' = [drv EXCEPT ![d0] = r] /\ own' = [own EXCEPT ![d0] = own[d0]]
    BY <1>0, <1>5, StaysPut DEF Set
  <2>. QED
    BY <1>0, <1>1, <1>2, <2>3, <2>4 DEF Negotiates
<1>. QED
  BY <1>3, <1>4, <1>5

(* A PIO mode is set after the drive has accepted it.                        *)
LEMMA PioNegotiates ==
  ASSUME Kinds, Probing, d0 \in Slots, params \in Disks[d0], PioLoop
  PROVE  Negotiates
<1>. DEFINE i == Max(Left(params.pio))
<1>0. /\ cur.at = "pio" /\ UNCHANGED <<atac, cf, disk, streak>>
      /\ this \in Drives /\ own[d0] \in Origins /\ cur.printed \in BOOLEAN
      /\ cur.printed => Beyond(params)
  BY StaysPut DEF PioLoop, Probing, Kinds, Places, params
<1>9. cur.at \notin {"none", "done"}
  BY <1>0
<1>1. CASE NoPio
  <2>1. cur' \in Places /\ cur'.at = "done" /\ cur'.d = cur.d
    BY <1>1, Goes DEF Stages, NoPio
  <2>. QED
    BY <1>0, <1>1, <1>9, <2>1, StaysPut DEF Negotiates, NoPio
<1>2. CASE PioFound /\ cur.printed
  <2>. DEFINE r == Flagged(this, {"MODE"})
  <2>1. cur' \in Places /\ cur'.at = "dma" /\ cur'.d = cur.d
    BY <1>2, Goes DEF Stages, PioFound
  <2>2. r \in Drives
    BY <1>0 DEF Drives, Flags, Flagged
  <2>3. /\ r.type = this.type /\ r.softc = this.softc
        /\ r.n_dmaerrs = this.n_dmaerrs /\ r.n_xfers = this.n_xfers
        /\ r.DMA_mode = this.DMA_mode /\ r.UDMA_mode = this.UDMA_mode
        /\ \A f \in {"DMA", "UDMA"} : f \in r.flags <=> f \in this.flags
    BY <1>0 DEF Drives, Flagged
  <2>. HIDE DEF r
  <2>4. Justified(this, own[d0], params) => Justified(r, own[d0], params)
    <3>1. Beyond(params)
      BY <1>0, <1>2
    <3>. QED
      BY <2>3, <3>1 DEF Justified
  <2>5. drv' = [drv EXCEPT ![d0] = r] /\ own' = [own EXCEPT ![d0] = own[d0]]
    BY <1>2, StaysPut DEF Set, r, PioFound
  <2>. QED
    BY <1>0, <1>9, <2>1, <2>2, <2>3, <2>4, <2>5 DEF Negotiates, Improves
<1>3. ASSUME Left(params.pio) # {}, i <= 4, TryPio(i)
      PROVE  Negotiates
  <2>1. i \in params.pio /\ i \in 0 .. 7
    BY <1>3, Highest, Reports
  <2>. HIDE DEF i
  <2>2. PICK ok \in Answers(atac.modes) :
          IF ok /\ PioFits(i)
          THEN /\ Go("dma")
               /\ Set(d0, Flagged([this EXCEPT !.PIO_mode = i + 3, !.PIO_cap = i + 3], {"MODE"}))
               /\ Owns(d0, {"PIO"})
          ELSE Continue(i, ok \/ cur.printed) /\ UNCHANGED <<drv, own>>
    BY <1>3 DEF TryPio
  <2>3. ok \in BOOLEAN
    BY <2>2 DEF Answers
  <2>4. CASE ok /\ PioFits(i)
    <3>. DEFINE r == Flagged([this EXCEPT !.PIO_mode = i + 3, !.PIO_cap = i + 3], {"MODE"})
                o == own[d0] \cup {"PIO"}
    <3>1. cur' \in Places /\ cur'.at = "dma" /\ cur'.d = cur.d
      BY <2>2, <2>4, Goes DEF Stages
    <3>2. r \in Drives
      <4>1. i + 3 \in Nat
        BY <2>1
      <4>. QED
        BY <1>0, <4>1 DEF Drives, Flags, Flagged
    <3>3. /\ r.type = this.type /\ r.softc = this.softc
          /\ r.n_dmaerrs = this.n_dmaerrs /\ r.n_xfers = this.n_xfers
          /\ r.DMA_mode = this.DMA_mode /\ r.UDMA_mode = this.UDMA_mode
          /\ \A f \in {"DMA", "UDMA"} : f \in r.flags <=> f \in this.flags
      BY <1>0 DEF Drives, Flagged
    <3>4. drv' = [drv EXCEPT ![d0] = r] /\ own' = [own EXCEPT ![d0] = o]
      BY <2>2, <2>4 DEF Set, Owns
    <3>. HIDE DEF r
    <3>5. Justified(this, own[d0], params) => Justified(r, o, params)
      BY <3>3 DEF Justified
    <3>6. o \in Origins
      BY <1>0 DEF Origins
    <3>. HIDE DEF o
    <3>. QED
      BY <1>0, <1>9, <3>1, <3>2, <3>3, <3>4, <3>5, <3>6 DEF Negotiates, Improves
  <2>5. CASE ~(ok /\ PioFits(i))
    <3>1. /\ cur' \in Places /\ cur'.at = cur.at /\ cur'.d = cur.d
          /\ cur'.printed = (ok \/ cur.printed)
      <4>1. (ok \/ cur.printed) \in BOOLEAN
        BY <1>0, <2>3
      <4>. QED
        BY <2>1, <2>2, <2>5, <4>1, Continues
    <3>2. ok \/ cur.printed => Beyond(params)
      <4>1. CASE cur.printed
        BY <1>0, <4>1
      <4>2. CASE ok
        <5>1. atac.modes /\ ~(atac.pio_cap >= i + 3)
          BY <2>5, <4>2 DEF PioFits
        <5>. QED
          BY <2>1, <5>1, Powers DEF Beyond
      <4>. QED
        BY <4>1, <4>2
    <3>. QED
      BY <1>0, <1>9, <2>2, <2>5, <3>1, <3>2, StaysPut DEF Negotiates
  <2>. QED
    BY <2>3, <2>4, <2>5
<1>. HIDE DEF i
<1>4. IF Left(params.pio) = {} THEN IF cur.printed THEN PioFound ELSE NoPio
      ELSE IF i > 4 THEN NoPio ELSE TryPio(i)
  BY DEF PioLoop, i
<1>5. CASE Left(params.pio) = {}
  BY <1>0, <1>1, <1>2, <1>4, <1>5
<1>6. CASE Left(params.pio) # {}
  <2>1. i \in 0 .. 7
    BY <1>6, Highest, Reports DEF i
  <2>. QED
    BY <1>1, <1>3, <1>4, <1>6, <2>1
<1>. QED
  BY <1>5, <1>6

(* A DMA mode is set if the controller can do it and the drive accepted it.  *)
LEMMA DmaNegotiates ==
  ASSUME Kinds, d0 \in Slots, params \in Disks[d0], DmaLoop
  PROVE  Negotiates
<1>. DEFINE i == Max(Left(params.dma))
<1>0. /\ cur.at = "dma" /\ UNCHANGED <<atac, cf, disk, streak>>
      /\ this \in Drives /\ own[d0] \in Origins
  BY StaysPut DEF DmaLoop
<1>1. ASSUME Go(AfterDma)
      PROVE  cur' \in Places /\ cur'.at \in {"udma", "finish"} /\ cur'.d = cur.d
  BY <1>1, Goes DEF AfterDma, Stages
<1>2. CASE Left(params.dma) = {}
  BY <1>0, <1>1, <1>2, StaysPut DEF DmaLoop, Negotiates
<1>3. CASE Left(params.dma) # {}
  <2>1. i \in params.dma /\ i \in 0 .. 7
    BY <1>3, Highest, Reports
  <2>2. \E ok \in Answers(atac.dma /\ atac.modes) :
          IF ~ok \/ (atac.dma /\ atac.modes /\ atac.dma_cap < i)
          THEN Continue(i, TRUE) /\ UNCHANGED <<drv, own>>
          ELSE /\ Go(AfterDma)
               /\ IF atac.dma
                  THEN /\ Set(d0, Flagged([this EXCEPT !.DMA_mode = i], {"DMA"}))
                       /\ Owns(d0, {"DMA"})
                  ELSE UNCHANGED <<drv, own>>
    BY <1>3 DEF DmaLoop
  <2>. HIDE DEF i
  <2>3. CASE Continue(i, TRUE) /\ UNCHANGED <<drv, own>>
    BY <1>0, <2>1, <2>3, Continues, StaysPut DEF Negotiates
  <2>4. CASE Go(AfterDma) /\ UNCHANGED <<drv, own>>
    BY <1>0, <1>1, <2>4, StaysPut DEF Negotiates
  <2>5. CASE /\ ~(atac.dma /\ atac.modes /\ atac.dma_cap < i)
             /\ Go(AfterDma) /\ atac.dma
             /\ Set(d0, Flagged([this EXCEPT !.DMA_mode = i], {"DMA"}))
             /\ Owns(d0, {"DMA"})
    <3>. DEFINE r == Flagged([this EXCEPT !.DMA_mode = i], {"DMA"})
                o == own[d0] \cup {"DMA"}
    <3>1. r \in Drives
      <4>1. i \in Nat
        BY <2>1
      <4>. QED
        BY <1>0, <4>1 DEF Drives, Flags, Flagged
    <3>2. /\ r.type = this.type /\ r.softc = this.softc
          /\ r.n_dmaerrs = this.n_dmaerrs /\ r.n_xfers = this.n_xfers
          /\ r.DMA_mode = i /\ r.UDMA_mode = this.UDMA_mode
          /\ \A f \in {"MODE", "UDMA"} : f \in r.flags <=> f \in this.flags
      BY <1>0 DEF Drives, Flagged
    <3>3. drv' = [drv EXCEPT ![d0] = r] /\ own' = [own EXCEPT ![d0] = o]
      BY <2>5 DEF Set, Owns
    <3>. HIDE DEF r
    <3>4. atac.modes => i <= atac.dma_cap
      BY <2>1, <2>5, Powers
    <3>5. Justified(this, own[d0], params) => Justified(r, o, params)
      BY <2>1, <3>2, <3>4 DEF Justified
    <3>6. o \in Origins
      BY <1>0 DEF Origins
    <3>. HIDE DEF o
    <3>. QED
      BY <1>0, <1>1, <2>5, <3>1, <3>2, <3>3, <3>5, <3>6 DEF Negotiates, Improves
  <2>. QED
    BY <2>2, <2>3, <2>4, <2>5
<1>. QED
  BY <1>2, <1>3

(* So is an Ultra-DMA mode.                                                  *)
LEMMA UdmaNegotiates ==
  ASSUME Kinds, d0 \in Slots, params \in Disks[d0], UdmaLoop
  PROVE  Negotiates
<1>. DEFINE i == Max(Left(params.udma))
<1>0. /\ cur.at = "udma" /\ UNCHANGED <<atac, cf, disk, streak>>
      /\ this \in Drives /\ own[d0] \in Origins
  BY StaysPut DEF UdmaLoop
<1>1. ASSUME Go("finish")
      PROVE  cur' \in Places /\ cur'.at = "finish" /\ cur'.d = cur.d
  BY <1>1, Goes DEF Stages
<1>2. CASE Left(params.udma) = {}
  BY <1>0, <1>1, <1>2, StaysPut DEF UdmaLoop, Negotiates
<1>3. CASE Left(params.udma) # {}
  <2>1. i \in params.udma /\ i \in 0 .. 7
    BY <1>3, Highest, Reports
  <2>2. \E ok \in Answers(atac.udma /\ atac.modes) :
          IF ~ok \/ (atac.udma /\ ~UdmaFits(i))
          THEN Continue(i, TRUE) /\ UNCHANGED <<drv, own>>
          ELSE /\ Go("finish")
               /\ IF atac.udma
                  THEN /\ Set(d0, Flagged([this EXCEPT !.UDMA_mode = i], {"UDMA"}))
                       /\ Owns(d0, {"UDMA"})
                  ELSE UNCHANGED <<drv, own>>
    BY <1>3 DEF UdmaLoop
  <2>. HIDE DEF i
  <2>3. CASE Continue(i, TRUE) /\ UNCHANGED <<drv, own>>
    BY <1>0, <2>1, <2>3, Continues, StaysPut DEF Negotiates
  <2>4. CASE Go("finish") /\ UNCHANGED <<drv, own>>
    BY <1>0, <1>1, <2>4, StaysPut DEF Negotiates
  <2>5. CASE /\ UdmaFits(i) /\ Go("finish")
             /\ Set(d0, Flagged([this EXCEPT !.UDMA_mode = i], {"UDMA"}))
             /\ Owns(d0, {"UDMA"})
    <3>. DEFINE r == Flagged([this EXCEPT !.UDMA_mode = i], {"UDMA"})
                o == own[d0] \cup {"UDMA"}
    <3>1. r \in Drives
      <4>1. i \in Nat
        BY <2>1
      <4>. QED
        BY <1>0, <4>1 DEF Drives, Flags, Flagged
    <3>2. /\ r.type = this.type /\ r.softc = this.softc
          /\ r.n_dmaerrs = this.n_dmaerrs /\ r.n_xfers = this.n_xfers
          /\ r.DMA_mode = this.DMA_mode /\ r.UDMA_mode = i
          /\ \A f \in {"MODE", "DMA"} : f \in r.flags <=> f \in this.flags
      BY <1>0 DEF Drives, Flagged
    <3>3. drv' = [drv EXCEPT ![d0] = r] /\ own' = [own EXCEPT ![d0] = o]
      BY <2>5 DEF Set, Owns
    <3>. HIDE DEF r
    <3>4. (atac.modes => i <= atac.udma_cap) /\ i >= i
      BY <2>1, <2>5, Powers DEF UdmaFits
    <3>5. Justified(this, own[d0], params) => Justified(r, o, params)
      BY <2>1, <3>2, <3>4 DEF Justified
    <3>6. o \in Origins
      BY <1>0 DEF Origins
    <3>. HIDE DEF o
    <3>. QED
      BY <1>0, <1>1, <2>5, <3>1, <3>2, <3>3, <3>5, <3>6 DEF Negotiates, Improves
  <2>. QED
    BY <2>2, <2>3, <2>4, <2>5
<1>. QED
  BY <1>2, <1>3

-----------------------------------------------------------------------------
(* The rest of ata_probe_caps, a change at a time.  Only the configuration   *)
(* makes up modes; CfOwn is where they come from then.                       *)
Keeps(r, q) ==
  /\ q \in Drives
  /\ q.type = r.type /\ q.softc = r.softc
  /\ q.n_dmaerrs = r.n_dmaerrs /\ q.n_xfers = r.n_xfers
  /\ \A o \in Origins : Justified(r, o, params) => Justified(q, o \cup CfOwn, params)

(* The modes, and the flags that claim them, are the same.                   *)
SameModes(r, q) ==
  /\ q.DMA_mode = r.DMA_mode /\ q.UDMA_mode = r.UDMA_mode
  /\ \A f \in {"MODE", "DMA", "UDMA"} : f \in q.flags <=> f \in r.flags

(* Nothing else bears on where modes come from.                              *)
LEMMA SameModesKeep ==
  ASSUME NEW r \in Drives, NEW q \in Drives, SameModes(r, q),
         q.type = r.type, q.softc = r.softc,
         q.n_dmaerrs = r.n_dmaerrs, q.n_xfers = r.n_xfers
  PROVE  Keeps(r, q)
BY DEF Keeps, SameModes, Justified

(* ATA_DRIVE_NOSTREAM.                                                       *)
LEMMA StreamsKeeps ==
  ASSUME NEW r \in Drives PROVE Keeps(r, Streams(r))
<1>. DEFINE q == Streams(r)
<1>1. q \in Drives /\ q.type = r.type /\ q.softc = r.softc
      /\ q.n_dmaerrs = r.n_dmaerrs /\ q.n_xfers = r.n_xfers
  BY DEF Drives, Flags, Streams
<1>2. SameModes(r, q)
  BY DEF Drives, Streams, SameModes
<1>. QED
  BY <1>1, <1>2, SameModesKeep

(* The guess at ata_vers.                                                    *)
LEMMA VersionKeeps ==
  ASSUME NEW r \in Drives PROVE Keeps(r, Version(r))
<1>. DEFINE q == Version(r)
<1>1. q \in Drives /\ q.type = r.type /\ q.softc = r.softc
      /\ q.n_dmaerrs = r.n_dmaerrs /\ q.n_xfers = r.n_xfers
  BY DEF Drives, Version
<1>2. SameModes(r, q)
  BY DEF Drives, Version, SameModes
<1>. QED
  BY <1>1, <1>2, SameModesKeep

(* ATA_DRIVE_WFUA.                                                           *)
LEMMA WfuaKeeps ==
  ASSUME NEW r \in Drives PROVE Keeps(r, Wfua(r))
<1>. DEFINE q == Wfua(r)
<1>1. q \in Drives /\ q.type = r.type /\ q.softc = r.softc
      /\ q.n_dmaerrs = r.n_dmaerrs /\ q.n_xfers = r.n_xfers
  BY DEF Drives, Flags, Flagged, Wfua
<1>2. SameModes(r, q)
  BY DEF Drives, Flagged, Wfua, SameModes
<1>. QED
  BY <1>1, <1>2, SameModesKeep

(* drv_openings and ATA_DRIVE_NCQ.                                           *)
LEMMA QueueingKeeps ==
  ASSUME d0 \in Slots, params \in Disks[d0], NEW r \in Drives PROVE Keeps(r, Queueing(r))
<1>. DEFINE q == Queueing(r)
<1>0. params.ncq \in Nat
  BY Reports
<1>1. q \in Drives /\ q.type = r.type /\ q.softc = r.softc
      /\ q.n_dmaerrs = r.n_dmaerrs /\ q.n_xfers = r.n_xfers
  BY <1>0 DEF Drives, Flags, Flagged, Queueing
<1>2. SameModes(r, q)
  BY DEF Drives, Flagged, Queueing, SameModes
<1>. QED
  BY <1>1, <1>2, SameModesKeep

(* ATA_CONFIG_PIO_SET: a configuration that sets a mode is Fixed.            *)
LEMMA CfPioKeeps ==
  ASSUME Kinds, NEW r \in Drives PROVE Keeps(r, CfPio(r))
<1>. DEFINE q == CfPio(r)
<1>0. cf.pio \in 0 .. 7 \cup {None}
  BY Powers
<1>1. q \in Drives /\ q.type = r.type /\ q.softc = r.softc
      /\ q.n_dmaerrs = r.n_dmaerrs /\ q.n_xfers = r.n_xfers
  <2>1. CASE cf.pio = None
    BY <2>1 DEF CfPio
  <2>2. CASE cf.pio \in Nat /\ cf.pio # None
    <3>1. PICK m \in Nat : q = Flagged([r EXCEPT !.PIO_mode = m], {"MODE"})
      BY <2>2 DEF CfPio
    <3>. HIDE DEF q
    <3>2. q \in Drives
      BY <3>1 DEF Drives, Flags, Flagged
    <3>3. /\ q.type = r.type /\ q.softc = r.softc
          /\ q.n_dmaerrs = r.n_dmaerrs /\ q.n_xfers = r.n_xfers
      BY <3>1 DEF Drives, Flagged
    <3>. QED
      BY <3>2, <3>3
  <2>. QED
    BY <1>0, <2>1, <2>2
<1>2. /\ q.DMA_mode = r.DMA_mode /\ q.UDMA_mode = r.UDMA_mode
      /\ \A f \in {"DMA", "UDMA"} : f \in q.flags <=> f \in r.flags
      /\ "MODE" \in q.flags => "MODE" \in r.flags \/ "PIO" \in CfOwn
  BY DEF Drives, Flagged, CfPio, CfOwn
<1>. HIDE DEF q
<1>3. ASSUME NEW o \in Origins, Justified(r, o, params)
      PROVE  Justified(q, o \cup CfOwn, params)
  BY <1>2, <1>3 DEF Justified
<1>. QED
  BY <1>1, <1>3 DEF Keeps, q

(* ATA_CONFIG_DMA_SET and ATA_CONFIG_DMA_DISABLE.                            *)
LEMMA CfDmaKeeps ==
  ASSUME Kinds, atac.dma, NEW r \in Drives PROVE Keeps(r, CfDma(r))
<1>. DEFINE q == CfDma(r)
<1>0. cf.dma \in 0 .. 7 \cup {None, Disable}
  BY Powers
<1>1. q \in Drives /\ q.type = r.type /\ q.softc = r.softc
      /\ q.n_dmaerrs = r.n_dmaerrs /\ q.n_xfers = r.n_xfers
  <2>1. CASE cf.dma = None
    BY <2>1, KindsAssumption DEF CfDma
  <2>2. CASE cf.dma = Disable /\ cf.dma # None
    <3>1. q = [r EXCEPT !.flags = @ \ {"DMA"}]
      BY <2>2 DEF CfDma
    <3>. QED
      BY <3>1 DEF Drives
  <2>3. CASE cf.dma \in Nat /\ cf.dma # None /\ cf.dma # Disable
    <3>1. PICK m \in Nat : q = Flagged([r EXCEPT !.DMA_mode = m], {"DMA", "MODE"})
      BY <2>3 DEF CfDma
    <3>2. q = [r EXCEPT !.DMA_mode = m, !.flags = r.flags \cup {"DMA", "MODE"}]
      BY <3>1 DEF Drives, Flagged
    <3>3. r.flags \cup {"DMA", "MODE"} \in SUBSET Flags
      BY DEF Drives, Flags
    <3>. HIDE DEF q
    <3>. QED
      BY <3>2, <3>3 DEF Drives
  <2>. QED
    BY <1>0, <2>1, <2>2, <2>3
<1>2. /\ q.UDMA_mode = r.UDMA_mode
      /\ "UDMA" \in q.flags <=> "UDMA" \in r.flags
      /\ "MODE" \in q.flags => "MODE" \in r.flags \/ Fixed
      /\ "DMA" \in q.flags => "DMA" \in r.flags \/ "DMA" \in CfOwn
      /\ cf.dma = None => q.DMA_mode = r.DMA_mode /\ q.flags = r.flags
  <2>1. CASE cf.dma = None
    BY <2>1, KindsAssumption DEF CfDma
  <2>2. CASE cf.dma # None
    <3>1. Fixed /\ "DMA" \in CfOwn
      BY <2>2 DEF Fixed, CfOwn
    <3>2. CASE q = [r EXCEPT !.flags = @ \ {"DMA"}]
      BY <2>2, <3>1, <3>2 DEF Drives
    <3>3. CASE q = Flagged([r EXCEPT !.DMA_mode = cf.dma], {"DMA", "MODE"})
      BY <2>2, <3>1, <3>3 DEF Drives, Flagged
    <3>. QED
      BY <2>2, <3>2, <3>3 DEF CfDma
  <2>. QED
    BY <2>1, <2>2
<1>. HIDE DEF q
<1>3. ASSUME NEW o \in Origins, Justified(r, o, params)
      PROVE  Justified(q, o \cup CfOwn, params)
  BY <1>2, <1>3 DEF Justified
<1>. QED
  BY <1>1, <1>3 DEF Keeps, q

(* ATA_CONFIG_UDMA_SET and ATA_CONFIG_UDMA_DISABLE.                          *)
LEMMA CfUdmaKeeps ==
  ASSUME Kinds, atac.dma, atac.udma, NEW r \in Drives PROVE Keeps(r, CfUdma(r))
<1>. DEFINE q == CfUdma(r)
<1>0. cf.udma \in 0 .. 7 \cup {None, Disable}
  BY Powers
<1>1. q \in Drives /\ q.type = r.type /\ q.softc = r.softc
      /\ q.n_dmaerrs = r.n_dmaerrs /\ q.n_xfers = r.n_xfers
  <2>1. CASE cf.udma = None
    BY <2>1, KindsAssumption DEF CfUdma
  <2>2. CASE cf.udma = Disable /\ cf.udma # None
    <3>1. q = [r EXCEPT !.flags = @ \ {"UDMA"}]
      BY <2>2 DEF CfUdma
    <3>. QED
      BY <3>1 DEF Drives
  <2>3. CASE cf.udma \in Nat /\ cf.udma # None /\ cf.udma # Disable
    <3>1. PICK m \in Nat : q = Flagged([r EXCEPT !.UDMA_mode = m], {"UDMA", "MODE"})
      BY <2>3 DEF CfUdma
    <3>2. q = [r EXCEPT !.UDMA_mode = m, !.flags = r.flags \cup {"UDMA", "MODE"}]
      BY <3>1 DEF Drives, Flagged
    <3>3. r.flags \cup {"UDMA", "MODE"} \in SUBSET Flags
      BY DEF Drives, Flags
    <3>. HIDE DEF q
    <3>. QED
      BY <3>2, <3>3 DEF Drives
  <2>. QED
    BY <1>0, <2>1, <2>2, <2>3
<1>2. /\ q.DMA_mode = r.DMA_mode
      /\ "DMA" \in q.flags <=> "DMA" \in r.flags
      /\ "MODE" \in q.flags => "MODE" \in r.flags \/ Fixed
      /\ "UDMA" \in q.flags => "UDMA" \in r.flags \/ "UDMA" \in CfOwn
      /\ cf.udma = None => q.UDMA_mode = r.UDMA_mode /\ q.flags = r.flags
  <2>1. CASE cf.udma = None
    BY <2>1, KindsAssumption DEF CfUdma
  <2>2. CASE cf.udma # None
    <3>1. Fixed /\ "UDMA" \in CfOwn
      BY <2>2 DEF Fixed, CfOwn
    <3>2. CASE q = [r EXCEPT !.flags = @ \ {"UDMA"}]
      BY <2>2, <3>1, <3>2 DEF Drives
    <3>3. CASE q = Flagged([r EXCEPT !.UDMA_mode = cf.udma], {"UDMA", "MODE"})
      BY <2>2, <3>1, <3>3 DEF Drives, Flagged
    <3>. QED
      BY <2>2, <3>2, <3>3 DEF CfUdma
  <2>. QED
    BY <2>1, <2>2
<1>. HIDE DEF q
<1>3. ASSUME NEW o \in Origins, Justified(r, o, params)
      PROVE  Justified(q, o \cup CfOwn, params)
  BY <1>2, <1>3 DEF Justified
<1>. QED
  BY <1>1, <1>3 DEF Keeps, q

(* One change after another.                                                 *)
LEMMA KeepsOn ==
  ASSUME NEW r, NEW q, NEW t, Keeps(r, q), Keeps(q, t)
  PROVE  Keeps(r, t)
<1>1. CfOwn \subseteq {"PIO", "DMA", "UDMA"}
  BY DEF CfOwn
<1>2. ASSUME NEW o \in Origins, Justified(r, o, params)
      PROVE  Justified(t, o \cup CfOwn, params)
  <2>1. o \cup CfOwn \in Origins /\ (o \cup CfOwn) \cup CfOwn = o \cup CfOwn
    BY <1>1 DEF Origins
  <2>. QED
    BY <1>2, <2>1 DEF Keeps
<1>. QED
  BY <1>2 DEF Keeps

(* The changes in their order.                                               *)
LEMMA FinishNegotiates ==
  ASSUME Kinds, d0 \in Slots, params \in Disks[d0], Finish
  PROVE  Negotiates
<1>. DEFINE guessed == CfPio(Version(Streams(this)))
            queueing == Queueing(Wfua(CfDma(guessed)))
            r == IF ~atac.dma THEN guessed ELSE IF ~atac.udma THEN queueing ELSE CfUdma(queueing)
            o == own[d0] \cup CfOwn
<1>0. /\ cur.at = "finish" /\ UNCHANGED <<atac, cf, disk, streak>>
      /\ this \in Drives /\ own[d0] \in Origins
      /\ drv' = [drv EXCEPT ![d0] = r] /\ own' = [own EXCEPT ![d0] = o]
  BY StaysPut DEF Finish, Set, Owns
<1>1. cur' \in Places /\ cur'.at = "done" /\ cur'.d = cur.d
  BY Goes DEF Finish, Stages
<1>2. Keeps(this, guessed)
  <2>. DEFINE a == Streams(this)  b == Version(a)
  <2>1. Keeps(this, a) /\ a \in Drives
    BY <1>0, StreamsKeeps DEF Keeps
  <2>. HIDE DEF a
  <2>2. Keeps(a, b) /\ b \in Drives
    BY <2>1, VersionKeeps DEF Keeps
  <2>. HIDE DEF b
  <2>3. Keeps(b, CfPio(b))
    BY <2>2, CfPioKeeps
  <2>4. Keeps(this, CfPio(b))
    BY <2>1, <2>2, <2>3, KeepsOn
  <2>. QED
    BY <2>4 DEF a, b
<1>. HIDE DEF guessed
<1>3. ASSUME atac.dma PROVE Keeps(this, queueing)
  <2>. DEFINE a == CfDma(guessed)  b == Wfua(a)
  <2>1. Keeps(guessed, a) /\ a \in Drives
    BY <1>2, <1>3, CfDmaKeeps DEF Keeps
  <2>. HIDE DEF a
  <2>2. Keeps(a, b) /\ b \in Drives
    BY <2>1, WfuaKeeps DEF Keeps
  <2>. HIDE DEF b
  <2>3. Keeps(b, Queueing(b))
    BY <2>2, QueueingKeeps
  <2>4. Keeps(this, Queueing(b))
    BY <1>2, <2>1, <2>2, <2>3, KeepsOn
  <2>. QED
    BY <2>4 DEF a, b
<1>. HIDE DEF queueing
<1>4. Keeps(this, r)
  <2>1. CASE ~atac.dma
    BY <1>2, <2>1
  <2>2. CASE atac.dma /\ ~atac.udma
    BY <1>3, <2>2
  <2>3. CASE atac.dma /\ atac.udma
    <3>1. Keeps(queueing, CfUdma(queueing))
      BY <1>3, <2>3, CfUdmaKeeps DEF Keeps
    <3>. QED
      BY <1>3, <2>3, <3>1, KeepsOn
  <2>. QED
    BY <2>1, <2>2, <2>3
<1>5. o \in Origins
  BY <1>0 DEF Origins, CfOwn
<1>. HIDE DEF r
<1>6. Improves(r, o)
  BY <1>0, <1>4, <1>5 DEF Improves, Keeps
<1>. QED
  BY <1>0, <1>1, <1>6 DEF Negotiates

-----------------------------------------------------------------------------

(* A step of the negotiation touches one slot of the table, which may have   *)
(* lost its drive: then it stays of no type, and the config thread will      *)
(* reset it.                                                                 *)
LEMMA NegotiateKeeps ==
  ASSUME DrivesInv, Negotiate
  PROVE  DrivesInv'
<1>0. Kinds /\ TableExact /\ Vacant /\ Probing /\ Negotiated /\ Bounded
  BY DEF DrivesInv
<1>1. d0 \in Present /\ d0 \in Slots /\ params \in Disks[d0]
  <2>1. cur.at \notin {"none", "done"} /\ d0 \in Present
    BY DEF Negotiate, ProbeCaps, Identify, IdentifyAgain, PioLoop, DmaLoop, UdmaLoop, Finish
  <2>. QED
    BY <1>0, <2>1, PresentSlots DEF Probing, d0, params
<1>2. Negotiates
  BY <1>0, <1>1, IdentifyNegotiates, PioNegotiates, DmaNegotiates, UdmaNegotiates,
     FinishNegotiates DEF Negotiate, ProbeCaps
<1>3. /\ UNCHANGED <<atac, cf, disk, streak, table, ndrives, kmem, alloc, want, leaving, conf>>
      /\ cur.at \notin {"none", "done"}
      /\ cur' \in Places /\ cur'.at # "none" /\ cur'.d = cur.d
      /\ cur'.at = "pio" /\ cur'.printed => Beyond(disk[cur.d])
  BY <1>2 DEF Negotiates, Negotiate, tableVars, params
<1>4. PICK r, o : /\ Improves(r, o)
                  /\ drv' = [drv EXCEPT ![d0] = r] /\ own' = [own EXCEPT ![d0] = o]
  BY <1>2 DEF Negotiates
<1>5. Present' = Present /\ (\A d \in Present : d \in Slots)
  BY <1>0, <1>3, PresentSlots DEF Present
<1>6. /\ drv \in [Slots -> Drives] /\ own \in [Slots -> Origins]
      /\ r \in Drives /\ o \in Origins
      /\ r.type = drv[d0].type /\ r.softc = drv[d0].softc
      /\ r.n_dmaerrs = drv[d0].n_dmaerrs /\ r.n_xfers = drv[d0].n_xfers
      /\ Justified(drv[d0], own[d0], disk[d0]) => Justified(r, o, disk[d0])
  BY <1>0, <1>4 DEF Kinds, Improves, this, params, d0
<1>7. /\ drv'[d0] = r /\ own'[d0] = o
      /\ \A d \in Slots \ {d0} : drv'[d] = drv[d] /\ own'[d] = own[d]
  BY <1>1, <1>4, <1>6
<1>8. \A d \in Slots : /\ drv'[d].type = drv[d].type /\ drv'[d].softc = drv[d].softc
                       /\ drv'[d].n_dmaerrs = drv[d].n_dmaerrs
                       /\ drv'[d].n_xfers = drv[d].n_xfers
  BY <1>6, <1>7
<1>9. conf = "config"
  BY <1>0, <1>3 DEF Probing
<1>10. Kinds'
  BY <1>0, <1>3, <1>4, <1>6 DEF Kinds
<1>11. TableExact'
  BY <1>0, <1>3 DEF TableExact
<1>12. Vacant'
  <2>1. ASSUME NEW d \in Slots, d \notin Present, ~drv[d].softc
        PROVE  drv'[d].type = "NONE" /\ drv'[d].flags = {}
    BY <1>0, <1>1, <1>7, <2>1 DEF Vacant
  <2>. QED
    BY <1>0, <1>3, <1>5, <1>8, <1>9, <2>1 DEF Vacant
<1>13. Probing'
  BY <1>0, <1>3, <1>5, <1>9 DEF Probing, Beyond
<1>14. Negotiated'
  <2>1. ASSUME NEW d \in Present PROVE Justified(drv'[d], own'[d], disk[d])
    <3>1. Justified(drv[d], own[d], disk[d])
      BY <1>0 DEF Negotiated
    <3>. QED
      BY <1>5, <1>6, <1>7, <3>1
  <2>. QED
    BY <1>3, <1>5, <2>1 DEF Negotiated, Justified, Fixed, Beyond
<1>15. Bounded'
  BY <1>0, <1>3, <1>8 DEF Bounded, Restarted
<1>. QED
  BY <1>10, <1>11, <1>12, <1>13, <1>14, <1>15 DEF DrivesInv

(* A drive the kernel forgets is as good as none: its slot passes whatever   *)
(* is asked of the slots of drives.                                          *)
LEMMA BareJustified ==
  ASSUME NEW r, r.flags = {}, NEW o, NEW p
  PROVE  Justified(r, o, p)
BY DEF Justified

(* The old table goes with the size it has, before the lock is dropped.      *)
LEMMA AllocBeginKeeps ==
  ASSUME DrivesInv, NEW c \in Allocators, AllocBegin(c)
  PROVE  DrivesInv'
<1>0. /\ Kinds /\ TableExact /\ Vacant /\ Probing /\ Negotiated /\ Bounded
      /\ conf = "probe" /\ UNCHANGED <<modes, want, conf, leaving>>
  BY DEF DrivesInv, AllocBegin
<1>. USE <1>0 DEF modes
<1>1. /\ TableExact' /\ Present' \subseteq Present /\ ndrives' \in Sizes \cup {0}
  <2>1. CASE FreeDrives
    <3>1. ndrives \in Nat /\ kmem = ndrives
      BY SizesAssumption DEF Kinds, TableExact
    <3>2. kmem' = 0 /\ table' = 0 /\ ndrives' = 0
      BY <2>1, <3>1 DEF FreeDrives
    <3>. QED
      BY <3>2 DEF TableExact, Present
  <2>2. CASE UNCHANGED <<kmem, table, ndrives>>
    BY <2>2 DEF TableExact, Kinds, Present
  <2>. QED
    BY <2>1, <2>2 DEF AllocBegin
<1>2. Kinds'
  BY <1>1 DEF Kinds
<1>3. Vacant'
  BY DEF Vacant
<1>4. Probing'
  BY DEF Probing
<1>5. Negotiated'
  BY <1>1 DEF Negotiated, Justified, Fixed, Beyond
<1>6. Bounded'
  BY DEF Bounded, Restarted
<1>. QED
  BY <1>1, <1>2, <1>3, <1>4, <1>5, <1>6 DEF DrivesInv

(* A new table is put in place only if there is none.                        *)
LEMMA AllocEndKeeps ==
  ASSUME DrivesInv, NEW c \in Allocators, AllocEnd(c)
  PROVE  DrivesInv'
<1>0. /\ Kinds /\ TableExact /\ Vacant /\ Probing /\ Negotiated /\ Bounded
      /\ conf = "probe" /\ UNCHANGED <<atac, cf, disk, cur, own, streak, want, conf, leaving>>
  BY DEF DrivesInv, AllocEnd, Kinds
<1>. USE <1>0
<1>1. CASE table # 0 /\ UNCHANGED <<kmem, table, ndrives, drv>>
  BY <1>1 DEF DrivesInv, Kinds, TableExact, Vacant, Probing, Negotiated, Justified, Fixed, Beyond,
     Bounded, Restarted, Present
<1>2. CASE /\ table = 0 /\ kmem' = kmem + want /\ table' = want /\ ndrives' = want
           /\ drv' = [d \in Slots |-> Zeroed]
  <2>1. Zeroed \in Drives /\ Zeroed.flags = {} /\ Zeroed.type = "NONE" /\ Zeroed.softc = FALSE
        /\ Zeroed.n_dmaerrs = 0
    BY ThresholdAssumption DEF Zeroed, Drives
  <2>2. \A d \in Slots : ~drv[d].softc /\ streak[d] = 0
    BY DEF Vacant
  <2>3. Kinds'
    BY <1>2, <2>1 DEF Kinds
  <2>4. TableExact'
    <3>1. want \in Nat /\ kmem = 0
      BY <1>2, SizesAssumption DEF TableExact, Kinds
    <3>. QED
      BY <1>2, <3>1 DEF TableExact
  <2>5. Vacant'
    BY <1>2, <2>1, <2>2 DEF Vacant
  <2>6. Probing'
    BY DEF Probing
  <2>7. Negotiated'
    <3>1. Present' \subseteq Slots
      BY <1>2, SizesAssumption DEF Present, Kinds
    <3>. QED
      BY <1>2, <2>1, <3>1 DEF Negotiated, Justified
  <2>8. Bounded'
    BY <1>2, <2>1, <2>2 DEF Bounded, Restarted
  <2>. QED
    BY <2>3, <2>4, <2>5, <2>6, <2>7, <2>8 DEF DrivesInv
<1>. QED
  BY <1>1, <1>2 DEF AllocEnd

(* A probe begins with no drive attached.                                    *)
LEMMA RescanKeeps ==
  ASSUME DrivesInv, Rescan
  PROVE  DrivesInv'
<1>0. /\ Kinds /\ TableExact /\ Vacant /\ Probing /\ Negotiated /\ Bounded
      /\ conf = "idle" /\ ~leaving /\ conf' = "probe" /\ want' \in Sizes
      /\ UNCHANGED <<modes, table, ndrives, kmem, leaving>>
      /\ \A d \in Present : ~drv[d].softc
  BY DEF DrivesInv, Rescan
<1>. USE <1>0 DEF modes, Present
<1>1. Kinds'
  BY DEF Kinds
<1>2. TableExact'
  BY DEF TableExact
<1>3. Vacant'
  BY DEF Vacant
<1>4. Probing'
  BY DEF Probing
<1>5. Negotiated'
  BY DEF Negotiated, Justified, Fixed, Beyond
<1>6. Bounded'
  BY DEF Bounded, Restarted
<1>. QED
  BY <1>1, <1>2, <1>3, <1>4, <1>5, <1>6 DEF DrivesInv

(* The slots a probe fills were reset.                                       *)
LEMMA FoundKeeps ==
  ASSUME DrivesInv, Found
  PROVE  DrivesInv'
<1>0. /\ Kinds /\ TableExact /\ Vacant /\ Probing /\ Negotiated /\ Bounded
      /\ conf = "probe" /\ conf' \in {"idle", "config"}
      /\ conf' = "idle" /\ ~leaving => \A d \in Present : drv'[d].type = "NONE"
      /\ \A c \in Allocators : alloc[c] = "done"
      /\ \A d \in Slots : disk'[d] \in (IF d \in Present THEN Disks[d] \cup {Absent} ELSE {Absent})
      /\ drv' = [d \in Slots |-> IF d \in Present
                   THEN [drv[d] EXCEPT !.type = IF disk'[d] = Absent THEN "NONE" ELSE "ATA"]
                   ELSE drv[d]]
      /\ own' = [d \in Slots |-> {}]
      /\ UNCHANGED <<atac, cf, cur, streak, table, ndrives, kmem, alloc, want, leaving>>
  BY DEF DrivesInv, Found, tableVars
<1>. USE <1>0
<1>1. Present' = Present /\ Present \subseteq Slots
  BY PresentSlots DEF Present
<1>2. \A d \in Slots :
        /\ ~drv[d].softc /\ streak[d] = 0 /\ drv[d].type = "NONE" /\ drv[d].flags = {}
        /\ drv[d] \in Drives
  BY DEF Vacant, Kinds
<1>3. ASSUME NEW d \in Slots
      PROVE  /\ drv'[d] \in Drives /\ drv'[d].softc = FALSE /\ drv'[d].flags = {}
             /\ drv'[d].n_dmaerrs = drv[d].n_dmaerrs /\ drv'[d].n_xfers = drv[d].n_xfers
             /\ drv'[d].type # "NONE" => d \in Present /\ disk'[d] \in Disks[d]
  <2>1. drv[d] \in Drives /\ drv[d].softc = FALSE /\ drv[d].flags = {} /\ drv[d].type = "NONE"
    BY <1>2 DEF Drives
  <2>2. CASE d \in Present
    <3>. DEFINE t == IF disk'[d] = Absent THEN "NONE" ELSE "ATA"
    <3>1. drv'[d] = [drv[d] EXCEPT !.type = t] /\ t \in {"NONE", "ATA"}
      BY <2>2
    <3>2. t # "NONE" => disk'[d] \in Disks[d]
      BY <2>2
    <3>. HIDE DEF t
    <3>. QED
      BY <2>1, <2>2, <3>1, <3>2 DEF Drives
  <2>3. CASE d \notin Present
    BY <2>1, <2>3
  <2>. QED
    BY <2>2, <2>3
<1>4. Kinds'
  <2>1. drv' \in [Slots -> Drives]
    BY <1>3
  <2>2. own' \in [Slots -> Origins]
    BY DEF Origins
  <2>3. \A c \in Allocators : alloc'[c] # "waits"
    OBVIOUS
  <2>. QED
    BY <2>1, <2>2, <2>3 DEF Kinds
<1>5. TableExact'
  BY DEF TableExact
<1>6. Vacant'
  BY <1>1, <1>2, <1>3 DEF Vacant
<1>7. Probing'
  BY DEF Probing
<1>8. Negotiated'
  <2>1. \A d \in Slots : ~drv'[d].softc /\ drv'[d].flags = {}
    BY <1>3
  <2>. QED
    BY <1>1, <2>1 DEF Negotiated, Justified
<1>9. Bounded'
  BY <1>2, <1>3 DEF Bounded, Restarted
<1>. QED
  BY <1>4, <1>5, <1>6, <1>7, <1>8, <1>9 DEF DrivesInv

(* A drive is attached in a slot that had none, with no error counted.       *)
LEMMA AttachDriveKeeps ==
  ASSUME DrivesInv, AttachDrive
  PROVE  DrivesInv'
<1>. DEFINE e == Min(Unattached)
<1>0. /\ Kinds /\ TableExact /\ Vacant /\ Probing /\ Negotiated /\ Bounded
      /\ conf = "config" /\ cur.at = "none"
      /\ UNCHANGED <<atac, cf, disk, own, streak, table, ndrives, kmem, alloc, want, leaving, conf>>
  BY DEF DrivesInv, AttachDrive, tableVars
<1>. USE <1>0
<1>1. Present' = Present /\ Present \subseteq Slots
  BY PresentSlots DEF Present
<1>2. e \in Present /\ e \in Slots /\ e \in Nat /\ ~drv[e].softc /\ drv[e].type = "ATA"
  <2>1. Unattached \subseteq Nat /\ Unattached # {}
    BY PresentSlots DEF Unattached, AttachDrive
  <2>2. e \in Unattached
    BY <2>1, MinFacts
  <2>. QED
    BY <1>1, <2>2, PresentSlots DEF Unattached
<1>3. \/ /\ drv' = [drv EXCEPT ![e].softc = TRUE,
                               ![e].n_dmaerrs = IF @ = 0 THEN NERRS_MAX - 1 ELSE @]
         /\ cur' = [NotProbing EXCEPT !.d = e, !.at = "identify"]
      \/ drv' = [drv EXCEPT ![e].type = "NONE"] /\ UNCHANGED cur
  BY DEF AttachDrive
<1>. HIDE DEF e
<1>4. /\ drv \in [Slots -> Drives] /\ streak[e] = 0 /\ disk[e] \in Disks[e]
  BY <1>2 DEF Kinds, Vacant
<1>5. PICK r \in Drives :
        /\ drv' = [drv EXCEPT ![e] = r] /\ r.flags = drv[e].flags
        /\ r.UDMA_mode = drv[e].UDMA_mode /\ r.DMA_mode = drv[e].DMA_mode
        /\ r.softc => r.type # "NONE"
        /\ cur' \in Places /\ cur'.at \in {"none", "identify"}
        /\ cur'.at # "none" => cur'.d = e
  <2>1. CASE /\ drv' = [drv EXCEPT ![e].softc = TRUE,
                                   ![e].n_dmaerrs = IF @ = 0 THEN NERRS_MAX - 1 ELSE @]
             /\ cur' = [NotProbing EXCEPT !.d = e, !.at = "identify"]
    <3>. DEFINE n == IF drv[e].n_dmaerrs = 0 THEN NERRS_MAX - 1 ELSE drv[e].n_dmaerrs
                r == [drv[e] EXCEPT !.softc = TRUE, !.n_dmaerrs = n]
    <3>1. drv' = [drv EXCEPT ![e] = r]
      BY <1>2, <1>4, <2>1
    <3>2. drv[e] \in Drives /\ n \in 0 .. (NERRS_MAX - 1)
      BY <1>2, <1>4, ThresholdAssumption DEF Drives
    <3>3. cur' = [at |-> "identify", d |-> e, i |-> 8, printed |-> FALSE]
      BY <2>1 DEF NotProbing
    <3>. HIDE DEF n
    <3>4. r \in Drives /\ r.flags = drv[e].flags
          /\ r.UDMA_mode = drv[e].UDMA_mode /\ r.DMA_mode = drv[e].DMA_mode
          /\ r.type = "ATA"
      BY <1>2, <3>2 DEF Drives
    <3>5. cur' \in Places /\ cur'.at = "identify" /\ cur'.d = e
      BY <1>2, <3>3 DEF Places, Stages
    <3>. QED
      BY <3>1, <3>4, <3>5
  <2>2. CASE drv' = [drv EXCEPT ![e].type = "NONE"] /\ UNCHANGED cur
    <3>. DEFINE r == [drv[e] EXCEPT !.type = "NONE"]
    <3>1. drv' = [drv EXCEPT ![e] = r]
      BY <1>2, <1>4, <2>2
    <3>2. r \in Drives /\ r.flags = drv[e].flags
          /\ r.UDMA_mode = drv[e].UDMA_mode /\ r.DMA_mode = drv[e].DMA_mode
          /\ r.softc = FALSE
      BY <1>2, <1>4 DEF Drives
    <3>. QED
      BY <2>2, <3>1, <3>2 DEF Kinds
  <2>. QED
    BY <1>3, <2>1, <2>2
<1>6. /\ drv'[e] = r /\ \A d \in Slots \ {e} : drv'[d] = drv[d]
  BY <1>2, <1>4, <1>5
<1>7. Kinds'
  BY <1>4, <1>5 DEF Kinds
<1>8. TableExact'
  BY DEF TableExact
<1>9. Vacant'
  BY <1>1, <1>2, <1>4, <1>5, <1>6 DEF Vacant
<1>10. Probing'
  BY <1>1, <1>2, <1>4, <1>5 DEF Probing
<1>11. Negotiated'
  <2>1. ASSUME NEW d \in Present PROVE Justified(drv'[d], own[d], disk[d])
    <3>1. Justified(drv[d], own[d], disk[d])
      BY DEF Negotiated
    <3>2. CASE d = e
      BY <1>5, <1>6, <3>1, <3>2 DEF Justified
    <3>3. CASE d # e
      BY <1>1, <1>6, <3>1, <3>3
    <3>. QED
      BY <3>2, <3>3
  <2>. QED
    BY <1>1, <2>1 DEF Negotiated, Justified, Fixed, Beyond
<1>12. Bounded'
  <2>1. Restarted(r, 0)
    BY <1>5 DEF Restarted, Drives
  <2>. QED
    BY <1>4, <1>6, <2>1 DEF Bounded, Restarted
<1>. QED
  BY <1>7, <1>8, <1>9, <1>10, <1>11, <1>12 DEF DrivesInv

(* No errors in a row are within any bound.                                  *)
LEMMA NoneInARow ==
  ASSUME NEW r, r.n_dmaerrs \in Nat
  PROVE  Restarted(r, 0)
BY DEF Restarted

(* Between two drives.                                                       *)
LEMMA Nowhere ==
  ASSUME NEW k \in Nat, NEW p, p = [NotProbing EXCEPT !.d = k]
  PROVE  p \in Places /\ p.at = "none"
<1>1. p = [at |-> "none", d |-> k, i |-> 8, printed |-> FALSE]
  BY DEF NotProbing
<1>2. "none" \in Stages /\ 8 \in 0 .. 8
  BY DEF Stages
<1>3. p.at = "none"
  BY <1>1
<1>4. [at |-> "none", d |-> k, i |-> 8, printed |-> FALSE] \in Places
  BY <1>2, Zenon DEF Places
<1>5. p \in Places
  BY <1>1, <1>4, Zenon
<1>. QED
  BY <1>3, <1>5

(* The loop goes on to the next drive.                                       *)
LEMMA NextDriveKeeps ==
  ASSUME DrivesInv, NextDrive
  PROVE  DrivesInv'
<1>0. /\ Kinds /\ TableExact /\ Vacant /\ Probing /\ Negotiated /\ Bounded
      /\ cur' = [NotProbing EXCEPT !.d = d0 + 1]
      /\ UNCHANGED <<atac, cf, drv, disk, own, streak, table, ndrives, kmem, alloc, want, leaving, conf>>
  BY DEF DrivesInv, NextDrive, tableVars
<1>. USE <1>0
<1>1. cur' \in Places /\ cur'.at = "none"
  <2>1. d0 + 1 \in Nat
    BY DEF Kinds, Places, d0
  <2>. QED
    BY <2>1, Nowhere, Zenon
<1>2. Kinds'
  BY <1>1 DEF Kinds
<1>3. TableExact' /\ Vacant' /\ Bounded'
  BY DEF TableExact, Vacant, Bounded, Restarted, Present
<1>4. Probing'
  BY <1>1 DEF Probing
<1>5. Negotiated'
  BY DEF Negotiated, Justified, Fixed, Beyond, Present
<1>. QED
  BY <1>2, <1>3, <1>4, <1>5 DEF DrivesInv

(* What a reset slot holds.                                                  *)
LEMMA NothingLeft ==
  ASSUME NEW r \in Drives
  PROVE  /\ Nothing(r) \in Drives /\ Nothing(r).flags = {} /\ Nothing(r).type = "NONE"
         /\ Nothing(r).softc = FALSE /\ Nothing(r).n_dmaerrs = r.n_dmaerrs
         /\ Nothing(r).n_xfers = r.n_xfers
BY DEF Nothing, Drives

(* The config thread resets the slots in which no drive was attached.        *)
LEMMA ConfEndKeeps ==
  ASSUME DrivesInv, ConfEnd
  PROVE  DrivesInv'
<1>0. /\ Kinds /\ TableExact /\ Vacant /\ Probing /\ Negotiated /\ Bounded
      /\ conf = "config" /\ cur' = NotProbing /\ conf' = "idle"
      /\ drv' = [d \in Slots |-> IF d \in Present /\ ~drv[d].softc THEN Nothing(drv[d]) ELSE drv[d]]
      /\ UNCHANGED <<atac, cf, disk, own, streak, table, ndrives, kmem, alloc, want, leaving>>
  BY DEF DrivesInv, ConfEnd, ResetUnattached, tableVars
<1>. USE <1>0
<1>1. Present' = Present /\ Present \subseteq Slots
  BY PresentSlots DEF Present
<1>2. cur' \in Places /\ cur'.at = "none"
  BY DEF NotProbing, Places, Stages
<1>3. ASSUME NEW d \in Slots
      PROVE  /\ drv'[d] \in Drives /\ drv'[d].softc = drv[d].softc
             /\ drv'[d].n_dmaerrs = drv[d].n_dmaerrs /\ drv'[d].n_xfers = drv[d].n_xfers
             /\ ~drv[d].softc => drv'[d].type = "NONE" /\ drv'[d].flags = {}
             /\ drv[d].softc => drv'[d] = drv[d]
  <2>1. drv[d] \in Drives
    BY DEF Kinds
  <2>2. CASE d \in Present /\ ~drv[d].softc
    <3>1. drv'[d] = Nothing(drv[d]) /\ drv[d].softc = FALSE
      BY <2>1, <2>2 DEF Drives
    <3>. QED
      BY <2>1, <3>1, NothingLeft
  <2>3. CASE ~(d \in Present /\ ~drv[d].softc)
    BY <2>1, <2>3 DEF Vacant
  <2>. QED
    BY <2>2, <2>3
<1>4. Kinds'
  <2>1. drv' \in [Slots -> Drives]
    BY <1>3
  <2>. QED
    BY <1>2, <2>1 DEF Kinds
<1>5. TableExact'
  BY DEF TableExact
<1>6. Vacant'
  BY <1>1, <1>3 DEF Vacant
<1>7. Probing'
  BY <1>2 DEF Probing
<1>8. Negotiated'
  BY <1>1, <1>3, BareJustified DEF Negotiated, Justified, Fixed, Beyond
<1>9. Bounded'
  BY <1>3 DEF Bounded, Restarted
<1>. QED
  BY <1>4, <1>5, <1>6, <1>7, <1>8, <1>9 DEF DrivesInv

(* A drive that is detached leaves its slot reset, during its negotiation    *)
(* too.                                                                      *)
LEMMA IoctlKeeps ==
  ASSUME DrivesInv, NEW e \in Present, Ioctl(e)
  PROVE  DrivesInv'
<1>0. /\ Kinds /\ TableExact /\ Vacant /\ Probing /\ Negotiated /\ Bounded
      /\ drv' = [drv EXCEPT ![e] = Nothing(drv[e])] /\ streak' = [streak EXCEPT ![e] = 0]
      /\ UNCHANGED <<atac, cf, disk, cur, own, table, ndrives, kmem, alloc, want, leaving, conf>>
  BY DEF DrivesInv, Ioctl, ChildDetached, Set, tableVars
<1>. USE <1>0
<1>1. Present' = Present /\ Present \subseteq Slots /\ e \in Slots
  BY PresentSlots DEF Present
<1>2. drv \in [Slots -> Drives] /\ streak \in [Slots -> Nat] /\ drv[e] \in Drives
  BY <1>1 DEF Kinds
<1>3. /\ drv'[e] = Nothing(drv[e]) /\ streak'[e] = 0
      /\ \A d \in Slots \ {e} : drv'[d] = drv[d] /\ streak'[d] = streak[d]
  BY <1>1, <1>2
<1>4. /\ drv'[e] \in Drives /\ drv'[e].flags = {} /\ drv'[e].type = "NONE" /\ drv'[e].softc = FALSE
  BY <1>2, <1>3, NothingLeft
<1>5. Kinds'
  <2>1. drv' \in [Slots -> Drives] /\ streak' \in [Slots -> Nat]
    BY <1>2, NothingLeft
  <2>. QED
    BY <2>1 DEF Kinds
<1>6. TableExact'
  BY DEF TableExact
<1>7. Vacant'
  BY <1>1, <1>3, <1>4 DEF Vacant
<1>8. Probing'
  BY <1>1 DEF Probing, Beyond
<1>9. Negotiated'
  <2>1. ASSUME NEW d \in Present PROVE Justified(drv'[d], own[d], disk[d])
    BY <1>1, <1>3, <1>4, BareJustified DEF Negotiated
  <2>. QED
    BY <1>1, <2>1 DEF Negotiated, Justified, Fixed, Beyond
<1>10. Bounded'
  <2>1. Restarted(drv'[e], 0)
    BY <1>4 DEF Restarted, Drives
  <2>. QED
    BY <1>1, <1>3, <2>1 DEF Bounded, Restarted
<1>. QED
  BY <1>5, <1>6, <1>7, <1>8, <1>9, <1>10 DEF DrivesInv

(* The negotiation for a drive whose table is freed comes to its end.        *)
LEMMA AstrayKeeps ==
  ASSUME DrivesInv, Astray
  PROVE  DrivesInv'
<1>0. /\ Kinds /\ TableExact /\ Vacant /\ Probing /\ Negotiated /\ Bounded
      /\ cur.at \notin {"none", "done"} /\ Go("done")
      /\ UNCHANGED <<atac, cf, drv, disk, own, streak, table, ndrives, kmem, alloc, want, leaving, conf>>
  BY DEF DrivesInv, Astray, tableVars
<1>. USE <1>0
<1>1. cur' \in Places /\ cur'.at = "done"
  BY Goes DEF Stages
<1>2. Kinds'
  BY <1>1 DEF Kinds
<1>3. TableExact' /\ Vacant' /\ Bounded'
  BY DEF TableExact, Vacant, Bounded, Restarted, Present
<1>4. Probing'
  BY <1>1 DEF Probing
<1>5. Negotiated'
  BY DEF Negotiated, Justified, Fixed, Beyond, Present
<1>. QED
  BY <1>2, <1>3, <1>4, <1>5 DEF DrivesInv

(* The drives go first.                                                      *)
LEMMA BusDetachKeeps ==
  ASSUME DrivesInv, BusDetach
  PROVE  DrivesInv'
<1>0. /\ Kinds /\ TableExact /\ Vacant /\ Probing /\ Negotiated /\ Bounded
      /\ leaving' = TRUE /\ ~leaving /\ streak' = [d \in Slots |-> 0]
      /\ drv' = [d \in Slots |-> IF drv[d].softc THEN Nothing(drv[d]) ELSE drv[d]]
      /\ UNCHANGED <<atac, cf, disk, cur, own, table, ndrives, kmem, alloc, want, conf>>
  BY DEF DrivesInv, BusDetach
<1>. USE <1>0
<1>1. Present' = Present /\ Present \subseteq Slots
  BY PresentSlots DEF Present
<1>2. ASSUME NEW d \in Slots
      PROVE  /\ drv'[d] \in Drives /\ drv'[d].softc = FALSE /\ streak'[d] = 0
             /\ drv'[d].n_dmaerrs \in Nat
             /\ drv[d].softc => drv'[d].flags = {} /\ drv'[d].type = "NONE"
             /\ ~drv[d].softc => drv'[d] = drv[d]
  <2>1. drv[d] \in Drives /\ drv[d].n_dmaerrs \in Nat
    BY DEF Kinds, Drives
  <2>2. CASE drv[d].softc
    <3>1. drv'[d] = Nothing(drv[d])
      BY <2>2
    <3>. QED
      BY <2>1, <2>2, <3>1, NothingLeft
  <2>3. CASE ~drv[d].softc
    <3>1. drv[d].softc = FALSE /\ drv'[d] = drv[d]
      BY <2>1, <2>3 DEF Drives
    <3>. QED
      BY <2>1, <2>3, <3>1
  <2>. QED
    BY <2>2, <2>3
<1>3. Kinds'
  <2>1. drv' \in [Slots -> Drives] /\ streak' \in [Slots -> Nat]
    BY <1>2
  <2>. QED
    BY <2>1 DEF Kinds
<1>4. TableExact'
  BY DEF TableExact
<1>5. Vacant'
  BY <1>1, <1>2 DEF Vacant
<1>6. Probing'
  BY <1>1 DEF Probing, Beyond
<1>7. Negotiated'
  <2>1. ASSUME NEW d \in Present PROVE Justified(drv'[d], own[d], disk[d])
    BY <1>1, <1>2, BareJustified DEF Negotiated
  <2>. QED
    BY <1>1, <2>1 DEF Negotiated, Justified, Fixed, Beyond
<1>8. Bounded'
  <2>1. ASSUME NEW d \in Slots PROVE Restarted(drv'[d], streak'[d])
    <3>1. streak'[d] = 0 /\ drv'[d].n_dmaerrs \in Nat
      BY <1>2, Zenon
    <3>. QED
      BY <3>1, NoneInARow, Zenon
  <2>. QED
    BY <2>1 DEF Bounded, Restarted
<1>. QED
  BY <1>3, <1>4, <1>5, <1>6, <1>7, <1>8 DEF DrivesInv

(* Then the table, under the config thread if that is still at work.         *)
LEMMA BusGoneKeeps ==
  ASSUME DrivesInv, BusGone
  PROVE  DrivesInv'
<1>0. /\ Kinds /\ TableExact /\ Vacant /\ Probing /\ Negotiated /\ Bounded
      /\ FreeDrives /\ drv' = [d \in Slots |-> Zeroed] /\ streak' = [d \in Slots |-> 0]
      /\ UNCHANGED <<atac, cf, disk, cur, own, alloc, want, conf>> /\ conf # "probe"
  BY DEF DrivesInv, BusGone
<1>. USE <1>0
<1>1. kmem' = 0 /\ table' = 0 /\ ndrives' = 0 /\ Present' = {}
  <2>1. ndrives \in Nat /\ kmem = ndrives
    BY SizesAssumption DEF Kinds, TableExact
  <2>2. kmem' = 0 /\ table' = 0 /\ ndrives' = 0
    BY <2>1 DEF FreeDrives
  <2>. QED
    BY <2>2 DEF Present
<1>2. /\ Zeroed \in Drives /\ Zeroed.flags = {} /\ Zeroed.type = "NONE" /\ Zeroed.softc = FALSE
      /\ Zeroed.n_dmaerrs = 0
  BY ThresholdAssumption DEF Zeroed, Drives
<1>3. Kinds'
  BY <1>1, <1>2 DEF Kinds
<1>4. TableExact'
  BY <1>1 DEF TableExact
<1>5. Vacant'
  BY <1>2 DEF Vacant
<1>6. Probing'
  BY <1>1 DEF Probing, Beyond
<1>7. Negotiated'
  BY <1>1 DEF Negotiated
<1>8. Bounded'
  BY <1>2 DEF Bounded, Restarted
<1>. QED
  BY <1>3, <1>4, <1>5, <1>6, <1>7, <1>8 DEF DrivesInv

-----------------------------------------------------------------------------
(* DMA transfers and errors only make a drive slower.                        *)
Slower(r, q) ==
  /\ q \in Drives /\ q.type = r.type /\ q.softc = r.softc /\ q.flags \subseteq r.flags
  /\ q.DMA_mode = r.DMA_mode /\ q.UDMA_mode <= r.UDMA_mode

(* A transfer that begins is counted.                                        *)
LEMMA BegunFacts ==
  ASSUME NEW r \in Drives
  PROVE  /\ Slower(r, Begun(r)) /\ Begun(r).flags = r.flags /\ Begun(r).n_dmaerrs = r.n_dmaerrs
         /\ Begun(r).n_xfers = IF r.n_xfers <= NXFER THEN r.n_xfers + 1 ELSE r.n_xfers
<1>. DEFINE x == IF r.n_xfers <= NXFER THEN r.n_xfers + 1 ELSE r.n_xfers
<1>1. Begun(r) = [r EXCEPT !.n_xfers = x]
  BY DEF Begun, Drives
<1>2. x \in Nat /\ r.UDMA_mode <= r.UDMA_mode
  BY ThresholdAssumption DEF Drives
<1>. HIDE DEF x
<1>3. [r EXCEPT !.n_xfers = x] \in Drives
  BY <1>2 DEF Drives
<1>4. /\ Begun(r).type = r.type /\ Begun(r).softc = r.softc /\ Begun(r).flags = r.flags
      /\ Begun(r).DMA_mode = r.DMA_mode /\ Begun(r).UDMA_mode = r.UDMA_mode
      /\ Begun(r).n_dmaerrs = r.n_dmaerrs /\ Begun(r).n_xfers = x
  BY <1>1 DEF Drives
<1>. QED
  BY <1>1, <1>2, <1>3, <1>4 DEF Slower, x

(* A downgrade that is possible changes the mode.                            *)
LEMMA DowngradedFacts ==
  ASSUME NEW r \in Drives
  PROVE  /\ Slower(r, Downgraded(r))
         /\ CanDowngrade(r) => ~SameMode(r, Downgraded(r))
<1>0. r.UDMA_mode \in Nat /\ r.PIO_cap \in Nat /\ r.flags \subseteq Flags
  BY DEF Drives
<1>1. CASE ~CanDowngrade(r)
  BY <1>0, <1>1 DEF Slower, Downgraded
<1>2. CASE CanDowngrade(r) /\ "UDMA" \in r.flags /\ r.UDMA_mode >= 2
  <2>. DEFINE m == r.UDMA_mode - 1
  <2>1. m \in Nat /\ m <= r.UDMA_mode /\ m # r.UDMA_mode
    BY <1>0, <1>2
  <2>2. Downgraded(r) = [r EXCEPT !.UDMA_mode = m]
    BY <1>2 DEF Downgraded, Drives
  <2>. HIDE DEF m
  <2>. QED
    BY <2>1, <2>2 DEF Slower, Drives, SameMode
<1>3. CASE CanDowngrade(r) /\ ~("UDMA" \in r.flags /\ r.UDMA_mode >= 2)
  <2>. DEFINE q == [r EXCEPT !.flags = @ \ {"DMA", "UDMA"}, !.PIO_mode = r.PIO_cap]
  <2>1. Downgraded(r) = q
    BY <1>3 DEF Downgraded
  <2>2. q \in Drives /\ q.type = r.type /\ q.softc = r.softc /\ q.flags = r.flags \ {"DMA", "UDMA"}
        /\ q.DMA_mode = r.DMA_mode /\ q.UDMA_mode = r.UDMA_mode
    BY <1>0 DEF Drives
  <2>. HIDE DEF q
  <2>3. r.flags \cap {"DMA", "UDMA"} # {}
    BY <1>3 DEF CanDowngrade, ByDma
  <2>. QED
    BY <1>0, <2>1, <2>2, <2>3 DEF Slower, SameMode
<1>. QED
  BY <1>1, <1>2, <1>3

(* ata_dmaerr: either the mode goes down, or the error is counted, or the    *)
(* counters start again because there were enough transfers since.           *)
LEMMA CountedFacts ==
  ASSUME NEW r \in Drives
  PROVE  /\ Slower(r, Counted(r))
         /\ CanDowngrade(r) /\ SameMode(r, Counted(r)) =>
              \/ /\ r.n_xfers > NXFER
                 /\ Counted(r).n_dmaerrs = 1 /\ Counted(r).n_xfers = 1
              \/ /\ r.n_xfers <= NXFER /\ Counted(r).n_dmaerrs = r.n_dmaerrs + 1
                 /\ Counted(r).n_xfers = r.n_xfers
<1>0. /\ r.UDMA_mode \in Nat /\ r.n_dmaerrs \in 0 .. (NERRS_MAX - 1) /\ r.n_xfers \in Nat
      /\ NERRS_MAX \in Nat /\ NERRS_MAX >= 2 /\ NXFER \in Nat
  BY ThresholdAssumption DEF Drives
<1>. DEFINE n == r.n_dmaerrs + 1
<1>1. CASE n >= NERRS_MAX /\ r.n_xfers <= NXFER
  <2>. DEFINE p == Downgraded(r)  m == NERRS_MAX - 1  q == [p EXCEPT !.n_dmaerrs = m, !.n_xfers = 0]
  <2>1. Counted(r) = q
    BY <1>0, <1>1 DEF Counted
  <2>2. Slower(r, p) /\ (CanDowngrade(r) => ~SameMode(r, p))
    BY DowngradedFacts
  <2>3. m \in 0 .. (NERRS_MAX - 1)
    BY <1>0
  <2>. HIDE DEF p, m
  <2>4. /\ q \in Drives /\ q.type = p.type /\ q.softc = p.softc /\ q.flags = p.flags
        /\ q.DMA_mode = p.DMA_mode /\ q.UDMA_mode = p.UDMA_mode
    BY <2>2, <2>3 DEF Slower, Drives
  <2>. HIDE DEF q
  <2>. QED
    BY <2>1, <2>2, <2>4 DEF Slower, SameMode
<1>2. CASE ~(r.n_xfers <= NXFER)
  <2>. DEFINE q == [r EXCEPT !.n_dmaerrs = 1, !.n_xfers = 1]
  <2>1. Counted(r) = q
    BY <1>0, <1>2 DEF Counted
  <2>2. 1 \in 0 .. (NERRS_MAX - 1)
    BY <1>0
  <2>3. /\ q \in Drives /\ q.type = r.type /\ q.softc = r.softc /\ q.flags = r.flags
        /\ q.DMA_mode = r.DMA_mode /\ q.UDMA_mode = r.UDMA_mode /\ q.n_dmaerrs = 1 /\ q.n_xfers = 1
    BY <2>2 DEF Drives
  <2>. HIDE DEF q
  <2>. QED
    BY <1>0, <1>2, <2>1, <2>3 DEF Slower
<1>3. CASE ~(n >= NERRS_MAX) /\ r.n_xfers <= NXFER
  <2>. DEFINE q == [r EXCEPT !.n_dmaerrs = n]
  <2>1. Counted(r) = q
    BY <1>0, <1>3 DEF Counted
  <2>2. n \in 0 .. (NERRS_MAX - 1)
    BY <1>0, <1>3
  <2>. HIDE DEF n
  <2>3. /\ q \in Drives /\ q.type = r.type /\ q.softc = r.softc /\ q.flags = r.flags
        /\ q.DMA_mode = r.DMA_mode /\ q.UDMA_mode = r.UDMA_mode /\ q.n_dmaerrs = n
        /\ q.n_xfers = r.n_xfers
    BY <2>2 DEF Drives
  <2>. HIDE DEF q
  <2>. QED
    BY <1>0, <1>3, <2>1, <2>3 DEF Slower, n
<1>. HIDE DEF n
<1>. QED
  BY <1>1, <1>2, <1>3

(* What justifies a mode justifies a slower one.                             *)
LEMMA SlowerJustified ==
  ASSUME Kinds, NEW r \in Drives, NEW q, Slower(r, q), NEW o, NEW p, p.udma \subseteq Nat, Justified(r, o, p)
  PROVE  Justified(q, o, p)
<1>0. /\ r.UDMA_mode \in Nat /\ q.UDMA_mode \in Nat /\ q.UDMA_mode <= r.UDMA_mode
      /\ q.flags \subseteq r.flags /\ q.DMA_mode = r.DMA_mode /\ atac.udma_cap \in Nat
  BY Powers DEF Slower, Drives
<1>1. ASSUME "UDMA" \in q.flags, cf.udma = None
      PROVE  /\ \E i \in p.udma : i >= q.UDMA_mode
             /\ atac.modes => q.UDMA_mode <= atac.udma_cap
  <2>1. "UDMA" \in r.flags /\ p.udma \subseteq Nat
    BY <1>0, <1>1
  <2>2. PICK i \in p.udma : i >= r.UDMA_mode
    BY <1>1, <2>1 DEF Justified
  <2>3. i \in Nat /\ i >= q.UDMA_mode
    BY <1>0, <2>1, <2>2
  <2>4. atac.modes => r.UDMA_mode <= atac.udma_cap
    BY <1>1, <2>1 DEF Justified
  <2>5. atac.modes => q.UDMA_mode <= atac.udma_cap
    BY <1>0, <2>4
  <2>. QED
    BY <2>3, <2>5
<1>. QED
  BY <1>0, <1>1 DEF Justified

(* DMA transfers and errors keep what is known of the table.                 *)
LEMMA SlowsKeeps ==
  ASSUME DrivesInv, NEW e \in Present, drv[e].softc,
         NEW q, Slower(drv[e], q), NEW n \in Nat, Restarted(q, n),
         drv' = [drv EXCEPT ![e] = q], streak' = [streak EXCEPT ![e] = n],
         UNCHANGED <<atac, cf, disk, cur, own, tableVars, conf>>
  PROVE  DrivesInv'
<1>0. /\ Kinds /\ TableExact /\ Vacant /\ Probing /\ Negotiated /\ Bounded
      /\ UNCHANGED <<table, ndrives, kmem, alloc, want, leaving>>
  BY DEF DrivesInv, tableVars
<1>. USE <1>0
<1>1. Present' = Present /\ Present \subseteq Slots /\ e \in Slots
  BY PresentSlots DEF Present
<1>2. drv \in [Slots -> Drives] /\ streak \in [Slots -> Nat] /\ drv[e] \in Drives
  BY <1>1 DEF Kinds
<1>3. /\ drv'[e] = q /\ streak'[e] = n
      /\ \A d \in Slots \ {e} : drv'[d] = drv[d] /\ streak'[d] = streak[d]
  BY <1>1, <1>2
<1>4. q \in Drives /\ q.type = drv[e].type /\ q.softc = TRUE
  BY <1>2 DEF Slower, Drives
<1>5. Kinds'
  BY <1>2, <1>4 DEF Kinds
<1>6. TableExact'
  BY DEF TableExact
<1>7. Vacant'
  BY <1>1, <1>3, <1>4 DEF Vacant
<1>8. Probing'
  BY <1>1 DEF Probing, Beyond
<1>9. Negotiated'
  <2>1. ASSUME NEW d \in Present PROVE Justified(drv'[d], own[d], disk[d])
    <3>1. Justified(drv[d], own[d], disk[d])
      BY DEF Negotiated
    <3>2. disk[e].udma \subseteq Nat
      BY <1>1, Reports DEF Vacant
    <3>3. Justified(drv[e], own[e], disk[e]) => Justified(q, own[e], disk[e])
      BY <1>2, <3>2, SlowerJustified
    <3>. QED
      BY <1>1, <1>3, <3>1, <3>3
  <2>. QED
    BY <1>1, <2>1 DEF Negotiated, Justified, Fixed, Beyond
<1>10. Bounded'
  BY <1>1, <1>3 DEF Bounded, Restarted
<1>. QED
  BY <1>5, <1>6, <1>7, <1>8, <1>9, <1>10 DEF DrivesInv

(* A transfer that succeeds ends the row of errors.                          *)
LEMMA DmaTransferKeeps ==
  ASSUME DrivesInv, NEW e \in Present, DmaTransfer(e),
         UNCHANGED <<tableVars, conf>>
  PROVE  DrivesInv'
<1>1. drv[e] \in Drives
  BY PresentSlots DEF DrivesInv, Kinds
<1>2. Slower(drv[e], Begun(drv[e]))
  BY <1>1, BegunFacts
<1>3. Restarted(Begun(drv[e]), 0)
  BY <1>2 DEF Slower, Restarted, Drives
<1>. QED
  BY <1>2, <1>3, SlowsKeeps DEF DmaTransfer, Set

(* One that fails is counted, or downgrades the drive and so ends the row.   *)
(* The counters start again only after more than NXFER >= NERRS_MAX          *)
(* transfers, and fewer than NERRS_MAX of them can have failed: so they do   *)
(* at most once in a row.                                                    *)
LEMMA DmaErrKeeps ==
  ASSUME DrivesInv, NEW e \in Present, DmaErr(e),
         UNCHANGED <<tableVars, conf>>
  PROVE  DrivesInv'
<1>. DEFINE r == Begun(drv[e])  q == Counted(r)
            n == IF CanDowngrade(r) /\ SameMode(r, q) THEN streak[e] + 1 ELSE 0
<1>1. drv[e] \in Drives /\ streak[e] \in Nat /\ Restarted(drv[e], streak[e])
      /\ drv \in [Slots -> Drives] /\ streak \in [Slots -> Nat] /\ e \in Slots
  BY PresentSlots DEF DrivesInv, Kinds, Bounded
<1>2. /\ drv[e].softc /\ drv' = [drv EXCEPT ![e] = q] /\ streak' = [streak EXCEPT ![e] = n]
      /\ UNCHANGED <<atac, cf, disk, cur, own>>
  BY DEF DmaErr, Set
<1>3. /\ Slower(drv[e], r) /\ r.n_dmaerrs = drv[e].n_dmaerrs
      /\ r.n_xfers = IF drv[e].n_xfers <= NXFER THEN drv[e].n_xfers + 1 ELSE drv[e].n_xfers
  BY <1>1, BegunFacts
<1>4. r \in Drives
  BY <1>3 DEF Slower
<1>. HIDE DEF r
<1>5. /\ Slower(r, q)
      /\ CanDowngrade(r) /\ SameMode(r, q) =>
           \/ /\ r.n_xfers > NXFER /\ q.n_dmaerrs = 1 /\ q.n_xfers = 1
           \/ /\ r.n_xfers <= NXFER /\ q.n_dmaerrs = r.n_dmaerrs + 1 /\ q.n_xfers = r.n_xfers
  BY <1>4, CountedFacts
<1>. HIDE DEF q
<1>6. Slower(drv[e], q)
  <2>1. /\ q.UDMA_mode \in Nat /\ r.UDMA_mode \in Nat /\ drv[e].UDMA_mode \in Nat
        /\ q.UDMA_mode <= r.UDMA_mode /\ r.UDMA_mode <= drv[e].UDMA_mode
    BY <1>1, <1>3, <1>5 DEF Slower, Drives
  <2>2. q.UDMA_mode <= drv[e].UDMA_mode
    BY <2>1
  <2>. QED
    BY <1>3, <1>5, <2>2 DEF Slower
<1>7. n \in Nat
  BY <1>1
<1>8. Restarted(q, n)
  <2>1. /\ NERRS_MAX \in Nat /\ NERRS_MAX >= 2 /\ NXFER \in Nat /\ NERRS_MAX <= NXFER
        /\ q.n_dmaerrs \in Nat /\ q.n_xfers \in Nat
        /\ drv[e].n_dmaerrs \in 0 .. (NERRS_MAX - 1) /\ drv[e].n_xfers \in Nat
    BY <1>1, <1>5, ThresholdAssumption DEF Slower, Drives
  <2>2. CASE CanDowngrade(r) /\ SameMode(r, q)
    <3>1. n = streak[e] + 1
      BY <2>2
    <3>2. \/ streak[e] <= drv[e].n_dmaerrs
          \/ streak[e] <= NERRS_MAX - 1 + drv[e].n_dmaerrs /\ drv[e].n_xfers <= drv[e].n_dmaerrs
      BY <1>1 DEF Restarted
    <3>. HIDE DEF n
    <3>3. CASE r.n_xfers > NXFER /\ q.n_dmaerrs = 1 /\ q.n_xfers = 1
      <4>1. n <= NERRS_MAX - 1 + q.n_dmaerrs /\ q.n_xfers <= q.n_dmaerrs
        BY <1>1, <1>3, <2>1, <3>1, <3>2, <3>3
      <4>. QED
        BY <4>1 DEF Restarted
    <3>4. CASE r.n_xfers <= NXFER /\ q.n_dmaerrs = r.n_dmaerrs + 1 /\ q.n_xfers = r.n_xfers
      <4>1. \/ n <= q.n_dmaerrs
            \/ n <= NERRS_MAX - 1 + q.n_dmaerrs /\ q.n_xfers <= q.n_dmaerrs
        BY <1>1, <1>3, <2>1, <3>1, <3>2, <3>4
      <4>. QED
        BY <4>1 DEF Restarted
    <3>. QED
      BY <1>5, <2>2, <3>3, <3>4
  <2>3. CASE ~(CanDowngrade(r) /\ SameMode(r, q))
    <3>1. n = 0
      BY <2>3
    <3>. QED
      BY <2>1, <3>1 DEF Restarted
  <2>. QED
    BY <2>2, <2>3
<1>. HIDE DEF n
<1>. QED
  BY <1>2, <1>6, <1>7, <1>8, SlowsKeeps

-----------------------------------------------------------------------------

(* A channel begins without a table.                                         *)
LEMMA DrivesInit == Init => DrivesInv
<1>. SUFFICES ASSUME Init PROVE DrivesInv
  OBVIOUS
<1>1. /\ Zeroed \in Drives /\ Zeroed.flags = {} /\ Zeroed.type = "NONE" /\ Zeroed.softc = FALSE
      /\ Zeroed.n_dmaerrs = 0
  BY ThresholdAssumption DEF Zeroed, Drives
<1>2. \A d \in Slots : drv[d] = Zeroed /\ streak[d] = 0 /\ own[d] = {}
  BY DEF Init
<1>3. NotProbing \in Places /\ NotProbing.at = "none"
  BY DEF NotProbing, Places, Stages
<1>4. Present = {}
  BY DEF Init, Present
<1>5. Kinds
  BY <1>1, <1>3 DEF Init, Kinds, Origins
<1>6. TableExact
  BY DEF Init, TableExact
<1>7. Vacant
  BY <1>1, <1>2 DEF Vacant
<1>8. Probing
  BY <1>3 DEF Init, Probing
<1>9. Negotiated
  BY <1>4 DEF Negotiated
<1>10. Bounded
  BY <1>1, <1>2 DEF Bounded, Restarted
<1>. QED
  BY <1>5, <1>6, <1>7, <1>8, <1>9, <1>10 DEF DrivesInv

(* Each action, by its lemma, and stuttering.                                *)
LEMMA DrivesNext == DrivesInv /\ [Next]_vars => DrivesInv'
<1>. SUFFICES ASSUME DrivesInv, [Next]_vars PROVE DrivesInv'
  OBVIOUS
<1>1. ASSUME NEW c \in Allocators, AllocBegin(c) \/ AllocEnd(c) PROVE DrivesInv'
  BY <1>1, AllocBeginKeeps, AllocEndKeeps
<1>2. CASE Config
  BY <1>2, AttachDriveKeeps, NextDriveKeeps, ConfEndKeeps, NegotiateKeeps, AstrayKeeps DEF Config
<1>3. ASSUME NEW e \in Present, Ioctl(e) PROVE DrivesInv'
  BY <1>3, IoctlKeeps
<1>4. ASSUME NEW e \in Present, Dma(e), UNCHANGED <<tableVars, conf>>
      PROVE  DrivesInv'
  BY <1>4, DmaTransferKeeps, DmaErrKeeps DEF Dma
<1>5. CASE UNCHANGED vars
  BY <1>5 DEF vars, modes, tableVars, DrivesInv, Kinds, TableExact, Vacant, Probing, Negotiated, Justified,
     Fixed, Beyond, Bounded, Restarted, Present
<1>. QED
  BY <1>1, <1>2, <1>3, <1>4, <1>5, RescanKeeps, FoundKeeps, BusDetachKeeps, BusGoneKeeps DEF Next

(* The table is always sound.                                                *)
LEMMA DrivesAlways == Spec => []DrivesInv
BY DrivesInit, DrivesNext, PTL DEF Spec

(* No table of drives leaks, and none is freed with a size other than the    *)
(* one it was allocated with, whoever wins a race to allocate one.           *)
THEOREM TableStaysExact == Spec => []TableExact
<1>1. DrivesInv => TableExact
  BY DEF DrivesInv
<1>. QED
  BY <1>1, DrivesAlways, PTL

(* No drive inherits a type or flags from the one that was in its slot.      *)
THEOREM SlotsAreClean == Spec => []EmptySlotClean
<1>1. DrivesInv => EmptySlotClean
  BY PresentSlots DEF DrivesInv, Vacant, EmptySlotClean
<1>. QED
  BY <1>1, DrivesAlways, PTL

(* The modes a drive's flags claim are its own, but for the PIO mode of a    *)
(* drive with one beyond the controller.                                     *)
THEOREM ModesAreOwn == Spec => []ModesNegotiated
<1>1. DrivesInv => ModesNegotiated
  BY DEF DrivesInv, Negotiated, Justified, ModesNegotiated
<1>. QED
  BY <1>1, DrivesAlways, PTL

(* A drive whose DMA transfers all fail gets a slower mode within            *)
(* 2 * NERRS_MAX errors.                                                     *)
THEOREM DowngradeIsSoon == Spec => []ErrorsBounded
<1>1. DrivesInv => ErrorsBounded
  <2>. SUFFICES ASSUME DrivesInv, NEW d \in Present PROVE streak[d] < 2 * NERRS_MAX
    BY DEF ErrorsBounded
  <2>1. /\ streak[d] \in Nat /\ drv[d].n_dmaerrs \in 0 .. (NERRS_MAX - 1)
        /\ Restarted(drv[d], streak[d]) /\ NERRS_MAX \in Nat
    BY PresentSlots, ThresholdAssumption DEF DrivesInv, Kinds, Drives, Bounded
  <2>. QED
    BY <2>1 DEF Restarted
<1>. QED
  BY <1>1, DrivesAlways, PTL

=============================================================================
