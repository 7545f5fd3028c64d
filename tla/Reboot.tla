-------------------------------- MODULE Reboot --------------------------------
(***************************************************************************)
(* cpu_reboot, cpu_dumpconf and dumpsys of                                 *)
(* src/sys/arch/wrap030/wrap030/machdep.c.  A panic calls cpu_reboot, and  *)
(* cpu_reboot can panic.  The unit of dump space is the block; a page is   *)
(* BLOCKS of them (ctod(1)).                                               *)
(***************************************************************************)
EXTENDS Mainbus

CONSTANTS
  BLOCKS,      \* blocks of a page
  Devices,     \* dump devices: name |-> bdev_size
  NODEV,
  MaxPanics,   \* bound on panics
  MaxLo        \* bound on dumplo, which grows as devices take turns

ASSUME RebootAssumption ==
  /\ BLOCKS \in Nat \ {0} /\ {MaxPanics, MaxLo} \subseteq Nat
  /\ Devices \in [DOMAIN Devices -> Int] /\ NODEV \notin DOMAIN Devices

VARIABLES
  dumpdev, dumpsize, dumplo,
  waittime,    \* 0 once file systems were synced, or that was begun
  howto,       \* of the cpu_reboot that runs
  rb,          \* where it is
  panics,
  pg, maddr, blkno,   \* dumpsys
  dump         \* what the dump device was given: [dev, blk, page]

rebootVars == <<dumpdev, dumpsize, dumplo, waittime, howto, rb, panics, pg, maddr, blkno, dump>>

dtoc(b) == b \div BLOCKS
ctod(p) == p * BLOCKS

RebootInit ==
  /\ dumpdev = NODEV /\ dumpsize = 0 /\ dumplo = 0
  /\ waittime = -1 /\ howto = {} /\ rb = "up" /\ panics = 0
  /\ pg = 0 /\ maddr = 0 /\ blkno = 0 /\ dump = {}

-----------------------------------------------------------------------------
Larger(a, b) == IF a < b THEN b ELSE a
Smaller(a, b) == IF a > b THEN b ELSE a

\* Mutant: the size is cut to the partition, not to what follows dumplo.
FitsWhole(nblks, lo) == Smaller(shape.ram + 1, dtoc(nblks))

(* The final page is meant to be one that physmem leaves out.               *)
Fits(nblks, lo) == Smaller(shape.ram + 1, dtoc(nblks - lo))

DumpConf(dev) ==
  IF dev = NODEV \/ (dev # NODEV /\ Devices[dev] <= ctod(1))
  THEN UNCHANGED <<dumpsize, dumplo>>
  ELSE LET nblks == Devices[dev]
           lo    == Larger(dumplo, ctod(1))
           size  == Fits(nblks, lo)
       IN  dumpsize' = size /\ dumplo' = Larger(lo, nblks - ctod(size))

(* main, or swapctl, names the dump device and calls cpu_dumpconf.          *)
SetDumpDev ==
  /\ ~cold /\ rb = "up" /\ dumplo <= MaxLo
  /\ \E d \in DOMAIN Devices \ {dumpdev} : dumpdev' = d /\ DumpConf(d)
  /\ UNCHANGED <<bootVars, busVars, waittime, howto, rb, panics, pg, maddr, blkno, dump>>

-----------------------------------------------------------------------------
(* cpu_reboot.  RB_HALT asks for a key and is left out.                     *)
Enter(how) ==
  IF cold
  THEN /\ howto' = how /\ rb' = "hooks" /\ UNCHANGED waittime
  ELSE /\ howto' = how
       /\ IF "NOSYNC" \notin how /\ waittime < 0
          THEN waittime' = 0 /\ rb' = "sync"
          ELSE rb' = "high" /\ UNCHANGED waittime

Reboot ==
  /\ boot = "loaded" /\ rb = "up"
  /\ \E how \in SUBSET {"NOSYNC", "DUMP"} : Enter(how)
  /\ UNCHANGED <<bootVars, busVars, dumpdev, dumpsize, dumplo, panics, pg, maddr, blkno, dump>>

(* panic: it asks for a dump, and from the second one on for no sync.       *)
Panic ==
  /\ boot = "loaded" /\ rb \in {"up", "sync", "dump", "hooks"} /\ panics < MaxPanics
  /\ panics' = panics + 1
  /\ Enter(IF panics = 0 THEN {"DUMP"} ELSE {"DUMP", "NOSYNC"})
  /\ UNCHANGED <<bootVars, busVars, dumpdev, dumpsize, dumplo, pg, maddr, blkno, dump>>

(* vfs_shutdown and resettodr return.                                       *)
Synced ==
  /\ rb = "sync" /\ rb' = "high"
  /\ UNCHANGED <<bootVars, busVars, dumpdev, dumpsize, dumplo, waittime, howto, panics,
                 pg, maddr, blkno, dump>>

(* splhigh, and dumpsys as far as its loop; bdevsw_lookup may find nothing. *)
Usable(size, lo) == size # 0 /\ lo >= 0
High ==
  /\ rb = "high"
  /\ \E bdev \in BOOLEAN :
       LET dumps == "DUMP" \in howto /\ dumpdev # NODEV /\ bdev
       IN  /\ IF dumps /\ dumpsize = 0
              THEN DumpConf(dumpdev) ELSE UNCHANGED <<dumpsize, dumplo>>
           /\ IF dumps /\ Usable(dumpsize', dumplo')
              THEN rb' = "dump" /\ pg' = 0 /\ maddr' = firstpa /\ blkno' = dumplo'
              ELSE rb' = "hooks" /\ UNCHANGED <<pg, maddr, blkno>>
  /\ UNCHANGED <<bootVars, busVars, dumpdev, waittime, howto, panics, dump>>

(* A page is entered at vmmap and written from there, where the device      *)
(* finds what the MMU translates vmmap to; an error ends the dump.          *)
Shown == Translate(kvm.vmmap)[1]
Dumped ==
  /\ rb = "dump" /\ pg < dumpsize
  /\ ram' = KEntered(kvm.vmmap, maddr, 1) /\ UNCHANGED kvm
  /\ \/ /\ dump' = dump \cup {[dev |-> dumpdev, blk |-> blkno, page |-> Shown']}
        /\ pg' = pg + 1 /\ maddr' = maddr + 1 /\ blkno' = blkno + BLOCKS
        /\ UNCHANGED rb
     \/ rb' = "hooks" /\ UNCHANGED <<dump, pg, maddr, blkno>>
  /\ UNCHANGED <<boot, shape, at, pte, protopte, managed, busVars,
                 dumpdev, dumpsize, dumplo, waittime, howto, panics>>

Succeeded ==
  /\ rb = "dump" /\ pg >= dumpsize /\ rb' = "hooks"
  /\ UNCHANGED <<bootVars, busVars, dumpdev, dumpsize, dumplo, waittime, howto, panics,
                 pg, maddr, blkno, dump>>

(* Shutdown hooks, a key if it is to halt, and doboot.                      *)
DoBoot ==
  /\ rb = "hooks" /\ rb' = "booted"
  /\ UNCHANGED <<bootVars, busVars, dumpdev, dumpsize, dumplo, waittime, howto, panics,
                 pg, maddr, blkno, dump>>

Shutdown == SetDumpDev \/ Reboot \/ Panic \/ Synced \/ High \/ Dumped \/ Succeeded \/ DoBoot
=============================================================================
