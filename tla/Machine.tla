-------------------------------- MODULE Machine --------------------------------
(***************************************************************************)
(* The machine from pmap_bootstrap to doboot: the page tables, the device  *)
(* mappings and bus space, and cpu_reboot with its dump, composed.  The    *)
(* page tables are shared: pmap_bootstrap builds them, wrap030_init,       *)
(* mainbus_map and dumpsys enter pages into them.                          *)
(***************************************************************************)
EXTENDS Reboot

vars == <<bootVars, busVars, rebootVars>>

MachineInit == Init /\ MainbusInit /\ RebootInit

(* A driver ends one access before anything else happens.                   *)
Accessed == io # NoIo /\ io' = NoIo /\ UNCHANGED <<bootVars, maps, base, clockbase,
              eeprom_read, tries, wdr, coms, cold, rebootVars>>

Next ==
  \/ Bootstrap /\ UNCHANGED <<busVars, rebootVars>>
  \/ io = NoIo /\ rb = "up" /\ Autoconf /\ UNCHANGED rebootVars
  \/ io = NoIo /\ Shutdown
  \/ Accessed

Spec == MachineInit /\ [][Next]_vars

-----------------------------------------------------------------------------
Up == boot \in {"mmu", "loaded"}

(* What the kernel reaches beside its own image and tables.                 *)
MsgBuf == [va |-> kvm.msgbufaddr, pa |-> kvm.avail_end, n |-> MSGPAGES]
Windows == IF boot = "loaded" THEN maps \cup {MsgBuf} ELSE {}
Within(w) == w.va .. w.va + w.n - 1
Image == 0 .. at.nextpa - firstpa - 1
TableAt(va) == IF va = SYSMAP_VA + Seg(SYSMAP_VA) THEN at.kptmpa
               ELSE IF va = SYSMAP_VA + Seg(MAXADDR) THEN at.lkptpa
               ELSE at.kptpa + va - SYSMAP_VA
Sysmap == {SYSMAP_VA + s : s \in (0 .. at.nptpages - 1) \cup {Seg(SYSMAP_VA), Seg(MAXADDR)}}

(* Once pmap_bootstrap is done the MMU reaches exactly what the kernel      *)
(* counts on: its image with the text read-only and the tables behind it,   *)
(* every page table through Sysmap, the last page in place, the message     *)
(* buffer, each device's pages where mainbus_map said, and the clock; one   *)
(* page at vmmap when a dump has used it, and nothing else.                 *)
KernelMapped ==
  Up =>
    /\ \A va \in 0 .. TTBASE - 1 :
         LET pa == Translate(va)
         IN  IF va \in Image
             THEN pa = <<va + firstpa, IF va < shape.text THEN "RO" ELSE "RW">>
             ELSE IF va \in Sysmap THEN pa = <<TableAt(va), "RW">>
             ELSE IF va = MAXADDR THEN pa = <<MAXADDR, "RW">>
             ELSE IF \E w \in Windows : va \in Within(w)
             THEN \A w \in Windows : va \in Within(w) => pa = <<w.pa + va - w.va, "RW">>
             ELSE pa = NV \/ (va = kvm.vmmap /\ dump # {}) \/ (va = kvm.vmmap /\ rb # "up")
    /\ clockbase # 0 => Translate(clockbase) = <<CLOCK, "RW">>

(* No page serves two ends: the memory given to the VM system is RAM apart  *)
(* from the image, the u-area, the tables, the message buffer and the last  *)
(* page, which holds the code that reboots; the fixed addresses and the     *)
(* device mappings do not overlap and lie in the kernel's address space     *)
(* behind the image.                                                        *)
MemoryApart ==
  /\ boot = "loaded" =>
       /\ managed \subseteq (firstpa .. shape.ram - 2)
       /\ managed \cap (firstpa .. at.nextpa - 1) = {}
       /\ managed \cap (MsgBuf.pa .. MsgBuf.pa + MSGPAGES - 1) = {}
       /\ MsgBuf.pa + MSGPAGES <= shape.ram - 1
  /\ Up =>
       LET fixed == {[va |-> v, n |-> 1] : v \in {kvm.CADDR1, kvm.CADDR2, kvm.vmmap}}
                    \cup {[va |-> kvm.msgbufaddr, n |-> MSGPAGES]}
                    \cup {[va |-> m.va, n |-> m.n] : m \in maps}
       IN  /\ Cardinality(fixed) = 4 + Cardinality(maps)
           /\ \A v, w \in fixed : v = w \/ Within(v) \cap Within(w) = {}
           /\ \A w \in fixed : Within(w) \cap Image = {} /\ w.va + w.n <= kvm.virtual_end

(* What the accesses of the header do: a copy that overlaps itself moves    *)
(* what was there before, from the sum of its first and third argument to   *)
(* the sum of the other two; a write changes the registers it names and no  *)
(* others, and leaves in them what a reading under the same tag gives back; *)
(* a set leaves its value, or, of more than a byte on the ATA tag, what its *)
(* caller calls v.                                                          *)
Copied(src, dst) ==
  \A x \in DOMAIN Bus :
    io.bus[x] = IF x \in Run(dst, io.c) THEN Bus[x - dst + src] ELSE Bus[x]
Filled(val) ==
  \A x \in DOMAIN Bus :
    io.bus[x] = IF x \in Run(io.dst, io.c) THEN Lanes(io.tag, val) ELSE Bus[x]
BusExact ==
  /\ io.op = "copy" => Copied(io.src, io.dst)
  /\ io.op = "write" =>
       /\ ReadRegion(io.tag, io.bus, io.dst, Len(io.buf)) = io.buf
       /\ \A x \in DOMAIN Bus \ Run(io.dst, Len(io.buf)) : io.bus[x] = Bus[x]
  /\ io.op = "put" =>
       /\ BusRead(io.tag, io.bus, io.dst) = io.e
       /\ \A x \in DOMAIN Bus \ {io.dst} : io.bus[x] = Bus[x]
  /\ io.op = "set" =>
       IF io.tag = ATA /\ Len(io.val) > 1 THEN Filled(io.v) ELSE Filled(io.val)

(* Whatever device was named before, each page that dumpsys writes lies     *)
(* behind the first CLBYTES, at the distance from dumplo that its address   *)
(* has from the start of memory, where savecore looks for it; and inside    *)
(* the device, when that is one cpu_dumpconf has accepted.                  *)
DumpInPlace ==
  \A d \in dump :
    /\ d.dev = dumpdev /\ ctod(1) <= d.blk
    /\ d.blk = dumplo + ctod(d.page - firstpa)
    /\ Devices[d.dev] > ctod(1) => d.blk + ctod(1) <= Devices[d.dev]

-----------------------------------------------------------------------------
(* The comments of bus.h, which the code does not keep: "Copy ... from bus  *)
(* space starting at tag/bsh1/off1 to bus space starting at tag/bsh2/off2"  *)
(* and "Write `count' ... value `val'".                                     *)
BusAsDeclared ==
  /\ io.op = "copy" /\ Run(io.asked.src, io.c) \subseteq DOMAIN Bus
       => Copied(io.asked.src, io.asked.dst)
  /\ io.op = "set" => Filled(io.val)

-----------------------------------------------------------------------------
(* The comments of cpu_dumpconf, which the code does not keep.              *)

(* "Put dump at end of partition, and make it fit": a dump that succeeds    *)
(* on a device that can hold one has written pages.                         *)
DumpFits ==
  rb = "booted" /\ "DUMP" \in howto /\ dumpdev # NODEV /\ dumplo # 0 /\ pg >= dumpsize
    /\ Devices[dumpdev] >= 3 * ctod(1) => dump # {}

(* A dump does not leave its device: cpu_dumpconf returns early for one     *)
(* that is too small, and the sizes of the device before are used.          *)
DumpInDevice == \A d \in dump : d.blk + ctod(1) <= Devices[d.dev]

(* The dump is of RAM: the "final RAM page" that is added is one.           *)
DumpIsMemory == \A d \in dump : d.page < shape.ram
=============================================================================
