---------------------------- MODULE PmapBootstrap ----------------------------
(***************************************************************************)
(* The first page tables of the kernel, built by pmap_bootstrap            *)
(* (src/sys/arch/wrap030/wrap030/pmap_bootstrap.c) before the MMU is on,   *)
(* and the memory wrap030_init (machdep.c) then gives to the VM system.    *)
(* Addresses are page numbers.  A table is a function from its entries; an *)
(* entry is NV or a page and its protection.  Addresses from TTBASE on     *)
(* are translated transparently (locore.s sets %tt0 for bit 31).  SYSMAP_VA*)
(* is the end of the kernel's address space, as VM_MAX_KERNEL_ADDRESS.     *)
(***************************************************************************)
EXTENDS Integers, FiniteSets

CONSTANTS
  NPTEPG,      \* entries of a table, hence pages of a segment
  UPAGES,      \* pages of a u-area
  Sysptsize,   \* pages of page tables beside those that map all of memory
  MSGPAGES,    \* pages of MSGBUFSIZE
  SYSMAP_VA, MAXADDR, TTBASE, VM_MAX_KERNEL_ADDRESS,
  firstpa,     \* where the kernel is loaded
  Shapes,      \* kernels and machines: pages of text, of the image, of RAM
  NV           \* an invalid entry

ASSUME BootAssumption ==
  /\ {NPTEPG, UPAGES, Sysptsize, MSGPAGES} \subseteq Nat \ {0}
  /\ {SYSMAP_VA, MAXADDR, TTBASE, firstpa} \subseteq Nat
  /\ VM_MAX_KERNEL_ADDRESS = SYSMAP_VA /\ SYSMAP_VA % NPTEPG = 0
  /\ MAXADDR = TTBASE - 1 /\ TTBASE % NPTEPG = 0 /\ TTBASE <= NPTEPG * NPTEPG
  /\ SYSMAP_VA \div NPTEPG < MAXADDR \div NPTEPG
  /\ Shapes \subseteq [text : Nat, image : Nat, ram : Nat]
  /\ \A s \in Shapes : s.text <= s.image /\ s.image <= s.ram
  /\ NV \notin Nat \X {"RO", "RW"}

VARIABLES
  boot,     \* how far the bootstrap has come
  shape,
  at,       \* the local addresses of pmap_bootstrap
  ram,      \* the pages that hold tables
  pte,      \* the entry of the kernel page table it has come to,
  protopte, \* and the next one to store
  kvm,      \* the exported addresses
  managed   \* the pages of uvm_page_physload

bootVars == <<boot, shape, at, ram, pte, protopte, kvm, managed>>

Entries == 0 .. NPTEPG - 1
Invalid == [i \in Entries |-> NV]
Seg(va) == va \div NPTEPG
HowMany(n, d) == (n + d - 1) \div d
Nptpages(s) == Sysptsize + HowMany(s.ram, NPTEPG)

(* The page tables end below Sysmap, and have entries for the image, the    *)
(* u-area, the tables themselves, three pages and the message buffer.       *)
ASSUME TableAssumption ==
  \A s \in Shapes :
    /\ Nptpages(s) <= Seg(SYSMAP_VA)
    /\ s.image + UPAGES + 3 + Nptpages(s) + 3 + MSGPAGES <= Nptpages(s) * NPTEPG

Init ==
  /\ boot = "entry" /\ shape \in Shapes
  /\ at = <<>> /\ ram = <<>> /\ pte = 0 /\ protopte = <<firstpa, "RO">>
  /\ kvm = <<>> /\ managed = {}

-----------------------------------------------------------------------------
(* pmap_bootstrap: what goes where after the image, which nextpa follows.   *)
Layout ==
  LET nextpa   == firstpa + shape.image
      kstpa    == nextpa + UPAGES
      nptpages == Nptpages(shape)
  IN  /\ boot = "entry" /\ boot' = "segments"
      /\ at' = [lwp0upa |-> nextpa, kstpa |-> kstpa, kptmpa |-> kstpa + 1,
                lkptpa |-> kstpa + 2, kptpa |-> kstpa + 3, nptpages |-> nptpages,
                nextpa |-> kstpa + 3 + nptpages]
      /\ ram' = [p \in kstpa .. kstpa + 2 + nptpages |-> Invalid]
      /\ UNCHANGED <<shape, pte, protopte, kvm, managed>>

(* The segment table and Sysptmap: the page tables, then Sysptmap itself as *)
(* the page table of Sysmap, and the last page table.                       *)
Segments ==
  [i \in Entries |->
     IF i = Seg(SYSMAP_VA) THEN <<at.kptmpa, "RW">>
     ELSE IF i = Seg(MAXADDR) THEN <<at.lkptpa, "RW">>
     ELSE IF i < at.nptpages THEN <<at.kptpa + i, "RW">> ELSE NV]

SegmentTables ==
  /\ boot = "segments" /\ boot' = "lastpage"
  /\ ram' = [ram EXCEPT ![at.kstpa] = Segments, ![at.kptmpa] = Segments]
  /\ UNCHANGED <<shape, at, pte, protopte, kvm, managed>>

(* The final entry of the last page table is there to turn the MMU on.      *)
LastPage ==
  /\ boot = "lastpage" /\ boot' = "text"
  /\ ram' = [ram EXCEPT ![at.lkptpa] = [Invalid EXCEPT ![NPTEPG - 1] = <<MAXADDR, "RW">>]]
  /\ UNCHANGED <<shape, at, pte, protopte, kvm, managed>>

(* The kernel page table is nptpages long and contiguous.  Its entries from *)
(* lo up to hi get the pages from pa on.                                    *)
Stored(lo, hi, pa, prot) ==
  [p \in DOMAIN ram |->
     [k \in Entries |->
        LET i == (p - at.kptpa) * NPTEPG + k
        IN  IF lo <= i /\ i < hi THEN <<pa + i - lo, prot>> ELSE ram[p][k]]]

(* One of the loops that go on from pte with protopte until epte.           *)
Validate(epte, prot, next) ==
  /\ ram' = Stored(pte, epte, protopte[1], protopte[2])
  /\ pte' = IF epte > pte THEN epte ELSE pte
  /\ protopte' = <<protopte[1] + pte' - pte, prot>>
  /\ boot' = next
  /\ UNCHANGED <<shape, at, kvm, managed>>

Text == boot = "text" /\ Validate(shape.text, "RW", "data")
Data == boot = "data" /\ Validate(at.kstpa - firstpa, "RW", "tables")

\* Mutant: the earlier loop, which stops before the tables themselves.
TablesUnmapped == boot = "tables" /\ Validate(at.kstpa - firstpa, "RW", "exports")

Tables == boot = "tables" /\ Validate(at.nextpa - firstpa, "RW", "exports")

\* Mutant: the message buffer in the last page.
ExportsLast ==
  /\ boot = "exports" /\ boot' = "mmu"
  /\ kvm' = [Sysseg_pa |-> at.kstpa, Sysptmap |-> at.kptmpa - firstpa,
             lwp0uarea |-> at.lwp0upa - firstpa,
             CADDR1 |-> pte, CADDR2 |-> pte + 1, vmmap |-> pte + 2, msgbufaddr |-> pte + 3,
             virtual_avail |-> pte + 3 + MSGPAGES, virtual_end |-> VM_MAX_KERNEL_ADDRESS,
             avail_start |-> at.nextpa, avail_end |-> shape.ram - MSGPAGES]
  /\ UNCHANGED <<shape, at, ram, pte, protopte, managed>>

(* The addresses the rest of the kernel uses.                               *)
Exports ==
  /\ boot = "exports" /\ boot' = "mmu"
  /\ kvm' = [Sysseg_pa |-> at.kstpa, Sysptmap |-> at.kptmpa - firstpa,
             lwp0uarea |-> at.lwp0upa - firstpa,
             CADDR1 |-> pte, CADDR2 |-> pte + 1, vmmap |-> pte + 2, msgbufaddr |-> pte + 3,
             virtual_avail |-> pte + 3 + MSGPAGES, virtual_end |-> VM_MAX_KERNEL_ADDRESS,
             avail_start |-> at.nextpa, avail_end |-> shape.ram - (MSGPAGES + 1)]
  /\ UNCHANGED <<shape, at, ram, pte, protopte, managed>>

-----------------------------------------------------------------------------
(* The MMU's table walk.                                                    *)
Translate(va) ==
  IF va >= TTBASE THEN <<va, "RW">>
  ELSE LET ste == ram[kvm.Sysseg_pa][Seg(va)]
       IN  IF ste = NV THEN NV ELSE ram[ste[1]][va % NPTEPG]

(* pmap_kenter_pa on n pages, through the page of Sysmap they are in.       *)
KEntered(va, pa, n) == Stored(va, va + n, pa, "RW")

(* wrap030_init: memory for the VM system, and the message buffer after it. *)
Physload ==
  /\ boot = "mmu" /\ boot' = "loaded"
  /\ managed' = kvm.avail_start .. kvm.avail_end - 1
  /\ ram' = KEntered(kvm.msgbufaddr, kvm.avail_end, MSGPAGES)
  /\ UNCHANGED <<shape, at, pte, protopte, kvm>>

Bootstrap ==
  Layout \/ SegmentTables \/ LastPage \/ Text \/ Data \/ Tables \/ Exports \/ Physload
=============================================================================
