---------------------------- MODULE MachineProofs ----------------------------
(***************************************************************************)
(* Proofs about Machine, for any kernels, memories, devices and sizes that *)
(* satisfy the assumptions of its modules: the page tables hold what the   *)
(* kernel counts on, no page serves two ends, an access to bus space is    *)
(* exact, and a dump lies where savecore looks for it.                     *)
(***************************************************************************)
EXTENDS Machine, ListLemmas, FiniteSetTheorems

-----------------------------------------------------------------------------
(* Numbers of pages.                                                        *)

(* Quotient and remainder of a page number by the entries of a table.       *)
LEMMA DivMod ==
  ASSUME NEW n \in Nat \ {0}, NEW x \in Nat
  PROVE  /\ x \div n \in Nat /\ x % n \in 0 .. n - 1
         /\ x = (x \div n) * n + (x % n)
OBVIOUS

(* Multiples keep the order of their factors.                                *)
LEMMA Times ==
  ASSUME NEW n \in Nat \ {0}, NEW x \in Int, NEW y \in Int, x <= y
  PROVE  x * n <= y * n /\ (x < y => x * n + n <= y * n)
OBVIOUS

(* A page is one entry of one table.                                         *)
LEMMA OneQuotient ==
  ASSUME NEW n \in Nat \ {0}, NEW q \in Int, NEW r \in Int,
         NEW k \in 0 .. n - 1, NEW l \in 0 .. n - 1, q * n + k = r * n + l
  PROVE  q = r /\ k = l
<1>1. ~(q < r)
  BY Times
<1>2. ~(r < q)
  BY Times
<1>. QED
  BY <1>1, <1>2

(* The multiple before.                                                      *)
LEMMA Predecessor ==
  ASSUME NEW n \in Nat \ {0}, NEW t \in Nat
  PROVE  t * n \in Int /\ (t - 1) * n \in Int /\ t * n = (t - 1) * n + n
OBVIOUS

(* Whole pages of a number of blocks are no more than the blocks.            *)
LEMMA Floor ==
  ASSUME NEW n \in Nat \ {0}, NEW x \in Int
  PROVE  x \div n \in Int /\ (x \div n) * n <= x
OBVIOUS

-----------------------------------------------------------------------------
(* Where Layout puts what follows the image of a kernel.                    *)
Kstpa(s) == firstpa + s.image + UPAGES
End(s) == s.image + UPAGES + 3 + Nptpages(s)
Covered(s) == Nptpages(s) * NPTEPG

(* pmap_bootstrap's addresses are natural numbers, follow each other, and    *)
(* the page tables cover them below Sysmap.                                  *)
LEMMA Space ==
  ASSUME NEW s \in Shapes
  PROVE  /\ s.text \in Nat /\ s.image \in Nat /\ s.ram \in Nat
         /\ s.text <= s.image /\ s.image <= s.ram
         /\ Nptpages(s) \in Nat \ {0} /\ Kstpa(s) \in Nat /\ End(s) \in Nat \ {0}
         /\ End(s) + 3 + MSGPAGES <= Covered(s) /\ Covered(s) \in Nat
         /\ Covered(s) <= SYSMAP_VA
<1>1. /\ s.text \in Nat /\ s.image \in Nat /\ s.ram \in Nat
      /\ s.text <= s.image /\ s.image <= s.ram
  BY BootAssumption
<1>2. HowMany(s.ram, NPTEPG) \in Nat
  <2>1. NPTEPG \in Nat \ {0} /\ s.ram + NPTEPG - 1 \in Nat
    BY <1>1, BootAssumption
  <2>. QED
    BY <2>1, DivMod DEF HowMany
<1>3. /\ Nptpages(s) \in Nat \ {0} /\ Kstpa(s) \in Nat /\ End(s) \in Nat \ {0}
  BY <1>1, <1>2, BootAssumption DEF Nptpages, Kstpa, End
<1>4. End(s) + 3 + MSGPAGES <= Covered(s)
  BY <1>1, <1>3, TableAssumption, BootAssumption DEF End, Covered
<1>5. Nptpages(s) <= Seg(SYSMAP_VA)
  BY TableAssumption
<1>6. SYSMAP_VA = Seg(SYSMAP_VA) * NPTEPG /\ Seg(SYSMAP_VA) \in Nat
  <2>1. NPTEPG \in Nat \ {0} /\ SYSMAP_VA \in Nat /\ SYSMAP_VA % NPTEPG = 0
    BY BootAssumption
  <2>. QED
    BY <2>1, DivMod DEF Seg
<1>7. Covered(s) <= Seg(SYSMAP_VA) * NPTEPG
  BY <1>3, <1>5, <1>6, BootAssumption, Times DEF Covered
<1>8. Covered(s) \in Nat
  BY <1>3, BootAssumption DEF Covered
<1>. QED
  BY <1>1, <1>3, <1>4, <1>6, <1>7, <1>8

(* Sysmap lies below the transparent addresses, the clock among them.        *)
LEMMA Above == SYSMAP_VA \in Nat /\ SYSMAP_VA < TTBASE /\ TTBASE <= CLOCK /\ CLOCK \in Nat
<1>1. /\ SYSMAP_VA \in Nat /\ MAXADDR \in Nat /\ NPTEPG \in Nat \ {0}
      /\ SYSMAP_VA \div NPTEPG < MAXADDR \div NPTEPG /\ TTBASE = MAXADDR + 1
  BY BootAssumption
<1>2. ~(MAXADDR < SYSMAP_VA)
  <2>1. /\ SYSMAP_VA = (SYSMAP_VA \div NPTEPG) * NPTEPG + (SYSMAP_VA % NPTEPG)
        /\ MAXADDR = (MAXADDR \div NPTEPG) * NPTEPG + (MAXADDR % NPTEPG)
        /\ SYSMAP_VA % NPTEPG \in 0 .. NPTEPG - 1 /\ MAXADDR % NPTEPG \in 0 .. NPTEPG - 1
        /\ SYSMAP_VA \div NPTEPG \in Nat /\ MAXADDR \div NPTEPG \in Nat
    BY <1>1, DivMod
  <2>2. (SYSMAP_VA \div NPTEPG) * NPTEPG + NPTEPG <= (MAXADDR \div NPTEPG) * NPTEPG
    BY <1>1, <2>1, Times
  <2>. DEFINE a == (SYSMAP_VA \div NPTEPG) * NPTEPG
              b == (MAXADDR \div NPTEPG) * NPTEPG
  <2>3. a \in Int /\ b \in Int
    BY <1>1, <2>1
  <2>. HIDE DEF a, b
  <2>. QED
    BY <1>1, <2>1, <2>2, <2>3 DEF a, b
<1>. QED
  BY <1>1, <1>2, MainbusAssumption

-----------------------------------------------------------------------------
(* The stages of pmap_bootstrap and wrap030_init.                           *)
Stages == {"entry", "segments", "lastpage", "text", "data", "tables", "exports",
           "mmu", "loaded"}
Done == {"exports", "mmu", "loaded"}

(* How far the entries of the kernel page table have been stored.           *)
Come == IF boot = "data" THEN shape.text
        ELSE IF boot = "tables" THEN shape.image + UPAGES
        ELSE IF boot \in Done THEN End(shape) ELSE 0
Protected == IF boot \in {"data", "tables"} \cup Done THEN "RW" ELSE "RO"

(* The addresses Layout computes, in terms of the shape.                     *)
LocalsSet ==
  /\ at.kstpa = Kstpa(shape) /\ at.kptmpa = Kstpa(shape) + 1
  /\ at.lkptpa = Kstpa(shape) + 2 /\ at.kptpa = Kstpa(shape) + 3
  /\ at.nptpages = Nptpages(shape) /\ at.nextpa = firstpa + End(shape)

(* The addresses Exports makes known, in terms of the shape.                 *)
Exported ==
  /\ kvm.Sysseg_pa = Kstpa(shape)
  /\ kvm.CADDR1 = End(shape) /\ kvm.CADDR2 = End(shape) + 1
  /\ kvm.vmmap = End(shape) + 2 /\ kvm.msgbufaddr = End(shape) + 3
  /\ kvm.virtual_avail = End(shape) + 3 + MSGPAGES /\ kvm.virtual_end = SYSMAP_VA
  /\ kvm.avail_start = firstpa + End(shape)
  /\ kvm.avail_end = shape.ram - (MSGPAGES + 1)

(* All of pmap_bootstrap's data but the tables.                              *)
LaidOut ==
  /\ boot \in Stages /\ shape \in Shapes
  /\ boot # "entry" => LocalsSet
  /\ pte = Come /\ protopte = <<firstpa + Come, Protected>>
  /\ Up => Exported
  /\ boot = "loaded" => managed = kvm.avail_start .. kvm.avail_end - 1

(* Configuration and shutdown touch none of this.                           *)
StayBoot == UNCHANGED <<boot, shape, at, pte, protopte, kvm, managed>>

(* Only the bootstrap changes the bootstrap's data.                          *)
LEMMA Stays ==
  ASSUME [Next]_vars
  PROVE  (Bootstrap /\ UNCHANGED <<busVars, rebootVars>>) \/ StayBoot
<1>1. ASSUME Autoconf PROVE StayBoot
  BY <1>1
    DEF Autoconf, StayBoot, InitClocks, LeAttach, ZsAttach, Device, GetEtherAddr,
     WdcAttach, ComAttach, Configured, Access, bootVars
<1>2. ASSUME Shutdown PROVE StayBoot
  BY <1>2 DEF Shutdown, StayBoot, SetDumpDev, Reboot, Panic, Synced, High, Dumped,
     Succeeded, DoBoot, bootVars
<1>. QED
  BY <1>1, <1>2 DEF Next, Accessed, vars, bootVars, StayBoot

(* A loop of pmap_bootstrap comes exactly as far as it is told.              *)
LEMMA ValidateKeeps ==
  ASSUME LaidOut, NEW epte \in Nat, NEW next, Validate(epte, "RW", next), pte <= epte
  PROVE  /\ pte' = epte /\ protopte' = <<firstpa + epte, "RW">> /\ boot' = next
         /\ UNCHANGED <<shape, at, kvm, managed>>
<1>1. Come \in Nat /\ firstpa \in Nat
  <2>1. shape \in Shapes /\ UPAGES \in Nat /\ firstpa \in Nat
    BY BootAssumption DEF LaidOut
  <2>2. shape.text \in Nat /\ shape.image \in Nat /\ End(shape) \in Nat
    BY <2>1, Space
  <2>. QED
    BY <2>1, <2>2 DEF Come
<1>2. /\ pte' = IF epte > pte THEN epte ELSE pte
      /\ protopte' = <<protopte[1] + pte' - pte, "RW">> /\ boot' = next
      /\ UNCHANGED <<shape, at, kvm, managed>>
  BY Zenon DEF Validate
<1>3. pte \in Nat /\ protopte[1] = firstpa + pte
  BY <1>1 DEF LaidOut
<1>. QED
  BY <1>1, <1>2, <1>3

(* Every stage of the bootstrap leaves the addresses right.                  *)
LEMMA BootstrapKeeps == ASSUME LaidOut, Bootstrap PROVE LaidOut'
<1>1. ASSUME Layout PROVE LaidOut'
  <2>1. shape.image \in Nat /\ Nptpages(shape) \in Nat /\ {firstpa, UPAGES} \subseteq Nat
    BY Space, BootAssumption DEF LaidOut
  <2>2. LocalsSet'
    BY <1>1, <2>1 DEF Layout, LocalsSet, Kstpa, End
  <2>3. boot = "entry" /\ boot' = "segments" /\ UNCHANGED <<shape, pte, protopte>>
    BY <1>1 DEF Layout
  <2>. QED
    BY <2>2, <2>3 DEF LaidOut, Stages, Come, Protected, Done, Up
<1>2. ASSUME SegmentTables \/ LastPage PROVE LaidOut'
  BY <1>2 DEF SegmentTables, LastPage, LaidOut, LocalsSet, Stages, Come, Protected,
       Done, Up
<1>3. /\ shape.text \in Nat /\ shape.image \in Nat /\ End(shape) \in Nat
      /\ shape.text <= shape.image + UPAGES /\ shape.image + UPAGES <= End(shape)
      /\ shape.image + UPAGES \in Nat /\ firstpa \in Nat
  <2>1. shape \in Shapes /\ {firstpa, UPAGES} \subseteq Nat
    BY BootAssumption DEF LaidOut
  <2>2. /\ shape.text \in Nat /\ shape.image \in Nat /\ shape.text <= shape.image
        /\ Nptpages(shape) \in Nat
    BY <2>1, Space
  <2>. QED
    BY <2>1, <2>2 DEF End
<1>4. ASSUME Text PROVE LaidOut'
  <2>1. boot = "text" /\ pte = 0
    BY <1>4 DEF Text, LaidOut, Come, Done
  <2>2. /\ pte' = shape.text /\ protopte' = <<firstpa + shape.text, "RW">> /\ boot' = "data"
        /\ UNCHANGED <<shape, at, kvm, managed>>
    BY <1>3, <1>4, <2>1, ValidateKeeps DEF Text
  <2>. QED
    BY <2>1, <2>2 DEF LaidOut, LocalsSet, Stages, Come, Protected, Done, Up
<1>5. ASSUME Data PROVE LaidOut'
  <2>1. boot = "data" /\ pte = shape.text /\ at.kstpa - firstpa = shape.image + UPAGES
    BY <1>3, <1>5, BootAssumption DEF Data, LaidOut, Come, Done, LocalsSet, Kstpa
  <2>2. /\ pte' = shape.image + UPAGES /\ protopte' = <<firstpa + (shape.image + UPAGES), "RW">>
        /\ boot' = "tables" /\ UNCHANGED <<shape, at, kvm, managed>>
    BY <1>3, <1>5, <2>1, ValidateKeeps DEF Data
  <2>. QED
    BY <2>1, <2>2 DEF LaidOut, LocalsSet, Stages, Come, Protected, Done, Up
<1>6. ASSUME Tables PROVE LaidOut'
  <2>1. boot = "tables" /\ pte = shape.image + UPAGES /\ at.nextpa - firstpa = End(shape)
    BY <1>3, <1>6 DEF Tables, LaidOut, Come, Done, LocalsSet
  <2>2. /\ pte' = End(shape) /\ protopte' = <<firstpa + End(shape), "RW">>
        /\ boot' = "exports" /\ UNCHANGED <<shape, at, kvm, managed>>
    BY <1>3, <1>6, <2>1, ValidateKeeps DEF Tables
  <2>. QED
    BY <2>1, <2>2 DEF LaidOut, LocalsSet, Stages, Come, Protected, Done, Up
<1>7. ASSUME Exports PROVE LaidOut'
  <2>1. boot = "exports" /\ pte = End(shape)
    BY <1>7 DEF Exports, LaidOut, Come, Done
  <2>2. Exported'
    BY <1>7, <2>1, BootAssumption DEF Exports, Exported, LaidOut, LocalsSet
  <2>3. boot' = "mmu" /\ UNCHANGED <<shape, at, pte, protopte, managed>>
    BY <1>7 DEF Exports
  <2>. QED
    BY <2>1, <2>2, <2>3 DEF LaidOut, LocalsSet, Stages, Come, Protected, Done, Up
<1>8. ASSUME Physload PROVE LaidOut'
  BY <1>8
    DEF Physload, LaidOut, LocalsSet, Exported, Stages, Come, Protected, Done, Up
<1>. QED
  BY <1>1, <1>2, <1>4, <1>5, <1>6, <1>7, <1>8 DEF Bootstrap

(* So does every other step.                                                 *)
LEMMA LaidOutKeeps == ASSUME LaidOut, [Next]_vars PROVE LaidOut'
<1>1. ASSUME StayBoot PROVE LaidOut'
  BY <1>1 DEF StayBoot, LaidOut, LocalsSet, Exported, Come, Protected, Up
<1>. QED
  BY <1>1, Stays, BootstrapKeeps

(* So they are at the start.                                                 *)
LEMMA LaidOutInit == MachineInit => LaidOut
BY BootAssumption DEF MachineInit, Init, LaidOut, Stages, Come, Protected, Done, Up

-----------------------------------------------------------------------------
(* uvm_km_alloc gives addresses that nothing has.                           *)
LEMMA RoomFacts ==
  ASSUME LaidOut, Up, NEW n \in Nat \ {0}, ~Fails(n)
  PROVE  LET va == Min(Room(n))
         IN  /\ va \in Nat /\ kvm.virtual_avail <= va /\ va + n <= kvm.virtual_end
             /\ (va .. va + n - 1) \cap Taken = {}
<1>1. kvm.virtual_end = SYSMAP_VA /\ kvm.virtual_avail = End(shape) + 3 + MSGPAGES
  BY DEF LaidOut, Exported
<1>2. kvm.virtual_avail \in Nat /\ kvm.virtual_end \in Nat
  <2>1. End(shape) \in Nat /\ MSGPAGES \in Nat /\ SYSMAP_VA \in Nat
    BY Space, Above, BootAssumption DEF LaidOut
  <2>. QED
    BY <1>1, <2>1
<1>3. Room(n) \subseteq Nat /\ Room(n) # {}
  BY <1>2 DEF Room, Fails
<1>4. Min(Room(n)) \in Room(n)
  BY <1>3, MinFacts
<1>. QED
  BY <1>2, <1>4 DEF Room

-----------------------------------------------------------------------------
(* The order in which configuration goes on.                                *)
Attached ==
  /\ clockbase # 0 => boot = "loaded" /\ clockbase = CLOCK
  /\ wdr # <<>> => clockbase # 0
  /\ base \in [{"lemem", "le", "zs"} -> Int]
  /\ \A f \in {"lemem", "le", "zs"} : base[f] # 0 => clockbase # 0
  /\ ~cold => clockbase # 0
  /\ rb # "up" => boot = "loaded"
  /\ maps # {} => boot = "loaded"
  /\ tries \in 0 .. MaxTries

(* The pages the mappings may have taken: each device maps once, the EEPROM *)
(* once for every reading.                                                  *)
Spent(f, n) == IF base[f] # 0 THEN n ELSE 0
Budget == Spent("lemem", LEPAGES) + Spent("le", 1) + Spent("zs", ZSPAGES) + tries

(* mainbus_map maps something, and its pages are counted.                    *)
MapSteps ==
  \E pa \in Nat, n \in Nat \ {0} : ~Fails(n) /\ Mapped(pa, n) /\ Budget + n <= Budget'

(* There is no room for as many pages as the clock's address says.          *)
LEMMA ClockFails == ASSUME LaidOut, boot = "loaded" PROVE Fails(CLOCK + 1)
<1>1. kvm.virtual_end = SYSMAP_VA /\ kvm.virtual_avail = End(shape) + 3 + MSGPAGES
  BY DEF LaidOut, Up, Exported
<1>2. End(shape) \in Nat /\ MSGPAGES \in Nat
  BY Space, BootAssumption DEF LaidOut
<1>3. kvm.virtual_avail \in Nat /\ kvm.virtual_end - (CLOCK + 1) < 0
  <2>1. SYSMAP_VA \in Nat /\ CLOCK \in Nat /\ TTBASE \in Nat /\ SYSMAP_VA < TTBASE /\ TTBASE <= CLOCK
    BY Above, BootAssumption
  <2>. QED
    BY <1>1, <1>2, <2>1
<1>4. kvm.virtual_end - (CLOCK + 1) \in Int
  BY <1>1, Above
<1>. QED
  BY <1>3, <1>4 DEF Fails, Room

(* What is counted is bounded by what the devices have.                      *)
LEMMA BudgetType ==
  ASSUME Attached
  PROVE  /\ Budget \in 0 .. LEPAGES + 1 + ZSPAGES + MaxTries
         /\ \A f \in {"lemem", "le", "zs"}, n \in Nat : Spent(f, n) \in 0 .. n
<1>1. /\ LEPAGES \in Nat /\ ZSPAGES \in Nat /\ MaxTries \in Nat /\ tries \in 0 .. MaxTries
      /\ \A f \in {"lemem", "le", "zs"}, n \in Nat : Spent(f, n) \in 0 .. n
  BY MainbusAssumption DEF Attached, Spent
<1>2. /\ Spent("lemem", LEPAGES) \in 0 .. LEPAGES /\ Spent("le", 1) \in 0 .. 1
      /\ Spent("zs", ZSPAGES) \in 0 .. ZSPAGES
  BY <1>1
<1>. QED
  BY <1>1, <1>2 DEF Budget

(* And it is a number after the step, too.                                   *)
LEMMA BudgetNext == ASSUME Attached' PROVE Budget' \in Nat
<1>1. tries' \in Nat /\ LEPAGES \in Nat /\ ZSPAGES \in Nat
  BY MainbusAssumption DEF Attached
<1>2. /\ Spent("lemem", LEPAGES)' \in Nat /\ Spent("le", 1)' \in Nat
      /\ Spent("zs", ZSPAGES)' \in Nat
  BY <1>1 DEF Spent
<1>. QED
  BY <1>1, <1>2 DEF Budget

(* A device is mapped once, and its pages are counted when it is.           *)
LEMMA DeviceSpends ==
  ASSUME LaidOut, Attached, NEW pa \in Nat, NEW n \in Nat \ {0}, NEW f \in {"lemem", "le", "zs"},
         Device(f, pa, n), <<f, n>> \in {<<"lemem", LEPAGES>>, <<"le", 1>>, <<"zs", ZSPAGES>>}
  PROVE  /\ boot = "loaded"
         /\ MapSteps \/ (UNCHANGED <<maps, ram>> /\ Budget' = Budget)
<1>1. /\ boot = "loaded" /\ base[f] = 0 /\ base' = [base EXCEPT ![f] = Pointer(0, n)]
      /\ base \in [{"lemem", "le", "zs"} -> Int] /\ tries' = tries /\ MainbusMap(pa, n)
  BY DEF Device, Attached
<1>2. CASE Fails(n)
  <2>1. base' = base
    BY <1>1, <1>2 DEF Pointer
  <2>. QED
    BY <1>1, <1>2, <2>1 DEF MainbusMap, Budget, Spent
<1>3. CASE ~Fails(n)
  <2>1. Pointer(0, n) # 0
    <3>1. Min(Room(n)) \in Nat /\ kvm.virtual_avail <= Min(Room(n))
      BY <1>1, <1>3, RoomFacts DEF Up
    <3>2. kvm.virtual_avail = End(shape) + 3 + MSGPAGES
      BY <1>1 DEF LaidOut, Up, Exported
    <3>3. End(shape) \in Nat /\ MSGPAGES \in Nat
      BY Space, BootAssumption DEF LaidOut
    <3>. QED
      BY <1>3, <3>1, <3>2, <3>3 DEF Pointer
  <2>. DEFINE va == Pointer(0, n)
              l == Spent("lemem", LEPAGES)
              e == Spent("le", 1)
              z == Spent("zs", ZSPAGES)
  <2>. HIDE DEF va
  <2>2. /\ \A g \in {"lemem", "le", "zs"} : base'[g] = IF g = f THEN va ELSE base[g]
        /\ va # 0
    BY <1>1, <2>1 DEF va
  <2>3. /\ l \in Nat /\ e \in Nat /\ z \in Nat /\ tries \in Nat
    <3>1. tries \in Nat
      BY MainbusAssumption DEF Attached
    <3>. QED
      BY <3>1, BudgetType, MainbusAssumption
  <2>4. ASSUME f = "lemem" PROVE Budget' = Budget + n
    <3>1. n = LEPAGES /\ l = 0 /\ l' = n /\ e' = e /\ z' = z
      BY <1>1, <2>2, <2>4 DEF Spent
    <3>. HIDE DEF l, e, z
    <3>2. l' + e' + z' + tries' = l + e + z + tries + n
      BY <1>1, <2>3, <3>1
    <3>. QED
      BY <3>2 DEF Budget, l, e, z
  <2>5. ASSUME f = "le" PROVE Budget' = Budget + n
    <3>1. n = 1 /\ e = 0 /\ e' = n /\ l' = l /\ z' = z
      BY <1>1, <2>2, <2>5 DEF Spent
    <3>. HIDE DEF l, e, z
    <3>2. l' + e' + z' + tries' = l + e + z + tries + n
      BY <1>1, <2>3, <3>1
    <3>. QED
      BY <3>2 DEF Budget, l, e, z
  <2>6. ASSUME f = "zs" PROVE Budget' = Budget + n
    <3>1. n = ZSPAGES /\ z = 0 /\ z' = n /\ l' = l /\ e' = e
      BY <1>1, <2>2, <2>6 DEF Spent
    <3>. HIDE DEF l, e, z
    <3>2. l' + e' + z' + tries' = l + e + z + tries + n
      BY <1>1, <2>3, <3>1
    <3>. QED
      BY <3>2 DEF Budget, l, e, z
  <2>7. Budget' = Budget + n
    BY <2>4, <2>5, <2>6
  <2>8. Budget \in Nat
    BY BudgetType, MainbusAssumption
  <2>9. Budget + n <= Budget'
    BY <2>7, <2>8
  <2>10. Mapped(pa, n)
    BY <1>1, <1>3 DEF MainbusMap
  <2>. QED
    BY <1>1, <1>3, <2>9, <2>10 DEF MapSteps
<1>. QED
  BY <1>2, <1>3

(* What configuration does with the mappings.                               *)
LEMMA AutoconfMaps ==
  ASSUME LaidOut, Attached, Autoconf
  PROVE  (boot = "loaded" /\ MapSteps) \/ (UNCHANGED <<maps, ram>> /\ Budget <= Budget')
<1>0. Budget \in Nat /\ Budget <= Budget /\ tries \in Nat
  <2>1. tries \in Nat
    BY MainbusAssumption DEF Attached
  <2>. QED
    BY <2>1, BudgetType, MainbusAssumption
<1>1. ASSUME InitClocks PROVE UNCHANGED <<maps, ram>> /\ Budget' = Budget
  BY <1>1, ClockFails DEF InitClocks, MainbusMap, Budget, Spent
<1>2. ASSUME LeAttach \/ ZsAttach
      PROVE  (boot = "loaded" /\ MapSteps) \/ (UNCHANGED <<maps, ram>> /\ Budget' = Budget)
  BY <1>2, DeviceSpends, MainbusAssumption DEF LeAttach, ZsAttach
<1>3. ASSUME GetEtherAddr
      PROVE  (boot = "loaded" /\ MapSteps) \/ (UNCHANGED <<maps, ram>> /\ Budget <= Budget')
  <2>1. boot = "loaded"
    BY <1>3 DEF GetEtherAddr, Attached
  <2>2. base' = base /\ tries' = tries + 1
    BY <1>3 DEF GetEtherAddr
  <2>3. Budget' = Budget + 1
    <3>. DEFINE l == Spent("lemem", LEPAGES)
                e == Spent("le", 1)
                z == Spent("zs", ZSPAGES)
    <3>1. l' = l /\ e' = e /\ z' = z
      BY <2>2 DEF Spent
    <3>2. l \in Nat /\ e \in Nat /\ z \in Nat
      BY BudgetType, MainbusAssumption
    <3>. HIDE DEF l, e, z
    <3>3. l' + e' + z' + tries' = l + e + z + tries + 1
      BY <1>0, <2>2, <3>1, <3>2
    <3>. QED
      BY <3>3 DEF Budget, l, e, z
  <2>4. Budget <= Budget' /\ Budget + 1 <= Budget'
    BY <1>0, <2>3
  <2>5. MainbusMap(EEPROM, 1) \/ UNCHANGED <<maps, ram>>
    BY <1>3 DEF GetEtherAddr
  <2>. QED
    BY <2>1, <2>4, <2>5, MainbusAssumption DEF MainbusMap, MapSteps
<1>4. ASSUME WdcAttach \/ ComAttach \/ Configured \/ Access
      PROVE  UNCHANGED <<maps, ram>> /\ Budget' = Budget
  BY <1>4 DEF WdcAttach, ComAttach, Configured, Access, bootVars, Budget, Spent
<1>. QED
  BY <1>0, <1>1, <1>2, <1>3, <1>4 DEF Autoconf

(* What a step does to the tables: it is one of the bootstrap, or maps       *)
(* something, or enters a page of a dump, or leaves the tables alone.        *)
LEMMA Steps ==
  ASSUME LaidOut, Attached, [Next]_vars
  PROVE  \/ Bootstrap /\ UNCHANGED <<busVars, rebootVars>>
         \/ StayBoot /\ boot = "loaded" /\ rb = "up" /\ MapSteps /\ UNCHANGED rebootVars
         \/ StayBoot /\ UNCHANGED <<maps, ram>> /\ Budget <= Budget'
         \/ StayBoot /\ UNCHANGED maps /\ Budget <= Budget' /\ Dumped
<1>0. Budget \in Nat /\ Budget <= Budget
  BY BudgetType, MainbusAssumption
<1>1. ASSUME Shutdown PROVE (Dumped \/ UNCHANGED <<maps, ram>>) /\ Budget' = Budget
  BY <1>1 DEF Shutdown, SetDumpDev, Reboot, Panic, Synced, High, Succeeded, DoBoot,
       Dumped,
     bootVars, busVars, Budget, Spent
<1>2. Dumped => UNCHANGED maps
  BY DEF Dumped, busVars
<1>3. Accessed \/ UNCHANGED vars => UNCHANGED <<maps, ram>> /\ Budget' = Budget
  BY DEF Accessed, vars, bootVars, busVars, Budget, Spent
<1>. QED
  BY <1>0, <1>1, <1>2, <1>3, Stays, AutoconfMaps DEF Next

(* Configuration starts with nothing attached.                               *)
LEMMA AttachedInit == MachineInit => Attached
BY MainbusAssumption DEF MachineInit, MainbusInit, RebootInit, Attached

(* Every step keeps the order of configuration.                              *)
LEMMA AttachedKeeps == ASSUME LaidOut, Attached, [Next]_vars PROVE Attached'
<1>. USE DEF Attached
<1>1. ASSUME Bootstrap, UNCHANGED <<busVars, rebootVars>> PROVE Attached'
  <2>1. boot # "loaded" \/ boot' = "loaded"
    BY <1>1
      DEF Bootstrap, Layout, SegmentTables, LastPage, Text, Data, Tables, Exports,
       Physload, Validate
  <2>. QED
    BY <1>1, <2>1 DEF busVars, rebootVars
<1>2. CASE StayBoot
  <2>1. boot' = boot
    BY <1>2 DEF StayBoot
  <2>2. ASSUME InitClocks, UNCHANGED rebootVars PROVE Attached'
    BY <2>2, ClockFails DEF InitClocks, MainbusMap, Pointer, rebootVars
  <2>3. ASSUME NEW f \in {"lemem", "le", "zs"}, NEW pa \in Nat, NEW n \in Nat \ {0},
               Device(f, pa, n), UNCHANGED rebootVars
        PROVE  Attached'
    <3>1. Pointer(0, n) \in Int
      <4>1. kvm.virtual_avail \in Nat
        <5>1. End(shape) \in Nat /\ MSGPAGES \in Nat
          BY Space, BootAssumption DEF LaidOut
        <5>. QED
          BY <2>3, <5>1 DEF Device, LaidOut, Up, Exported
      <4>2. Room(n) \subseteq Nat
        BY <4>1 DEF Room
      <4>. QED
        BY <4>2, MinFacts DEF Pointer, Fails
    <3>2. base' = [base EXCEPT ![f] = Pointer(0, n)] /\ base' \in [{"lemem", "le", "zs"} -> Int]
      BY <2>3, <3>1 DEF Device
    <3>. QED
      BY <2>1, <2>3, <3>2 DEF Device, rebootVars
  <2>4. ASSUME LeAttach \/ ZsAttach, UNCHANGED rebootVars PROVE Attached'
    BY <2>3, <2>4, MainbusAssumption DEF LeAttach, ZsAttach
  <2>5. ASSUME GetEtherAddr, UNCHANGED rebootVars PROVE Attached'
    BY <2>1, <2>5, MainbusAssumption DEF GetEtherAddr, rebootVars
  <2>6. ASSUME WdcAttach \/ ComAttach \/ Configured \/ Access, UNCHANGED rebootVars
        PROVE  Attached'
    BY <2>1, <2>6 DEF WdcAttach, ComAttach, Configured, Access, rebootVars
  <2>7. ASSUME Shutdown PROVE Attached'
    <3>1. /\ clockbase' = clockbase /\ wdr' = wdr /\ base' = base /\ cold' = cold /\ maps' = maps
          /\ tries' = tries
      BY <2>7
        DEF Shutdown, SetDumpDev, Reboot, Panic, Synced, High, Dumped, Succeeded,
         DoBoot, busVars
    <3>2. rb' # "up" => boot = "loaded"
      BY <2>7 DEF Shutdown, SetDumpDev, Reboot, Panic, Synced, High, Dumped,
           Succeeded, DoBoot
    <3>. QED
      BY <2>1, <3>1, <3>2
  <2>8. ASSUME Accessed \/ UNCHANGED vars PROVE Attached'
    BY <2>1, <2>8 DEF Accessed, vars, busVars, rebootVars
  <2>. QED
    BY <1>1, <2>2, <2>4, <2>5, <2>6, <2>7, <2>8 DEF Next, Autoconf
<1>. QED
  BY <1>1, <1>2, Stays

-----------------------------------------------------------------------------
(* The mappings lie between virtual_avail and virtual_end, apart.           *)
Apart ==
  /\ IsFiniteSet(maps)
  /\ \A m \in maps :
       /\ m.va \in Nat /\ m.n \in Nat \ {0}
       /\ kvm.virtual_avail <= m.va /\ m.va + m.n <= kvm.virtual_end
  /\ \A l, m \in maps : l = m \/ Within(l) \cap Within(m) = {}

(* Every step keeps the mappings apart.                                      *)
LEMMA ApartKeeps == ASSUME LaidOut, Attached, Apart, [Next]_vars PROVE Apart'
<1>1. ASSUME maps' = maps, kvm' = kvm \/ maps = {} PROVE Apart'
  BY <1>1 DEF Apart, Within
<1>2. ASSUME boot = "loaded", StayBoot, MapSteps PROVE Apart'
  <2>1. PICK pa \in Nat, n \in Nat \ {0} : ~Fails(n) /\ Mapped(pa, n)
    BY <1>2 DEF MapSteps
  <2>. DEFINE va == Min(Room(n))
              new == [va |-> va, pa |-> pa, n |-> n]
  <2>2. /\ va \in Nat /\ kvm.virtual_avail <= va /\ va + n <= kvm.virtual_end
        /\ (va .. va + n - 1) \cap Taken = {}
    BY <1>2, <2>1, RoomFacts DEF Up
  <2>3. maps' = maps \cup {new}
    BY <2>1 DEF Mapped
  <2>. HIDE DEF va
  <2>4. new.va = va /\ new.n = n
    OBVIOUS
  <2>. HIDE DEF new
  <2>5. kvm' = kvm
    BY <1>2 DEF StayBoot
  <2>6. ASSUME NEW m \in maps PROVE Within(new) \cap Within(m) = {}
    <3>1. Within(m) \subseteq Taken
      BY DEF Within, Taken
    <3>2. Within(new) = va .. va + n - 1
      BY <2>4 DEF Within
    <3>. QED
      BY <2>2, <3>1, <3>2
  <2>7. IsFiniteSet(maps')
    BY <2>3, FS_AddElement DEF Apart
  <2>8. ASSUME NEW m \in maps'
        PROVE  /\ m.va \in Nat /\ m.n \in Nat \ {0}
               /\ kvm.virtual_avail <= m.va /\ m.va + m.n <= kvm.virtual_end
    <3>1. CASE m \in maps
      BY <3>1 DEF Apart
    <3>2. CASE m = new
      BY <2>2, <2>4, <3>2
    <3>. QED
      BY <2>3, <3>1, <3>2
  <2>9. ASSUME NEW l \in maps', NEW m \in maps'
        PROVE l = m \/ Within(l) \cap Within(m) = {}
    <3>1. CASE l \in maps /\ m \in maps
      BY <3>1 DEF Apart
    <3>2. CASE l = new /\ m \in maps
      BY <2>6, <3>2
    <3>3. CASE l \in maps /\ m = new
      BY <2>6, <3>3
    <3>. QED
      BY <2>3, <3>1, <3>2, <3>3
  <2>. QED
    BY <2>5, <2>7, <2>8, <2>9 DEF Apart, Within
<1>3. ASSUME Bootstrap, UNCHANGED <<busVars, rebootVars>> PROVE Apart'
  <2>1. maps' = maps
    BY <1>3 DEF busVars
  <2>2. boot # "loaded"
    BY <1>3 DEF Bootstrap, Layout, SegmentTables, LastPage, Text, Data, Tables,
         Exports, Physload
  <2>. QED
    BY <1>1, <2>1, <2>2 DEF Attached
<1>. QED
  BY <1>1, <1>2, <1>3, Steps DEF StayBoot

(* No mappings are apart.                                                    *)
LEMMA ApartInit == MachineInit => Apart
BY FS_EmptySet DEF MachineInit, MainbusInit, Apart

(* The addresses, without what the tables hold at them.                      *)
Placed == LaidOut /\ Attached /\ Apart

(* Addresses are always right: what MemoryApart needs.                       *)
LEMMA PlacedAlways == Spec => []Placed
<1>1. MachineInit => Placed
  BY LaidOutInit, AttachedInit, ApartInit DEF Placed
<1>2. Placed /\ [Next]_vars => Placed'
  BY LaidOutKeeps, AttachedKeeps, ApartKeeps DEF Placed
<1>. QED
  BY <1>1, <1>2, PTL DEF Spec

-----------------------------------------------------------------------------

(* The fixed addresses and the mappings are as many as there are: none of    *)
(* them coincide.                                                            *)
LEMMA FixedCard ==
  ASSUME Apart, Up, Exported, End(shape) \in Nat,
         MSGPAGES \in Nat \ {0}
  PROVE  LET ends  == {[va |-> v, n |-> 1] : v \in {kvm.CADDR1, kvm.CADDR2, kvm.vmmap}}
                      \cup {[va |-> kvm.msgbufaddr, n |-> MSGPAGES]}
             moved == {[va |-> m.va, n |-> m.n] : m \in maps}
         IN  Cardinality(ends \cup moved) = 4 + Cardinality(maps)
<1>. DEFINE e == End(shape)
            a == [va |-> e, n |-> 1]
            b == [va |-> e + 1, n |-> 1]
            c == [va |-> e + 2, n |-> 1]
            d == [va |-> e + 3, n |-> MSGPAGES]
            f == [m \in maps |-> [va |-> m.va, n |-> m.n]]
            moved == {[va |-> m.va, n |-> m.n] : m \in maps}
<1>1. {[va |-> v, n |-> 1] : v \in {kvm.CADDR1, kvm.CADDR2, kvm.vmmap}}
        \cup {[va |-> kvm.msgbufaddr, n |-> MSGPAGES]} = {a, b, c, d}
  BY DEF Exported
<1>2. \A m \in maps : m.va \in Nat /\ m.n \in Nat \ {0} /\ e + 3 + MSGPAGES <= m.va
  BY DEF Apart, Exported
<1>3. f \in Bijection(maps, moved)
  <2>1. ASSUME NEW l \in maps, NEW m \in maps, f[l] = f[m] PROVE l = m
    <3>1. l.va = m.va /\ l.n = m.n
      BY <2>1
    <3>2. l.va \in Within(l) /\ m.va \in Within(m)
      BY <1>2 DEF Within
    <3>. QED
      BY <3>1, <3>2 DEF Apart
  <2>2. f \in [maps -> moved] /\ \A t \in moved : \E m \in maps : f[m] = t
    OBVIOUS
  <2>. HIDE DEF f, moved
  <2>. QED
    BY <2>1, <2>2 DEF Bijection, Injection, Surjection, IsInjective
<1>4. IsFiniteSet(moved) /\ Cardinality(moved) = Cardinality(maps)
  BY <1>3, FS_Bijection DEF Apart, ExistsBijection
<1>5. \A t \in moved : e + 3 + MSGPAGES <= t.va
  BY <1>2
<1>6. a.va = e /\ b.va = e + 1 /\ c.va = e + 2 /\ d.va = e + 3
  OBVIOUS
<1>. DEFINE d4 == moved \cup {d}
            d3 == d4 \cup {c}
            d2 == d3 \cup {b}
            d1 == d2 \cup {a}
<1>. HIDE DEF a, b, c, d, moved, f
<1>7. d \notin moved /\ c \notin d4 /\ b \notin d3 /\ a \notin d2
  BY <1>5, <1>6
<1>8. Cardinality(maps) \in Nat
  BY FS_CardinalityType DEF Apart
<1>9. IsFiniteSet(d4) /\ Cardinality(d4) = Cardinality(maps) + 1
  BY <1>4, <1>7, FS_AddElement
<1>10. IsFiniteSet(d3) /\ Cardinality(d3) = Cardinality(maps) + 1 + 1
  BY <1>7, <1>9, FS_AddElement
<1>11. IsFiniteSet(d2) /\ Cardinality(d2) = Cardinality(maps) + 1 + 1 + 1
  BY <1>7, <1>10, FS_AddElement
<1>12. Cardinality(d1) = Cardinality(maps) + 1 + 1 + 1 + 1
  BY <1>7, <1>11, FS_AddElement
<1>13. {a, b, c, d} \cup moved = d1
  OBVIOUS
<1>14. Cardinality({a, b, c, d} \cup moved) = 4 + Cardinality(maps)
  BY <1>8, <1>12, <1>13
<1>. QED
  BY <1>1, <1>14 DEF moved

(* No page serves two ends, whatever the kernel, the memory and the devices: *)
(* the VM system's memory is apart from the image, the tables, the message   *)
(* buffer and the last page, and the kernel's windows are apart from each    *)
(* other (pmap_bootstrap, wrap030_init, mainbus_map).                        *)
THEOREM MemoryIsApart == Spec => []MemoryApart
<1>1. Placed => MemoryApart
  <2>. SUFFICES ASSUME Placed PROVE MemoryApart
    OBVIOUS
  <2>. DEFINE e == End(shape)
  <2>0. /\ e \in Nat \ {0} /\ MSGPAGES \in Nat \ {0} /\ firstpa \in Nat /\ SYSMAP_VA \in Nat
        /\ shape.ram \in Nat /\ e + 3 + MSGPAGES <= SYSMAP_VA
    <3>1. shape \in Shapes /\ MSGPAGES \in Nat \ {0} /\ firstpa \in Nat /\ SYSMAP_VA \in Nat
      BY BootAssumption DEF Placed, LaidOut
    <3>. QED
      BY <3>1, Space
  <2>1. ASSUME boot = "loaded"
        PROVE  /\ managed \subseteq (firstpa .. shape.ram - 2)
               /\ managed \cap (firstpa .. at.nextpa - 1) = {}
               /\ managed \cap (MsgBuf.pa .. MsgBuf.pa + MSGPAGES - 1) = {}
               /\ MsgBuf.pa + MSGPAGES <= shape.ram - 1
    <3>1. /\ managed = firstpa + e .. shape.ram - (MSGPAGES + 1) - 1
          /\ at.nextpa = firstpa + e /\ MsgBuf.pa = shape.ram - (MSGPAGES + 1)
      BY <2>1 DEF Placed, LaidOut, LocalsSet, Exported, Up, MsgBuf
    <3>. DEFINE end == shape.ram - (MSGPAGES + 1)
    <3>2. end \in Int /\ end + MSGPAGES = shape.ram - 1 /\ end <= shape.ram - 2
      BY <2>0
    <3>. HIDE DEF end, e
    <3>3. managed = firstpa + e .. end - 1 /\ MsgBuf.pa = end
      BY <3>1 DEF end
    <3>4. managed \subseteq (firstpa .. shape.ram - 2)
      BY <2>0, <3>2, <3>3
    <3>5. managed \cap (firstpa .. at.nextpa - 1) = {}
      BY <2>0, <3>1, <3>2, <3>3
    <3>6. managed \cap (MsgBuf.pa .. MsgBuf.pa + MSGPAGES - 1) = {}
      BY <2>0, <3>2, <3>3
    <3>. QED
      BY <2>0, <3>2, <3>3, <3>4, <3>5, <3>6
  <2>2. ASSUME Up
        PROVE  LET fixed == {[va |-> v, n |-> 1] : v \in {kvm.CADDR1, kvm.CADDR2, kvm.vmmap}}
                            \cup {[va |-> kvm.msgbufaddr, n |-> MSGPAGES]}
                            \cup {[va |-> m.va, n |-> m.n] : m \in maps}
               IN  /\ Cardinality(fixed) = 4 + Cardinality(maps)
                   /\ \A v, w \in fixed : v = w \/ Within(v) \cap Within(w) = {}
                   /\ \A w \in fixed : Within(w) \cap Image = {} /\ w.va + w.n <= kvm.virtual_end
    <3>. DEFINE fixed == {[va |-> v, n |-> 1] : v \in {kvm.CADDR1, kvm.CADDR2, kvm.vmmap}}
                            \cup {[va |-> kvm.msgbufaddr, n |-> MSGPAGES]}
                            \cup {[va |-> m.va, n |-> m.n] : m \in maps}
                a == [va |-> e, n |-> 1]
                b == [va |-> e + 1, n |-> 1]
                c == [va |-> e + 2, n |-> 1]
                d == [va |-> e + 3, n |-> MSGPAGES]
    <3>1. Exported /\ Apart
      BY <2>2 DEF Placed, LaidOut
    <3>2. Cardinality(fixed) = 4 + Cardinality(maps)
      BY <2>0, <2>2, <3>1, FixedCard
    <3>3. fixed = {a, b, c, d} \cup {[va |-> m.va, n |-> m.n] : m \in maps}
      BY <3>1 DEF Exported
    <3>4. /\ Within(a) = e .. e /\ Within(b) = e + 1 .. e + 1 /\ Within(c) = e + 2 .. e + 2
          /\ Within(d) = e + 3 .. e + 3 + MSGPAGES - 1
      BY <2>0 DEF Within
    <3>5. /\ a.va = e /\ a.n = 1 /\ b.va = e + 1 /\ b.n = 1 /\ c.va = e + 2 /\ c.n = 1
          /\ d.va = e + 3 /\ d.n = MSGPAGES
      OBVIOUS
    <3>6. Image = 0 .. e - 1
      <4>1. at.nextpa = firstpa + e
        BY <2>2 DEF Placed, LaidOut, LocalsSet, Up
      <4>. QED
        BY <2>0, <4>1 DEF Image
    <3>7. /\ kvm.virtual_end = SYSMAP_VA
          /\ \A m \in maps : /\ m.va \in Nat /\ m.n \in Nat \ {0}
                             /\ e + 3 + MSGPAGES <= m.va /\ m.va + m.n <= SYSMAP_VA
      BY <3>1 DEF Exported, Apart
    <3>8. ASSUME NEW w \in fixed
          PROVE  \/ w \in {a, b, c, d}
                 \/ \E m \in maps : w.va = m.va /\ w.n = m.n /\ Within(w) = Within(m) /\ w = [va |-> m.va, n |-> m.n]
      BY <3>3 DEF Within
    <3>. HIDE DEF fixed, a, b, c, d, e
    <3>9. ASSUME NEW w \in fixed
          PROVE  Within(w) \cap Image = {} /\ w.va + w.n <= kvm.virtual_end
      <4>1. CASE w \in {a, b, c, d}
        BY <2>0, <3>4, <3>5, <3>6, <3>7, <4>1
      <4>2. CASE w \notin {a, b, c, d}
        <5>1. PICK m \in maps : w.va = m.va /\ w.n = m.n
          BY <3>8, <4>2
        <5>. QED
          BY <2>0, <3>6, <3>7, <5>1 DEF Within
      <4>. QED
        BY <4>1, <4>2
    <3>10. ASSUME NEW v \in fixed, NEW w \in fixed, v \in {a, b, c, d}
           PROVE  v = w \/ Within(v) \cap Within(w) = {}
      <4>1. CASE w \in {a, b, c, d}
        BY <2>0, <3>4, <3>10, <4>1
      <4>2. CASE w \notin {a, b, c, d}
        <5>1. PICK m \in maps : w.va = m.va /\ w.n = m.n
          BY <3>8, <4>2
        <5>2. Within(v) \subseteq e .. e + 3 + MSGPAGES - 1
          BY <2>0, <3>4, <3>10
        <5>3. Within(w) = m.va .. m.va + m.n - 1 /\ e + 3 + MSGPAGES <= m.va /\ m.va \in Nat
          BY <3>7, <5>1 DEF Within
        <5>. QED
          BY <2>0, <5>2, <5>3
      <4>. QED
        BY <4>1, <4>2
    <3>11. ASSUME NEW v \in fixed, NEW w \in fixed, v \notin {a, b, c, d}, w \notin {a, b, c, d}
           PROVE  v = w \/ Within(v) \cap Within(w) = {}
      <4>1. PICK l \in maps : Within(v) = Within(l) /\ v = [va |-> l.va, n |-> l.n]
        BY <3>8, <3>11
      <4>2. PICK m \in maps : Within(w) = Within(m) /\ w = [va |-> m.va, n |-> m.n]
        BY <3>8, <3>11
      <4>. QED
        BY <3>1, <4>1, <4>2 DEF Apart
    <3>12. \A v, w \in fixed : v = w \/ Within(v) \cap Within(w) = {}
      BY <3>10, <3>11
    <3>. QED
      BY <3>2, <3>9, <3>12 DEF fixed
  <2>. QED
    BY <2>1, <2>2 DEF MemoryApart
<1>. QED
  BY <1>1, PlacedAlways, PTL

-----------------------------------------------------------------------------
(* The mappings fill the addresses from virtual_avail on, one behind the    *)
(* other: uvm_km_alloc gives the lowest addresses that are free.            *)
Packed ==
  boot = "loaded" =>
    \E u \in 0 .. Budget : Taken = kvm.virtual_avail .. kvm.virtual_avail + u - 1

(* The lowest free addresses are those behind the mappings there are.       *)
LEMMA RoomBehind ==
  ASSUME LaidOut, Up, NEW n \in Nat \ {0}, ~Fails(n), NEW u \in Nat,
         Taken = kvm.virtual_avail .. kvm.virtual_avail + u - 1
  PROVE  Min(Room(n)) = kvm.virtual_avail + u
<1>. DEFINE v == kvm.virtual_avail
            x == Min(Room(n))
<1>1. v \in Nat /\ kvm.virtual_end \in Nat
  <2>1. End(shape) \in Nat /\ MSGPAGES \in Nat /\ SYSMAP_VA \in Nat
    BY Space, Above, BootAssumption DEF LaidOut
  <2>. QED
    BY <2>1 DEF LaidOut, Exported
<1>2. Room(n) \subseteq Nat /\ Room(n) # {}
  BY <1>1 DEF Room, Fails
<1>3. x \in Room(n) /\ \A y \in Room(n) : x <= y
  BY <1>2, MinFacts
<1>. HIDE DEF x
<1>4. x \in Nat /\ v <= x /\ x <= kvm.virtual_end - n /\ (x .. x + n - 1) \cap Taken = {}
  BY <1>1, <1>3 DEF Room
<1>5. v + u <= x
  <2>1. x \in x .. x + n - 1
    BY <1>4
  <2>. QED
    BY <1>1, <1>4, <2>1
<1>6. v + u \in Room(n)
  <2>1. v + u \in v .. kvm.virtual_end - n
    BY <1>1, <1>4, <1>5
  <2>2. (v + u .. v + u + n - 1) \cap Taken = {}
    BY <1>1
  <2>. QED
    BY <2>1, <2>2 DEF Room
<1>7. x <= v + u
  BY <1>3, <1>6
<1>. QED
  BY <1>1, <1>4, <1>5, <1>7 DEF x

(* Nothing is mapped at first.                                               *)
LEMMA PackedInit == MachineInit => Packed
BY DEF MachineInit, Init, Packed

(* Every mapping is put behind the ones before.                              *)
LEMMA PackedKeeps == ASSUME Placed, Packed, [Next]_vars PROVE Packed'
<1>0. Budget \in Nat /\ LaidOut /\ Attached
  BY BudgetType, MainbusAssumption DEF Placed
<1>1. ASSUME Bootstrap, UNCHANGED <<busVars, rebootVars>> PROVE Packed'
  <2>. SUFFICES ASSUME boot' = "loaded" PROVE Packed'
    BY DEF Packed
  <2>1. boot # "loaded"
    BY <1>1 DEF Bootstrap, Layout, SegmentTables, LastPage, Text, Data, Tables,
         Exports, Physload
  <2>2. maps' = {} /\ Budget' = Budget
    BY <1>0, <1>1, <2>1 DEF Attached, busVars, Budget, Spent
  <2>3. Taken' = {}
    BY <2>2 DEF Taken
  <2>4. kvm.virtual_avail' \in Nat
    <3>1. LaidOut'
      BY <1>0, <1>1, BootstrapKeeps
    <3>2. kvm'.virtual_avail = End(shape') + 3 + MSGPAGES /\ shape' \in Shapes
      BY <3>1 DEF LaidOut, Up, Exported
    <3>3. End(shape') \in Nat /\ MSGPAGES \in Nat
      BY <3>2, Space, BootAssumption
    <3>. QED
      BY <3>2, <3>3
  <2>5. Taken' = kvm.virtual_avail' .. kvm.virtual_avail' + 0 - 1
    BY <2>3, <2>4
  <2>. QED
    BY <1>0, <2>2, <2>5 DEF Packed
<1>2. ASSUME StayBoot, boot = "loaded", MapSteps PROVE Packed'
  <2>1. PICK pa \in Nat, n \in Nat \ {0} : ~Fails(n) /\ Mapped(pa, n) /\ Budget + n <= Budget'
    BY <1>2 DEF MapSteps
  <2>2. PICK u \in 0 .. Budget : Taken = kvm.virtual_avail .. kvm.virtual_avail + u - 1
    BY <1>2 DEF Packed
  <2>3. kvm' = kvm /\ boot' = boot
    BY <1>2 DEF StayBoot
  <2>. DEFINE va == Min(Room(n))
              new == [va |-> va, pa |-> pa, n |-> n]
  <2>4. va = kvm.virtual_avail + u /\ va \in Nat /\ kvm.virtual_avail <= va
    BY <1>0, <1>2, <2>1, <2>2, RoomBehind, RoomFacts DEF Up
  <2>5. maps' = maps \cup {new}
    BY <2>1 DEF Mapped
  <2>. HIDE DEF va
  <2>6. Taken' = Taken \cup (va .. va + n - 1)
    <3>1. new.va = va /\ new.n = n
      OBVIOUS
    <3>. HIDE DEF new
    <3>2. \A x : x \in Taken' <=> \E m \in maps' : x \in m.va .. m.va + m.n - 1
      BY DEF Taken
    <3>3. \A x : x \in Taken <=> \E m \in maps : x \in m.va .. m.va + m.n - 1
      BY DEF Taken
    <3>4. ASSUME NEW x PROVE x \in Taken' <=> x \in Taken \/ x \in va .. va + n - 1
      BY <2>5, <3>1, <3>2, <3>3, Zenon
    <3>. QED
      BY <3>4
  <2>7. kvm.virtual_avail \in Nat
    <3>1. End(shape) \in Nat /\ MSGPAGES \in Nat
      BY <1>0, Space, BootAssumption DEF LaidOut
    <3>. QED
      BY <1>0, <1>2, <3>1 DEF LaidOut, Up, Exported
  <2>8. Taken' = kvm.virtual_avail .. kvm.virtual_avail + (u + n) - 1
    BY <1>0, <2>2, <2>4, <2>6, <2>7
  <2>9. Budget' \in Int
    <3>1. Attached'
      BY <1>0, AttachedKeeps
    <3>. QED
      BY <3>1, BudgetNext
  <2>10. u + n \in 0 .. Budget'
    BY <1>0, <2>1, <2>9
  <2>. QED
    BY <2>3, <2>8, <2>10 DEF Packed
<1>3. ASSUME StayBoot, UNCHANGED maps, Budget <= Budget' PROVE Packed'
  <2>1. Budget' \in Int
    <3>1. Attached'
      BY <1>0, AttachedKeeps
    <3>. QED
      BY <3>1, BudgetNext
  <2>2. 0 .. Budget \subseteq 0 .. Budget'
    BY <1>0, <1>3, <2>1
  <2>3. kvm' = kvm /\ boot' = boot /\ Taken' = Taken
    BY <1>3 DEF StayBoot, Taken
  <2>. QED
    BY <2>2, <2>3 DEF Packed
<1>. QED
  BY <1>0, <1>1, <1>2, <1>3, Steps

(* Every window lies behind the addresses pmap_bootstrap sets aside, where  *)
(* the kernel page table reaches.                                           *)
LEMMA WindowsCovered ==
  ASSUME Placed, Packed, NEW w \in Windows
  PROVE  /\ w.va \in Nat /\ w.n \in Nat \ {0}
         /\ End(shape) + 3 <= w.va /\ w.va + w.n <= Covered(shape)
<1>0. /\ boot = "loaded" /\ LaidOut /\ Attached /\ Apart
      /\ shape \in Shapes /\ MSGPAGES \in Nat \ {0}
  BY BootAssumption DEF Windows, Placed, LaidOut
<1>1. End(shape) \in Nat /\ End(shape) + 3 + MSGPAGES <= Covered(shape) /\ Covered(shape) \in Nat
  BY <1>0, Space
<1>2. /\ kvm.virtual_avail = End(shape) + 3 + MSGPAGES
      /\ kvm.msgbufaddr = End(shape) + 3
  BY <1>0 DEF LaidOut, Up, Exported
<1>3. CASE w = MsgBuf
  BY <1>0, <1>1, <1>2, <1>3 DEF MsgBuf
<1>4. CASE w \in maps
  <2>1. w.va \in Nat /\ w.n \in Nat \ {0} /\ kvm.virtual_avail <= w.va
    BY <1>0, <1>4 DEF Apart
  <2>2. PICK u \in 0 .. Budget : Taken = kvm.virtual_avail .. kvm.virtual_avail + u - 1
    BY <1>0 DEF Packed
  <2>3. w.va + w.n - 1 \in Taken
    <3>1. w.va + w.n - 1 \in w.va .. w.va + w.n - 1
      BY <2>1
    <3>. QED
      BY <1>4, <3>1 DEF Taken
  <2>4. Budget \in 0 .. LEPAGES + 1 + ZSPAGES + MaxTries
    BY <1>0, BudgetType
  <2>5. LEPAGES \in Nat /\ ZSPAGES \in Nat /\ MaxTries \in Nat
    BY MainbusAssumption
  <2>6. End(shape) + 3 + MSGPAGES + LEPAGES + 1 + ZSPAGES + MaxTries <= Covered(shape)
    BY <1>0, RoomAssumption DEF End, Covered
  <2>7. u \in Nat /\ u <= LEPAGES + 1 + ZSPAGES + MaxTries
    BY <2>2, <2>4, <2>5
  <2>8. w.va + w.n <= kvm.virtual_avail + u
    <3>1. kvm.virtual_avail \in Nat /\ w.va + w.n - 1 \in Int
      BY <1>0, <1>1, <1>2, <2>1
    <3>2. w.va + w.n - 1 \in kvm.virtual_avail .. kvm.virtual_avail + u - 1
      BY <2>2, <2>3
    <3>. QED
      BY <2>1, <2>7, <3>1, <3>2
  <2>9. w.va + w.n <= Covered(shape)
    BY <1>0, <1>1, <1>2, <2>1, <2>5, <2>6, <2>7, <2>8
  <2>. QED
    BY <1>0, <1>1, <1>2, <2>1, <2>9
<1>. QED
  BY <1>0, <1>3, <1>4 DEF Windows

-----------------------------------------------------------------------------
(* What the kernel page table holds for a page of the kernel's addresses.   *)
Holds(va, e) ==
  IF va < Come THEN e = <<firstpa + va, IF va < shape.text THEN "RO" ELSE "RW">>
  ELSE /\ \A w \in Windows : va \in Within(w) => e = <<w.pa + va - w.va, "RW">>
       /\ (\A w \in Windows : va \notin Within(w)) =>
             e = NV \/ (va = End(shape) + 2 /\ rb # "up")

(* The pages that hold tables are the segment table, Sysptmap, the last     *)
(* page table and the kernel page table, and each holds what it should.     *)
TablePages == Kstpa(shape) .. Kstpa(shape) + 2 + Nptpages(shape)

(* Each entry of the kernel page table is right.                             *)
KernelTable ==
  \A q \in 0 .. Nptpages(shape) - 1, k \in Entries :
    Holds(q * NPTEPG + k, ram[Kstpa(shape) + 3 + q][k])

(* Each table is right as far as the bootstrap has come.                     *)
Tabled ==
  boot # "entry" =>
    /\ DOMAIN ram = TablePages
    /\ boot # "segments" =>
         \A k \in Entries : /\ ram[Kstpa(shape)][k] = Segments[k]
                            /\ ram[Kstpa(shape) + 1][k] = Segments[k]
    /\ boot \notin {"segments", "lastpage"} =>
         \A k \in Entries :
           ram[Kstpa(shape) + 2][k] = IF k = NPTEPG - 1 THEN <<MAXADDR, "RW">> ELSE NV
    /\ KernelTable

(* A page number from its table and its entry.                              *)
LEMMA PageNumber ==
  ASSUME NEW q \in Nat, NEW k \in Entries
  PROVE  q * NPTEPG + k \in Nat
BY BootAssumption DEF Entries

(* The page tables have an entry for every page they cover.                 *)
LEMMA Cell ==
  ASSUME NEW s \in Shapes, NEW va \in Nat, va < Covered(s)
  PROVE  /\ Seg(va) \in 0 .. Nptpages(s) - 1 /\ va % NPTEPG \in Entries
         /\ va = Seg(va) * NPTEPG + (va % NPTEPG)
<1>. DEFINE q == va \div NPTEPG
            k == va % NPTEPG
            n == Nptpages(s)
<1>1. NPTEPG \in Nat \ {0} /\ n \in Nat
  BY Space, BootAssumption
<1>2. q \in Nat /\ k \in 0 .. NPTEPG - 1 /\ va = q * NPTEPG + k
  BY <1>1, DivMod
<1>3. va < n * NPTEPG
  BY DEF Covered
<1>. HIDE DEF q, k, n
<1>4. ~(n <= q)
  <2>. SUFFICES ASSUME n <= q PROVE FALSE
    OBVIOUS
  <2>1. n * NPTEPG <= q * NPTEPG
    BY <1>1, <1>2, Times
  <2>2. n * NPTEPG \in Int /\ q * NPTEPG \in Int
    BY <1>1, <1>2
  <2>. QED
    BY <1>2, <1>3, <2>1, <2>2
<1>. QED
  BY <1>1, <1>2, <1>4 DEF Seg, Entries, q, k, n

(* Storing entries leaves the three other tables alone.                     *)
LEMMA StoredCells ==
  ASSUME LaidOut, boot # "entry", DOMAIN ram = TablePages,
         NEW lo \in Nat, NEW hi, NEW pa, NEW prot, ram' = Stored(lo, hi, pa, prot)
  PROVE  /\ DOMAIN ram' = TablePages
         /\ \A k \in Entries : /\ ram'[Kstpa(shape)][k] = ram[Kstpa(shape)][k]
                               /\ ram'[Kstpa(shape) + 1][k] = ram[Kstpa(shape) + 1][k]
                               /\ ram'[Kstpa(shape) + 2][k] = ram[Kstpa(shape) + 2][k]
         /\ \A q \in 0 .. Nptpages(shape) - 1, k \in Entries :
              LET va == q * NPTEPG + k
              IN  ram'[Kstpa(shape) + 3 + q][k]
                    = IF lo <= va /\ va < hi THEN <<pa + va - lo, prot>>
                      ELSE ram[Kstpa(shape) + 3 + q][k]
<1>. DEFINE K == Kstpa(shape)
            n == Nptpages(shape)
<1>1. K \in Nat /\ n \in Nat /\ NPTEPG \in Nat \ {0} /\ at.kptpa = K + 3
  <2>1. shape \in Shapes /\ NPTEPG \in Nat \ {0} /\ at.kptpa = K + 3
    BY BootAssumption DEF LaidOut, LocalsSet
  <2>. QED
    BY <2>1, Space
<1>. HIDE DEF K, n
<1>2. DOMAIN ram = K .. K + 2 + n
  BY DEF TablePages, K, n
<1>3. DOMAIN ram' = DOMAIN ram
  BY DEF Stored
<1>4. ASSUME NEW p \in DOMAIN ram, NEW k \in Entries
      PROVE  ram'[p][k] = LET i == (p - (K + 3)) * NPTEPG + k
                          IN  IF lo <= i /\ i < hi THEN <<pa + i - lo, prot>> ELSE ram[p][k]
  BY <1>1 DEF Stored
<1>5. ASSUME NEW p \in {K, K + 1, K + 2}, NEW k \in Entries
      PROVE ram'[p][k] = ram[p][k]
  <2>1. p \in DOMAIN ram /\ p - (K + 3) \in Int /\ p - (K + 3) <= -1
    BY <1>1, <1>2
  <2>2. (p - (K + 3)) * NPTEPG <= (-1) * NPTEPG
    BY <1>1, <2>1, Times
  <2>. DEFINE m == (p - (K + 3)) * NPTEPG
  <2>3. m \in Int /\ m <= -NPTEPG
    BY <1>1, <2>1, <2>2
  <2>. HIDE DEF m
  <2>4. m + k < 0
    BY <1>1, <2>3 DEF Entries
  <2>5. ~(lo <= m + k)
    BY <1>1, <2>3, <2>4 DEF Entries
  <2>. QED
    BY <1>4, <2>1, <2>5 DEF m
<1>6. ASSUME NEW q \in 0 .. n - 1, NEW k \in Entries
      PROVE  LET va == q * NPTEPG + k
             IN  ram'[K + 3 + q][k]
                   = IF lo <= va /\ va < hi THEN <<pa + va - lo, prot>> ELSE ram[K + 3 + q][k]
  <2>. DEFINE p == K + 3 + q
  <2>1. p \in DOMAIN ram /\ p - (K + 3) = q
    BY <1>1, <1>2
  <2>. HIDE DEF p
  <2>2. ram'[p][k] = LET va == q * NPTEPG + k
                     IN  IF lo <= va /\ va < hi THEN <<pa + va - lo, prot>> ELSE ram[p][k]
    BY <1>4, <2>1
  <2>. QED
    BY <2>2 DEF p
<1>. QED
  BY <1>2, <1>3, <1>5, <1>6 DEF K, n, TablePages

(* Before wrap030_init there are no windows, and no dump.                    *)
LEMMA HoldsEarly ==
  ASSUME Attached, boot # "loaded", NEW va, NEW e
  PROVE  Holds(va, e) <=> IF va < Come
                          THEN e = <<firstpa + va, IF va < shape.text THEN "RO" ELSE "RW">>
                          ELSE e = NV
<1>1. Windows = {} /\ rb = "up"
  BY DEF Windows, Attached
<1>. QED
  BY <1>1 DEF Holds

(* A loop of pmap_bootstrap brings the kernel page table as far as it goes. *)
LEMMA ValidateTabled ==
  ASSUME LaidOut, Attached, Tabled, Attached', boot \in {"text", "data", "tables"},
         boot' \in {"data", "tables", "exports"}, NEW epte \in Nat, Come <= epte,
         Come' = epte, NEW next, Validate(epte, "RW", next),
         \A va \in Come .. epte - 1 : Protected = IF va < shape.text THEN "RO" ELSE "RW"
  PROVE  Tabled'
<1>. DEFINE K == Kstpa(shape)
            n == Nptpages(shape)
<1>1. /\ ram' = Stored(pte, epte, protopte[1], protopte[2])
      /\ UNCHANGED <<shape, at>>
  BY DEF Validate
<1>2. pte = Come /\ protopte[1] = firstpa + Come /\ protopte[2] = Protected
  BY DEF LaidOut
<1>3. Come \in Nat /\ firstpa \in Nat /\ shape.text \in Nat /\ n \in Nat
  <2>1. shape \in Shapes /\ UPAGES \in Nat /\ firstpa \in Nat
    BY BootAssumption DEF LaidOut
  <2>2. /\ shape.text \in Nat /\ shape.image \in Nat /\ End(shape) \in Nat
        /\ Nptpages(shape) \in Nat
    BY <2>1, Space
  <2>. QED
    BY <2>1, <2>2 DEF Come
<1>4. DOMAIN ram = TablePages /\ KernelTable
  BY DEF Tabled
<1>5. /\ DOMAIN ram' = TablePages
      /\ \A k \in Entries : /\ ram'[K][k] = ram[K][k]
                            /\ ram'[K + 1][k] = ram[K + 1][k]
                            /\ ram'[K + 2][k] = ram[K + 2][k]
      /\ \A q \in 0 .. n - 1, k \in Entries :
           LET va == q * NPTEPG + k
           IN  ram'[K + 3 + q][k]
                 = IF Come <= va /\ va < epte THEN <<(firstpa + Come) + va - Come, Protected>>
                   ELSE ram[K + 3 + q][k]
  BY <1>1, <1>2, <1>3, <1>4, StoredCells
<1>6. ASSUME NEW q \in 0 .. n - 1, NEW k \in Entries
      PROVE  Holds(q * NPTEPG + k, ram[K + 3 + q][k])'
  <2>. DEFINE va == q * NPTEPG + k
              e == ram[K + 3 + q][k]
              f == ram'[K + 3 + q][k]
  <2>1. va \in Nat
    BY <1>3, PageNumber
  <2>2. Holds(va, e)
    BY <1>4 DEF KernelTable
  <2>3. f = IF Come <= va /\ va < epte THEN <<(firstpa + Come) + va - Come, Protected>> ELSE e
    BY <1>5
  <2>. HIDE DEF va, e, f
  <2>4. IF va < Come THEN e = <<firstpa + va, IF va < shape.text THEN "RO" ELSE "RW">>
        ELSE e = NV
    BY <2>2, HoldsEarly
  <2>5. IF va < epte THEN f = <<firstpa + va, IF va < shape.text THEN "RO" ELSE "RW">>
        ELSE f = NV
    <3>1. CASE va < Come
      BY <1>3, <2>1, <2>3, <2>4, <3>1
    <3>2. CASE Come <= va /\ va < epte
      <4>1. va \in Come .. epte - 1 /\ (firstpa + Come) + va - Come = firstpa + va
        BY <1>3, <2>1, <3>2
      <4>. QED
        BY <2>3, <3>2, <4>1
    <3>3. CASE epte <= va
      BY <1>3, <2>1, <2>3, <2>4, <3>3
    <3>. QED
      BY <1>3, <2>1, <3>1, <3>2, <3>3
  <2>6. Windows' = {} /\ rb' = "up"
    BY DEF Windows, Attached
  <2>. QED
    BY <1>1, <2>5, <2>6 DEF Holds, va, f
<1>7. shape' = shape /\ K' = K /\ n' = n /\ Segments' = Segments /\ TablePages' = TablePages
  BY <1>1 DEF Kstpa, Nptpages, Segments, TablePages
<1>8. KernelTable'
  BY <1>6, <1>7 DEF KernelTable
<1>. HIDE DEF K, n
<1>. QED
  BY <1>5, <1>7, <1>8 DEF Tabled, K, n

(* The entries of a new window, apart from the windows there are.           *)
LEMMA WindowStored ==
  ASSUME LaidOut, Up, Tabled, NEW v, v.va \in Nat, v.n \in Nat \ {0}, End(shape) <= v.va,
         \A w \in Windows : Within(w) \cap Within(v) = {},
         ram' = Stored(v.va, v.va + v.n, v.pa, "RW"), Windows' = Windows \cup {v},
         boot' = "loaded", UNCHANGED <<shape, at, rb>>
  PROVE  Tabled'
<1>. DEFINE K == Kstpa(shape)
            n == Nptpages(shape)
<1>1. Come = End(shape) /\ Come' = End(shape)
  BY DEF Up, Come, Done, End, Nptpages
<1>2. n \in Nat /\ End(shape) \in Nat
  BY Space DEF LaidOut
<1>3. DOMAIN ram = TablePages /\ KernelTable /\ boot # "entry"
  BY DEF Tabled, Up
<1>4. /\ DOMAIN ram' = TablePages
      /\ \A k \in Entries : /\ ram'[K][k] = ram[K][k]
                            /\ ram'[K + 1][k] = ram[K + 1][k]
                            /\ ram'[K + 2][k] = ram[K + 2][k]
      /\ \A q \in 0 .. n - 1, k \in Entries :
           LET va == q * NPTEPG + k
           IN  ram'[K + 3 + q][k]
                 = IF v.va <= va /\ va < v.va + v.n THEN <<v.pa + va - v.va, "RW">>
                   ELSE ram[K + 3 + q][k]
  BY <1>3, StoredCells
<1>5. ASSUME NEW q \in 0 .. n - 1, NEW k \in Entries
      PROVE  Holds(q * NPTEPG + k, ram[K + 3 + q][k])'
  <2>. DEFINE va == q * NPTEPG + k
              e == ram[K + 3 + q][k]
              f == ram'[K + 3 + q][k]
  <2>1. va \in Nat
    BY <1>2, PageNumber
  <2>2. Holds(va, e)
    BY <1>3 DEF KernelTable
  <2>3. f = IF v.va <= va /\ va < v.va + v.n THEN <<v.pa + va - v.va, "RW">> ELSE e
    BY <1>4
  <2>. HIDE DEF va, e, f
  <2>4. va \in Within(v) <=> v.va <= va /\ va < v.va + v.n
    BY <2>1 DEF Within
  <2>5. CASE va < Come
    <3>1. f = e
      BY <1>1, <1>2, <2>1, <2>3, <2>5
    <3>. QED
      BY <1>1, <2>2, <2>5, <3>1 DEF Holds, va, f
  <2>6. CASE ~(va < Come)
    <3>1. \A w \in Windows : va \in Within(w) => e = <<w.pa + va - w.va, "RW">>
      BY <2>2, <2>6 DEF Holds
    <3>2. (\A w \in Windows : va \notin Within(w))
             => e = NV \/ (va = End(shape) + 2 /\ rb # "up")
      BY <2>2, <2>6 DEF Holds
    <3>3. \A w \in Windows' : va \in Within(w) => f = <<w.pa + va - w.va, "RW">>
      BY <2>3, <2>4, <3>1
    <3>4. (\A w \in Windows' : va \notin Within(w))
             => f = NV \/ (va = End(shape) + 2 /\ rb # "up")
      BY <2>3, <2>4, <3>2
    <3>5. End(shape)' = End(shape)
      BY DEF End, Nptpages
    <3>. QED
      BY <1>1, <2>6, <3>3, <3>4, <3>5 DEF Holds, Within, va, f
  <2>. QED
    BY <2>5, <2>6
<1>6. shape' = shape /\ K' = K /\ n' = n /\ Segments' = Segments /\ TablePages' = TablePages
  BY DEF Kstpa, Nptpages, Segments, TablePages
<1>7. KernelTable'
  BY <1>5, <1>6 DEF KernelTable
<1>. HIDE DEF K, n
<1>. QED
  BY <1>4, <1>6, <1>7 DEF Tabled, Up, K, n

(* There are no tables at first.                                             *)
LEMMA TabledInit == MachineInit => Tabled
BY DEF MachineInit, Init, Tabled

(* Every stage of the bootstrap leaves the tables as they should be.         *)
LEMMA BootTabled ==
  ASSUME Placed, Tabled, Placed', Bootstrap, UNCHANGED <<busVars, rebootVars>>
  PROVE  Tabled'
<1>. DEFINE K == Kstpa(shape)
            n == Nptpages(shape)
<1>0. LaidOut /\ Attached /\ LaidOut' /\ Attached' /\ maps' = maps /\ rb' = rb
  BY DEF Placed, busVars, rebootVars
<1>1. shape \in Shapes /\ {firstpa, UPAGES} \subseteq Nat /\ NPTEPG \in Nat \ {0}
  BY <1>0, BootAssumption DEF LaidOut
<1>2. /\ K \in Nat /\ n \in Nat \ {0} /\ shape.text \in Nat /\ shape.image \in Nat
      /\ shape.text <= shape.image /\ shape.image + UPAGES \in Nat
      /\ End(shape) \in Nat /\ shape.image + UPAGES <= End(shape)
  <2>1. /\ K \in Nat /\ n \in Nat \ {0} /\ shape.text \in Nat /\ shape.image \in Nat
        /\ shape.text <= shape.image /\ End(shape) \in Nat
    BY <1>1, Space
  <2>. QED
    BY <1>1, <2>1 DEF End
<1>3. ASSUME Layout PROVE Tabled'
  <2>1. /\ boot' = "segments" /\ shape' = shape
        /\ ram' = [p \in at'.kstpa .. at'.kstpa + 2 + at'.nptpages |-> Invalid]
    BY <1>3 DEF Layout
  <2>2. at'.kstpa = K /\ at'.nptpages = n
    BY <1>0, <2>1 DEF LaidOut, LocalsSet, Kstpa, Nptpages
  <2>. HIDE DEF K, n
  <2>3. ram' = [p \in K .. K + 2 + n |-> Invalid]
    BY <2>1, <2>2
  <2>4. ASSUME NEW q \in 0 .. n - 1, NEW k \in Entries PROVE ram'[K + 3 + q][k] = NV
    BY <1>2, <2>3, <2>4 DEF Invalid
  <2>5. Come' = 0 /\ Windows' = {}
    BY <2>1 DEF Come, Done, Windows
  <2>6. K' = K /\ n' = n
    BY <2>1 DEF K, n, Kstpa, Nptpages
  <2>7. ASSUME NEW q \in 0 .. n - 1, NEW k \in Entries
        PROVE  Holds(q * NPTEPG + k, ram[K + 3 + q][k])'
    <3>1. q * NPTEPG + k \in Nat
      BY <1>2, PageNumber
    <3>. QED
      BY <2>4, <2>5, <2>6, <3>1 DEF Holds
  <2>8. KernelTable'
    BY <2>6, <2>7 DEF KernelTable, K, n
  <2>. QED
    BY <2>1, <2>3, <2>6, <2>8 DEF Tabled, TablePages, K, n
<1>4. ASSUME boot # "entry", boot' \notin {"entry", "loaded"}, boot # "loaded",
             Come' = Come, shape' = shape, at' = at,
             \A q \in 0 .. n - 1, k \in Entries : ram'[K + 3 + q][k] = ram[K + 3 + q][k]
      PROVE  KernelTable'
  <2>1. Windows = {} /\ Windows' = {} /\ K' = K /\ n' = n /\ End(shape)' = End(shape)
    BY <1>4 DEF Windows, Kstpa, Nptpages, End
  <2>2. KernelTable
    BY <1>4 DEF Tabled
  <2>3. ASSUME NEW q \in 0 .. n - 1, NEW k \in Entries
        PROVE  Holds(q * NPTEPG + k, ram[K + 3 + q][k])'
    <3>1. Holds(q * NPTEPG + k, ram[K + 3 + q][k])
      BY <2>2 DEF KernelTable
    <3>2. ram'[K' + 3 + q][k] = ram[K + 3 + q][k]
      BY <1>4, <2>1
    <3>. HIDE DEF K
    <3>. QED
      BY <1>0, <1>4, <2>1, <3>1, <3>2 DEF Holds
  <2>. QED
    BY <2>1, <2>3 DEF KernelTable
<1>5. ASSUME SegmentTables PROVE Tabled'
  <2>1. /\ boot = "segments" /\ boot' = "lastpage" /\ shape' = shape /\ at' = at
        /\ ram' = [ram EXCEPT ![at.kstpa] = Segments, ![at.kptmpa] = Segments]
    BY <1>5 DEF SegmentTables
  <2>2. at.kstpa = K /\ at.kptmpa = K + 1 /\ DOMAIN ram = K .. K + 2 + n
    BY <1>0, <2>1 DEF LaidOut, LocalsSet, Tabled, TablePages
  <2>3. Come' = Come /\ K' = K /\ n' = n /\ Segments' = Segments
    BY <2>1 DEF Come, Done, Kstpa, Nptpages, Segments
  <2>. HIDE DEF K, n
  <2>4. ram' = [ram EXCEPT ![K] = Segments, ![K + 1] = Segments]
    BY <2>1, <2>2
  <2>5. /\ DOMAIN ram' = K .. K + 2 + n /\ ram'[K] = Segments /\ ram'[K + 1] = Segments
        /\ \A q \in 0 .. n - 1 : ram'[K + 3 + q] = ram[K + 3 + q]
    BY <1>2, <2>2, <2>4
  <2>6. KernelTable'
    BY <1>4, <2>1, <2>3, <2>5
  <2>. QED
    BY <2>1, <2>3, <2>5, <2>6 DEF Tabled, TablePages, K, n
<1>6. ASSUME LastPage PROVE Tabled'
  <2>1. /\ boot = "lastpage" /\ boot' = "text" /\ shape' = shape /\ at' = at
        /\ ram' = [ram EXCEPT ![at.lkptpa] = [Invalid EXCEPT ![NPTEPG - 1] = <<MAXADDR, "RW">>]]
    BY <1>6 DEF LastPage
  <2>2. at.lkptpa = K + 2 /\ DOMAIN ram = K .. K + 2 + n
    BY <1>0, <2>1 DEF LaidOut, LocalsSet, Tabled, TablePages
  <2>3. Come' = Come /\ K' = K /\ n' = n /\ Segments' = Segments
    BY <2>1 DEF Come, Done, Kstpa, Nptpages, Segments
  <2>4. \A k \in Entries : ram[K][k] = Segments[k] /\ ram[K + 1][k] = Segments[k]
    BY <2>1 DEF Tabled
  <2>. HIDE DEF K, n
  <2>5. /\ DOMAIN ram' = K .. K + 2 + n /\ ram'[K] = ram[K] /\ ram'[K + 1] = ram[K + 1]
        /\ ram'[K + 2] = [Invalid EXCEPT ![NPTEPG - 1] = <<MAXADDR, "RW">>]
        /\ \A q \in 0 .. n - 1 : ram'[K + 3 + q] = ram[K + 3 + q]
    BY <1>2, <2>1, <2>2
  <2>6. \A k \in Entries : ram'[K + 2][k] = IF k = NPTEPG - 1 THEN <<MAXADDR, "RW">> ELSE NV
    BY <2>5 DEF Invalid
  <2>7. KernelTable'
    BY <1>4, <2>1, <2>3, <2>5
  <2>8. \A k \in Entries : ram'[K][k] = Segments[k] /\ ram'[K + 1][k] = Segments[k]
    BY <2>4, <2>5
  <2>9. /\ Segments' = Segments /\ TablePages' = K .. K + 2 + n
        /\ Kstpa(shape)' = K /\ Kstpa(shape') = K
    BY <2>1, <2>3 DEF TablePages, K, n
  <2>. HIDE DEF Segments, TablePages
  <2>. QED
    BY <2>1, <2>5, <2>6, <2>7, <2>8, <2>9 DEF Tabled
<1>7. ASSUME Text PROVE Tabled'
  <2>1. boot = "text" /\ boot' = "data" /\ shape' = shape /\ Validate(shape.text, "RW", "data")
    BY <1>7 DEF Text, Validate
  <2>2. Come = 0 /\ Come' = shape.text /\ Protected = "RO"
    BY <2>1 DEF Come, Done, Protected
  <2>3. \A va \in Come .. shape.text - 1 : Protected = IF va < shape.text THEN "RO" ELSE "RW"
    BY <1>2, <2>2
  <2>. QED
    BY <1>0, <1>2, <2>1, <2>2, <2>3, ValidateTabled
<1>8. ASSUME Data PROVE Tabled'
  <2>1. /\ boot = "data" /\ boot' = "tables" /\ shape' = shape
        /\ Validate(at.kstpa - firstpa, "RW", "tables")
    BY <1>8 DEF Data, Validate
  <2>2. at.kstpa - firstpa = shape.image + UPAGES
    BY <1>0, <1>1, <1>2, <2>1 DEF LaidOut, LocalsSet, Kstpa
  <2>3. Come = shape.text /\ Come' = shape.image + UPAGES /\ Protected = "RW"
    BY <2>1 DEF Come, Done, Protected
  <2>4. \A va \in Come .. shape.image + UPAGES - 1 :
          Protected = IF va < shape.text THEN "RO" ELSE "RW"
    BY <1>2, <2>3
  <2>5. Come <= shape.image + UPAGES
    BY <1>1, <1>2, <2>3
  <2>. QED
    BY <1>0, <1>2, <2>1, <2>2, <2>3, <2>4, <2>5, ValidateTabled
<1>9. ASSUME Tables PROVE Tabled'
  <2>1. /\ boot = "tables" /\ boot' = "exports" /\ shape' = shape
        /\ Validate(at.nextpa - firstpa, "RW", "exports")
    BY <1>9 DEF Tables, Validate
  <2>2. at.nextpa - firstpa = End(shape)
    BY <1>0, <1>1, <1>2, <2>1 DEF LaidOut, LocalsSet
  <2>3. Come = shape.image + UPAGES /\ Come' = End(shape) /\ Protected = "RW"
    BY <2>1 DEF Come, Done, Protected, End, Nptpages
  <2>4. \A va \in Come .. End(shape) - 1 : Protected = IF va < shape.text THEN "RO" ELSE "RW"
    BY <1>1, <1>2, <2>3
  <2>. QED
    BY <1>0, <1>2, <2>1, <2>2, <2>3, <2>4, ValidateTabled
<1>10. ASSUME Exports PROVE Tabled'
  <2>1. boot = "exports" /\ boot' = "mmu" /\ shape' = shape /\ at' = at /\ ram' = ram
    BY <1>10 DEF Exports
  <2>2. /\ Come' = Come /\ K' = K /\ n' = n /\ Segments' = Segments
        /\ TablePages' = TablePages
    BY <2>1 DEF Come, Done, Kstpa, Nptpages, Segments, End, TablePages
  <2>3. KernelTable'
    BY <1>4, <2>1, <2>2
  <2>. QED
    BY <2>1, <2>2, <2>3 DEF Tabled
<1>11. ASSUME Physload PROVE Tabled'
  <2>1. /\ boot = "mmu" /\ boot' = "loaded" /\ UNCHANGED <<shape, at, kvm>>
        /\ ram' = Stored(kvm.msgbufaddr, kvm.msgbufaddr + MSGPAGES, kvm.avail_end, "RW")
    BY <1>11 DEF Physload, KEntered
  <2>2. kvm.msgbufaddr = End(shape) + 3
    BY <1>0, <2>1 DEF LaidOut, Up, Exported
  <2>3. Windows = {} /\ Windows' = {} \cup {MsgBuf}
    BY <1>0, <2>1 DEF Windows, Attached, MsgBuf
  <2>4. MsgBuf.va = kvm.msgbufaddr /\ MsgBuf.n = MSGPAGES /\ MsgBuf.pa = kvm.avail_end
    BY DEF MsgBuf
  <2>5. MSGPAGES \in Nat \ {0} /\ MsgBuf.va \in Nat /\ End(shape) <= MsgBuf.va
    BY <1>2, <2>2, <2>4, BootAssumption
  <2>. QED
    BY <1>0, <2>1, <2>3, <2>4, <2>5, WindowStored DEF Up
<1>. QED
  BY <1>3, <1>5, <1>6, <1>7, <1>8, <1>9, <1>10, <1>11 DEF Bootstrap

(* A page entered at vmmap lies before every window.                        *)
LEMMA VmmapStored ==
  ASSUME Placed, Packed, Tabled, boot = "loaded", StayBoot, maps' = maps, rb # "up", rb' # "up",
         NEW pa \in Nat, ram' = KEntered(kvm.vmmap, pa, 1)
  PROVE  /\ Tabled'
         /\ \E q \in 0 .. Nptpages(shape) - 1, k \in Entries :
              /\ kvm.vmmap = q * NPTEPG + k
              /\ ram'[Kstpa(shape) + 3 + q][k] = <<pa, "RW">>
<1>. DEFINE K == Kstpa(shape)
            n == Nptpages(shape)
            v == End(shape) + 2
<1>0. LaidOut /\ shape \in Shapes /\ UNCHANGED <<boot, shape, at, kvm>> /\ NPTEPG \in Nat \ {0}
  BY BootAssumption DEF Placed, LaidOut, StayBoot
<1>1. /\ n \in Nat /\ End(shape) \in Nat /\ v \in Nat /\ v < Covered(shape)
  BY <1>0, Space, BootAssumption
<1>2. kvm.vmmap = v
  BY <1>0 DEF LaidOut, Up, Exported
<1>3. DOMAIN ram = TablePages /\ KernelTable /\ boot # "entry"
  BY DEF Tabled
<1>. HIDE DEF v
<1>4. ram' = Stored(v, v + 1, pa, "RW")
  BY <1>2 DEF KEntered
<1>5. /\ DOMAIN ram' = TablePages
      /\ \A k \in Entries : /\ ram'[K][k] = ram[K][k]
                            /\ ram'[K + 1][k] = ram[K + 1][k]
                            /\ ram'[K + 2][k] = ram[K + 2][k]
      /\ \A q \in 0 .. n - 1, k \in Entries :
           LET va == q * NPTEPG + k
           IN  ram'[K + 3 + q][k]
                 = IF v <= va /\ va < v + 1 THEN <<pa + va - v, "RW">> ELSE ram[K + 3 + q][k]
  BY <1>0, <1>1, <1>3, <1>4, StoredCells
<1>6. /\ Windows' = Windows /\ Come' = Come /\ End(shape)' = End(shape) /\ Come = End(shape)
      /\ K' = K /\ n' = n /\ Segments' = Segments /\ TablePages' = TablePages
  BY <1>0
    DEF Windows, MsgBuf, Come, Done, End, Nptpages, Kstpa, Segments, TablePages
<1>7. ASSUME NEW q \in 0 .. n - 1, NEW k \in Entries
      PROVE  Holds(q * NPTEPG + k, ram[K + 3 + q][k])'
  <2>. DEFINE va == q * NPTEPG + k
              e == ram[K + 3 + q][k]
              f == ram'[K + 3 + q][k]
  <2>1. va \in Nat
    BY <1>1, PageNumber
  <2>2. Holds(va, e)
    BY <1>3 DEF KernelTable
  <2>3. va # v => f = e
    <3>1. f = IF v <= va /\ va < v + 1 THEN <<pa + va - v, "RW">> ELSE e
      BY <1>5
    <3>. HIDE DEF va, e, f
    <3>. QED
      BY <1>1, <2>1, <3>1
  <2>. HIDE DEF va, e, f
  <2>4. CASE va # v
    BY <1>0, <1>6, <2>2, <2>3, <2>4 DEF Holds, Within, va, f
  <2>5. CASE va = v
    <3>1. ~(va < Come)
      BY <1>1, <1>6, <2>5 DEF v
    <3>2. \A w \in Windows : va \notin Within(w)
      BY <1>1, <2>5, WindowsCovered DEF Within, v
    <3>. QED
      BY <1>6, <2>5, <3>1, <3>2 DEF Holds, Within, va, v
  <2>. QED
    BY <2>4, <2>5
<1>8. KernelTable'
  BY <1>6, <1>7 DEF KernelTable
<1>9. Tabled'
  <2>. HIDE DEF K, n
  <2>. QED
    BY <1>0, <1>3, <1>5, <1>6, <1>8 DEF Tabled, K, n
<1>10. PICK q \in 0 .. n - 1, k \in Entries : v = q * NPTEPG + k
  BY <1>0, <1>1, Cell DEF n
<1>11. ram'[K + 3 + q][k] = <<pa, "RW">>
  <2>1. ram'[K + 3 + q][k]
          = IF v <= v /\ v < v + 1 THEN <<pa + v - v, "RW">> ELSE ram[K + 3 + q][k]
    BY <1>5, <1>10
  <2>. QED
    BY <1>1, <2>1
<1>. QED
  BY <1>2, <1>9, <1>10, <1>11

-----------------------------------------------------------------------------
(* The sizes of the dump: it starts behind the first CLBYTES and, on a      *)
(* device cpu_dumpconf has accepted, ends on it.                            *)
Sized ==
  /\ dumpsize \in Int /\ dumplo \in Nat
  /\ dumpdev \in DOMAIN Devices \cup {NODEV}
  /\ dumpsize # 0 => ctod(1) <= dumplo
  /\ dumpdev # NODEV /\ Devices[dumpdev] > ctod(1) /\ dumpsize > 0
       => dumplo + ctod(dumpsize) <= Devices[dumpdev]

(* Where dumpsys is: the page, its address and its block go together.       *)
Dumping ==
  /\ dump # {} => dumpsize > 0 /\ rb # "up"
  /\ rb = "dump" => /\ pg \in Nat /\ maddr = firstpa + pg /\ blkno = dumplo + ctod(pg)
                    /\ dumpdev # NODEV /\ dumpsize # 0

(* cpu_dumpconf leaves sizes that fit the device it accepts, and leaves the  *)
(* sizes of the device before when it accepts none.                          *)
LEMMA DumpConfSized ==
  ASSUME Sized, NEW dev \in DOMAIN Devices \cup {NODEV}, dumpdev' = dev, DumpConf(dev),
         shape \in Shapes
  PROVE  Sized'
<1>1. BLOCKS \in Nat \ {0} /\ Devices \in [DOMAIN Devices -> Int] /\ NODEV \notin DOMAIN Devices
  BY RebootAssumption
<1>2. CASE dev = NODEV \/ Devices[dev] <= ctod(1)
  <2>1. dumpsize' = dumpsize /\ dumplo' = dumplo
    BY <1>2 DEF DumpConf
  <2>2. dev # NODEV => Devices[dev] \in Int
    BY <1>1
  <2>3. ~(dev # NODEV /\ Devices[dev] > ctod(1))
    BY <1>1, <1>2, <2>2 DEF ctod
  <2>. QED
    BY <2>1, <2>3 DEF Sized
<1>3. CASE ~(dev = NODEV \/ Devices[dev] <= ctod(1))
  <2>. DEFINE nblks == Devices[dev]
              lo    == Larger(dumplo, ctod(1))
              size  == Fits(nblks, lo)
              room  == dtoc(nblks - lo)
  <2>1. dumpsize' = size /\ dumplo' = Larger(lo, nblks - ctod(size)) /\ nblks \in Int
    BY <1>1, <1>3 DEF DumpConf
  <2>2. ctod(1) \in Nat /\ ctod(1) = BLOCKS
    BY <1>1 DEF ctod
  <2>3. lo \in Nat /\ ctod(1) <= lo
    BY <2>2 DEF Sized, Larger
  <2>. HIDE DEF nblks, lo
  <2>4. room \in Int /\ ctod(room) <= nblks - lo
    <3>1. nblks - lo \in Int
      BY <2>1, <2>3
    <3>. QED
      BY <1>1, <3>1, Floor DEF dtoc, ctod
  <2>5. size = Smaller(shape.ram + 1, room) /\ shape.ram \in Nat
    BY Space DEF Fits
  <2>. HIDE DEF size, room
  <2>6. size \in Int /\ size <= room
    BY <2>4, <2>5 DEF Smaller
  <2>7. ctod(size) \in Int /\ ctod(room) \in Int /\ ctod(size) <= ctod(room)
    BY <1>1, <2>4, <2>6, Times DEF ctod
  <2>8. lo <= nblks - ctod(size)
    BY <2>1, <2>3, <2>4, <2>7
  <2>9. dumplo' = nblks - ctod(size) /\ dumplo' \in Nat /\ ctod(1) <= dumplo'
    BY <2>1, <2>2, <2>3, <2>7, <2>8 DEF Larger
  <2>10. dumplo' + ctod(dumpsize') <= nblks
    BY <2>1, <2>7, <2>9
  <2>. QED
    BY <2>1, <2>6, <2>9, <2>10 DEF Sized, ctod, nblks
<1>. QED
  BY <1>2, <1>3

(* There is no dump at first, and no dump device.                            *)
LEMMA SizedInit == MachineInit => Sized /\ Dumping /\ DumpInPlace
BY DEF MachineInit, RebootInit, Sized, Dumping, DumpInPlace

(* No step but cpu_dumpconf changes the sizes.                               *)
LEMMA SizedKeeps == ASSUME LaidOut, Sized, [Next]_vars PROVE Sized'
<1>0. shape \in Shapes
  BY DEF LaidOut
<1>1. ASSUME SetDumpDev PROVE Sized'
  BY <1>0, <1>1, DumpConfSized DEF SetDumpDev
<1>2. ASSUME High PROVE Sized'
  <2>1. dumpdev' = dumpdev /\ (DumpConf(dumpdev) \/ UNCHANGED <<dumpsize, dumplo>>)
    BY <1>2 DEF High
  <2>. QED
    BY <1>0, <2>1, DumpConfSized DEF Sized
<1>3. ASSUME UNCHANGED <<dumpdev, dumpsize, dumplo>> PROVE Sized'
  BY <1>3 DEF Sized
<1>. QED
  BY <1>1, <1>2, <1>3
    DEF Next, Accessed, Shutdown, Reboot, Panic, Synced, Dumped, Succeeded,
     DoBoot, vars, rebootVars

(* dumpsys counts pages, addresses and blocks together, however often a      *)
(* panic makes it begin again.                                               *)
LEMMA DumpingKeeps ==
  ASSUME LaidOut, Sized, Dumping, [Next]_vars
  PROVE  Dumping'
<1>0. firstpa \in Nat /\ BLOCKS \in Nat /\ Sized'
  BY BootAssumption, RebootAssumption, SizedKeeps
<1>1. ASSUME SetDumpDev PROVE Dumping'
  BY <1>1 DEF SetDumpDev, Dumping
<1>2. ASSUME Reboot \/ Panic PROVE Dumping'
  BY <1>2 DEF Reboot, Panic, Enter, Dumping
<1>3. ASSUME Synced \/ Succeeded \/ DoBoot PROVE Dumping'
  BY <1>3 DEF Synced, Succeeded, DoBoot, Dumping
<1>4. ASSUME High PROVE Dumping'
  <2>1. dump' = dump /\ dumpdev' = dumpdev /\ rb' # "up"
    BY <1>4 DEF High
  <2>2. dump # {} => dumpsize' = dumpsize
    BY <1>4 DEF High, Dumping
  <2>3. ASSUME rb' = "dump"
        PROVE  /\ pg' = 0 /\ maddr' = firstpa /\ blkno' = dumplo'
               /\ dumpdev # NODEV /\ dumpsize' # 0
    BY <1>4, <2>3 DEF High, Usable
  <2>4. dumplo' \in Nat /\ ctod(0) = 0
    BY <1>0 DEF Sized, ctod
  <2>5. rb' = "dump" => blkno' = dumplo' + ctod(pg') /\ maddr' = firstpa + pg' /\ pg' \in Nat
    BY <1>0, <2>3, <2>4
  <2>. QED
    BY <2>1, <2>2, <2>3, <2>5 DEF Dumping, ctod
<1>5. ASSUME Dumped PROVE Dumping'
  <2>1. /\ pg \in Nat /\ maddr = firstpa + pg /\ blkno = dumplo + ctod(pg)
        /\ dumpdev # NODEV /\ dumpsize # 0 /\ pg < dumpsize /\ rb = "dump"
        /\ UNCHANGED <<dumpdev, dumpsize, dumplo>>
    BY <1>5 DEF Dumped, Dumping
  <2>2. dumpsize > 0 /\ dumpsize \in Int /\ dumplo \in Nat
    BY <2>1 DEF Sized
  <2>3. \/ pg' = pg + 1 /\ maddr' = maddr + 1 /\ blkno' = blkno + BLOCKS /\ rb' = rb
        \/ rb' = "hooks"
    BY <1>5 DEF Dumped
  <2>4. ctod(pg + 1) = ctod(pg) + BLOCKS /\ ctod(pg) \in Nat
    BY <1>0, <2>1 DEF ctod
  <2>5. rb' = "dump" => pg' \in Nat /\ maddr' = firstpa + pg' /\ blkno' = dumplo' + ctod(pg')
    BY <1>0, <2>1, <2>2, <2>3, <2>4
  <2>6. rb' # "up"
    BY <2>1, <2>3
  <2>. QED
    BY <2>1, <2>2, <2>5, <2>6 DEF Dumping, ctod
<1>6. ASSUME UNCHANGED rebootVars PROVE Dumping'
  BY <1>6 DEF Dumping, rebootVars, ctod
<1>. QED
  BY <1>1, <1>2, <1>3, <1>4, <1>5, <1>6 DEF Next, Accessed, Shutdown, vars

(* Every step keeps the tables right: mainbus_map and dumpsys enter pages    *)
(* only where nothing else is mapped.                                        *)
LEMMA TabledKeeps ==
  ASSUME Placed, Packed, Tabled, Dumping, [Next]_vars
  PROVE  Tabled'
<1>0. /\ Placed' /\ LaidOut /\ Attached /\ Apart
  BY LaidOutKeeps, AttachedKeeps, ApartKeeps DEF Placed
<1>1. ASSUME StayBoot, boot = "loaded", rb = "up", MapSteps, UNCHANGED rebootVars
      PROVE Tabled'
  <2>1. PICK pa \in Nat, n \in Nat \ {0} : ~Fails(n) /\ Mapped(pa, n)
    BY <1>1 DEF MapSteps
  <2>. DEFINE va == Min(Room(n))
              new == [va |-> va, pa |-> pa, n |-> n]
  <2>2. UNCHANGED <<boot, shape, at, kvm, rb>>
    BY <1>1 DEF StayBoot, rebootVars
  <2>3. /\ va \in Nat /\ kvm.virtual_avail <= va /\ (va .. va + n - 1) \cap Taken = {}
    BY <1>0, <1>1, <2>1, RoomFacts DEF Up
  <2>4. maps' = maps \cup {new} /\ ram' = Stored(va, va + n, pa, "RW")
    BY <2>1 DEF Mapped, MapPages, KEntered
  <2>. HIDE DEF va
  <2>5. new.va = va /\ new.n = n /\ new.pa = pa
    OBVIOUS
  <2>. HIDE DEF new
  <2>6. Windows' = Windows \cup {new}
    BY <1>1, <2>2, <2>4 DEF Windows, MsgBuf
  <2>7. /\ kvm.virtual_avail = End(shape) + 3 + MSGPAGES /\ kvm.msgbufaddr = End(shape) + 3
        /\ End(shape) \in Nat /\ MSGPAGES \in Nat \ {0}
    <3>1. shape \in Shapes /\ MSGPAGES \in Nat \ {0}
      BY <1>0, BootAssumption DEF LaidOut
    <3>. QED
      BY <1>0, <1>1, <3>1, Space DEF LaidOut, Up, Exported
  <2>8. Within(new) = va .. va + n - 1
    BY <2>5 DEF Within
  <2>9. ASSUME NEW w \in Windows PROVE Within(w) \cap Within(new) = {}
    <3>1. CASE w \in maps
      <4>1. Within(w) \subseteq Taken
        BY <3>1 DEF Within, Taken
      <4>. QED
        BY <2>3, <2>8, <4>1
    <3>2. CASE w = MsgBuf
      <4>1. Within(w) = End(shape) + 3 .. End(shape) + 3 + MSGPAGES - 1
        BY <2>7, <3>2 DEF Within, MsgBuf
      <4>. QED
        BY <2>3, <2>7, <2>8, <4>1
    <3>. QED
      BY <1>1, <3>1, <3>2 DEF Windows
  <2>10. End(shape) <= va
    BY <2>3, <2>7
  <2>. QED
    BY <1>0, <1>1, <2>2, <2>3, <2>4, <2>5, <2>6, <2>9, <2>10, WindowStored DEF Up
<1>2. ASSUME StayBoot, UNCHANGED maps, Dumped PROVE Tabled'
  <2>1. rb = "dump" /\ rb' # "up" /\ ram' = KEntered(kvm.vmmap, maddr, 1)
    BY <1>2 DEF Dumped
  <2>2. boot = "loaded" /\ maddr \in Nat
    <3>1. firstpa \in Nat
      BY BootAssumption
    <3>2. pg \in Nat /\ maddr = firstpa + pg
      BY <2>1 DEF Dumping
    <3>. QED
      BY <1>0, <2>1, <3>1, <3>2 DEF Attached
  <2>. QED
    BY <1>2, <2>1, <2>2, VmmapStored
<1>3. ASSUME StayBoot, UNCHANGED <<maps, ram>> PROVE Tabled'
  <2>1. UNCHANGED <<boot, shape, at, kvm>>
    BY <1>3 DEF StayBoot
  <2>2. rb # "up" => rb' # "up"
    BY DEF Next, Autoconf, InitClocks, LeAttach, ZsAttach, Device, GetEtherAddr,
       WdcAttach, ComAttach, Configured, Access, Bootstrap, Accessed, Shutdown, SetDumpDev,
       Reboot, Panic, Enter, Synced, High, Dumped, Succeeded, DoBoot, vars, rebootVars
  <2>3. /\ Windows' = Windows /\ Come' = Come /\ Segments' = Segments
        /\ TablePages' = TablePages /\ End(shape)' = End(shape)
        /\ Kstpa(shape)' = Kstpa(shape) /\ Nptpages(shape)' = Nptpages(shape)
    BY <1>3, <2>1
      DEF Windows, MsgBuf, Come, Done, End, Nptpages, Kstpa, Segments, TablePages
  <2>4. ASSUME KernelTable PROVE KernelTable'
    <3>1. ASSUME NEW q \in 0 .. Nptpages(shape) - 1, NEW k \in Entries
          PROVE  Holds(q * NPTEPG + k, ram[Kstpa(shape) + 3 + q][k])'
      <4>1. Holds(q * NPTEPG + k, ram[Kstpa(shape) + 3 + q][k])
        BY <2>4 DEF KernelTable
      <4>2. ram' = ram /\ shape' = shape
        BY <1>3, <2>1
      <4>. QED
        BY <2>2, <2>3, <4>1, <4>2 DEF Holds, Within
    <3>. QED
      BY <2>3, <3>1 DEF KernelTable
  <2>. QED
    BY <1>3, <2>1, <2>3, <2>4 DEF Tabled
<1>. QED
  BY <1>0, <1>1, <1>2, <1>3, BootTabled, Steps

-----------------------------------------------------------------------------
(* The inductive invariant of the machine.                                  *)
MachineIInv == Placed /\ Packed /\ Tabled /\ Sized /\ Dumping /\ DumpInPlace

(* Two quotients of pages of the kernel's addresses.                        *)
LEMMA Segs ==
  /\ Seg(SYSMAP_VA) \in Entries /\ Seg(MAXADDR) \in Entries
  /\ Seg(SYSMAP_VA) < Seg(MAXADDR) /\ SYSMAP_VA = Seg(SYSMAP_VA) * NPTEPG
  /\ MAXADDR = Seg(MAXADDR) * NPTEPG + (NPTEPG - 1)
  /\ \A va \in 0 .. TTBASE - 1 :
       /\ Seg(va) \in Entries /\ va % NPTEPG \in Entries
       /\ va = Seg(va) * NPTEPG + (va % NPTEPG)
<1>1. /\ NPTEPG \in Nat \ {0} /\ SYSMAP_VA \in Nat /\ MAXADDR \in Nat /\ TTBASE \in Nat
      /\ MAXADDR = TTBASE - 1 /\ TTBASE % NPTEPG = 0 /\ TTBASE <= NPTEPG * NPTEPG
      /\ SYSMAP_VA % NPTEPG = 0
  BY BootAssumption
<1>2. Seg(SYSMAP_VA) < Seg(MAXADDR)
  BY BootAssumption DEF Seg
<1>3. ASSUME NEW va \in 0 .. TTBASE - 1
      PROVE  /\ Seg(va) \in Entries /\ va % NPTEPG \in Entries
             /\ va = Seg(va) * NPTEPG + (va % NPTEPG)
  <2>. DEFINE q == va \div NPTEPG
              k == va % NPTEPG
  <2>1. va \in Nat /\ va < NPTEPG * NPTEPG
    BY <1>1
  <2>2. q \in Nat /\ k \in 0 .. NPTEPG - 1 /\ va = q * NPTEPG + k
    BY <1>1, <2>1, DivMod
  <2>. HIDE DEF q, k
  <2>3. ~(NPTEPG <= q)
    <3>. SUFFICES ASSUME NPTEPG <= q PROVE FALSE
      OBVIOUS
    <3>1. NPTEPG * NPTEPG <= q * NPTEPG
      BY <1>1, <2>2, Times
    <3>2. NPTEPG * NPTEPG \in Int /\ q * NPTEPG \in Int
      BY <1>1, <2>2
    <3>. QED
      BY <2>1, <2>2, <3>1, <3>2
  <2>. QED
    BY <1>1, <2>2, <2>3 DEF Seg, Entries, q, k
<1>4. MAXADDR \in 0 .. TTBASE - 1 /\ SYSMAP_VA \in 0 .. TTBASE - 1
  BY <1>1, Above
<1>5. SYSMAP_VA = Seg(SYSMAP_VA) * NPTEPG
  <2>1. SYSMAP_VA = Seg(SYSMAP_VA) * NPTEPG + 0 /\ Seg(SYSMAP_VA) \in Nat
    <3>1. SYSMAP_VA = Seg(SYSMAP_VA) * NPTEPG + (SYSMAP_VA % NPTEPG)
      BY <1>3, <1>4
    <3>2. Seg(SYSMAP_VA) \in Entries
      BY <1>3, <1>4
    <3>. QED
      BY <1>1, <3>1, <3>2 DEF Entries
  <2>2. Seg(SYSMAP_VA) * NPTEPG \in Int
    BY <1>1, <2>1
  <2>. QED
    BY <2>1, <2>2
<1>6. MAXADDR % NPTEPG = NPTEPG - 1
  <2>. DEFINE t == TTBASE \div NPTEPG
              q == Seg(MAXADDR)
              k == MAXADDR % NPTEPG
  <2>1. TTBASE = t * NPTEPG + (TTBASE % NPTEPG) /\ t \in Nat
    BY <1>1, DivMod
  <2>2. TTBASE = t * NPTEPG /\ t * NPTEPG \in Int /\ (t - 1) * NPTEPG \in Int
        /\ t * NPTEPG = (t - 1) * NPTEPG + NPTEPG
    BY <1>1, <2>1, Predecessor
  <2>3. q \in Nat /\ k \in 0 .. NPTEPG - 1 /\ MAXADDR = q * NPTEPG + k
    BY <1>3, <1>4 DEF Entries
  <2>. HIDE DEF t, q, k
  <2>4. q * NPTEPG + k = (t - 1) * NPTEPG + (NPTEPG - 1)
    <3>. DEFINE x == q * NPTEPG
                y == (t - 1) * NPTEPG
    <3>1. x \in Int
      BY <1>1, <2>3
    <3>2. y \in Int /\ TTBASE = y + NPTEPG /\ MAXADDR = x + k /\ MAXADDR = TTBASE - 1
      BY <1>1, <2>2, <2>3
    <3>. HIDE DEF x, y
    <3>3. x + k = y + (NPTEPG - 1)
      BY <1>1, <2>3, <3>1, <3>2
    <3>. QED
      BY <3>3 DEF x, y
  <2>5. t - 1 \in Int /\ q \in Int /\ NPTEPG - 1 \in 0 .. NPTEPG - 1
    BY <1>1, <2>1, <2>3
  <2>6. k = NPTEPG - 1
    <3>. DEFINE r == t - 1
                l == NPTEPG - 1
    <3>1. /\ NPTEPG \in Nat \ {0} /\ q \in Int /\ r \in Int
          /\ k \in 0 .. NPTEPG - 1 /\ l \in 0 .. NPTEPG - 1
          /\ q * NPTEPG + k = r * NPTEPG + l
      BY <1>1, <2>3, <2>4, <2>5
    <3>. HIDE DEF r, l
    <3>2. k = l
      BY <3>1, OneQuotient
    <3>. QED
      BY <3>2 DEF l
  <2>. QED
    BY <2>6 DEF k
<1>. QED
  BY <1>2, <1>3, <1>4, <1>5, <1>6

(* The segment table and Sysptmap, which are filled alike.                  *)
LEMMA SegmentEntries ==
  ASSUME LocalsSet, shape \in Shapes
  PROVE  /\ \A q \in 0 .. Nptpages(shape) - 1 :
              q \in Entries /\ Segments[q] = <<Kstpa(shape) + 3 + q, "RW">>
         /\ Segments[Seg(SYSMAP_VA)] = <<Kstpa(shape) + 1, "RW">>
         /\ Segments[Seg(MAXADDR)] = <<Kstpa(shape) + 2, "RW">>
         /\ \A i \in Entries \ {Seg(SYSMAP_VA), Seg(MAXADDR)} :
              i \notin 0 .. Nptpages(shape) - 1 => Segments[i] = NV
<1>. DEFINE S == Seg(SYSMAP_VA)
            M == Seg(MAXADDR)
            n == Nptpages(shape)
<1>1. /\ at.kptmpa = Kstpa(shape) + 1 /\ at.lkptpa = Kstpa(shape) + 2
      /\ at.kptpa = Kstpa(shape) + 3 /\ at.nptpages = n
  BY DEF LocalsSet
<1>2. n \in Nat /\ n <= S /\ NPTEPG \in Nat
  BY Space, TableAssumption, BootAssumption
<1>3. S \in Entries /\ M \in Entries /\ S < M
  BY Segs
<1>. HIDE DEF S, M, n
<1>4. Segments = [i \in Entries |->
        IF i = S THEN <<Kstpa(shape) + 1, "RW">>
        ELSE IF i = M THEN <<Kstpa(shape) + 2, "RW">>
        ELSE IF i < n THEN <<Kstpa(shape) + 3 + i, "RW">> ELSE NV]
  BY <1>1 DEF Segments, S, M
<1>5. ASSUME NEW q \in 0 .. n - 1
      PROVE  q \in Entries /\ Segments[q] = <<Kstpa(shape) + 3 + q, "RW">>
  <2>1. q \in Entries /\ q # S /\ q # M /\ q < n
    BY <1>2, <1>3 DEF Entries
  <2>. QED
    BY <1>4, <2>1
<1>6. Segments[S] = <<Kstpa(shape) + 1, "RW">> /\ Segments[M] = <<Kstpa(shape) + 2, "RW">>
  <2>1. S # M
    BY <1>3 DEF Entries
  <2>. QED
    BY <1>3, <1>4, <2>1
<1>7. ASSUME NEW i \in Entries \ {S, M}, i \notin 0 .. n - 1 PROVE Segments[i] = NV
  <2>1. ~(i < n)
    BY <1>2, <1>7 DEF Entries
  <2>. QED
    BY <1>4, <2>1
<1>. QED
  BY <1>5, <1>6, <1>7 DEF S, M, n

(* The page dumpsys enters at vmmap is the one it writes.                   *)
LEMMA ShownIs ==
  ASSUME MachineIInv, [Next]_vars, Dumped, StayBoot, UNCHANGED maps
  PROVE  Shown' = maddr
<1>0. /\ Placed /\ Packed /\ Tabled /\ Dumping /\ LaidOut /\ Attached
  BY DEF MachineIInv, Placed
<1>1. /\ rb = "dump" /\ rb' # "up" /\ ram' = KEntered(kvm.vmmap, maddr, 1)
      /\ UNCHANGED <<boot, shape, at, kvm>>
  BY DEF Dumped, StayBoot
<1>2. boot = "loaded" /\ boot' = "loaded"
  BY <1>0, <1>1 DEF Attached
<1>3. maddr \in Nat
  <2>1. firstpa \in Nat
    BY BootAssumption
  <2>2. pg \in Nat /\ maddr = firstpa + pg
    BY <1>0, <1>1 DEF Dumping
  <2>. QED
    BY <2>1, <2>2
<1>4. Tabled'
  BY <1>0, TabledKeeps
<1>5. PICK q \in 0 .. Nptpages(shape) - 1, k \in Entries :
        kvm.vmmap = q * NPTEPG + k /\ ram'[Kstpa(shape) + 3 + q][k] = <<maddr, "RW">>
  BY <1>0, <1>1, <1>2, <1>3, VmmapStored
<1>6. /\ shape \in Shapes /\ LocalsSet /\ kvm.vmmap = End(shape) + 2
      /\ kvm.Sysseg_pa = Kstpa(shape)
  BY <1>0, <1>2 DEF LaidOut, Up, Exported
<1>7. kvm.vmmap \in Nat /\ kvm.vmmap < Covered(shape) /\ kvm.vmmap < TTBASE
  <2>1. /\ End(shape) \in Nat /\ End(shape) + 3 + MSGPAGES <= Covered(shape)
        /\ Covered(shape) \in Nat /\ Covered(shape) <= SYSMAP_VA /\ MSGPAGES \in Nat
    BY <1>6, Space, BootAssumption
  <2>2. SYSMAP_VA \in Nat /\ TTBASE \in Nat /\ SYSMAP_VA < TTBASE
    BY Above, BootAssumption
  <2>. QED
    BY <1>6, <2>1, <2>2
<1>8. Seg(kvm.vmmap) = q /\ kvm.vmmap % NPTEPG = k
  <2>. DEFINE r == Seg(kvm.vmmap)
              l == kvm.vmmap % NPTEPG
  <2>1. r \in 0 .. Nptpages(shape) - 1 /\ l \in Entries /\ kvm.vmmap = r * NPTEPG + l
    BY <1>6, <1>7, Cell
  <2>. HIDE DEF r, l
  <2>2. /\ NPTEPG \in Nat \ {0} /\ Nptpages(shape) \in Nat
    BY <1>6, Space, BootAssumption
  <2>3. /\ q \in Int /\ r \in Int /\ k \in 0 .. NPTEPG - 1 /\ l \in 0 .. NPTEPG - 1
        /\ q * NPTEPG + k = r * NPTEPG + l
    BY <1>5, <2>1, <2>2 DEF Entries
  <2>4. q = r /\ k = l
    BY <2>2, <2>3, OneQuotient
  <2>. QED
    BY <2>4 DEF r, l
<1>9. Segments' = Segments /\ Segments[q] = <<Kstpa(shape) + 3 + q, "RW">> /\ q \in Entries
  BY <1>1, <1>6, SegmentEntries DEF Segments
<1>10. ram'[Kstpa(shape)][q] = Segments[q]
  <2>1. Kstpa(shape') = Kstpa(shape)
    BY <1>1
  <2>. QED
    BY <1>1, <1>2, <1>4, <1>9, <2>1 DEF Tabled
<1>11. Segments[q] # NV /\ Segments[q][1] = Kstpa(shape) + 3 + q
  <2>1. Kstpa(shape) + 3 + q \in Nat
    BY <1>5, <1>6, Space
  <2>. QED
    BY <1>9, <2>1, BootAssumption
<1>12. Translate(kvm.vmmap)' = ram'[Kstpa(shape) + 3 + q][k]
  <2>1. kvm'.vmmap = kvm.vmmap /\ kvm'.Sysseg_pa = Kstpa(shape) /\ ~(kvm.vmmap >= TTBASE)
    BY <1>1, <1>6, <1>7, BootAssumption
  <2>. QED
    BY <1>8, <1>10, <1>11, <2>1 DEF Translate
<1>. QED
  BY <1>5, <1>12 DEF Shown

(* Every page dumpsys writes lies in its place.                              *)
LEMMA InPlaceKeeps == ASSUME MachineIInv, [Next]_vars PROVE DumpInPlace'
<1>0. /\ LaidOut /\ Attached /\ Sized /\ Dumping /\ DumpInPlace
      /\ BLOCKS \in Nat \ {0} /\ firstpa \in Nat
      /\ Devices \in [DOMAIN Devices -> Int] /\ NODEV \notin DOMAIN Devices
  BY BootAssumption, RebootAssumption DEF MachineIInv, Placed
<1>1. ASSUME dump' = dump, dump = {} \/ UNCHANGED <<dumpdev, dumplo>> PROVE DumpInPlace'
  BY <1>0, <1>1 DEF DumpInPlace, ctod
<1>2. ASSUME Dumped, StayBoot, UNCHANGED maps PROVE DumpInPlace'
  <2>1. /\ rb = "dump" /\ pg < dumpsize /\ UNCHANGED <<dumpdev, dumplo, dumpsize>>
        /\ pg \in Nat /\ maddr = firstpa + pg /\ blkno = dumplo + ctod(pg) /\ dumpdev # NODEV
    BY <1>0, <1>2 DEF Dumped, Dumping
  <2>. DEFINE d == [dev |-> dumpdev, blk |-> blkno, page |-> maddr]
  <2>2. dump' = dump \/ dump' = dump \cup {d}
    BY <1>2, ShownIs DEF Dumped
  <2>3. d.dev = dumpdev /\ d.blk = blkno /\ d.page = maddr
    OBVIOUS
  <2>. HIDE DEF d
  <2>4. /\ dumpsize \in Int /\ dumplo \in Nat /\ ctod(1) <= dumplo /\ ctod(1) = BLOCKS
        /\ Devices[dumpdev] > ctod(1) => dumplo + ctod(dumpsize) <= Devices[dumpdev]
    <3>1. dumpsize \in Int /\ dumplo \in Nat /\ dumpsize > 0
      BY <2>1 , <1>0 DEF Sized
    <3>. QED
      BY <1>0, <2>1, <3>1 DEF Sized, ctod
  <2>5. /\ ctod(pg) \in Nat /\ ctod(dumpsize) \in Int /\ ctod(pg) + BLOCKS <= ctod(dumpsize)
    BY <1>0, <2>1, <2>4, Times DEF ctod
  <2>6. d.blk = dumplo + ctod(d.page - firstpa)
    <3>1. d.page - firstpa = pg
      BY <1>0, <2>1, <2>3
    <3>. QED
      BY <2>1, <2>3, <3>1
  <2>7. ctod(1) <= d.blk
    BY <1>0, <2>1, <2>3, <2>4, <2>5
  <2>8. Devices[d.dev] > ctod(1) => d.blk + ctod(1) <= Devices[d.dev]
    <3>1. Devices[dumpdev] \in Int
      BY <1>0, <2>1 DEF Sized
    <3>. QED
      BY <1>0, <2>1, <2>3, <2>4, <2>5, <3>1
  <2>. QED
    BY <1>0, <2>1, <2>2, <2>3, <2>6, <2>7, <2>8 DEF DumpInPlace, ctod
<1>3. ASSUME SetDumpDev PROVE dump' = dump /\ dump = {}
  BY <1>0, <1>3 DEF SetDumpDev, Dumping
<1>4. ASSUME High PROVE dump' = dump /\ (dump = {} \/ UNCHANGED <<dumpdev, dumplo>>)
  <2>1. CASE dump = {}
    BY <1>4, <2>1 DEF High
  <2>2. CASE dump # {}
    <3>1. dumpsize # 0
      BY <1>0, <2>2 DEF Dumping, Sized
    <3>. QED
      BY <1>4, <3>1 DEF High
  <2>. QED
    BY <2>1, <2>2
<1>5. ASSUME Reboot \/ Panic \/ Synced \/ Succeeded \/ DoBoot
      PROVE  dump' = dump /\ UNCHANGED <<dumpdev, dumplo>>
  BY <1>5 DEF Reboot, Panic, Synced, Succeeded, DoBoot
<1>6. Dumped => StayBoot /\ UNCHANGED maps
  BY DEF Dumped, StayBoot, busVars
<1>. QED
  BY <1>1, <1>2, <1>3, <1>4, <1>5, <1>6
    DEF Next, Accessed, Shutdown, vars, rebootVars

(* The invariant is one.                                                     *)
LEMMA MachineIInvAlways == Spec => []MachineIInv
<1>1. MachineInit => MachineIInv
  BY LaidOutInit, AttachedInit, ApartInit, PackedInit, TabledInit, SizedInit
     DEF MachineIInv, Placed
<1>2. MachineIInv /\ [Next]_vars => MachineIInv'
  <2>. SUFFICES ASSUME MachineIInv, [Next]_vars PROVE MachineIInv'
    OBVIOUS
  <2>1. Placed'
    BY LaidOutKeeps, AttachedKeeps, ApartKeeps DEF MachineIInv, Placed
  <2>2. Packed' /\ Tabled'
    BY PackedKeeps, TabledKeeps DEF MachineIInv
  <2>3. Sized' /\ Dumping'
    BY SizedKeeps, DumpingKeeps DEF MachineIInv, Placed
  <2>. QED
    BY <2>1, <2>2, <2>3, InPlaceKeeps DEF MachineIInv
<1>. QED
  BY <1>1, <1>2, PTL DEF Spec

(* Whatever device was named before, each page of a dump lies where savecore *)
(* looks for it and, on a device that cpu_dumpconf has accepted, on the      *)
(* device; the page written is the one asked for, because vmmap translates   *)
(* to it (cpu_dumpconf, dumpsys).                                            *)
THEOREM DumpIsInPlace == Spec => []DumpInPlace
<1>1. MachineIInv => DumpInPlace
  BY DEF MachineIInv
<1>. QED
  BY <1>1, MachineIInvAlways, PTL

(* The table walk, by the segment of the address.                           *)
LEMMA Walk ==
  ASSUME Placed, Tabled, Up, NEW va \in 0 .. TTBASE - 1
  PROVE  /\ Seg(va) \in 0 .. Nptpages(shape) - 1 => Holds(va, Translate(va))
         /\ Seg(va) = Seg(SYSMAP_VA) => Translate(va) = Segments[va % NPTEPG]
         /\ Seg(va) = Seg(MAXADDR) =>
              Translate(va) = IF va % NPTEPG = NPTEPG - 1 THEN <<MAXADDR, "RW">> ELSE NV
         /\ Seg(va) \notin (0 .. Nptpages(shape) - 1) \cup {Seg(SYSMAP_VA), Seg(MAXADDR)} =>
              Translate(va) = NV
<1>. DEFINE K == Kstpa(shape)
            n == Nptpages(shape)
            q == Seg(va)
            k == va % NPTEPG
<1>1. /\ LocalsSet /\ shape \in Shapes /\ kvm.Sysseg_pa = K
      /\ NV \notin Nat \X {"RO", "RW"} /\ ~(va >= TTBASE)
  <2>1. TTBASE \in Nat /\ NV \notin Nat \X {"RO", "RW"}
    BY BootAssumption
  <2>2. LocalsSet /\ shape \in Shapes /\ kvm.Sysseg_pa = K
    BY DEF Placed, LaidOut, Up, Exported
  <2>. QED
    BY <2>1, <2>2
<1>2. q \in Entries /\ k \in Entries /\ va = q * NPTEPG + k
  BY Segs
<1>3. /\ \A i \in Entries : ram[K][i] = Segments[i] /\ ram[K + 1][i] = Segments[i]
      /\ \A i \in Entries : ram[K + 2][i] = IF i = NPTEPG - 1 THEN <<MAXADDR, "RW">> ELSE NV
      /\ KernelTable
  BY DEF Tabled, Up
<1>4. Translate(va) = IF Segments[q] = NV THEN NV ELSE ram[Segments[q][1]][k]
  BY <1>1, <1>2, <1>3 DEF Translate
<1>5. K \in Nat /\ n \in Nat
  BY <1>1, Space
<1>6. ASSUME q \in 0 .. n - 1 PROVE Holds(va, Translate(va))
  <2>1. Segments[q] = <<K + 3 + q, "RW">>
    BY <1>1, <1>6, SegmentEntries
  <2>2. Segments[q] # NV /\ Segments[q][1] = K + 3 + q
    <3>1. K + 3 + q \in Nat
      BY <1>5, <1>6
    <3>. QED
      BY <1>1, <2>1, <3>1
  <2>3. Translate(va) = ram[K + 3 + q][k]
    BY <1>4, <2>2
  <2>4. Holds(q * NPTEPG + k, ram[K + 3 + q][k])
    BY <1>2, <1>3, <1>6 DEF KernelTable
  <2>. HIDE DEF K, q, k
  <2>. QED
    BY <1>2, <2>3, <2>4, Zenon
<1>7. ASSUME q = Seg(SYSMAP_VA) PROVE Translate(va) = Segments[k]
  <2>1. Segments[q] = <<K + 1, "RW">>
    BY <1>1, <1>7, SegmentEntries
  <2>2. Segments[q] # NV /\ Segments[q][1] = K + 1
    <3>1. K + 1 \in Nat
      BY <1>5
    <3>. QED
      BY <1>1, <2>1, <3>1
  <2>. QED
    BY <1>2, <1>3, <1>4, <2>2
<1>8. ASSUME q = Seg(MAXADDR)
      PROVE  Translate(va) = IF k = NPTEPG - 1 THEN <<MAXADDR, "RW">> ELSE NV
  <2>1. Segments[q] = <<K + 2, "RW">>
    BY <1>1, <1>8, SegmentEntries
  <2>2. Segments[q] # NV /\ Segments[q][1] = K + 2
    <3>1. K + 2 \in Nat
      BY <1>5
    <3>. QED
      BY <1>1, <2>1, <3>1
  <2>. QED
    BY <1>2, <1>3, <1>4, <2>2
<1>9. ASSUME q \notin (0 .. n - 1) \cup {Seg(SYSMAP_VA), Seg(MAXADDR)}
      PROVE  Translate(va) = NV
  <2>1. Segments[q] = NV
    BY <1>1, <1>2, <1>9, SegmentEntries
  <2>. QED
    BY <1>4, <2>1
<1>. QED
  BY <1>6, <1>7, <1>8, <1>9

(* Sysmap is where the page tables appear, and nowhere else.                *)
LEMMA SysmapIs ==
  ASSUME LocalsSet, shape \in Shapes, NEW va \in 0 .. TTBASE - 1
  PROVE  /\ va \in Sysmap <=> /\ Seg(va) = Seg(SYSMAP_VA)
                              /\ \/ va % NPTEPG \in 0 .. Nptpages(shape) - 1
                                 \/ va % NPTEPG \in {Seg(SYSMAP_VA), Seg(MAXADDR)}
         /\ va \in Sysmap => Segments[va % NPTEPG] = <<TableAt(va), "RW">>
<1>. DEFINE n == Nptpages(shape)
            S == Seg(SYSMAP_VA)
            M == Seg(MAXADDR)
            q == Seg(va)
            k == va % NPTEPG
            Used == (0 .. n - 1) \cup {S, M}
<1>1. /\ NPTEPG \in Nat \ {0} /\ n \in Nat /\ n <= S /\ S < M /\ S \in Entries /\ M \in Entries
      /\ q \in Entries /\ k \in Entries
      /\ SYSMAP_VA = S * NPTEPG /\ SYSMAP_VA \in Nat /\ va = q * NPTEPG + k /\ va \in Nat
  BY Segs, Space, TableAssumption, BootAssumption
<1>2. at.nptpages = n
  BY DEF LocalsSet
<1>. HIDE DEF n, S, M, q, k
<1>3. Used \subseteq Entries
  BY <1>1 DEF Entries
<1>4. Sysmap = {SYSMAP_VA + s : s \in Used}
  BY <1>2 DEF Sysmap, S, M
<1>5. ASSUME NEW s \in Used, va = SYSMAP_VA + s PROVE q = S /\ k = s
  <2>1. /\ S \in Int /\ q \in Int /\ k \in 0 .. NPTEPG - 1 /\ s \in 0 .. NPTEPG - 1
        /\ q * NPTEPG + k = S * NPTEPG + s
    BY <1>1, <1>3, <1>5 DEF Entries
  <2>. QED
    BY <1>1, <2>1, OneQuotient
<1>6. ASSUME q = S, k \in Used PROVE va \in Sysmap
  <2>1. va = SYSMAP_VA + k
    BY <1>1, <1>6
  <2>. QED
    BY <1>4, <1>6, <2>1
<1>7. va \in Sysmap <=> q = S /\ k \in Used
  BY <1>4, <1>5, <1>6
<1>8. ASSUME va \in Sysmap PROVE Segments[k] = <<TableAt(va), "RW">>
  <2>1. q = S /\ k \in Used /\ va = SYSMAP_VA + k
    BY <1>1, <1>7, <1>8
  <2>2. TableAt(va) = IF k = S THEN at.kptmpa ELSE IF k = M THEN at.lkptpa ELSE at.kptpa + k
    <3>1. va = SYSMAP_VA + S <=> k = S
      BY <1>1, <2>1 DEF Entries
    <3>2. va = SYSMAP_VA + M <=> k = M
      BY <1>1, <2>1 DEF Entries
    <3>3. at.kptpa + va - SYSMAP_VA = at.kptpa + k
      <4>1. at.kptpa \in Nat
        BY Space DEF LocalsSet
      <4>. QED
        BY <1>1, <2>1, <4>1 DEF Entries
    <3>. QED
      BY <3>1, <3>2, <3>3 DEF TableAt, S, M
  <2>3. /\ at.kptmpa = Kstpa(shape) + 1 /\ at.lkptpa = Kstpa(shape) + 2
        /\ at.kptpa = Kstpa(shape) + 3
    BY DEF LocalsSet
  <2>4. CASE k = S
    BY <2>2, <2>3, <2>4, SegmentEntries DEF S
  <2>5. CASE k = M
    <3>1. k # S
      BY <1>1, <2>5 DEF Entries
    <3>. QED
      BY <2>2, <2>3, <2>5, <3>1, SegmentEntries DEF M
  <2>6. CASE k \in 0 .. n - 1
    <3>1. k # S /\ k # M
      BY <1>1, <2>6 DEF Entries
    <3>. QED
      BY <2>2, <2>3, <2>6, <3>1, SegmentEntries DEF n
  <2>. QED
    BY <2>1, <2>4, <2>5, <2>6
<1>. QED
  BY <1>7, <1>8 DEF n, S, M, q, k

(* From the moment the MMU is on it reaches exactly what the kernel counts   *)
(* on, at every address: the image with the text read-only, the tables       *)
(* through Sysmap, the last page, the message buffer and each device's       *)
(* pages, and nothing else but a dump's page at vmmap (pmap_bootstrap,       *)
(* pmap_kenter_pa as mainbus_map, wrap030_init and dumpsys use it).          *)
THEOREM KernelIsMapped == Spec => []KernelMapped
<1>1. MachineIInv => KernelMapped
  <2>. SUFFICES ASSUME MachineIInv, Up PROVE KernelMapped
    BY DEF KernelMapped
  <2>0. /\ Placed /\ Packed /\ Tabled /\ Dumping /\ LocalsSet /\ Exported /\ shape \in Shapes
        /\ LaidOut /\ Attached
    BY DEF MachineIInv, Placed, LaidOut, Up
  <2>. DEFINE n == Nptpages(shape)
              e == End(shape)
  <2>1. /\ e \in Nat \ {0} /\ e + 3 + MSGPAGES <= Covered(shape) /\ Covered(shape) \in Nat
        /\ Covered(shape) <= SYSMAP_VA /\ n \in Nat /\ n <= Seg(SYSMAP_VA)
        /\ MSGPAGES \in Nat
    BY <2>0, Space, TableAssumption, BootAssumption
  <2>2. /\ SYSMAP_VA \in Nat /\ MAXADDR \in Nat /\ TTBASE \in Nat /\ MAXADDR = TTBASE - 1
        /\ SYSMAP_VA < TTBASE /\ SYSMAP_VA <= MAXADDR /\ firstpa \in Nat
    <3>1. /\ SYSMAP_VA \in Nat /\ MAXADDR \in Nat /\ TTBASE \in Nat /\ MAXADDR = TTBASE - 1
          /\ SYSMAP_VA < TTBASE /\ firstpa \in Nat
      BY Above, BootAssumption
    <3>. QED
      BY <3>1
  <2>3. Image = 0 .. e - 1 /\ Come = e
    <3>1. at.nextpa = firstpa + e
      BY <2>0 DEF LocalsSet
    <3>2. Image = 0 .. e - 1
      BY <2>1, <2>2, <3>1 DEF Image
    <3>. QED
      BY <3>2 DEF Come, Up, Done
  <2>4. kvm.vmmap = e + 2
    BY <2>0 DEF Exported
  <2>5. ASSUME NEW w \in Windows, NEW va \in Within(w)
        PROVE  e + 3 <= va /\ va < Covered(shape) /\ va \in Nat
    BY <2>0, <2>1, <2>5, WindowsCovered DEF Within
  <2>. HIDE DEF n, e
  <2>6. ASSUME NEW va \in 0 .. TTBASE - 1
        PROVE  LET pa == Translate(va)
               IN  IF va \in Image
                   THEN pa = <<va + firstpa, IF va < shape.text THEN "RO" ELSE "RW">>
                   ELSE IF va \in Sysmap THEN pa = <<TableAt(va), "RW">>
                   ELSE IF va = MAXADDR THEN pa = <<MAXADDR, "RW">>
                   ELSE IF \E w \in Windows : va \in Within(w)
                   THEN \A w \in Windows : va \in Within(w) => pa = <<w.pa + va - w.va, "RW">>
                   ELSE pa = NV \/ (va = kvm.vmmap /\ dump # {}) \/ (va = kvm.vmmap /\ rb # "up")
    <3>. DEFINE pa == Translate(va)
                q == Seg(va)
                k == va % NPTEPG
                S == Seg(SYSMAP_VA)
                M == Seg(MAXADDR)
    <3>1. /\ q \in 0 .. n - 1 => Holds(va, pa)
          /\ q = S => pa = Segments[k]
          /\ q = M => pa = IF k = NPTEPG - 1 THEN <<MAXADDR, "RW">> ELSE NV
          /\ q \notin (0 .. n - 1) \cup {S, M} => pa = NV
      BY <2>0, Walk DEF n
    <3>2. /\ va \in Sysmap <=> q = S /\ (k \in 0 .. n - 1 \/ k \in {S, M})
          /\ va \in Sysmap => Segments[k] = <<TableAt(va), "RW">>
      BY <2>0, SysmapIs DEF n
    <3>3. /\ q \in Entries /\ k \in Entries /\ S \in Entries /\ M \in Entries /\ S < M
          /\ va = q * NPTEPG + k /\ MAXADDR = M * NPTEPG + (NPTEPG - 1)
          /\ NPTEPG \in Nat \ {0} /\ va \in Nat
      BY Segs, BootAssumption
    <3>4. va < Covered(shape) <=> q \in 0 .. n - 1
      <4>1. va < Covered(shape) => q \in 0 .. n - 1
        BY <2>0, <3>3, Cell DEF n
      <4>2. ASSUME q \in 0 .. n - 1 PROVE va < Covered(shape)
        <5>1. q * NPTEPG + NPTEPG <= n * NPTEPG
          BY <2>1, <3>3, <4>2, Times
        <5>2. q * NPTEPG \in Int /\ n * NPTEPG \in Int
          BY <2>1, <3>3 DEF Entries
        <5>. HIDE DEF q, k
        <5>. QED
          BY <2>1, <3>3, <5>1, <5>2 DEF Covered, n, Entries
      <4>. QED
        BY <4>1, <4>2
    <3>5. va = MAXADDR => q = M /\ k = NPTEPG - 1
      <4>. SUFFICES ASSUME va = MAXADDR PROVE q = M /\ k = NPTEPG - 1
        OBVIOUS
      <4>. DEFINE l == NPTEPG - 1
      <4>1. q = M
        OBVIOUS
      <4>. HIDE DEF q, k, M
      <4>2. k = l
        <5>1. q \in Int /\ M \in Int /\ k \in 0 .. NPTEPG - 1 /\ l \in 0 .. NPTEPG - 1
          BY <3>3 DEF Entries
        <5>2. va = q * NPTEPG + k /\ MAXADDR = M * NPTEPG + l
          BY <3>3
        <5>. HIDE DEF l
        <5>3. q * NPTEPG + k = M * NPTEPG + l
          BY <5>2
        <5>4. NPTEPG \in Nat \ {0}
          BY <3>3
        <5>. QED
          BY <5>1, <5>3, <5>4, OneQuotient
      <4>. QED
        BY <4>1, <4>2
    <3>6. q = M /\ k = NPTEPG - 1 => va = MAXADDR
      BY <3>3
    <3>7. \A w \in Windows : va \in Within(w) => q \in 0 .. n - 1
      BY <2>5, <3>4
    <3>8. va \in Image => q \in 0 .. n - 1
      BY <2>1, <2>3, <3>3, <3>4
    <3>9. S \notin 0 .. n - 1 /\ M \notin 0 .. n - 1 /\ S # M
      BY <2>1, <3>3 DEF Entries
    <3>. HIDE DEF pa, q, k, S, M
    <3>10. CASE q \in 0 .. n - 1
      <4>1. va \notin Sysmap /\ va # MAXADDR /\ Holds(va, pa)
        BY <3>1, <3>2, <3>5, <3>9, <3>10
      <4>2. CASE va \in Image
        <5>1. va < Come
          BY <2>1, <2>3, <3>3, <4>2
        <5>2. pa = <<firstpa + va, IF va < shape.text THEN "RO" ELSE "RW">>
          BY <4>1, <5>1 DEF Holds
        <5>3. firstpa + va = va + firstpa
          BY <2>2, <3>3
        <5>. QED
          BY <4>2, <5>2, <5>3 DEF pa
      <4>3. CASE va \notin Image
        <5>1. ~(va < Come)
          BY <2>1, <2>3, <3>3, <4>3
        <5>2. /\ \A w \in Windows : va \in Within(w) => pa = <<w.pa + va - w.va, "RW">>
              /\ (\A w \in Windows : va \notin Within(w))
                    => pa = NV \/ (va = End(shape) + 2 /\ rb # "up")
          BY <4>1, <5>1 DEF Holds
        <5>3. (\A w \in Windows : va \notin Within(w))
                 => pa = NV \/ (va = kvm.vmmap /\ rb # "up")
          BY <2>4, <5>2 DEF e
        <5>. QED
          BY <4>1, <4>3, <5>2, <5>3 DEF pa
      <4>. QED
        BY <4>2, <4>3
    <3>11. CASE q = S
      <4>1. va \notin Image /\ va # MAXADDR /\ \A w \in Windows : va \notin Within(w)
        BY <3>5, <3>7, <3>8, <3>9, <3>11
      <4>2. CASE va \in Sysmap
        BY <3>1, <3>2, <3>11, <4>1, <4>2 DEF pa
      <4>3. CASE va \notin Sysmap
        <5>1. k \in Entries \ {S, M} /\ k \notin 0 .. n - 1
          BY <3>2, <3>3, <3>11, <4>3
        <5>2. pa = NV
          BY <2>0, <3>1, <3>11, <5>1, SegmentEntries DEF S, M, n
        <5>. QED
          BY <4>1, <4>3, <5>2 DEF pa
      <4>. QED
        BY <4>2, <4>3
    <3>12. CASE q = M
      <4>1. va \notin Image /\ va \notin Sysmap /\ \A w \in Windows : va \notin Within(w)
        BY <3>2, <3>7, <3>8, <3>9, <3>12
      <4>2. CASE va = MAXADDR
        BY <3>1, <3>5, <4>1, <4>2 DEF pa
      <4>3. CASE va # MAXADDR
        <5>1. pa = NV
          BY <3>1, <3>6, <3>12, <4>3
        <5>. QED
          BY <4>1, <4>3, <5>1 DEF pa
      <4>. QED
        BY <4>2, <4>3
    <3>13. CASE q \notin (0 .. n - 1) \cup {S, M}
      <4>1. /\ va \notin Image /\ va \notin Sysmap /\ va # MAXADDR
            /\ \A w \in Windows : va \notin Within(w)
        BY <3>2, <3>5, <3>7, <3>8, <3>13
      <4>2. pa = NV
        BY <3>1, <3>13
      <4>. QED
        BY <4>1, <4>2 DEF pa
    <3>. QED
      BY <3>10, <3>11, <3>12, <3>13
  <2>7. clockbase # 0 => Translate(clockbase) = <<CLOCK, "RW">>
    <3>1. clockbase # 0 => clockbase = CLOCK
      BY <2>0 DEF Attached
    <3>2. CLOCK >= TTBASE
      BY Above, BootAssumption
    <3>. QED
      BY <3>1, <3>2 DEF Translate
  <2>. QED
    BY <2>6, <2>7 DEF KernelMapped
<1>. QED
  BY <1>1, MachineIInvAlways, PTL

-----------------------------------------------------------------------------

(* What one access moves.                                                    *)
Elements == Seq(0 .. 255)

(* A swap undoes a swap.                                                     *)
LEMMA LanesTwice ==
  ASSUME NEW t, NEW S, NEW e \in Seq(S)
  PROVE  Lanes(t, e) \in Seq(S) /\ Lanes(t, Lanes(t, e)) = e
<1>1. Len(e) \in Nat /\ e = [i \in 1 .. Len(e) |-> e[i]]
  OBVIOUS
<1>. DEFINE r == Reverse(e)
<1>2. r = [i \in 1 .. Len(e) |-> e[(Len(e) - i) + 1]]
  BY DEF Reverse
<1>3. r \in Seq(S) /\ Len(r) = Len(e)
  <2>1. ASSUME NEW i \in 1 .. Len(e) PROVE e[(Len(e) - i) + 1] \in S
    <3>1. (Len(e) - i) + 1 \in 1 .. Len(e)
      BY <1>1
    <3>. QED
      BY <3>1
  <2>2. r \in [1 .. Len(e) -> S]
    BY <1>2, <2>1
  <2>3. r \in Seq(S)
    BY <1>1, <2>2
  <2>. HIDE DEF r
  <2>. QED
    BY <1>1, <2>2, <2>3
<1>. HIDE DEF r
<1>4. Reverse(r) = [i \in 1 .. Len(e) |-> r[(Len(e) - i) + 1]]
  BY <1>3 DEF Reverse
<1>5. \A i \in 1 .. Len(e) : r[(Len(e) - i) + 1] = e[i]
  BY <1>1, <1>2
<1>6. Reverse(r) = e
  BY <1>1, <1>4, <1>5
<1>. QED
  BY <1>3, <1>6 DEF Lanes, r

(* A copy that overlaps itself moves what was there before: the loop runs in *)
(* the direction in which no element is overwritten before it is read. By    *)
(* induction over the rounds of bus_space_copy_region.                       *)
LEMMA CopyExact ==
  ASSUME NEW t, NEW h1 \in Int, NEW h2 \in Int, NEW o1 \in Int, NEW o2 \in Int, NEW c \in Nat,
         Run(h1 + o1, c) \cup Run(h2 + o2, c) \subseteq DOMAIN Bus
  PROVE  LET src == h1 + o1
             dst == h2 + o2
         IN  \A x \in DOMAIN Bus :
               CopyRegion(t, Bus, h1, h2, o1, o2, c)[x]
                 = IF x \in Run(dst, c) THEN Bus[x - dst + src] ELSE Bus[x]
<1>. DEFINE src == h1 + o1
            dst == h2 + o2
            o(i) == CopyOrder(c, i, src, dst)
            Body(f) == [i \in 0 .. c |->
                          IF i = 0 THEN Bus
                          ELSE BusWrite(t, f[i - 1], dst + o(i), BusRead(t, f[i - 1], src + o(i)))]
            F == CHOOSE f : f = Body(f)
            Moved(i) == IF src >= dst THEN dst .. dst + i - 1 ELSE dst + c - i .. dst + c - 1
            After(i) == [x \in DOMAIN Bus |-> IF x \in Moved(i) THEN Bus[x - dst + src] ELSE Bus[x]]
            G == [i \in 0 .. c |-> After(i)]
<1>1. CopyRegion(t, Bus, h1, h2, o1, o2, c) = F[c]
  BY DEF CopyRegion
<1>2. /\ src \in Int /\ dst \in Int /\ src .. src + c - 1 \subseteq DOMAIN Bus
      /\ dst .. dst + c - 1 \subseteq DOMAIN Bus
  BY DEF Run
<1>3. /\ DOMAIN Bus \subseteq Nat /\ Bus = [x \in DOMAIN Bus |-> Bus[x]]
      /\ \A x \in DOMAIN Bus : Bus[x] \in Elements
  BY BusAssumption DEF Elements
<1>. HIDE DEF src, dst
<1>4. After(0) = Bus
  <2>1. Moved(0) = {}
    BY <1>2
  <2>. QED
    BY <1>3, <2>1
<1>5. ASSUME NEW i \in 1 .. c
      PROVE  After(i) = BusWrite(t, After(i - 1), dst + o(i), BusRead(t, After(i - 1), src + o(i)))
  <2>1. o(i) = IF src >= dst THEN i - 1 ELSE c - i
    BY DEF CopyOrder
  <2>2. dst + o(i) \in DOMAIN Bus /\ src + o(i) \in DOMAIN Bus
    BY <1>2, <2>1
  <2>3. src + o(i) \notin Moved(i - 1)
    BY <1>2, <2>1
  <2>4. After(i - 1)[src + o(i)] = Bus[src + o(i)]
    BY <2>2, <2>3
  <2>5. Bus[src + o(i)] \in Elements
    BY <1>3, <2>2
  <2>6. BusWrite(t, After(i - 1), dst + o(i), BusRead(t, After(i - 1), src + o(i)))
          = [After(i - 1) EXCEPT ![dst + o(i)] = Bus[src + o(i)]]
    <3>1. Lanes(t, Lanes(t, Bus[src + o(i)])) = Bus[src + o(i)]
      BY <2>5, LanesTwice DEF Elements
    <3>. HIDE DEF After, o
    <3>. QED
      BY <2>4, <3>1 DEF BusWrite, BusRead
  <2>7. /\ o(i) \in Int
        /\ Moved(i) = Moved(i - 1) \cup {dst + o(i)}
    BY <1>2, <2>1
  <2>8. \A x \in DOMAIN Bus : After(i)[x] = [After(i - 1) EXCEPT ![dst + o(i)] = Bus[src + o(i)]][x]
    <3>. HIDE DEF Moved, o
    <3>1. SUFFICES ASSUME NEW x \in DOMAIN Bus
                   PROVE  After(i)[x] = [After(i - 1) EXCEPT ![dst + o(i)] = Bus[src + o(i)]][x]
      OBVIOUS
    <3>2. CASE x = dst + o(i)
      <4>1. After(i)[x] = Bus[src + o(i)]
        <5>1. x \in Moved(i) /\ x - dst + src = src + o(i)
          BY <1>2, <2>7, <3>2
        <5>. QED
          BY <5>1
      <4>2. DOMAIN After(i - 1) = DOMAIN Bus
        OBVIOUS
      <4>. HIDE DEF After
      <4>. QED
        BY <3>2, <4>1, <4>2
    <3>3. CASE x # dst + o(i)
      <4>1. x \in Moved(i) <=> x \in Moved(i - 1)
        BY <2>7, <3>3
      <4>2. After(i)[x] = After(i - 1)[x]
        BY <4>1
      <4>. HIDE DEF After
      <4>3. DOMAIN After(i - 1) = DOMAIN Bus
        BY DEF After
      <4>. QED
        BY <3>3, <4>2, <4>3
    <3>. QED
      BY <3>2, <3>3
  <2>. HIDE DEF Moved, o
  <2>. QED
    BY <2>6, <2>8
<1>. HIDE DEF o, After
<1>6. G = Body(G)
  <2>1. \A i \in 0 .. c : G[i] = Body(G)[i]
    BY <1>4, <1>5
  <2>. QED
    BY <2>1
<1>7. F = Body(F)
  <2>. HIDE DEF G, Body
  <2>. QED
    BY <1>6
<1>. HIDE DEF F
<1>8. ASSUME NEW i \in 1 .. c, F[i - 1] = After(i - 1) PROVE F[i] = After(i)
  <2>1. F[i] = Body(F)[i]
    BY <1>7
  <2>2. F[i] = BusWrite(t, F[i - 1], dst + o(i), BusRead(t, F[i - 1], src + o(i)))
    BY <2>1
  <2>. QED
    BY <1>5, <1>8, <2>2
<1>9. F[0] = After(0)
  <2>1. F[0] = Body(F)[0]
    BY <1>7
  <2>. QED
    BY <1>4, <2>1
<1>10. \A i \in 0 .. c : F[i] = After(i)
  <2>. DEFINE Wrong == {i \in 0 .. c : F[i] # After(i)}
  <2>. SUFFICES ASSUME Wrong # {} PROVE FALSE
    OBVIOUS
  <2>0. Wrong \subseteq Nat
    OBVIOUS
  <2>1. PICK d \in Wrong : \A e \in Wrong : d <= e
    <3>. HIDE DEF Wrong
    <3>. QED
      BY <2>0, Least
  <2>2. d \in 1 .. c
    BY <1>9, <2>1
  <2>3. d - 1 \notin Wrong
    BY <2>1, <2>2
  <2>. QED
    BY <1>8, <2>1, <2>2, <2>3
<1>11. Moved(c) = Run(dst, c)
  BY <1>2 DEF Run
<1>12. F[c] = After(c)
  BY <1>10
<1>. HIDE DEF Moved
<1>. QED
  BY <1>1, <1>11, <1>12 DEF After, src, dst

(* What was written in a region is read there, and the rest stays.           *)
LEMMA RegionExact ==
  ASSUME NEW t, NEW a, NEW c, NEW buf, a \in Int, c \in Nat \ {0},
         Run(a, c) \subseteq DOMAIN Bus, buf \in [1 .. c -> Elements]
  PROVE  LET bus == WriteRegion(t, Bus, a, buf, c)
         IN  /\ ReadRegion(t, bus, a, Len(buf)) = buf
             /\ \A x \in DOMAIN Bus \ Run(a, Len(buf)) : bus[x] = Bus[x]
<1>. DEFINE bus == WriteRegion(t, Bus, a, buf, c)
<1>1. Len(buf) = c /\ Rounds(c) = c
  BY LenProperties DEF Rounds
<1>2. bus = [x \in DOMAIN Bus |->
               IF x \in a .. a + c - 1 THEN Lanes(t, buf[x - a + 1]) ELSE Bus[x]]
  BY <1>1 DEF WriteRegion
<1>3. ReadRegion(t, bus, a, c) = [i \in 1 .. c |-> Lanes(t, bus[a + i - 1])]
  BY <1>1 DEF ReadRegion, BusRead
<1>. HIDE DEF bus
<1>4. ASSUME NEW i \in 1 .. c PROVE Lanes(t, bus[a + i - 1]) = buf[i]
  <2>1. a + i - 1 \in a .. a + c - 1 /\ a + i - 1 \in DOMAIN Bus /\ a + i - 1 - a + 1 = i
    BY DEF Run
  <2>2. bus[a + i - 1] = Lanes(t, buf[i])
    BY <1>2, <2>1
  <2>. QED
    BY <2>2, LanesTwice DEF Elements
<1>5. ReadRegion(t, bus, a, c) = buf
  BY <1>3, <1>4
<1>6. \A x \in DOMAIN Bus \ Run(a, c) : bus[x] = Bus[x]
  BY <1>2 DEF Run
<1>. QED
  BY <1>1, <1>5, <1>6 DEF bus

(* So it is in one register.                                                 *)
LEMMA PortExact ==
  ASSUME NEW t, NEW a \in DOMAIN Bus, NEW e \in Elements
  PROVE  LET bus == BusWrite(t, Bus, a, e)
         IN  /\ BusRead(t, bus, a) = e
             /\ \A x \in DOMAIN Bus \ {a} : bus[x] = Bus[x]
<1>1. BusWrite(t, Bus, a, e) = [Bus EXCEPT ![a] = Lanes(t, e)]
  BY DEF BusWrite
<1>2. Lanes(t, Lanes(t, e)) = e
  BY LanesTwice DEF Elements
<1>. QED
  BY <1>1, <1>2 DEF BusRead

(* A driver's buffer, read from the bus.                                     *)
LEMMA BufferType ==
  ASSUME NEW b \in Int, NEW c \in Nat \ {0}, Run(b, c) \subseteq DOMAIN Bus
  PROVE  /\ Buffer(EIO, b, c) \in [1 .. c -> Elements]
         /\ ReadMulti(EIO, Bus, b, c) \in [1 .. c -> Elements]
         /\ Bus[b] \in Elements
<1>1. \A x \in DOMAIN Bus : Bus[x] \in Elements /\ Lanes(EIO, Bus[x]) \in Elements
  BY BusAssumption, LanesTwice DEF Elements
<1>2. \A i \in 1 .. c : b + i - 1 \in DOMAIN Bus
  BY DEF Run
<1>3. b \in DOMAIN Bus
  BY DEF Run
<1>. QED
  BY <1>1, <1>2, <1>3 DEF Buffer, ReadRegion, ReadMulti, Rounds, BusRead

(* All of the c registers from a hold e, and the rest what they held.        *)
Spread(bus, t, a, c, e) ==
  \A x \in DOMAIN Bus : bus[x] = IF x \in Run(a, c) THEN Lanes(t, e) ELSE Bus[x]

(* A set leaves one value in all of its registers, and the rest stays.       *)
LEMMA SetExact ==
  ASSUME NEW t, NEW a \in DOMAIN Bus, NEW val, NEW v, NEW c \in Nat \ {0}, NEW e,
         e = IF t = ATA /\ Len(val) > 1 THEN v ELSE val
  PROVE  /\ Spread(SetRegion(t, Bus, a, val, v, c), t, a, c, e)
         /\ Spread(SetMulti(t, Bus, a, val, v, c), t, a, 1, e)
<1>1. TakenFrom(t, val, v) = e
  BY DEF TakenFrom
<1>2. SetRegion(t, Bus, a, val, v, c)
        = [x \in DOMAIN Bus |-> IF x \in a .. a + c - 1 THEN Lanes(t, TakenFrom(t, val, v)) ELSE Bus[x]]
  BY DEF SetRegion, Rounds
<1>3. SetMulti(t, Bus, a, val, v, c) = [Bus EXCEPT ![a] = Lanes(t, TakenFrom(t, val, v))]
  BY DEF SetMulti, BusWrite
<1>4. a \in Nat /\ Run(a, 1) = {a}
  BY BusAssumption DEF Run
<1>5. \A x \in DOMAIN Bus :
        SetRegion(t, Bus, a, val, v, c)[x] = IF x \in Run(a, c) THEN Lanes(t, e) ELSE Bus[x]
  BY <1>1, <1>2, Zenon DEF Run
<1>6. \A x \in DOMAIN Bus :
        SetMulti(t, Bus, a, val, v, c)[x] = IF x \in Run(a, 1) THEN Lanes(t, e) ELSE Bus[x]
  BY <1>1, <1>3, <1>4
<1>. QED
  BY <1>5, <1>6, Zenon DEF Spread

(* Every form of access does what BusExact says of it.                       *)
LEMMA AccessExact == ASSUME Access PROVE BusExact'
<1>1. PICK t \in {EIO, ATA}, a \in DOMAIN Bus, b \in DOMAIN Bus, c \in 0 .. Cardinality(DOMAIN Bus) :
        /\ Run(a, c) \cup Run(b, c) \subseteq DOMAIN Bus
        /\ \/ \E o1 \in 0 .. a, o2 \in 0 .. b : Copy(t, a - o1, b - o2, o1, o2, c)
           \/ c > 0 /\ (Write(t, a, b, c) \/ Put(t, a, b, c))
           \/ c > 0 /\ \E d \in DOMAIN Bus : Set(t, a, b, d, c)
  BY DEF Access
<1>2. a \in Nat /\ b \in Nat /\ c \in Nat
  BY BusAssumption
<1>3. ASSUME NEW o1 \in 0 .. a, NEW o2 \in 0 .. b, Copy(t, a - o1, b - o2, o1, o2, c)
      PROVE  BusExact'
  <2>1. a - o1 + o1 = a /\ b - o2 + o2 = b /\ a - o1 \in Int /\ b - o2 \in Int /\ o1 \in Int /\ o2 \in Int
    BY <1>2
  <2>2. \A x \in DOMAIN Bus :
          CopyRegion(t, Bus, a - o1, b - o2, o1, o2, c)[x]
            = IF x \in Run(b, c) THEN Bus[x - b + a] ELSE Bus[x]
    BY <1>1, <1>2, <2>1, CopyExact
  <2>3. /\ io'.op = "copy" /\ io'.src = a /\ io'.dst = b /\ io'.c = c
        /\ io'.bus = CopyRegion(t, Bus, a - o1, b - o2, o1, o2, c)
    BY <1>3, <2>1 DEF Copy
  <2>. QED
    BY <2>2, <2>3 DEF BusExact, Copied
<1>4. ASSUME c > 0, Write(t, a, b, c) PROVE BusExact'
  <2>1. c \in Nat \ {0} /\ a \in Int /\ Run(a, c) \subseteq DOMAIN Bus /\ Run(b, c) \subseteq DOMAIN Bus
    BY <1>1, <1>2, <1>4
  <2>2. Buffer(EIO, b, c) \in [1 .. c -> Elements]
    BY <1>2, <2>1, BufferType
  <2>3. /\ io'.op = "write" /\ io'.tag = t /\ io'.dst = a /\ io'.buf = Buffer(EIO, b, c)
        /\ io'.bus = WriteRegion(t, Bus, a, Buffer(EIO, b, c), c)
    BY <1>4 DEF Write
  <2>. DEFINE buf == Buffer(EIO, b, c)
              bus == WriteRegion(t, Bus, a, buf, c)
  <2>4. /\ ReadRegion(t, bus, a, Len(buf)) = buf
        /\ \A x \in DOMAIN Bus \ Run(a, Len(buf)) : bus[x] = Bus[x]
    <3>1. buf \in [1 .. c -> Elements]
      BY <2>2
    <3>. HIDE DEF buf
    <3>. QED
      BY <2>1, <3>1, RegionExact
  <2>5. io'.op = "write" /\ io'.tag = t /\ io'.dst = a /\ io'.buf = buf /\ io'.bus = bus
    BY <2>3
  <2>. HIDE DEF buf, bus
  <2>6. /\ ReadRegion(io'.tag, io'.bus, io'.dst, Len(io'.buf)) = io'.buf
        /\ \A x \in DOMAIN Bus \ Run(io'.dst, Len(io'.buf)) : io'.bus[x] = Bus[x]
    BY <2>4, <2>5, Zenon
  <2>. QED
    BY <2>5, <2>6 DEF BusExact
<1>5. ASSUME NEW d \in DOMAIN Bus, c > 0, Set(t, a, b, d, c) PROVE BusExact'
  <2>. DEFINE val == Bus[b]
              v == Bus[d]
              Do(n, bus) == io' = [op |-> "set", tag |-> t, dst |-> a, c |-> n, val |-> val, v |-> v,
                                   bus |-> bus]
  <2>1. c \in Nat \ {0}
    BY <1>2, <1>5
  <2>2. Do(c, SetRegion(t, Bus, a, val, v, c)) \/ Do(1, SetMulti(t, Bus, a, val, v, c))
    BY <1>5 DEF Set
  <2>3. PICK n, bus : Do(n, bus) /\ ((n = c /\ bus = SetRegion(t, Bus, a, val, v, c))
                                     \/ (n = 1 /\ bus = SetMulti(t, Bus, a, val, v, c)))
    <3>. HIDE DEF Do
    <3>. QED
      BY <2>2
  <2>4. /\ io'.op = "set" /\ io'.tag = t /\ io'.dst = a /\ io'.c = n
        /\ io'.val = val /\ io'.v = v /\ io'.bus = bus
    BY <2>3
  <2>. HIDE DEF val, v, Do
  <2>. DEFINE e == IF t = ATA /\ Len(val) > 1 THEN v ELSE val
  <2>5. Spread(bus, t, a, n, e)
    BY <2>1, <2>3, SetExact
  <2>6. IF t = ATA /\ Len(val) > 1 THEN Filled(v)' ELSE Filled(val)'
    BY <2>4, <2>5, Zenon DEF Filled, Spread
  <2>. QED
    BY <2>4, <2>6 DEF BusExact, Filled
<1>6. ASSUME c > 0, Put(t, a, b, c) PROVE BusExact'
  <2>1. c \in Nat \ {0} /\ Run(b, c) \subseteq DOMAIN Bus /\ Rounds(c) = c
    BY <1>1, <1>2, <1>6 DEF Rounds
  <2>2. Buffer(EIO, b, c)[c] \in Elements
    BY <1>2, <2>1, BufferType
  <2>3. PICK e \in Elements : /\ io'.op = "put" /\ io'.tag = t /\ io'.dst = a /\ io'.e = e
                              /\ io'.bus = BusWrite(t, Bus, a, e)
    BY <1>6, <2>1, <2>2 DEF Put, WriteMulti
  <2>. QED
    BY <2>3, PortExact DEF BusExact
<1>. QED
  BY <1>1, <1>3, <1>4, <1>5, <1>6

(* What the accessors of bus.h leave on the bus, the ATA tag's set forms and *)
(* the copy's order of arguments as they stand: for any registers and any    *)
(* contents, and for every overlap of a copy with itself.                    *)
THEOREM BusIsExact == Spec => []BusExact
<1>1. ASSUME io = NoIo PROVE BusExact
  BY <1>1 DEF NoIo, BusExact
<1>2. MachineInit => BusExact
  BY <1>1 DEF MachineInit, MainbusInit
<1>3. ASSUME BusExact, [Next]_vars PROVE BusExact'
  <2>1. ASSUME io' = io \/ io' = NoIo PROVE BusExact'
    BY <1>3, <2>1 DEF BusExact, Copied, Filled, NoIo
  <2>2. Access \/ io' = io \/ io' = NoIo
    BY <1>3
      DEF Next, Autoconf, InitClocks, LeAttach, ZsAttach, Device, GetEtherAddr,
       WdcAttach, ComAttach, Configured, Shutdown, SetDumpDev, Reboot, Panic, Synced,
       High, Dumped, Succeeded, DoBoot, Accessed, vars, busVars
  <2>. QED
    BY <2>1, <2>2, AccessExact
<1>. QED
  BY <1>2, <1>3, PTL DEF Spec
=============================================================================
