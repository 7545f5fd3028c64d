-------------------------------- MODULE Mainbus --------------------------------
(***************************************************************************)
(* Device addresses of the port: mainbus_map and its callers (autoconf.c,  *)
(* clock.c, eeprom.c, if_le.c, zs_pcc.c), and the drivers that use the     *)
(* transparently translated addresses through bus space (wdc_mb.c,         *)
(* com_mainbus.c, bus.c).  uvm_km_alloc is the VM system's: it finds free  *)
(* kernel addresses or returns 0.                                          *)
(***************************************************************************)
EXTENDS PmapBootstrap, BusSpace, FiniteSetsExt

CONSTANTS
  CLOCK,       \* the page of the interval timer
  LEMEM, LE, LEPAGES, ZS, ZSPAGES, EEPROM,  \* pages of the other devices
  WD, CTL,     \* register blocks of wdc_mb: command, and control beyond it
  MAXCOM,      \* serial lines that are accepted
  MaxTries,    \* bound on the calls of wrap030_getetheraddr
  Bus          \* what the registers on the bus hold

ASSUME MainbusAssumption ==
  /\ {CLOCK, LEMEM, LE, ZS, EEPROM, MaxTries, MAXCOM} \subseteq Nat
  /\ {LEPAGES, ZSPAGES} \subseteq Nat \ {0}
  /\ CLOCK >= TTBASE

(* The page tables also have entries for what the devices map.              *)
ASSUME RoomAssumption ==
  \A s \in Shapes :
    s.image + UPAGES + 3 + Nptpages(s) + 3 + MSGPAGES + LEPAGES + 1 + ZSPAGES + MaxTries
      <= Nptpages(s) * NPTEPG

(* A register block is made of sequences of bytes.                          *)
ASSUME BusAssumption ==
  /\ DOMAIN Bus \subseteq Nat /\ IsFiniteSet(DOMAIN Bus)
  /\ Bus \in [DOMAIN Bus -> Seq(0 .. 255)]

VARIABLES
  maps,        \* mainbus_map's mappings: [va, pa, n]
  base,        \* the base addresses the drivers keep: 0 is NULL
  clockbase,
  eeprom_read, tries,
  wdr,         \* handles of the disk registers
  coms,        \* com_mainbus_attached
  cold,        \* cpu_configure is not done
  io           \* the latest access to bus space

busVars == <<maps, base, clockbase, eeprom_read, tries, wdr, coms, cold, io>>

NoIo == [op |-> "none"]

MainbusInit ==
  /\ maps = {} /\ base = [lemem |-> 0, le |-> 0, zs |-> 0]
  /\ clockbase = 0 /\ eeprom_read = FALSE /\ tries = 0
  /\ wdr = <<>> /\ coms = 0 /\ cold = TRUE /\ io = NoIo

-----------------------------------------------------------------------------
Taken == UNION {m.va .. m.va + m.n - 1 : m \in maps}
Room(n) == {va \in kvm.virtual_avail .. kvm.virtual_end - n :
              va .. va + n - 1 \cap Taken = {}}

MapPages(va, pa, n) == KEntered(va, pa, n)

(* mainbus_map of the n pages from pa; when there is no room the caller's   *)
(* pointer stays what it was, and no caller looks at the error.             *)
Fails(n) == Room(n) = {}
Mapped(pa, n) ==
  LET va == Min(Room(n))
  IN  /\ maps' = maps \cup {[va |-> va, pa |-> pa, n |-> n]}
      /\ ram' = MapPages(va, pa, n)
MainbusMap(pa, n) == IF Fails(n) THEN UNCHANGED <<maps, ram>> ELSE Mapped(pa, n)
Pointer(old, n) == IF Fails(n) THEN old ELSE Min(Room(n))

(* cpu_initclocks: the call passes the tag for the address and the address  *)
(* for the size.                                                            *)
InitClocks ==
  /\ boot = "loaded" /\ clockbase = 0
  /\ clockbase' = Pointer(CLOCK, CLOCK + 1)
  /\ MainbusMap(0, CLOCK + 1)
  /\ UNCHANGED <<boot, shape, at, pte, protopte, kvm, managed,
                 base, eeprom_read, tries, wdr, coms, cold, io>>

(* Bound: the devices mapped here come after the disk and the serial lines. *)
Device(field, pa, n) ==
  /\ cold /\ wdr # <<>> /\ coms = MAXCOM /\ base[field] = 0
  /\ MainbusMap(pa, n)
  /\ base' = [base EXCEPT ![field] = Pointer(0, n)]
  /\ UNCHANGED <<boot, shape, at, pte, protopte, kvm, managed,
                 clockbase, eeprom_read, tries, wdr, coms, cold, io>>

(* leattach, zsc_pcc_attach (once for both channels).                       *)
LeAttach == \/ Device("lemem", LEMEM, LEPAGES)
            \/ base.lemem # 0 /\ Device("le", LE, 1)
ZsAttach == Device("zs", ZS, ZSPAGES)

(* wrap030_getetheraddr maps the EEPROM for every reading, until one is     *)
(* good: signature and checksum are the device's.                           *)
GetEtherAddr ==
  /\ base.le # 0 /\ tries < MaxTries /\ tries' = tries + 1
  /\ IF eeprom_read THEN UNCHANGED <<maps, ram, eeprom_read>>
     ELSE MainbusMap(EEPROM, 1) /\ eeprom_read' \in BOOLEAN
  /\ UNCHANGED <<boot, shape, at, pte, protopte, kvm, managed,
                 base, clockbase, wdr, coms, cold, io>>

(* wdc_mb_attach: nothing fails on a known tag.                             *)
WdcAttach ==
  /\ cold /\ clockbase # 0 /\ wdr = <<>>
  /\ wdr' = [cmd |-> SpaceMap(EIO, WD), ctl |-> Subregion(EIO, SpaceMap(EIO, WD), CTL)]
  /\ UNCHANGED <<bootVars, maps, base, clockbase, eeprom_read, tries, coms, cold, io>>

(* com_mainbus_probe counts the units it accepts.                           *)
ComAttach ==
  /\ cold /\ wdr # <<>> /\ coms < MAXCOM /\ coms' = coms + 1
  /\ UNCHANGED <<bootVars, maps, base, clockbase, eeprom_read, tries, wdr, cold, io>>

(* cpu_configure ends; configuration has attached what it found.            *)
Configured ==
  /\ cold /\ clockbase # 0 /\ cold' = FALSE
  /\ UNCHANGED <<bootVars, maps, base, clockbase, eeprom_read, tries, wdr, coms, io>>

-----------------------------------------------------------------------------
(* One access of a driver to the disk registers, for every form there is.   *)
Run(a, c) == a .. a + c - 1
Buffer(t, a, c) == ReadRegion(t, Bus, a, c)

(* The caller gives four numbers; asked is what the declared order makes of *)
(* them, src and dst what the definition does.                              *)
Copy(t, w, x, y, z, c) ==
  io' = [op |-> "copy", asked |-> [src |-> w + x, dst |-> y + z],
         src |-> w + y, dst |-> x + z, c |-> c, bus |-> CopyRegion(t, Bus, w, x, y, z, c)]
Write(t, a, b, c) ==
  /\ \A x \in Run(b, c) : Len(Bus[x]) \in 1 .. 2
  /\ io' = [op |-> "write", tag |-> t, dst |-> a, buf |-> Buffer(EIO, b, c),
            bus |-> WriteRegion(t, Bus, a, Buffer(EIO, b, c), c)]
Put(t, a, b, c) ==
  io' = [op |-> "put", tag |-> t, dst |-> a, e |-> Buffer(EIO, b, c)[c],
         bus |-> WriteMulti(t, Bus, a, Buffer(EIO, b, c), c)]

(* val is at b, and at d what the caller calls v, of the same width.        *)
Set(t, a, b, d, c) ==
  /\ Len(Bus[b]) = Len(Bus[d])
  /\ \/ io' = [op |-> "set", tag |-> t, dst |-> a, c |-> c, val |-> Bus[b], v |-> Bus[d],
               bus |-> SetRegion(t, Bus, a, Bus[b], Bus[d], c)]
     \/ io' = [op |-> "set", tag |-> t, dst |-> a, c |-> 1, val |-> Bus[b], v |-> Bus[d],
               bus |-> SetMulti(t, Bus, a, Bus[b], Bus[d], c)]

(* Bound: accesses are tried while the disk is the one device attached.     *)
Quiet == base = [lemem |-> 0, le |-> 0, zs |-> 0] /\ coms = 0 /\ cold

Access ==
  /\ wdr # <<>> /\ Quiet
  /\ \E t \in {EIO, ATA}, a, b \in DOMAIN Bus, c \in 0 .. Cardinality(DOMAIN Bus) :
       /\ Run(a, c) \cup Run(b, c) \subseteq DOMAIN Bus
       /\ \/ \E o1 \in 0 .. a, o2 \in 0 .. b : Copy(t, a - o1, b - o2, o1, o2, c)
          \/ c > 0 /\ (Write(t, a, b, c) \/ Put(t, a, b, c))
          \/ c > 0 /\ \E d \in DOMAIN Bus : Set(t, a, b, d, c)
  /\ UNCHANGED <<bootVars, maps, base, clockbase, eeprom_read, tries, wdr, coms, cold>>

Autoconf == InitClocks \/ LeAttach \/ ZsAttach \/ GetEtherAddr \/ WdcAttach \/ ComAttach
            \/ Configured \/ Access
=============================================================================
