------------------------------ MODULE Gic_proofs ----------------------------
(***************************************************************************)
(* Proofs about Gic, for any number of CPUs, any controllers and any size  *)
(* of the ITS command queue.                                               *)
(*   OneCpuRuns              startup's code is run by one CPU at a time    *)
(*   InterruptsStayArriving  no IPI and no MSI is lost, and a mask works   *)
(*                                                                         *)
(* The inductive invariant GicInv has a part for the order in which CPUs   *)
(* come up (SmpInv), for the types of the controller's state (GicType),    *)
(* for gic_map (MapInv: an SGI reaches the CPU it is for), for the sample  *)
(* SPI and LPI (SpiInv, LpiInv), and for the callouts under way            *)
(* (CalloutType, IpiInv, NoLostMsi).  The queue of the ITS is reasoned     *)
(* about through the distance of a slot from CREADR.                       *)
(***************************************************************************)
EXTENDS Gic, TLAPS

-----------------------------------------------------------------------------
(* What startup's CPUs have done determines where they can be.             *)

Apart == {"off", "cpuinfo", "done", "wait", "startnext", "spin", "kernel", "halted"}
Gone  == {"spin", "kernel", "halted"}

\* start_aps() and transfer_aps() have dealt with the CPUs below ix, and with
\* none above it.
SmpInv ==
  /\ boot \in {"board", "cpu0", "start", "await", "transfer", "pend", "kernel", "crashed"}
  /\ ix \in Nat /\ ap \in [Aps -> Apart] /\ num \in [Aps -> Cpus \cup {None}]
  /\ \A c \in Aps : num[c] \in {None, c} /\ (ap[c] # "off" => num[c] = c)
  /\ boot \in {"board", "cpu0", "start", "await", "crashed"} => table \subseteq {c \in Aps : c <= ix}
  /\ boot \in {"board", "cpu0"} => ix = 0
  /\ boot \in {"start", "await", "transfer", "pend"} => ix \in 1 .. NumCpu
  /\ boot \in {"start", "await", "crashed"} =>
       \A c \in Aps : (c < ix => ap[c] = "wait") /\ (c > ix => ap[c] = "off")
  /\ boot \in {"board", "cpu0", "start", "await", "crashed"} => syspage_available = 0
  /\ boot \in {"board", "cpu0", "start"} => \A c \in Aps : c >= ix => ap[c] = "off" /\ c \notin table
  /\ boot \in {"board", "cpu0", "start", "transfer", "pend", "kernel"} => cpu_starting = 0
  /\ boot \in {"await", "crashed"} =>
       /\ cpu_starting \in {0, ix + 1}
       /\ \A c \in Aps : c = ix => \/ cpu_starting = 0 /\ ap[c] = "wait"
                                   \/ cpu_starting = c + 1 /\ ap[c] \in {"off", "cpuinfo", "done"}
  /\ boot = "await" => ix \in table
  /\ boot \in {"transfer", "pend"} =>
       /\ ix < NumCpu /\ syspage_available = IF boot = "pend" THEN ix ELSE ix - 1
       /\ \A c \in Aps : (c < ix => ap[c] \in Gone) /\ (c > ix => ap[c] = "wait")
  /\ boot = "transfer" => \A c \in Aps : c = ix => ap[c] = "wait"
  /\ boot = "pend" => \A c \in Aps : c = ix =>
       ap[c] \in IF pending = 0 THEN Gone ELSE {"wait", "startnext"}
  /\ boot = "kernel" => \A c \in Aps : ap[c] \in Gone
  /\ boot # "kernel" => start_addr = "none" /\ \A c \in Aps : ap[c] \notin {"kernel", "halted"}

\* The controller: records, and what the machine is.
HwInv ==
  /\ hw \in MachineTypes
  /\ hw.ver # "v2" /\ (hw.mm \/ hw.gicc \/ ~hw.sre) => \A c \in Cpus : hw.pos[c] = c
  /\ TheSpi \in Spi .. 32 * hw.itl - 1

DistType(d) ==
  d \in [on : {d.on}, en : SUBSET Ids, pend : {d.pend}, edge : {d.edge}, group1 : {d.group1},
         prio : {d.prio}, route : {d.route}]

TablesType == lpis \in [n : Nat, table : [Ids -> BOOLEAN]] /\ rdcache \in [Ids -> BOOLEAN]

ItsCmds == {"none", "MAPC", "SYNC", "INVALL"} \X Nat

ItsType ==
  its \in [on : {its.on}, cw : 0 .. QSlots - 1, cr : 0 .. QSlots - 1,
           q : [0 .. QSlots - 1 -> ItsCmds], coll : {its.coll}, lock : Cpus \cup {None},
           dt : {its.dt}, ct : {its.ct}]

GicType == HwInv /\ DistType(gicd) /\ DOMAIN map = Cpus /\ TablesType /\ ItsType

\* A CPU that has run init_one_cpuinfo() is the one its entry of gic_map names.
Ready(c) == IF c = 0 THEN boot \in {"start", "await", "transfer", "pend", "kernel"}
                     ELSE ap[c] \notin {"off", "cpuinfo"}
MapInv == \A c \in Cpus : Ready(c) => c \in Reaches(map[c])

\* The sample SPI is off from init_intrinfo() on, until the kernel unmasks it;
\* the kernel's view of it, and the distributor's.
SpiInv ==
  /\ boot \in {"cpu0", "start", "await", "transfer", "pend"} => TheSpi \notin gicd.en
  /\ TheSpi \in fwd => boot = "kernel"
  /\ boot = "kernel" /\ TheSpi \in quiet => TheSpi \notin gicd.en /\ TheSpi \notin fwd
  /\ ~leaked

\* Commands between CREADR and CWRITER, counted from CREADR.
Dist(k) == (k + QSlots - its.cr) % QSlots
Told == \E k \in 0 .. QSlots - 1 : Dist(k) < Dist(its.cw) /\ its.q[k][1] = "INVALL"

\* The redistributors know the configuration table, or will when the ITS has
\* come to the end of its queue, unless a CPU is about to add commands.
LpiInv ==
  /\ boot \in {"cpu0", "start", "await", "transfer", "pend", "kernel"} /\ lpis.n > 0 => gic_v3_lpi_uses_its
  /\ boot \in {"start", "await", "transfer", "pend"} /\ UsesLpi => rdcache[TheLpi] = lpis.table[TheLpi]
  /\ boot = "kernel" /\ UsesLpi /\ its.lock = None => rdcache[TheLpi] = lpis.table[TheLpi] \/ Told

CpuStates ==
  [op : {"run", "ipi", "rwp", "lpi", "msi"}] \cup [op : {"ldxr"}, to : Cpus, cmd : Cmds]
    \cup [op : {"stxr"}, to : Cpus, cmd : Cmds, old : SUBSET Cmds] \cup [op : {"sgir"}, to : Cpus]

CalloutType ==
  /\ ipicmds \in [Cpus -> SUBSET Cmds] /\ due \in [Cpus -> SUBSET Cmds]
  /\ cs \in [Cpus -> CpuStates]
  /\ msi \in [st : BOOLEAN, mask : BOOLEAN, due : BOOLEAN, cnt : {0, 1}]
  /\ \A s \in Cpus : cs[s].op \in {"ldxr", "stxr", "sgir"} => InKernel(cs[s].to)

Signalled(c) == c \in sgi \/ cs[c].op = "ipi" \/ \E s \in Cpus : cs[s].op = "sgir" /\ cs[s].to = c

\* Whoever finds commands in ipicmds[] can rely on an SGI that was sent for them.
IpiInv == \A c \in Cpus : due[c] \subseteq ipicmds[c] /\ (ipicmds[c] # {} => Signalled(c))

GicInv == SmpInv /\ GicType /\ MapInv /\ SpiInv /\ LpiInv /\ CalloutType /\ IpiInv /\ NoLostMsi

-----------------------------------------------------------------------------
\* What gic_v2_init() and gic_v3_initialize() leave enabled.
LEMMA QuietSpi ==
  ASSUME GicType, hw.ver = "v2", gic_v2_init
  PROVE  /\ TheSpi \notin gicd'.en
         /\ DistType(gicd)'
  <1>1. TheSpi \in Regs(0, 32, 1, hw.itl)
    <2>1. TheSpi \in Ids /\ TheSpi \in 32 .. 32 * hw.itl - 1 /\ hw.itl \in 1 .. 32
      BY CalloutsAssumption DEF GicType, HwInv, MachineTypes, Spi
    <2>2. TheSpi \div 32 \in 1 .. hw.itl - 1 /\ TheSpi - 0 = TheSpi /\ TheSpi >= 0
      BY <2>1
    <2> QED BY <2>1, <2>2 DEF Regs
  <1>2. V2Quiet(gicd) = [gicd EXCEPT !.on = FALSE, !.en = @ \ Regs(0, 32, 1, hw.itl),
                                     !.pend = @ \ Regs(0, 32, 1, hw.itl)]
    BY DEF V2Quiet
  <1> DEFINE d1 == V2Quiet(gicd)
  <1>3. DistType(d1) /\ TheSpi \notin d1.en
    <2> HIDE DEF d1
    <2>1. d1 = [gicd EXCEPT !.on = FALSE, !.en = @ \ Regs(0, 32, 1, hw.itl),
                            !.pend = @ \ Regs(0, 32, 1, hw.itl)]
      BY <1>2 DEF d1
    <2> QED BY <1>1, <2>1 DEF GicType, DistType
  <1>4. gicd' = V2Route(d1)
    BY DEF gic_v2_init
  <1> HIDE DEF d1
  <1> DEFINE pr == d1.prio \cup {i \in Ids : Quad(i) >= 8 /\ Quad(i) < LastSpi2}
             ro == [i \in Ids |-> IF i >= Spi /\ Quad(i) < LastSpi2 THEN hw.pos[0] ELSE d1.route[i]]
             ed == d1.edge \ Regs(0, 16, 1, 2 * hw.itl)
  <1>5. V2Route(d1) = [d1 EXCEPT !.prio = pr, !.route = ro, !.edge = ed, !.on = TRUE]
    BY DEF V2Route
  <1> HIDE DEF pr, ro, ed
  <1> QED BY <1>3, <1>4, <1>5 DEF DistType

\* The same of the GICv3.
LEMMA QuietSpi3 ==
  ASSUME GicType, gic_v3_initialize
  PROVE  /\ TheSpi \notin gicd'.en
         /\ DistType(gicd)'
  <1> DEFINE spis == Regs(0, 32, 1, hw.itl)
             d1 == V3Spis(gicd)
             d2 == V3Espis(d1)
             d3 == V3Route(d2)
  <1>1. TheSpi \in spis
    <2>1. TheSpi \in Ids /\ TheSpi \in 32 .. 32 * hw.itl - 1 /\ hw.itl \in 1 .. 32
      BY CalloutsAssumption DEF GicType, HwInv, MachineTypes, Spi
    <2>2. TheSpi \div 32 \in 1 .. hw.itl - 1 /\ TheSpi - 0 = TheSpi /\ TheSpi >= 0
      BY <2>1
    <2> QED BY <2>1, <2>2 DEF Regs
  <1> HIDE DEF spis
  <1>2. DistType(d1) /\ TheSpi \notin d1.en
    <2>1. d1 = [gicd EXCEPT !.on = FALSE, !.en = @ \ spis, !.pend = @ \ spis,
                            !.group1 = @ \cup spis, !.prio = @ \cup Regs(0, 4, 8, 8 * hw.itl),
                            !.edge = @ \ Regs(0, 16, 2, Itn \div 16)]
      BY DEF V3Spis, spis
    <2> HIDE DEF d1
    <2> QED BY <1>1, <2>1 DEF DistType, GicType
  <1> HIDE DEF d1
  <1>3. DistType(d2) /\ TheSpi \notin d2.en
    <2>1. d2 = [d1 EXCEPT !.en = @ \ Regs(Espi, 32, 0, hw.espil),
                          !.pend = @ \ Regs(Espi, 32, 0, hw.espil),
                          !.prio = @ \cup Regs(Espi, 4, 0, 8 * hw.espil),
                          !.edge = @ \ Regs(Espi, 16, 0, gic_v3_num_espis \div 16)]
      BY DEF V3Espis
    <2> HIDE DEF d2
    <2> QED BY <1>2, <2>1 DEF DistType
  <1> HIDE DEF d2
  <1>4. DistType(d3) /\ TheSpi \notin d3.en
    <2> DEFINE ro == [i \in Ids |->
                        IF i \in Spi .. Itn - 1 \cup Espi .. Espi + gic_v3_num_espis - 1
                          THEN hw.aff[0] ELSE d2.route[i]]
    <2>1. d3 = [d2 EXCEPT !.on = TRUE, !.route = ro]
      BY DEF V3Route
    <2> HIDE DEF d3, ro
    <2> QED BY <1>3, <2>1 DEF DistType
  <1>5. \E S : gicd' = gic_v3_set_intr_trig_mode(d3, S)
    BY DEF gic_v3_initialize, d2, d1
  <1> HIDE DEF d3
  <1>6. PICK S : gicd' = gic_v3_set_intr_trig_mode(d3, S)
    BY <1>5
  <1> QED BY <1>4, <1>6 DEF gic_v3_set_intr_trig_mode, DistType

\* init_intrinfo() of either.
LEMMA IntrinfoStep ==
  ASSUME GicType, InitIntrinfo
  PROVE  /\ hw' = hw /\ TheSpi \notin gicd'.en /\ DistType(gicd)' /\ DOMAIN map' = Cpus
         /\ TablesType' /\ ItsType' /\ lpis'.n = lpis.n
  <1>1. CASE hw.ver = "v2"
    <2>1. gic_v2_init
      BY <1>1 DEF InitIntrinfo
    <2>2. UNCHANGED <<hw, lpis, its, rdcache>> /\ DOMAIN map' = Cpus
      BY <2>1 DEF gic_v2_init
    <2> QED BY <1>1, <2>1, <2>2, QuietSpi DEF GicType, TablesType, ItsType
  <1>2. CASE hw.ver # "v2"
    <2>1. gic_v3_initialize
      BY <1>2 DEF InitIntrinfo
    <2>2. UNCHANGED <<hw, rdcache>> /\ DOMAIN map' = Cpus
      BY <2>1 DEF gic_v3_initialize
    <2>3. TablesType' /\ lpis'.n = lpis.n
      <3>1. V3LpiTable \in [n : Nat, table : [Ids -> BOOLEAN]] /\ V3LpiTable.n = lpis.n
        BY DEF V3LpiTable, GicType, TablesType
      <3>2. lpis' = lpis \/ lpis' = V3LpiTable
        BY <2>1 DEF gic_v3_initialize
      <3> QED BY <2>2, <3>1, <3>2 DEF TablesType, GicType
    <2>4. ItsType'
      <3>1. its' = its \/ its' = gic_v3_its_initialize
        BY <2>1 DEF gic_v3_initialize
      <3>2. CASE its' = its
        BY <3>2 DEF GicType, ItsType
      <3>3. CASE its' = gic_v3_its_initialize
        <4>1. [k \in 0 .. QSlots - 1 |-> <<"none", None>>] \in [0 .. QSlots - 1 -> ItsCmds]
          <5>1. <<"none", None>> \in ItsCmds
            BY DEF None, ItsCmds
          <5> QED BY <5>1
        <4>2. 0 \in 0 .. QSlots - 1
          BY NumCpuAssumption
        <4>3. its' = [its EXCEPT !.on = FALSE, !.dt = DeviceTable, !.ct = CollectionTable,
                        !.cw = 0, !.cr = 0, !.q = [k \in 0 .. QSlots - 1 |-> <<"none", None>>],
                        !.lock = None]
          BY <3>3 DEF gic_v3_its_initialize
        <4> QED BY <4>1, <4>2, <4>3 DEF GicType, ItsType
      <3> QED BY <3>1, <3>2, <3>3
    <2> QED BY <2>1, <2>2, <2>3, <2>4, QuietSpi3
  <1> QED BY <1>1, <1>2

-----------------------------------------------------------------------------
(* The queue of the ITS is a ring.                                         *)

\* One turn of the ring at most.
LEMMA ModRange ==
  ASSUME NEW x \in Nat, x < 2 * QSlots
  PROVE  x % QSlots = IF x < QSlots THEN x ELSE x - QSlots
  BY NumCpuAssumption, SMTT(30)

\* The next slot, and back to the first.
LEMMA NextSlot ==
  ASSUME NEW k \in 0 .. QSlots - 1
  PROVE  /\ next_cmd_q_slot(k) \in 0 .. QSlots - 1
         /\ next_cmd_q_slot(k) = IF k + 1 < QSlots THEN k + 1 ELSE 0
  <1>1. QSlots \in Nat \ {0}
    BY NumCpuAssumption
  <1>2. (k + 1) % QSlots = IF k + 1 < QSlots THEN k + 1 ELSE k + 1 - QSlots
    BY <1>1, ModRange
  <1> QED BY <1>1, <1>2 DEF next_cmd_q_slot

\* How far slot k is from slot at.
LEMMA RingDistance ==
  ASSUME NEW k \in 0 .. QSlots - 1, NEW at \in 0 .. QSlots - 1
  PROVE  /\ (k + QSlots - at) % QSlots \in 0 .. QSlots - 1
         /\ (k + QSlots - at) % QSlots = IF k >= at THEN k - at ELSE k + QSlots - at
  <1>1. QSlots \in Nat \ {0} /\ k + QSlots - at \in Nat /\ k + QSlots - at < 2 * QSlots
    BY NumCpuAssumption
  <1>2. (k + QSlots - at) % QSlots
          = IF k + QSlots - at < QSlots THEN k + QSlots - at ELSE k + QSlots - at - QSlots
    BY <1>1, ModRange
  <1> QED BY <1>1, <1>2

\* Commands are written from slot at on.
LEMMA IssueStep ==
  ASSUME ItsType, NEW at \in 0 .. QSlots - 1, NEW cmds \in Seq(ItsCmds), Len(cmds) > 0
  PROVE  /\ Issue(its.q, at, cmds) \in [0 .. QSlots - 1 -> ItsCmds]
         /\ Issue(its.q, at, cmds)[at] = cmds[1]
  <1>1. its.q \in [0 .. QSlots - 1 -> ItsCmds]
    BY DEF ItsType
  <1>2. ASSUME NEW k \in 0 .. QSlots - 1
        PROVE  Issue(its.q, at, cmds)[k] \in ItsCmds
    <2> DEFINE off == (k + QSlots - at) % QSlots
    <2>1. off \in Nat
      BY RingDistance
    <2>2. Issue(its.q, at, cmds)[k] = IF off < Len(cmds) THEN cmds[off + 1] ELSE its.q[k]
      BY <1>1 DEF Issue
    <2> HIDE DEF off
    <2>3. off < Len(cmds) => off + 1 \in 1 .. Len(cmds)
      BY <2>1
    <2>4. \A j \in 1 .. Len(cmds) : cmds[j] \in ItsCmds
      OBVIOUS
    <2> QED BY <1>1, <2>2, <2>3, <2>4
  <1>3. (at + QSlots - at) % QSlots = 0
    BY RingDistance, NumCpuAssumption
  <1>4. Issue(its.q, at, cmds)[at] = cmds[1]
    <2>1. Issue(its.q, at, cmds)[at] =
            IF (at + QSlots - at) % QSlots < Len(cmds) THEN cmds[((at + QSlots - at) % QSlots) + 1]
                                                      ELSE its.q[at]
      BY <1>1 DEF Issue
    <2>2. Issue(its.q, at, cmds)[at] = IF 0 < Len(cmds) THEN cmds[0 + 1] ELSE its.q[at]
      BY <1>3, <2>1
    <2> QED BY <2>2
  <1>5. DOMAIN Issue(its.q, at, cmds) = 0 .. QSlots - 1
    BY <1>1 DEF Issue
  <1>6. Issue(its.q, at, cmds) = [k \in 0 .. QSlots - 1 |-> Issue(its.q, at, cmds)[k]]
    BY <1>1 DEF Issue
  <1> QED BY <1>2, <1>4, <1>5, <1>6

-----------------------------------------------------------------------------
(* One CPU's part of the controller.                                       *)

\* The SGI sent with the value that gic_v2_gicc_init() or gic_v3_gicc_init()
\* stores for a CPU reaches that CPU.
LEMMA MapReaches ==
  ASSUME HwInv, NEW c \in Cpus
  PROVE  /\ hw.ver = "v2" => c \in Reaches(gic_v2_cpunum(c))
         /\ hw.ver # "v2" => c \in Reaches(GicMapV3(c, c))
  <1>1. hw.ver = "v2" => c \in Reaches(gic_v2_cpunum(c))
    BY DEF Reaches, gic_v2_cpunum
  <1>2. ASSUME hw.ver # "v2", UsesMm
        PROVE  c \in Reaches(GicMapV3(c, c))
    <2>1. hw.pos[c] = c
      BY <1>2 DEF HwInv, UsesMm
    <2> QED BY <1>2, <2>1 DEF Reaches, GicMapV3
  <1>3. ASSUME hw.ver # "v2", ~UsesMm
        PROVE  c \in Reaches(GicMapV3(c, c))
    <2> DEFINE a == hw.aff[c]
    <2>1. a \in Nat
      BY DEF HwInv, MachineTypes
    <2>2. a % 256 = 16 * ((a % 256) \div 16) + (a % 16)
      BY <2>1
    <2>3. GicMapV3(c, c) = <<a % 16, (a % 256) \div 16, a \div 256>>
      BY <1>3 DEF GicMapV3, Sgir
    <2> DEFINE v == <<a % 16, (a % 256) \div 16, a \div 256>>
    <2>4. v[1] = a % 16 /\ v[2] = (a % 256) \div 16 /\ v[3] = a \div 256
      OBVIOUS
    <2>5. a \div 256 = v[3] /\ a % 256 = 16 * v[2] + v[1]
      BY <2>2, <2>4
    <2> HIDE DEF v
    <2> QED BY <1>3, <2>3, <2>5 DEF Reaches, v
  <1> QED BY <1>1, <1>2, <1>3

\* What gic_cpu_init() of CPU c changes, and what it leaves alone.
LEMMA CpuStep ==
  ASSUME GicType, NEW c \in Cpus, GicCpuInit(c, c)
  PROVE  /\ UNCHANGED <<hw, gicd, lpis>> /\ DOMAIN map' = Cpus
         /\ \A d \in Cpus \ {c} : map'[d] = map[d]
         /\ c \in Reaches(map'[c]) /\ TablesType' /\ ItsType'
         /\ \/ rdcache' = rdcache /\ ~(hw.ver # "v2" /\ lpis.n > 0 /\ gic_v3_lpi_uses_its)
            \/ rdcache' = Refresh
  <1>0. HwInv /\ TablesType /\ ItsType /\ DOMAIN map = Cpus
    BY DEF GicType
  <1>1. CASE hw.ver = "v2"
    <2>1. gic_v2_gicc_init(c, c)
      BY <1>1 DEF GicCpuInit
    <2>2. UNCHANGED <<hw, gicd, lpis, its, rdcache>> /\ map' = [map EXCEPT ![c] = gic_v2_cpunum(c)]
      BY <2>1 DEF gic_v2_gicc_init
    <2>3. TablesType' /\ ItsType'
      BY <1>0, <2>2 DEF TablesType, ItsType
    <2> QED BY <1>0, <1>1, <2>2, <2>3, MapReaches
  <1>2. CASE hw.ver # "v2"
    <2>1. gic_v3_gicc_init(c, c)
      BY <1>2 DEF GicCpuInit
    <2>2. /\ UNCHANGED <<hw, gicd, lpis>> /\ map' = [map EXCEPT ![c] = GicMapV3(c, c)]
          /\ GiccLpis(c, c)
      BY <2>1 DEF gic_v3_gicc_init
    <2>3. DOMAIN map' = Cpus /\ (\A d \in Cpus \ {c} : map'[d] = map[d]) /\ c \in Reaches(map'[c])
      BY <1>0, <1>2, <2>2, MapReaches
    <2>4. CASE UNCHANGED <<its, rdcache>> /\ ~(lpis.n > 0 /\ gic_v3_lpi_uses_its)
      BY <1>0, <2>2, <2>3, <2>4 DEF TablesType, ItsType
    <2>5. CASE gic_v3_its_mapc(c, c)
      <3> DEFINE cmds == << <<"MAPC", c>>, <<"SYNC", hw.pos[c]>>, <<"INVALL", c>> >>
                 end  == next_cmd_q_slot(next_cmd_q_slot(next_cmd_q_slot(its.cw)))
      <3>1. its.cw \in 0 .. QSlots - 1
        BY <1>0 DEF ItsType
      <3>2. end \in 0 .. QSlots - 1
        BY <3>1, NextSlot
      <3>3. c \in Nat /\ hw.pos[c] \in Nat
        BY <1>0, NumCpuAssumption DEF HwInv, MachineTypes, Cpus
      <3>4. cmds \in Seq(ItsCmds) /\ Len(cmds) > 0
        <4>1. <<"MAPC", c>> \in ItsCmds /\ <<"SYNC", hw.pos[c]>> \in ItsCmds /\ <<"INVALL", c>> \in ItsCmds
          BY <3>3 DEF ItsCmds
        <4> QED BY <4>1
      <3> HIDE DEF cmds
      <3>5. Issue(its.q, its.cw, cmds) \in [0 .. QSlots - 1 -> ItsCmds]
        BY <1>0, <3>1, <3>4, IssueStep
      <3>6. its' = [its EXCEPT !.on = TRUE, !.q = Issue(its.q, its.cw, cmds), !.cw = end, !.cr = end,
                               !.coll[c] = hw.pos[c]]
        BY <2>5 DEF gic_v3_its_mapc, cmds
      <3> HIDE DEF end
      <3>7. ItsType'
        BY <1>0, <3>2, <3>5, <3>6 DEF ItsType
      <3>8. rdcache' = Refresh
        BY <2>5 DEF gic_v3_its_mapc
      <3>9. Refresh \in [Ids -> BOOLEAN]
        BY <1>0 DEF Refresh, TablesType
      <3> QED BY <1>0, <2>2, <2>3, <3>7, <3>8, <3>9 DEF TablesType
    <2> QED BY <2>2, <2>4, <2>5 DEF GiccLpis
  <1> QED BY <1>1, <1>2

-----------------------------------------------------------------------------
\* The steps of startup keep the invariant.
LEMMA SmpNextInv ==
  ASSUME GicInv, SmpNext, UNCHANGED kvars
  PROVE  GicInv'
  <1>a. SmpInv /\ GicType /\ MapInv /\ SpiInv /\ LpiInv /\ CalloutType /\ IpiInv /\ NoLostMsi
        /\ UNCHANGED kvars
    BY DEF GicInv
  <1> USE <1>a
  <1>0. IpiInv' /\ NoLostMsi'
    BY DEF IpiInv, Signalled, NoLostMsi, kvars
  <1>1. CASE AddEntry
    <2>1. SmpInv'
      BY <1>1, NumCpuAssumption DEF SmpInv, AddEntry, svars
    <2>2. HwInv'
      BY <1>1 DEF HwInv, GicType, AddEntry
    <2>3. DistType(gicd)'
      BY <1>1 DEF GicType, AddEntry
    <2>4. (DOMAIN map = Cpus)'
      BY <1>1 DEF GicType, AddEntry
    <2>5. TablesType'
      <3>1. PICK e \in Claims :
              CASE e.kind = "spi" -> gic_v3_spi_add_entry(e) /\ UNCHANGED lpis
                [] e.kind = "espi" -> gic_v3_espi_add_entry(e) /\ UNCHANGED lpis
                [] e.kind = "lpi" -> gic_v3_lpi_add_entry(e)
        BY <1>1 DEF AddEntry
      <3>2. e.kind \in {"spi", "espi", "lpi"} /\ e.n \in Nat
        BY ClaimsAssumption
      <3>3. lpis' = lpis \/ lpis' = [lpis EXCEPT !.n = @ + e.n]
        BY <3>1, <3>2 DEF gic_v3_lpi_add_entry
      <3>4. UNCHANGED rdcache
        BY <1>1 DEF AddEntry
      <3> QED BY <3>2, <3>3, <3>4 DEF TablesType, GicType
    <2>6. ItsType'
      BY <1>1 DEF ItsType, GicType, AddEntry
    <2>7. MapInv'
      BY <1>1 DEF MapInv, Ready, SmpInv, AddEntry, At, svars, Aps
    <2>8. SpiInv'
      BY <1>1 DEF SpiInv, AddEntry, svars, kvars
    <2>9. LpiInv'
      BY <1>1 DEF LpiInv, AddEntry, At, svars
    <2>10. CalloutType'
      BY <1>1 DEF CalloutType, InKernel, AddEntry, At, svars, kvars
    <2> QED BY <2>1, <2>2, <2>3, <2>4, <2>5, <2>6, <2>7, <2>8, <2>9, <2>10, <1>0
               DEF GicInv, GicType
  <1>2. CASE UseMm
    <2>1. SmpInv'
      BY <1>2, NumCpuAssumption DEF SmpInv, UseMm, svars
    <2>2. HwInv'
      BY <1>2 DEF HwInv, MachineTypes, GicType, UseMm, gic_v3_use_mm_reg_callouts, Cpus
    <2>3. DistType(gicd)'
      BY <1>2 DEF GicType, UseMm, gic_v3_use_mm_reg_callouts
    <2>4. (DOMAIN map = Cpus)'
      BY <1>2 DEF GicType, UseMm, gic_v3_use_mm_reg_callouts
    <2>5. TablesType'
      BY <1>2 DEF TablesType, GicType, UseMm, gic_v3_use_mm_reg_callouts
    <2>6. ItsType'
      BY <1>2 DEF ItsType, GicType, UseMm, gic_v3_use_mm_reg_callouts
    <2>7. MapInv'
      BY <1>2 DEF MapInv, Ready, SmpInv, UseMm, At, svars, Aps, Cpus
    <2>8. SpiInv'
      BY <1>2 DEF SpiInv, UseMm, svars, kvars, gic_v3_use_mm_reg_callouts
    <2>9. LpiInv'
      BY <1>2 DEF LpiInv, UseMm, At, svars
    <2>10. CalloutType'
      BY <1>2 DEF CalloutType, InKernel, UseMm, At, svars, kvars
    <2> QED BY <2>1, <2>2, <2>3, <2>4, <2>5, <2>6, <2>7, <2>8, <2>9, <2>10, <1>0
               DEF GicInv, GicType
  <1>3. CASE InitIntrinfo
    <2>1. SmpInv'
      BY <1>3, NumCpuAssumption DEF SmpInv, InitIntrinfo, At, Go, Aps, Cpus
    <2>2. HwInv'
      BY <1>3, IntrinfoStep DEF GicType, HwInv
    <2>3. DistType(gicd)'
      BY <1>3, IntrinfoStep DEF GicType
    <2>4. (DOMAIN map = Cpus)'
      BY <1>3, IntrinfoStep DEF GicType
    <2>5. TablesType'
      BY <1>3, IntrinfoStep DEF GicType
    <2>6. ItsType'
      BY <1>3, IntrinfoStep DEF GicType
    <2>7. MapInv'
      BY <1>3 DEF MapInv, Ready, SmpInv, InitIntrinfo, At, Go, Aps, Cpus
    <2>8. SpiInv'
      <3>1. boot = "board" /\ boot' \in {"cpu0", "crashed"} /\ TheSpi \notin gicd'.en
        BY <1>3, IntrinfoStep DEF InitIntrinfo, At, Go
      <3> QED BY <3>1 DEF SpiInv, kvars
    <2>9. LpiInv'
      <3>1. hw' = hw /\ lpis'.n = lpis.n
        BY <1>3, IntrinfoStep
      <3>2. boot' \in {"cpu0", "crashed"} /\ (boot' = "cpu0" => (lpis.n > 0 => gic_v3_lpi_uses_its))
        BY <1>3 DEF InitIntrinfo, Go, LpisFit
      <3>3. gic_v3_lpi_uses_its' = gic_v3_lpi_uses_its
        BY <3>1 DEF gic_v3_lpi_uses_its
      <3> QED BY <3>1, <3>2, <3>3 DEF LpiInv
    <2>10. CalloutType'
      BY <1>3 DEF CalloutType, InKernel, InitIntrinfo, At, kvars
    <2> QED BY <2>1, <2>2, <2>3, <2>4, <2>5, <2>6, <2>7, <2>8, <2>9, <2>10, <1>0
               DEF GicInv, GicType
  <1>4. CASE init_cpuinfo
    <2>1. SmpInv'
      BY <1>4, NumCpuAssumption DEF SmpInv, init_cpuinfo, At, Go, Aps, Cpus
    <2>2. HwInv'
      <3>0. 0 \in Cpus /\ GicCpuInit(0, 0)
        BY <1>4, NumCpuAssumption DEF init_cpuinfo, Cpus
      <3> QED BY <3>0, CpuStep DEF GicType, HwInv
    <2>3. DistType(gicd)'
      <3>0. 0 \in Cpus /\ GicCpuInit(0, 0)
        BY <1>4, NumCpuAssumption DEF init_cpuinfo, Cpus
      <3> QED BY <3>0, CpuStep DEF GicType, DistType
    <2>4. (DOMAIN map = Cpus)'
      <3>0. 0 \in Cpus /\ GicCpuInit(0, 0)
        BY <1>4, NumCpuAssumption DEF init_cpuinfo, Cpus
      <3> QED BY <3>0, CpuStep
    <2>5. TablesType'
      <3>0. 0 \in Cpus /\ GicCpuInit(0, 0)
        BY <1>4, NumCpuAssumption DEF init_cpuinfo, Cpus
      <3> QED BY <3>0, CpuStep
    <2>6. ItsType'
      <3>0. 0 \in Cpus /\ GicCpuInit(0, 0)
        BY <1>4, NumCpuAssumption DEF init_cpuinfo, Cpus
      <3> QED BY <3>0, CpuStep
    <2>7. MapInv'
      <3>0. 0 \in Cpus /\ GicCpuInit(0, 0)
        BY <1>4, NumCpuAssumption DEF init_cpuinfo, Cpus

      <3>1. boot = "cpu0" /\ boot' = "start" /\ UNCHANGED ap
        BY <1>4 DEF init_cpuinfo, At, Go
      <3>2. /\ \A d \in Cpus \ {0} : map'[d] = map[d]
            /\ 0 \in Reaches(map'[0]) /\ hw' = hw
        BY <3>0, CpuStep
      <3>4. \A d \in Cpus \ {0} : Ready(d)' => Ready(d)
        BY <3>1 DEF Ready, SmpInv, Aps
      <3>5. ASSUME NEW d \in Cpus, Ready(d)' PROVE d \in Reaches(map[d])'
        <4>1. CASE d = 0
          BY <3>2, <4>1 DEF Reaches, UsesMm
        <4>2. CASE d # 0
          BY <3>2, <3>4, <3>5, <4>2 DEF MapInv, Reaches, UsesMm
        <4> QED BY <4>1, <4>2
      <3> QED BY <3>5 DEF MapInv
    <2>8. SpiInv'
      <3>0. 0 \in Cpus /\ GicCpuInit(0, 0)
        BY <1>4, NumCpuAssumption DEF init_cpuinfo, Cpus

      <3>1. gicd' = gicd
        BY <3>0, CpuStep
      <3>2. boot' = boot \/ (boot = "cpu0" /\ boot' = "start")
        BY <1>4 DEF init_cpuinfo, At, Go
      <3> QED BY <3>1, <3>2 DEF SpiInv, kvars
    <2>9. LpiInv'
      <3>0. 0 \in Cpus /\ GicCpuInit(0, 0)
        BY <1>4, NumCpuAssumption DEF init_cpuinfo, Cpus

      <3>1. hw' = hw /\ lpis' = lpis
            /\ \/ rdcache' = rdcache /\ ~(hw.ver # "v2" /\ lpis.n > 0 /\ gic_v3_lpi_uses_its)
               \/ rdcache' = Refresh
        BY <3>0, CpuStep
      <3>2. boot = "cpu0" /\ boot' = "start"
        BY <1>4 DEF init_cpuinfo, At, Go
      <3>3. UsesLpi => Refresh[TheLpi] = lpis.table[TheLpi] /\ lpis.n > 0 /\ hw.ver # "v2"
        <4> SUFFICES ASSUME UsesLpi PROVE Refresh[TheLpi] = lpis.table[TheLpi] /\ lpis.n > 0 /\ hw.ver # "v2"
          OBVIOUS
        <4>1. TheLpi \in Ids /\ TheLpi \in Lpi .. Lpi + lpis.n - 1 /\ lpis.n \in Nat /\ Lpi \in Nat
          BY CalloutsAssumption DEF UsesLpi, TablesType, GicType, Lpi
        <4>2. TheLpi >= Lpi /\ lpis.n > 0
          BY <4>1
        <4> QED BY <4>1, <4>2 DEF Refresh, UsesLpi
      <3>4. (UsesLpi' <=> UsesLpi) /\ (gic_v3_lpi_uses_its' <=> gic_v3_lpi_uses_its)
        BY <3>1 DEF UsesLpi, gic_v3_lpi_uses_its
      <3> QED BY <3>1, <3>2, <3>3, <3>4 DEF LpiInv
    <2>10. CalloutType'
      BY <1>4 DEF CalloutType, InKernel, init_cpuinfo, At, kvars
    <2> QED BY <2>1, <2>2, <2>3, <2>4, <2>5, <2>6, <2>7, <2>8, <2>9, <2>10, <1>0
               DEF GicInv, GicType
  <1>5. CASE start_aps
    <2>1. SmpInv'
      BY <1>5, NumCpuAssumption DEF SmpInv, start_aps, At, Go, board_smp_start, Aps, Cpus
    <2>2. HwInv'
      BY <1>5 DEF HwInv, GicType, start_aps, gvars
    <2>3. DistType(gicd)'
      BY <1>5 DEF GicType, start_aps, gvars
    <2>4. (DOMAIN map = Cpus)'
      BY <1>5 DEF GicType, start_aps, gvars
    <2>5. TablesType'
      BY <1>5 DEF TablesType, GicType, start_aps, gvars
    <2>6. ItsType'
      BY <1>5 DEF ItsType, GicType, start_aps, gvars
    <2>7. MapInv'
      BY <1>5 DEF MapInv, Ready, Reaches, UsesMm, start_aps, At, gvars
    <2>8. SpiInv'
      BY <1>5 DEF SpiInv, start_aps, At, gvars, kvars
    <2>9. LpiInv'
      BY <1>5 DEF LpiInv, UsesLpi, gic_v3_lpi_uses_its, start_aps, At, gvars
    <2>10. CalloutType'
      BY <1>5 DEF CalloutType, InKernel, start_aps, At, kvars
    <2> QED BY <2>1, <2>2, <2>3, <2>4, <2>5, <2>6, <2>7, <2>8, <2>9, <2>10, <1>0
               DEF GicInv, GicType
  <1>6. CASE AwaitAp
    <2>1. SmpInv'
      BY <1>6, NumCpuAssumption DEF SmpInv, AwaitAp, At, Go, Aps, Cpus
    <2>2. HwInv'
      BY <1>6 DEF HwInv, GicType, AwaitAp, gvars
    <2>3. DistType(gicd)'
      BY <1>6 DEF GicType, AwaitAp, gvars
    <2>4. (DOMAIN map = Cpus)'
      BY <1>6 DEF GicType, AwaitAp, gvars
    <2>5. TablesType'
      BY <1>6 DEF TablesType, GicType, AwaitAp, gvars
    <2>6. ItsType'
      BY <1>6 DEF ItsType, GicType, AwaitAp, gvars
    <2>7. MapInv'
      BY <1>6 DEF MapInv, Ready, Reaches, UsesMm, AwaitAp, At, gvars
    <2>8. SpiInv'
      BY <1>6 DEF SpiInv, AwaitAp, At, gvars, kvars
    <2>9. LpiInv'
      BY <1>6 DEF LpiInv, UsesLpi, gic_v3_lpi_uses_its, AwaitAp, At, gvars
    <2>10. CalloutType'
      BY <1>6 DEF CalloutType, InKernel, AwaitAp, At, kvars
    <2> QED BY <2>1, <2>2, <2>3, <2>4, <2>5, <2>6, <2>7, <2>8, <2>9, <2>10, <1>0
               DEF GicInv, GicType
  <1>7. CASE WriteSyspage
    <2>1. SmpInv'
      BY <1>7, NumCpuAssumption DEF SmpInv, WriteSyspage, At, Go, Aps, Cpus
    <2>2. HwInv'
      BY <1>7 DEF HwInv, GicType, WriteSyspage, gvars
    <2>3. DistType(gicd)'
      BY <1>7 DEF GicType, WriteSyspage, gvars
    <2>4. (DOMAIN map = Cpus)'
      BY <1>7 DEF GicType, WriteSyspage, gvars
    <2>5. TablesType'
      BY <1>7 DEF TablesType, GicType, WriteSyspage, gvars
    <2>6. ItsType'
      BY <1>7 DEF ItsType, GicType, WriteSyspage, gvars
    <2>7. MapInv'
      BY <1>7 DEF MapInv, Ready, Reaches, UsesMm, WriteSyspage, At, gvars
    <2>8. SpiInv'
      BY <1>7 DEF SpiInv, WriteSyspage, At, gvars, kvars
    <2>9. LpiInv'
      BY <1>7 DEF LpiInv, UsesLpi, gic_v3_lpi_uses_its, WriteSyspage, At, gvars
    <2>10. CalloutType'
      BY <1>7 DEF CalloutType, InKernel, WriteSyspage, At, kvars
    <2> QED BY <2>1, <2>2, <2>3, <2>4, <2>5, <2>6, <2>7, <2>8, <2>9, <2>10, <1>0
               DEF GicInv, GicType
  <1>8. CASE transfer_aps
    <2>1. SmpInv'
      BY <1>8, NumCpuAssumption DEF SmpInv, transfer_aps, At, Go
    <2>2. HwInv'
      BY <1>8 DEF HwInv, GicType, transfer_aps, gvars
    <2>3. DistType(gicd)'
      BY <1>8 DEF GicType, transfer_aps, gvars
    <2>4. (DOMAIN map = Cpus)'
      BY <1>8 DEF GicType, transfer_aps, gvars
    <2>5. TablesType'
      BY <1>8 DEF TablesType, GicType, transfer_aps, gvars
    <2>6. ItsType'
      BY <1>8 DEF ItsType, GicType, transfer_aps, gvars
    <2>7. MapInv'
      BY <1>8 DEF MapInv, Ready, Reaches, UsesMm, transfer_aps, At, gvars
    <2>8. SpiInv'
      BY <1>8 DEF SpiInv, transfer_aps, At, gvars, kvars
    <2>9. LpiInv'
      BY <1>8 DEF LpiInv, UsesLpi, gic_v3_lpi_uses_its, transfer_aps, At, gvars
    <2>10. CalloutType'
      BY <1>8 DEF CalloutType, InKernel, transfer_aps, At, kvars
    <2> QED BY <2>1, <2>2, <2>3, <2>4, <2>5, <2>6, <2>7, <2>8, <2>9, <2>10, <1>0
               DEF GicInv, GicType
  <1>9. CASE AwaitPending
    <2>1. SmpInv'
      BY <1>9, NumCpuAssumption DEF SmpInv, AwaitPending, At, Go, Aps, Cpus
    <2>2. HwInv'
      BY <1>9 DEF HwInv, GicType, AwaitPending, gvars
    <2>3. DistType(gicd)'
      BY <1>9 DEF GicType, AwaitPending, gvars
    <2>4. (DOMAIN map = Cpus)'
      BY <1>9 DEF GicType, AwaitPending, gvars
    <2>5. TablesType'
      BY <1>9 DEF TablesType, GicType, AwaitPending, gvars
    <2>6. ItsType'
      BY <1>9 DEF ItsType, GicType, AwaitPending, gvars
    <2>7. MapInv'
      BY <1>9 DEF MapInv, Ready, Reaches, UsesMm, AwaitPending, At, gvars
    <2>8. SpiInv'
      BY <1>9 DEF SpiInv, AwaitPending, At, gvars, kvars
    <2>9. LpiInv'
      BY <1>9 DEF LpiInv, UsesLpi, gic_v3_lpi_uses_its, AwaitPending, At, gvars
    <2>10. CalloutType'
      BY <1>9 DEF CalloutType, InKernel, AwaitPending, At, kvars
    <2> QED BY <2>1, <2>2, <2>3, <2>4, <2>5, <2>6, <2>7, <2>8, <2>9, <2>10, <1>0
               DEF GicInv, GicType
  <1>10. CASE KernelStart
    <2>1. SmpInv'
      BY <1>10, NumCpuAssumption DEF SmpInv, KernelStart, At
    <2>2. HwInv'
      BY <1>10 DEF HwInv, GicType, KernelStart, gvars
    <2>3. DistType(gicd)'
      BY <1>10 DEF GicType, KernelStart, gvars
    <2>4. (DOMAIN map = Cpus)'
      BY <1>10 DEF GicType, KernelStart, gvars
    <2>5. TablesType'
      BY <1>10 DEF TablesType, GicType, KernelStart, gvars
    <2>6. ItsType'
      BY <1>10 DEF ItsType, GicType, KernelStart, gvars
    <2>7. MapInv'
      BY <1>10 DEF MapInv, Ready, Reaches, UsesMm, KernelStart, gvars
    <2>8. SpiInv'
      BY <1>10 DEF SpiInv, KernelStart, gvars, kvars
    <2>9. LpiInv'
      BY <1>10 DEF LpiInv, UsesLpi, gic_v3_lpi_uses_its, Told, Dist, KernelStart, gvars
    <2>10. CalloutType'
      BY <1>10 DEF CalloutType, InKernel, KernelStart, At, kvars
    <2> QED BY <2>1, <2>2, <2>3, <2>4, <2>5, <2>6, <2>7, <2>8, <2>9, <2>10, <1>0
               DEF GicInv, GicType
  <1>11. ASSUME NEW c \in Aps, ApEnter(c)
         PROVE  GicInv'
    <2>1. SmpInv'
      BY <1>11, NumCpuAssumption DEF SmpInv, ApEnter, ApGo, Aps, Cpus, Apart, Gone
    <2>2. HwInv'
      BY <1>11 DEF HwInv, GicType, ApEnter, gvars
    <2>3. DistType(gicd)'
      BY <1>11 DEF GicType, ApEnter, gvars
    <2>4. (DOMAIN map = Cpus)'
      BY <1>11 DEF GicType, ApEnter, gvars
    <2>5. TablesType'
      BY <1>11 DEF TablesType, GicType, ApEnter, gvars
    <2>6. ItsType'
      BY <1>11 DEF ItsType, GicType, ApEnter, gvars
    <2>7. MapInv'
      BY <1>11 DEF MapInv, Ready, Reaches, UsesMm, ApEnter, ApGo, gvars
    <2>8. SpiInv'
      BY <1>11 DEF SpiInv, ApEnter, gvars, kvars
    <2>9. LpiInv'
      BY <1>11 DEF LpiInv, UsesLpi, gic_v3_lpi_uses_its, SmpInv, ApEnter, ApGo, gvars, Gone
    <2>10. CalloutType'
      BY <1>11 DEF CalloutType, InKernel, ApEnter, At, ApGo, kvars
    <2> QED BY <2>1, <2>2, <2>3, <2>4, <2>5, <2>6, <2>7, <2>8, <2>9, <2>10, <1>0
               DEF GicInv, GicType
  <1>12. ASSUME NEW c \in Aps, init_one_cpuinfo(c)
         PROVE  GicInv'
    <2>1. SmpInv'
      BY <1>12, NumCpuAssumption DEF SmpInv, init_one_cpuinfo, ApGo, Apart, Gone
    <2>2. HwInv'
      <3>0. c \in Cpus /\ GicCpuInit(c, c)
        BY <1>12 DEF init_one_cpuinfo, ApGo, Aps, SmpInv
      <3> QED BY <3>0, CpuStep DEF GicType, HwInv
    <2>3. DistType(gicd)'
      <3>0. c \in Cpus /\ GicCpuInit(c, c)
        BY <1>12 DEF init_one_cpuinfo, ApGo, Aps, SmpInv
      <3> QED BY <3>0, CpuStep DEF GicType, DistType
    <2>4. (DOMAIN map = Cpus)'
      <3>0. c \in Cpus /\ GicCpuInit(c, c)
        BY <1>12 DEF init_one_cpuinfo, ApGo, Aps, SmpInv
      <3> QED BY <3>0, CpuStep
    <2>5. TablesType'
      <3>0. c \in Cpus /\ GicCpuInit(c, c)
        BY <1>12 DEF init_one_cpuinfo, ApGo, Aps, SmpInv
      <3> QED BY <3>0, CpuStep
    <2>6. ItsType'
      <3>0. c \in Cpus /\ GicCpuInit(c, c)
        BY <1>12 DEF init_one_cpuinfo, ApGo, Aps, SmpInv
      <3> QED BY <3>0, CpuStep
    <2>7. MapInv'
      <3>0. c \in Cpus /\ GicCpuInit(c, c)
        BY <1>12 DEF init_one_cpuinfo, ApGo, Aps, SmpInv

      <3>1. boot' = boot /\ ap[c] = "cpuinfo" /\ ap' = [ap EXCEPT ![c] = "done"]
        BY <1>12 DEF init_one_cpuinfo, ApGo
      <3>2. /\ \A d \in Cpus \ {c} : map'[d] = map[d]
            /\ c \in Reaches(map'[c]) /\ hw' = hw
        BY <3>0, CpuStep
      <3>4. \A d \in Cpus \ {c} : Ready(d)' => Ready(d)
        BY <3>1 DEF Ready, SmpInv, Aps
      <3>5. ASSUME NEW d \in Cpus, Ready(d)' PROVE d \in Reaches(map[d])'
        <4>1. CASE d = c
          BY <3>2, <4>1 DEF Reaches, UsesMm
        <4>2. CASE d # c
          BY <3>2, <3>4, <3>5, <4>2 DEF MapInv, Reaches, UsesMm
        <4> QED BY <4>1, <4>2
      <3> QED BY <3>5 DEF MapInv
    <2>8. SpiInv'
      <3>0. c \in Cpus /\ GicCpuInit(c, c)
        BY <1>12 DEF init_one_cpuinfo, ApGo, Aps, SmpInv

      <3>1. gicd' = gicd
        BY <3>0, CpuStep
      <3>2. boot' = boot \/ (boot = "cpu0" /\ boot' = "start")
        BY <1>12 DEF init_one_cpuinfo, At, Go
      <3> QED BY <3>1, <3>2 DEF SpiInv, kvars
    <2>9. LpiInv'
      <3>0. c \in Cpus /\ GicCpuInit(c, c)
        BY <1>12 DEF init_one_cpuinfo, ApGo, Aps, SmpInv

      <3>1. hw' = hw /\ lpis' = lpis
            /\ \/ rdcache' = rdcache /\ ~(hw.ver # "v2" /\ lpis.n > 0 /\ gic_v3_lpi_uses_its)
               \/ rdcache' = Refresh
        BY <3>0, CpuStep
      <3>2. boot' = boot /\ boot # "kernel"
        BY <1>12 DEF init_one_cpuinfo, ApGo, SmpInv, Gone
      <3>3. UsesLpi => Refresh[TheLpi] = lpis.table[TheLpi] /\ lpis.n > 0 /\ hw.ver # "v2"
        <4> SUFFICES ASSUME UsesLpi PROVE Refresh[TheLpi] = lpis.table[TheLpi] /\ lpis.n > 0 /\ hw.ver # "v2"
          OBVIOUS
        <4>1. TheLpi \in Ids /\ TheLpi \in Lpi .. Lpi + lpis.n - 1 /\ lpis.n \in Nat /\ Lpi \in Nat
          BY CalloutsAssumption DEF UsesLpi, TablesType, GicType, Lpi
        <4>2. TheLpi >= Lpi /\ lpis.n > 0
          BY <4>1
        <4> QED BY <4>1, <4>2 DEF Refresh, UsesLpi
      <3>4. (UsesLpi' <=> UsesLpi) /\ (gic_v3_lpi_uses_its' <=> gic_v3_lpi_uses_its)
        BY <3>1 DEF UsesLpi, gic_v3_lpi_uses_its
      <3> QED BY <3>1, <3>2, <3>3, <3>4 DEF LpiInv
    <2>10. CalloutType'
      BY <1>12 DEF CalloutType, InKernel, init_one_cpuinfo, At, ApGo, kvars
    <2> QED BY <2>1, <2>2, <2>3, <2>4, <2>5, <2>6, <2>7, <2>8, <2>9, <2>10, <1>0
               DEF GicInv, GicType
  <1>13. ASSUME NEW c \in Aps, ApDone(c)
         PROVE  GicInv'
    <2>1. SmpInv'
      BY <1>13, NumCpuAssumption DEF SmpInv, ApDone, ApGo, Aps, Cpus, Apart, Gone
    <2>2. HwInv'
      BY <1>13 DEF HwInv, GicType, ApDone, gvars
    <2>3. DistType(gicd)'
      BY <1>13 DEF GicType, ApDone, gvars
    <2>4. (DOMAIN map = Cpus)'
      BY <1>13 DEF GicType, ApDone, gvars
    <2>5. TablesType'
      BY <1>13 DEF TablesType, GicType, ApDone, gvars
    <2>6. ItsType'
      BY <1>13 DEF ItsType, GicType, ApDone, gvars
    <2>7. MapInv'
      BY <1>13 DEF MapInv, Ready, Reaches, UsesMm, ApDone, ApGo, gvars
    <2>8. SpiInv'
      BY <1>13 DEF SpiInv, ApDone, gvars, kvars
    <2>9. LpiInv'
      BY <1>13 DEF LpiInv, UsesLpi, gic_v3_lpi_uses_its, SmpInv, ApDone, ApGo, gvars, Gone
    <2>10. CalloutType'
      BY <1>13 DEF CalloutType, InKernel, ApDone, At, ApGo, kvars
    <2> QED BY <2>1, <2>2, <2>3, <2>4, <2>5, <2>6, <2>7, <2>8, <2>9, <2>10, <1>0
               DEF GicInv, GicType
  <1>14. ASSUME NEW c \in Aps, ApNext(c)
         PROVE  GicInv'
    <2>1. SmpInv'
      BY <1>14, NumCpuAssumption DEF SmpInv, ApNext, ApGo, Aps, Apart, Gone
    <2>2. HwInv'
      BY <1>14 DEF HwInv, GicType, ApNext, gvars
    <2>3. DistType(gicd)'
      BY <1>14 DEF GicType, ApNext, gvars
    <2>4. (DOMAIN map = Cpus)'
      BY <1>14 DEF GicType, ApNext, gvars
    <2>5. TablesType'
      BY <1>14 DEF TablesType, GicType, ApNext, gvars
    <2>6. ItsType'
      BY <1>14 DEF ItsType, GicType, ApNext, gvars
    <2>7. MapInv'
      BY <1>14 DEF MapInv, Ready, Reaches, UsesMm, ApNext, ApGo, gvars
    <2>8. SpiInv'
      BY <1>14 DEF SpiInv, ApNext, gvars, kvars
    <2>9. LpiInv'
      BY <1>14 DEF LpiInv, UsesLpi, gic_v3_lpi_uses_its, SmpInv, ApNext, ApGo, gvars, Gone
    <2>10. CalloutType'
      BY <1>14 DEF CalloutType, InKernel, ApNext, At, ApGo, kvars
    <2> QED BY <2>1, <2>2, <2>3, <2>4, <2>5, <2>6, <2>7, <2>8, <2>9, <2>10, <1>0
               DEF GicInv, GicType
  <1>15. ASSUME NEW c \in Aps, ApSpin(c)
         PROVE  GicInv'
    <2>1. SmpInv'
      BY <1>15, NumCpuAssumption DEF SmpInv, ApSpin, ApGo, Aps, Cpus, Apart, Gone
    <2>2. HwInv'
      BY <1>15 DEF HwInv, GicType, ApSpin, gvars
    <2>3. DistType(gicd)'
      BY <1>15 DEF GicType, ApSpin, gvars
    <2>4. (DOMAIN map = Cpus)'
      BY <1>15 DEF GicType, ApSpin, gvars
    <2>5. TablesType'
      BY <1>15 DEF TablesType, GicType, ApSpin, gvars
    <2>6. ItsType'
      BY <1>15 DEF ItsType, GicType, ApSpin, gvars
    <2>7. MapInv'
      BY <1>15 DEF MapInv, Ready, Reaches, UsesMm, ApSpin, ApGo, gvars
    <2>8. SpiInv'
      BY <1>15 DEF SpiInv, ApSpin, gvars, kvars
    <2>9. LpiInv'
      BY <1>15 DEF LpiInv, UsesLpi, gic_v3_lpi_uses_its, SmpInv, ApSpin, ApGo, gvars, Gone
    <2>10. CalloutType'
      BY <1>15 DEF CalloutType, InKernel, ApSpin, At, ApGo, kvars
    <2> QED BY <2>1, <2>2, <2>3, <2>4, <2>5, <2>6, <2>7, <2>8, <2>9, <2>10, <1>0
               DEF GicInv, GicType
  <1>16. ASSUME NEW c \in Aps, smp_spin(c)
         PROVE  GicInv'
    <2>1. SmpInv'
      BY <1>16, NumCpuAssumption DEF SmpInv, smp_spin, ApGo, Apart, Gone
    <2>2. HwInv'
      BY <1>16 DEF HwInv, GicType, smp_spin, gvars
    <2>3. DistType(gicd)'
      BY <1>16 DEF GicType, smp_spin, gvars
    <2>4. (DOMAIN map = Cpus)'
      BY <1>16 DEF GicType, smp_spin, gvars
    <2>5. TablesType'
      BY <1>16 DEF TablesType, GicType, smp_spin, gvars
    <2>6. ItsType'
      BY <1>16 DEF ItsType, GicType, smp_spin, gvars
    <2>7. MapInv'
      BY <1>16 DEF MapInv, Ready, Reaches, UsesMm, SmpInv, smp_spin, gvars, Aps, Gone
    <2>8. SpiInv'
      BY <1>16 DEF SpiInv, smp_spin, gvars, kvars
    <2>9. LpiInv'
      BY <1>16 DEF LpiInv, UsesLpi, gic_v3_lpi_uses_its, Told, Dist, smp_spin, gvars
    <2>10. CalloutType'
      <3>1. \A d \in Cpus : InKernel(d) => InKernel(d)'
        BY <1>16 DEF InKernel, smp_spin, At, ApGo, SmpInv, Aps
      <3>2. \A s \in Cpus : cs[s].op \in {"ldxr", "stxr", "sgir"} => cs[s].to \in Cpus
        BY DEF CalloutType, CpuStates
      <3> QED BY <3>1, <3>2 DEF CalloutType, kvars
    <2> QED BY <2>1, <2>2, <2>3, <2>4, <2>5, <2>6, <2>7, <2>8, <2>9, <2>10, <1>0
               DEF GicInv, GicType
  <1> QED BY <1>1, <1>2, <1>3, <1>4, <1>5, <1>6, <1>7, <1>8, <1>9, <1>10, <1>11, <1>12, <1>13,
             <1>14, <1>15, <1>16
             DEF SmpNext

-----------------------------------------------------------------------------
\* The steps of the kernel's callouts, of the controller and of the devices.
CalloutNext ==
  \/ \E c \in Cpus :
       \/ SendStart(c) \/ Ldxr(c) \/ Stxr(c) \/ Sgir0(c) \/ TakeIpi(c) \/ KernelIpi(c)
       \/ MaskSpi(c) \/ MaskRwp(c) \/ UnmaskSpi(c) \/ TakeSpi(c)
       \/ LpiLock(c) \/ LpiCommands(c)
  \/ Propagate \/ ItsStep
  \/ MsiRaise \/ interrupt_id_bcm2711_msi \/ interrupt_eoi_bcm2711_msi
  \/ interrupt_mask_bcm2711_msi \/ interrupt_unmask_bcm2711_msi

\* They keep the invariant.
LEMMA CalloutNextInv ==
  ASSUME GicInv, CalloutNext
  PROVE  GicInv'
  <1>a. SmpInv /\ GicType /\ MapInv /\ SpiInv /\ LpiInv /\ CalloutType /\ IpiInv /\ NoLostMsi
    BY DEF GicInv
  <1> USE <1>a
  <1>0. SmpInv' /\ UNCHANGED svars
    <2>1. UNCHANGED svars
      BY DEF CalloutNext, SendStart, Ldxr, Stxr, Sgir0, TakeIpi, KernelIpi, MaskSpi, MaskRwp,
             UnmaskSpi, TakeSpi, LpiLock, LpiCommands, Propagate, ItsStep, MsiRaise,
             interrupt_id_bcm2711_msi, interrupt_eoi_bcm2711_msi,
             interrupt_mask_bcm2711_msi, interrupt_unmask_bcm2711_msi, Rest
    <2> QED BY <2>1 DEF SmpInv, svars
  <1>1. ASSUME NEW c \in Cpus, SendStart(c)
        PROVE  GicInv'
    <2>1. HwInv'
      BY <1>1 DEF HwInv, GicType, SendStart, Rest, gvars
    <2>2. DistType(gicd)'
      BY <1>1 DEF GicType, SendStart, Rest, gvars
    <2>3. (DOMAIN map = Cpus)'
      BY <1>1 DEF GicType, SendStart, Rest, gvars
    <2>4. TablesType'
      BY <1>1 DEF TablesType, GicType, SendStart, Rest, gvars
    <2>5. ItsType'
      BY <1>1 DEF ItsType, GicType, SendStart, Rest, gvars
    <2>6. MapInv'
      BY <1>1 DEF MapInv, Ready, Reaches, UsesMm, SendStart, Rest, gvars, svars
    <2>7. SpiInv'
      BY <1>1 DEF SpiInv, SendStart, Rest, gvars, svars
    <2>8. LpiInv'
      BY <1>1
         DEF LpiInv, UsesLpi, gic_v3_lpi_uses_its, Told, Dist, SendStart, Rest, gvars, svars
    <2>9. CalloutType'
      BY <1>1 DEF CalloutType, CpuStates, InKernel, SendStart, At, Do, Rest, svars
    <2>10. IpiInv'
      BY <1>1 DEF IpiInv, Signalled, SendStart, Is, Do
    <2>11. NoLostMsi'
      BY <1>1 DEF NoLostMsi, SendStart, Is, Do
    <2> QED BY <2>1, <2>2, <2>3, <2>4, <2>5, <2>6, <2>7, <2>8, <2>9, <2>10, <2>11, <1>0
               DEF GicInv, GicType
  <1>2. ASSUME NEW c \in Cpus, Ldxr(c)
        PROVE  GicInv'
    <2>1. HwInv'
      BY <1>2 DEF HwInv, GicType, Ldxr, Rest, gvars
    <2>2. DistType(gicd)'
      BY <1>2 DEF GicType, Ldxr, Rest, gvars
    <2>3. (DOMAIN map = Cpus)'
      BY <1>2 DEF GicType, Ldxr, Rest, gvars
    <2>4. TablesType'
      BY <1>2 DEF TablesType, GicType, Ldxr, Rest, gvars
    <2>5. ItsType'
      BY <1>2 DEF ItsType, GicType, Ldxr, Rest, gvars
    <2>6. MapInv'
      BY <1>2 DEF MapInv, Ready, Reaches, UsesMm, Ldxr, Rest, gvars, svars
    <2>7. SpiInv'
      BY <1>2 DEF SpiInv, Ldxr, Rest, gvars, svars
    <2>8. LpiInv'
      BY <1>2 DEF LpiInv, UsesLpi, gic_v3_lpi_uses_its, Told, Dist, Ldxr, Rest, gvars, svars
    <2>9. CalloutType'
      <3>1. cs[c] \in CpuStates /\ cs[c].op = "ldxr"
        BY <1>2 DEF CalloutType, Ldxr, Is
      <3>2. cs[c].to \in Cpus /\ cs[c].cmd \in Cmds /\ InKernel(cs[c].to)
        BY <3>1 DEF CpuStates, CalloutType
      <3> DEFINE r == [op |-> "stxr", to |-> cs[c].to, cmd |-> cs[c].cmd, old |-> ipicmds[cs[c].to]]
      <3>3. r \in CpuStates /\ r.to = cs[c].to
        BY <3>2 DEF CpuStates, CalloutType
      <3>4. cs' = [cs EXCEPT ![c] = r] /\ UNCHANGED <<ipicmds, due, msi>>
        BY <1>2 DEF Ldxr, Do
      <3> HIDE DEF r
      <3>5. cs' \in [Cpus -> CpuStates] /\ \A s \in Cpus : s # c => cs'[s] = cs[s]
        BY <3>3, <3>4 DEF CalloutType
      <3>6. \A d \in Cpus : InKernel(d)' <=> InKernel(d)
        BY <1>0 DEF InKernel, At, svars
      <3>7. ASSUME NEW s \in Cpus, cs'[s].op \in {"ldxr", "stxr", "sgir"} PROVE InKernel(cs[s].to)'
        <4>1. CASE s = c
          BY <1>0, <3>2, <3>3, <3>4, <4>1 DEF InKernel, At, svars
        <4>2. CASE s # c
          BY <1>0, <3>5, <3>7, <4>2 DEF CalloutType, InKernel, At, svars
        <4> QED BY <4>1, <4>2
      <3> QED BY <3>4, <3>5, <3>7 DEF CalloutType
    <2>10. IpiInv'
      BY <1>2 DEF IpiInv, Signalled, Ldxr, Is, Do
    <2>11. NoLostMsi'
      BY <1>2 DEF NoLostMsi, Ldxr, Is, Do
    <2> QED BY <2>1, <2>2, <2>3, <2>4, <2>5, <2>6, <2>7, <2>8, <2>9, <2>10, <2>11, <1>0
               DEF GicInv, GicType
  <1>3. ASSUME NEW c \in Cpus, Stxr(c)
        PROVE  GicInv'
    <2>1. HwInv'
      BY <1>3 DEF HwInv, GicType, Stxr, Rest, gvars
    <2>2. DistType(gicd)'
      BY <1>3 DEF GicType, Stxr, Rest, gvars
    <2>3. (DOMAIN map = Cpus)'
      BY <1>3 DEF GicType, Stxr, Rest, gvars
    <2>4. TablesType'
      BY <1>3 DEF TablesType, GicType, Stxr, Rest, gvars
    <2>5. ItsType'
      BY <1>3 DEF ItsType, GicType, Stxr, Rest, gvars
    <2>6. MapInv'
      BY <1>3 DEF MapInv, Ready, Reaches, UsesMm, Stxr, Rest, gvars, svars
    <2>7. SpiInv'
      BY <1>3 DEF SpiInv, Stxr, Rest, gvars, svars
    <2>8. LpiInv'
      BY <1>3 DEF LpiInv, UsesLpi, gic_v3_lpi_uses_its, Told, Dist, Stxr, Rest, gvars, svars
    <2>9. CalloutType'
      <3> DEFINE t == cs[c].to
                 rec == cs'[c]
      <3>1. cs[c] \in CpuStates /\ cs[c].op = "stxr"
        BY <1>3 DEF CalloutType, Stxr, Is
      <3>2. t \in Cpus /\ cs[c].cmd \in Cmds /\ cs[c].old \in SUBSET Cmds /\ InKernel(t)
        BY <3>1 DEF CpuStates, CalloutType
      <3>3. /\ cs' = [cs EXCEPT ![c] = rec] /\ UNCHANGED <<msi, sgi>>
            /\ \/ /\ ipicmds[t] = cs[c].old
                  /\ ipicmds' = [ipicmds EXCEPT ![t] = cs[c].old \cup {cs[c].cmd}]
                  /\ due' = [due EXCEPT ![t] = @ \cup {cs[c].cmd}]
                  /\ rec = IF cs[c].old = {} THEN [op |-> "sgir", to |-> t] ELSE [op |-> "run"]
               \/ /\ rec = [op |-> "ldxr", to |-> t, cmd |-> cs[c].cmd]
                  /\ UNCHANGED <<ipicmds, due>>
        BY <1>3 DEF Stxr, Do, Idle, CalloutType
      <3>4. [op |-> "run"] \in CpuStates /\ [op |-> "sgir", to |-> t] \in CpuStates
              /\ [op |-> "ldxr", to |-> t, cmd |-> cs[c].cmd] \in CpuStates
        BY <3>2 DEF CpuStates
      <3>5. rec \in CpuStates /\ rec.op \in {"run", "sgir", "ldxr"} /\ (rec.op # "run" => rec.to = t)
        BY <3>3, <3>4
      <3>6. \A s \in Cpus : s # c => cs'[s] = cs[s]
        BY <3>3 DEF CalloutType

      <3> HIDE DEF rec, t
      <3>7. cs' \in [Cpus -> CpuStates] /\ rec = cs'[c]
        BY <3>3, <3>5 DEF CalloutType, rec
      <3>8. ipicmds' \in [Cpus -> SUBSET Cmds] /\ due' \in [Cpus -> SUBSET Cmds]
        BY <3>2, <3>3 DEF CalloutType
      <3>9. ASSUME NEW s \in Cpus, cs'[s].op \in {"ldxr", "stxr", "sgir"} PROVE InKernel(cs[s].to)'
        <4>1. CASE s = c
          BY <1>0, <3>2, <3>5, <3>7, <3>9, <4>1 DEF InKernel, At, svars
        <4>2. CASE s # c
          BY <1>0, <3>6, <3>9, <4>2 DEF CalloutType, InKernel, At, svars
        <4> QED BY <4>1, <4>2
      <3> QED BY <3>3, <3>7, <3>8, <3>9 DEF CalloutType
    <2>10. IpiInv'
      <3> DEFINE t == cs[c].to
                 rec == cs'[c]
      <3>1. cs[c] \in CpuStates /\ cs[c].op = "stxr"
        BY <1>3 DEF CalloutType, Stxr, Is
      <3>2. t \in Cpus /\ cs[c].cmd \in Cmds /\ cs[c].old \in SUBSET Cmds /\ InKernel(t)
        BY <3>1 DEF CpuStates, CalloutType
      <3>3. /\ cs' = [cs EXCEPT ![c] = rec] /\ UNCHANGED <<msi, sgi>>
            /\ \/ /\ ipicmds[t] = cs[c].old
                  /\ ipicmds' = [ipicmds EXCEPT ![t] = cs[c].old \cup {cs[c].cmd}]
                  /\ due' = [due EXCEPT ![t] = @ \cup {cs[c].cmd}]
                  /\ rec = IF cs[c].old = {} THEN [op |-> "sgir", to |-> t] ELSE [op |-> "run"]
               \/ /\ rec = [op |-> "ldxr", to |-> t, cmd |-> cs[c].cmd]
                  /\ UNCHANGED <<ipicmds, due>>
        BY <1>3 DEF Stxr, Do, Idle, CalloutType
      <3>4. [op |-> "run"] \in CpuStates /\ [op |-> "sgir", to |-> t] \in CpuStates
              /\ [op |-> "ldxr", to |-> t, cmd |-> cs[c].cmd] \in CpuStates
        BY <3>2 DEF CpuStates
      <3>5. rec \in CpuStates /\ rec.op \in {"run", "sgir", "ldxr"} /\ (rec.op # "run" => rec.to = t)
        BY <3>3, <3>4
      <3>6. \A s \in Cpus : s # c => cs'[s] = cs[s]
        BY <3>3 DEF CalloutType

      <3>7. \A d \in Cpus : Signalled(d) => Signalled(d)'
        BY <3>1, <3>3, <3>6 DEF Signalled
      <3>8. \A d \in Cpus : rec = [op |-> "sgir", to |-> d] => Signalled(d)'
        BY DEF Signalled
      <3> HIDE DEF rec, t
      <3>9. ASSUME NEW d \in Cpus PROVE due'[d] \subseteq ipicmds'[d] /\ (ipicmds'[d] # {} => Signalled(d)')
        <4>0. due[d] \subseteq ipicmds[d] /\ (ipicmds[d] # {} => Signalled(d))
          BY DEF IpiInv
        <4>1. CASE UNCHANGED <<ipicmds, due>>
          BY <3>7, <4>0, <4>1
        <4>2. CASE d # t /\ ~UNCHANGED <<ipicmds, due>>
          <5>1. ipicmds'[d] = ipicmds[d] /\ due'[d] = due[d]
            BY <3>3, <4>2 DEF CalloutType
          <5> QED BY <3>7, <4>0, <5>1
        <4>3. CASE d = t /\ ~UNCHANGED <<ipicmds, due>>
          <5>1. /\ ipicmds[t] = cs[c].old /\ ipicmds'[t] = cs[c].old \cup {cs[c].cmd}
                /\ due'[t] = due[t] \cup {cs[c].cmd}
                /\ (cs[c].old = {} => rec = [op |-> "sgir", to |-> t])
            BY <3>2, <3>3, <4>3 DEF CalloutType
          <5>2. due'[t] \subseteq ipicmds'[t]
            BY <4>0, <4>3, <5>1
          <5>3. Signalled(d)'
            <6>1. CASE cs[c].old = {}
              BY <3>8, <4>3, <5>1, <6>1
            <6>2. CASE cs[c].old # {}
              BY <3>7, <4>0, <4>3, <5>1, <6>2
            <6> QED BY <6>1, <6>2
          <5> QED BY <4>3, <5>2, <5>3
        <4> QED BY <4>1, <4>2, <4>3
      <3> QED BY <3>9 DEF IpiInv
    <2>11. NoLostMsi'
      <3> DEFINE t == cs[c].to
                 rec == cs'[c]
      <3>1. cs[c] \in CpuStates /\ cs[c].op = "stxr"
        BY <1>3 DEF CalloutType, Stxr, Is
      <3>2. t \in Cpus /\ cs[c].cmd \in Cmds /\ cs[c].old \in SUBSET Cmds /\ InKernel(t)
        BY <3>1 DEF CpuStates, CalloutType
      <3>3. /\ cs' = [cs EXCEPT ![c] = rec] /\ UNCHANGED <<msi, sgi>>
            /\ \/ /\ ipicmds[t] = cs[c].old
                  /\ ipicmds' = [ipicmds EXCEPT ![t] = cs[c].old \cup {cs[c].cmd}]
                  /\ due' = [due EXCEPT ![t] = @ \cup {cs[c].cmd}]
                  /\ rec = IF cs[c].old = {} THEN [op |-> "sgir", to |-> t] ELSE [op |-> "run"]
               \/ /\ rec = [op |-> "ldxr", to |-> t, cmd |-> cs[c].cmd]
                  /\ UNCHANGED <<ipicmds, due>>
        BY <1>3 DEF Stxr, Do, Idle, CalloutType
      <3>4. [op |-> "run"] \in CpuStates /\ [op |-> "sgir", to |-> t] \in CpuStates
              /\ [op |-> "ldxr", to |-> t, cmd |-> cs[c].cmd] \in CpuStates
        BY <3>2 DEF CpuStates
      <3>5. rec \in CpuStates /\ rec.op \in {"run", "sgir", "ldxr"} /\ (rec.op # "run" => rec.to = t)
        BY <3>3, <3>4
      <3>6. \A s \in Cpus : s # c => cs'[s] = cs[s]
        BY <3>3 DEF CalloutType

      <3> HIDE DEF rec, t
      <3>7. cs[0].op = "msi" => cs'[0] = cs[0]
        BY <3>1, <3>3
      <3> QED BY <3>3, <3>7 DEF NoLostMsi
    <2> QED BY <2>1, <2>2, <2>3, <2>4, <2>5, <2>6, <2>7, <2>8, <2>9, <2>10, <2>11, <1>0
               DEF GicInv, GicType
  <1>4. ASSUME NEW c \in Cpus, Sgir0(c)
        PROVE  GicInv'
    <2>1. HwInv'
      BY <1>4 DEF HwInv, GicType, Sgir0, Rest, gvars
    <2>2. DistType(gicd)'
      BY <1>4 DEF GicType, Sgir0, Rest, gvars
    <2>3. (DOMAIN map = Cpus)'
      BY <1>4 DEF GicType, Sgir0, Rest, gvars
    <2>4. TablesType'
      BY <1>4 DEF TablesType, GicType, Sgir0, Rest, gvars
    <2>5. ItsType'
      BY <1>4 DEF ItsType, GicType, Sgir0, Rest, gvars
    <2>6. MapInv'
      BY <1>4 DEF MapInv, Ready, Reaches, UsesMm, Sgir0, Rest, gvars, svars
    <2>7. SpiInv'
      BY <1>4 DEF SpiInv, Sgir0, Rest, gvars, svars
    <2>8. LpiInv'
      BY <1>4 DEF LpiInv, UsesLpi, gic_v3_lpi_uses_its, Told, Dist, Sgir0, Rest, gvars, svars
    <2>9. CalloutType'
      BY <1>4 DEF CalloutType, CpuStates, InKernel, Sgir0, At, Do, Rest, svars, Idle
    <2>10. IpiInv'
      <3> DEFINE t == cs[c].to
      <3>1. cs[c] \in CpuStates /\ cs[c].op = "sgir"
        BY <1>4 DEF CalloutType, Sgir0, Is
      <3>2. t \in Cpus /\ InKernel(t)
        BY <3>1 DEF CpuStates, CalloutType
      <3>3. t \in Reaches(map[t])
        BY <3>2 DEF MapInv, Ready, InKernel, At
      <3>4. /\ cs' = [cs EXCEPT ![c] = [op |-> "run"]] /\ UNCHANGED <<ipicmds, due>>
            /\ sgi' = sgi \cup Reaches(map[t])
        BY <1>4 DEF Sgir0, Do, Idle
      <3> HIDE DEF t
      <3>5. \A s \in Cpus : s # c => cs'[s] = cs[s]
        BY <3>4 DEF CalloutType
      <3>6. ASSUME NEW d \in Cpus, Signalled(d) PROVE Signalled(d)'
        <4>1. CASE d \in sgi \/ d = t
          BY <3>3, <3>4, <4>1 DEF Signalled
        <4>2. CASE cs[d].op = "ipi"
          BY <3>1, <3>5, <4>2 DEF Signalled
        <4>3. ASSUME NEW s \in Cpus, cs[s].op = "sgir", cs[s].to = d, d # t PROVE Signalled(d)'
          <5>1. s # c
            BY <4>3 DEF t
          <5> QED BY <3>5, <4>3, <5>1 DEF Signalled
        <4> QED BY <3>6, <4>1, <4>2, <4>3 DEF Signalled
      <3> QED BY <3>4, <3>6 DEF IpiInv
    <2>11. NoLostMsi'
      BY <1>4 DEF NoLostMsi, Sgir0, Is, Do
    <2> QED BY <2>1, <2>2, <2>3, <2>4, <2>5, <2>6, <2>7, <2>8, <2>9, <2>10, <2>11, <1>0
               DEF GicInv, GicType
  <1>5. ASSUME NEW c \in Cpus, TakeIpi(c)
        PROVE  GicInv'
    <2>1. HwInv'
      BY <1>5 DEF HwInv, GicType, TakeIpi, Rest, gvars
    <2>2. DistType(gicd)'
      BY <1>5 DEF GicType, TakeIpi, Rest, gvars
    <2>3. (DOMAIN map = Cpus)'
      BY <1>5 DEF GicType, TakeIpi, Rest, gvars
    <2>4. TablesType'
      BY <1>5 DEF TablesType, GicType, TakeIpi, Rest, gvars
    <2>5. ItsType'
      BY <1>5 DEF ItsType, GicType, TakeIpi, Rest, gvars
    <2>6. MapInv'
      BY <1>5 DEF MapInv, Ready, Reaches, UsesMm, TakeIpi, Rest, gvars, svars
    <2>7. SpiInv'
      BY <1>5 DEF SpiInv, TakeIpi, Rest, gvars, svars
    <2>8. LpiInv'
      BY <1>5
         DEF LpiInv, UsesLpi, gic_v3_lpi_uses_its, Told, Dist, TakeIpi, Rest, gvars, svars
    <2>9. CalloutType'
      BY <1>5 DEF CalloutType, CpuStates, InKernel, TakeIpi, At, Do, Rest, svars
    <2>10. IpiInv'
      BY <1>5 DEF IpiInv, Signalled, CalloutType, TakeIpi, Is, Do
    <2>11. NoLostMsi'
      BY <1>5 DEF NoLostMsi, TakeIpi, Is, Do
    <2> QED BY <2>1, <2>2, <2>3, <2>4, <2>5, <2>6, <2>7, <2>8, <2>9, <2>10, <2>11, <1>0
               DEF GicInv, GicType
  <1>6. ASSUME NEW c \in Cpus, KernelIpi(c)
        PROVE  GicInv'
    <2>1. HwInv'
      BY <1>6 DEF HwInv, GicType, KernelIpi, Rest, gvars
    <2>2. DistType(gicd)'
      BY <1>6 DEF GicType, KernelIpi, Rest, gvars
    <2>3. (DOMAIN map = Cpus)'
      BY <1>6 DEF GicType, KernelIpi, Rest, gvars
    <2>4. TablesType'
      BY <1>6 DEF TablesType, GicType, KernelIpi, Rest, gvars
    <2>5. ItsType'
      BY <1>6 DEF ItsType, GicType, KernelIpi, Rest, gvars
    <2>6. MapInv'
      BY <1>6 DEF MapInv, Ready, Reaches, UsesMm, KernelIpi, Rest, gvars, svars
    <2>7. SpiInv'
      BY <1>6 DEF SpiInv, KernelIpi, Rest, gvars, svars
    <2>8. LpiInv'
      BY <1>6
         DEF LpiInv, UsesLpi, gic_v3_lpi_uses_its, Told, Dist, KernelIpi, Rest, gvars, svars
    <2>9. CalloutType'
      BY <1>6 DEF CalloutType, CpuStates, InKernel, KernelIpi, At, Do, Rest, svars, Idle
    <2>10. IpiInv'
      BY <1>6 DEF IpiInv, Signalled, CalloutType, KernelIpi, Is, Do
    <2>11. NoLostMsi'
      BY <1>6 DEF NoLostMsi, KernelIpi, Is, Do
    <2> QED BY <2>1, <2>2, <2>3, <2>4, <2>5, <2>6, <2>7, <2>8, <2>9, <2>10, <2>11, <1>0
               DEF GicInv, GicType
  <1>7. ASSUME NEW c \in Cpus, MaskSpi(c)
        PROVE  GicInv'
    <2>1. HwInv'
      BY <1>7 DEF HwInv, GicType, MaskSpi
    <2>2. DistType(gicd)'
      BY <1>7 DEF DistType, GicType, MaskSpi
    <2>3. (DOMAIN map = Cpus)'
      BY <1>7 DEF GicType, MaskSpi
    <2>4. TablesType'
      BY <1>7 DEF TablesType, GicType, MaskSpi
    <2>5. ItsType'
      BY <1>7 DEF ItsType, GicType, MaskSpi
    <2>6. MapInv'
      BY <1>7 DEF MapInv, Ready, Reaches, UsesMm, MaskSpi, svars
    <2>7. SpiInv'
      BY <1>7 DEF SpiInv, MaskSpi, svars
    <2>8. LpiInv'
      BY <1>7 DEF LpiInv, UsesLpi, gic_v3_lpi_uses_its, Told, Dist, MaskSpi, svars
    <2>9. CalloutType'
      BY <1>7 DEF CalloutType, CpuStates, InKernel, MaskSpi, At, Do, svars
    <2>10. IpiInv'
      BY <1>7 DEF IpiInv, Signalled, MaskSpi, Is, Do
    <2>11. NoLostMsi'
      BY <1>7 DEF NoLostMsi, MaskSpi, Is, Do
    <2> QED BY <2>1, <2>2, <2>3, <2>4, <2>5, <2>6, <2>7, <2>8, <2>9, <2>10, <2>11, <1>0
               DEF GicInv, GicType
  <1>8. ASSUME NEW c \in Cpus, MaskRwp(c)
        PROVE  GicInv'
    <2>1. HwInv'
      BY <1>8 DEF HwInv, GicType, MaskRwp, Rest, gvars
    <2>2. DistType(gicd)'
      BY <1>8 DEF GicType, MaskRwp, Rest, gvars
    <2>3. (DOMAIN map = Cpus)'
      BY <1>8 DEF GicType, MaskRwp, Rest, gvars
    <2>4. TablesType'
      BY <1>8 DEF TablesType, GicType, MaskRwp, Rest, gvars
    <2>5. ItsType'
      BY <1>8 DEF ItsType, GicType, MaskRwp, Rest, gvars
    <2>6. MapInv'
      BY <1>8 DEF MapInv, Ready, Reaches, UsesMm, MaskRwp, Rest, gvars, svars
    <2>7. SpiInv'
      BY <1>8 DEF SpiInv, MaskRwp, Rest, gvars, svars
    <2>8. LpiInv'
      BY <1>8
         DEF LpiInv, UsesLpi, gic_v3_lpi_uses_its, Told, Dist, MaskRwp, Rest, gvars, svars
    <2>9. CalloutType'
      BY <1>8 DEF CalloutType, CpuStates, InKernel, MaskRwp, At, Do, Rest, svars, Idle
    <2>10. IpiInv'
      BY <1>8 DEF IpiInv, Signalled, MaskRwp, Is, Do
    <2>11. NoLostMsi'
      BY <1>8 DEF NoLostMsi, MaskRwp, Is, Do
    <2> QED BY <2>1, <2>2, <2>3, <2>4, <2>5, <2>6, <2>7, <2>8, <2>9, <2>10, <2>11, <1>0
               DEF GicInv, GicType
  <1>9. ASSUME NEW c \in Cpus, UnmaskSpi(c)
        PROVE  GicInv'
    <2>1. HwInv'
      BY <1>9 DEF HwInv, GicType, UnmaskSpi
    <2>2. DistType(gicd)'
      <3>1. gicd' = [gicd EXCEPT !.en = @ \cup {TheSpi}]
        BY <1>9 DEF UnmaskSpi
      <3> QED BY <3>1, CalloutsAssumption DEF DistType, GicType
    <2>3. (DOMAIN map = Cpus)'
      BY <1>9 DEF GicType, UnmaskSpi
    <2>4. TablesType'
      BY <1>9 DEF TablesType, GicType, UnmaskSpi
    <2>5. ItsType'
      BY <1>9 DEF ItsType, GicType, UnmaskSpi
    <2>6. MapInv'
      BY <1>9 DEF MapInv, Ready, Reaches, UsesMm, UnmaskSpi, svars
    <2>7. SpiInv'
      BY <1>9 DEF SpiInv, SmpInv, UnmaskSpi, At, Is, InKernel, svars, Aps
    <2>8. LpiInv'
      BY <1>9 DEF LpiInv, UsesLpi, gic_v3_lpi_uses_its, Told, Dist, UnmaskSpi, svars
    <2>9. CalloutType'
      BY <1>9 DEF CalloutType, InKernel, UnmaskSpi, At, svars
    <2>10. IpiInv'
      BY <1>9 DEF IpiInv, Signalled, UnmaskSpi
    <2>11. NoLostMsi'
      BY <1>9 DEF NoLostMsi, UnmaskSpi
    <2> QED BY <2>1, <2>2, <2>3, <2>4, <2>5, <2>6, <2>7, <2>8, <2>9, <2>10, <2>11, <1>0
               DEF GicInv, GicType
  <1>10. ASSUME NEW c \in Cpus, TakeSpi(c)
         PROVE  GicInv'
    <2>1. HwInv'
      BY <1>10 DEF HwInv, GicType, TakeSpi, Rest, gvars
    <2>2. DistType(gicd)'
      BY <1>10 DEF GicType, TakeSpi, Rest, gvars
    <2>3. (DOMAIN map = Cpus)'
      BY <1>10 DEF GicType, TakeSpi, Rest, gvars
    <2>4. TablesType'
      BY <1>10 DEF TablesType, GicType, TakeSpi, Rest, gvars
    <2>5. ItsType'
      BY <1>10 DEF ItsType, GicType, TakeSpi, Rest, gvars
    <2>6. MapInv'
      BY <1>10 DEF MapInv, Ready, Reaches, UsesMm, TakeSpi, Rest, gvars, svars
    <2>7. SpiInv'
      BY <1>10 DEF SpiInv, TakeSpi, Rest, svars
    <2>8. LpiInv'
      BY <1>10
         DEF LpiInv, UsesLpi, gic_v3_lpi_uses_its, Told, Dist, TakeSpi, Rest, gvars, svars
    <2>9. CalloutType'
      BY <1>10 DEF CalloutType, InKernel, TakeSpi, At, Rest, svars
    <2>10. IpiInv'
      BY <1>10 DEF IpiInv, Signalled, TakeSpi
    <2>11. NoLostMsi'
      BY <1>10 DEF NoLostMsi, TakeSpi
    <2> QED BY <2>1, <2>2, <2>3, <2>4, <2>5, <2>6, <2>7, <2>8, <2>9, <2>10, <2>11, <1>0
               DEF GicInv, GicType
  <1>11. ASSUME NEW c \in Cpus, LpiLock(c)
         PROVE  GicInv'
    <2>1. HwInv'
      BY <1>11 DEF HwInv, GicType, LpiLock
    <2>2. DistType(gicd)'
      BY <1>11 DEF GicType, LpiLock
    <2>3. (DOMAIN map = Cpus)'
      BY <1>11 DEF GicType, LpiLock
    <2>4. TablesType'
      BY <1>11 DEF TablesType, GicType, LpiLock
    <2>5. ItsType'
      BY <1>11 DEF ItsType, GicType, LpiLock
    <2>6. MapInv'
      BY <1>11 DEF MapInv, Ready, Reaches, UsesMm, LpiLock, svars
    <2>7. SpiInv'
      BY <1>11 DEF SpiInv, LpiLock, svars
    <2>8. LpiInv'
      <3>1. its'.lock = c /\ boot = "kernel" /\ (boot' = boot) /\ lpis'.n = lpis.n /\ (hw' = hw)
        BY <1>11 DEF LpiLock, Is, InKernel, At, SmpInv, svars, Aps
      <3>2. c # None
        BY NumCpuAssumption DEF Cpus
      <3>3. gic_v3_lpi_uses_its' <=> gic_v3_lpi_uses_its
        BY <3>1 DEF gic_v3_lpi_uses_its
      <3> QED BY <3>1, <3>2, <3>3 DEF LpiInv
    <2>9. CalloutType'
      BY <1>11 DEF CalloutType, CpuStates, InKernel, LpiLock, At, Do, svars
    <2>10. IpiInv'
      BY <1>11 DEF IpiInv, Signalled, LpiLock, Is, Do
    <2>11. NoLostMsi'
      BY <1>11 DEF NoLostMsi, LpiLock, Is, Do
    <2> QED BY <2>1, <2>2, <2>3, <2>4, <2>5, <2>6, <2>7, <2>8, <2>9, <2>10, <2>11, <1>0
               DEF GicInv, GicType
  <1>12. ASSUME NEW c \in Cpus, LpiCommands(c)
         PROVE  GicInv'
    <2>1. HwInv'
      <3>1. hw' = hw
        BY <1>12 DEF LpiCommands
      <3> QED BY <3>1 DEF HwInv, GicType
    <2>2. DistType(gicd)'
      BY <1>12 DEF GicType, LpiCommands
    <2>3. (DOMAIN map = Cpus)'
      BY <1>12 DEF GicType, LpiCommands
    <2>4. TablesType'
      BY <1>12 DEF TablesType, GicType, LpiCommands
    <2>5. ItsType'
      <3> DEFINE cmds == << <<"INVALL", 0>>, <<"SYNC", 0>> >>
                 end  == next_cmd_q_slot(next_cmd_q_slot(its.cw))
      <3>1. its.cw \in 0 .. QSlots - 1 /\ its.cr \in 0 .. QSlots - 1 /\ ItsType
        BY DEF GicType, ItsType
      <3>2. next_cmd_q_slot(its.cw) \in 0 .. QSlots - 1 /\ end \in 0 .. QSlots - 1
        BY <3>1, NextSlot
      <3>3. cmds \in Seq(ItsCmds) /\ Len(cmds) > 0 /\ cmds[1] = <<"INVALL", 0>>
        <4>1. <<"INVALL", 0>> \in ItsCmds /\ <<"SYNC", 0>> \in ItsCmds
          BY DEF ItsCmds
        <4> QED BY <4>1
      <3> HIDE DEF cmds
      <3>4. /\ Issue(its.q, its.cw, cmds) \in [0 .. QSlots - 1 -> ItsCmds]
            /\ Issue(its.q, its.cw, cmds)[its.cw] = cmds[1]
        BY <3>1, <3>3, IssueStep
      <3>5. its' = [its EXCEPT !.q = Issue(its.q, its.cw, cmds), !.cw = end, !.lock = None]
        BY <1>12 DEF LpiCommands, cmds

      <3> HIDE DEF end
      <3> QED BY <3>1, <3>2, <3>4, <3>5 DEF ItsType
    <2>6. MapInv'
      BY <1>12 DEF MapInv, Ready, Reaches, UsesMm, LpiCommands, svars
    <2>7. SpiInv'
      BY <1>12 DEF SpiInv, LpiCommands, svars
    <2>8. LpiInv'
      <3> DEFINE cmds == << <<"INVALL", 0>>, <<"SYNC", 0>> >>
                 end  == next_cmd_q_slot(next_cmd_q_slot(its.cw))
      <3>1. its.cw \in 0 .. QSlots - 1 /\ its.cr \in 0 .. QSlots - 1 /\ ItsType
        BY DEF GicType, ItsType
      <3>2. next_cmd_q_slot(its.cw) \in 0 .. QSlots - 1 /\ end \in 0 .. QSlots - 1
        BY <3>1, NextSlot
      <3>3. cmds \in Seq(ItsCmds) /\ Len(cmds) > 0 /\ cmds[1] = <<"INVALL", 0>>
        <4>1. <<"INVALL", 0>> \in ItsCmds /\ <<"SYNC", 0>> \in ItsCmds
          BY DEF ItsCmds
        <4> QED BY <4>1
      <3> HIDE DEF cmds
      <3>4. /\ Issue(its.q, its.cw, cmds) \in [0 .. QSlots - 1 -> ItsCmds]
            /\ Issue(its.q, its.cw, cmds)[its.cw] = cmds[1]
        BY <3>1, <3>3, IssueStep
      <3>5. its' = [its EXCEPT !.q = Issue(its.q, its.cw, cmds), !.cw = end, !.lock = None]
        BY <1>12 DEF LpiCommands, cmds

      <3>6. /\ its'.q = Issue(its.q, its.cw, cmds) /\ its'.cw = end /\ its'.cr = its.cr
        BY <3>1, <3>5 DEF ItsType
      <3>7. QSlots \in Nat \ {0} /\ (its.cw + QSlots - its.cr) % QSlots < QSlots - 2
        BY <1>12, NumCpuAssumption DEF LpiCommands
      <3>8. (its.cw + QSlots - its.cr) % QSlots < (end + QSlots - its.cr) % QSlots
        <4>1. /\ next_cmd_q_slot(its.cw) = IF its.cw + 1 < QSlots THEN its.cw + 1 ELSE 0
              /\ end = IF next_cmd_q_slot(its.cw) + 1 < QSlots THEN next_cmd_q_slot(its.cw) + 1 ELSE 0
          BY <3>1, <3>2, NextSlot
        <4>2. /\ (its.cw + QSlots - its.cr) % QSlots = IF its.cw >= its.cr THEN its.cw - its.cr ELSE its.cw + QSlots - its.cr
              /\ (end + QSlots - its.cr) % QSlots = IF end >= its.cr THEN end - its.cr ELSE end + QSlots - its.cr
          BY <3>1, <3>2, RingDistance
        <4> DEFINE n == next_cmd_q_slot(its.cw)
                   a == (its.cw + QSlots - its.cr) % QSlots
                   b == (end + QSlots - its.cr) % QSlots
        <4>3. /\ a < QSlots - 2 /\ n \in 0 .. QSlots - 1
              /\ n = (IF its.cw + 1 < QSlots THEN its.cw + 1 ELSE 0)
              /\ end = (IF n + 1 < QSlots THEN n + 1 ELSE 0)
              /\ a = (IF its.cw >= its.cr THEN its.cw - its.cr ELSE its.cw + QSlots - its.cr)
              /\ b = (IF end >= its.cr THEN end - its.cr ELSE end + QSlots - its.cr)
          BY <3>2, <3>7, <4>1, <4>2
        <4> HIDE DEF end, n, a, b
        <4>4. a < b
          BY <3>1, <3>2, <3>7, <4>3
        <4> QED BY <4>4 DEF a, b
      <3> HIDE DEF end
      <3>9. Told'
        BY <3>1, <3>3, <3>4, <3>6, <3>8 DEF Told, Dist
      <3>10. boot = "kernel" /\ UNCHANGED <<boot, lpis, hw>>
        BY <1>12 DEF LpiCommands, Is, InKernel, At, SmpInv, svars, Aps
      <3>11. gic_v3_lpi_uses_its' <=> gic_v3_lpi_uses_its
        BY <3>10 DEF gic_v3_lpi_uses_its
      <3> QED BY <3>9, <3>10, <3>11 DEF LpiInv
    <2>9. CalloutType'
      BY <1>12 DEF CalloutType, CpuStates, InKernel, LpiCommands, At, Do, svars, Idle
    <2>10. IpiInv'
      BY <1>12 DEF IpiInv, Signalled, LpiCommands, Is, Do
    <2>11. NoLostMsi'
      BY <1>12 DEF NoLostMsi, LpiCommands, Is, Do
    <2> QED BY <2>1, <2>2, <2>3, <2>4, <2>5, <2>6, <2>7, <2>8, <2>9, <2>10, <2>11, <1>0
               DEF GicInv, GicType
  <1>13. CASE Propagate
    <2>1. HwInv'
      BY <1>13 DEF HwInv, GicType, Propagate, Rest, gvars
    <2>2. DistType(gicd)'
      BY <1>13 DEF GicType, Propagate, Rest, gvars
    <2>3. (DOMAIN map = Cpus)'
      BY <1>13 DEF GicType, Propagate, Rest, gvars
    <2>4. TablesType'
      BY <1>13 DEF TablesType, GicType, Propagate, Rest, gvars
    <2>5. ItsType'
      BY <1>13 DEF ItsType, GicType, Propagate, Rest, gvars
    <2>6. MapInv'
      BY <1>13 DEF MapInv, Ready, Reaches, UsesMm, Propagate, Rest, gvars, svars
    <2>7. SpiInv'
      BY <1>13 DEF SpiInv, Propagate, At, Rest, gvars, svars
    <2>8. LpiInv'
      BY <1>13
         DEF LpiInv, UsesLpi, gic_v3_lpi_uses_its, Told, Dist, Propagate, Rest, gvars, svars
    <2>9. CalloutType'
      BY <1>13 DEF CalloutType, InKernel, Propagate, At, Rest, svars
    <2>10. IpiInv'
      BY <1>13 DEF IpiInv, Signalled, Propagate
    <2>11. NoLostMsi'
      BY <1>13 DEF NoLostMsi, Propagate
    <2> QED BY <2>1, <2>2, <2>3, <2>4, <2>5, <2>6, <2>7, <2>8, <2>9, <2>10, <2>11, <1>0
               DEF GicInv, GicType
  <1>14. CASE ItsStep
    <2>1. HwInv'
      BY <1>14 DEF HwInv, GicType, ItsStep
    <2>2. DistType(gicd)'
      BY <1>14 DEF GicType, ItsStep
    <2>3. (DOMAIN map = Cpus)'
      BY <1>14 DEF GicType, ItsStep
    <2>4. TablesType'
      <3>1. Refresh \in [Ids -> BOOLEAN]
        BY DEF Refresh, GicType, TablesType
      <3>2. lpis' = lpis /\ rdcache' \in {rdcache, Refresh}
        BY <1>14 DEF ItsStep
      <3> QED BY <3>1, <3>2 DEF TablesType, GicType
    <2>5. ItsType'
      <3>1. its' = [its EXCEPT !.cr = next_cmd_q_slot(its.cr)] /\ its.cr \in 0 .. QSlots - 1
        BY <1>14 DEF ItsStep, GicType, ItsType
      <3>2. next_cmd_q_slot(its.cr) \in 0 .. QSlots - 1
        BY <3>1, NextSlot
      <3> QED BY <3>1, <3>2 DEF ItsType, GicType
    <2>6. MapInv'
      BY <1>14 DEF MapInv, Ready, Reaches, UsesMm, ItsStep, svars
    <2>7. SpiInv'
      BY <1>14 DEF SpiInv, ItsStep, svars, kvars
    <2>8. LpiInv'
      <3> DEFINE end == next_cmd_q_slot(its.cr)
      <3>1. /\ its.cr \in 0 .. QSlots - 1 /\ its.cw \in 0 .. QSlots - 1 /\ its.cr # its.cw /\ boot = "kernel"
            /\ its'.cr = end /\ its'.cw = its.cw /\ its'.q = its.q /\ its'.lock = its.lock
            /\ UNCHANGED <<boot, lpis, hw>>
            /\ rdcache' = IF its.q[its.cr][1] = "INVALL" THEN Refresh ELSE rdcache
        BY <1>14 DEF ItsStep, At, GicType, ItsType, svars
      <3>2. end \in 0 .. QSlots - 1 /\ end = (IF its.cr + 1 < QSlots THEN its.cr + 1 ELSE 0)
            /\ QSlots \in Nat \ {0}
        BY <3>1, NextSlot, NumCpuAssumption
      <3> HIDE DEF end
      <3>3. (UsesLpi' <=> UsesLpi) /\ (gic_v3_lpi_uses_its' <=> gic_v3_lpi_uses_its)
        BY <3>1 DEF UsesLpi, gic_v3_lpi_uses_its
      <3>4. UsesLpi => Refresh[TheLpi] = lpis.table[TheLpi]
        <4> SUFFICES ASSUME UsesLpi PROVE Refresh[TheLpi] = lpis.table[TheLpi]
          OBVIOUS
        <4>1. TheLpi \in Ids /\ TheLpi \in Lpi .. Lpi + lpis.n - 1 /\ lpis.n \in Nat /\ Lpi \in Nat
          BY CalloutsAssumption DEF UsesLpi, TablesType, GicType, Lpi
        <4> QED BY <4>1 DEF Refresh
      <3>5. ASSUME Told, its.q[its.cr][1] # "INVALL" PROVE Told'
        <4>1. PICK k \in 0 .. QSlots - 1 : Dist(k) < Dist(its.cw) /\ its.q[k][1] = "INVALL"
          BY <3>5 DEF Told
        <4>2. k # its.cr
          BY <3>5, <4>1
        <4>3. /\ Dist(k) = IF k >= its.cr THEN k - its.cr ELSE k + QSlots - its.cr
              /\ Dist(its.cw) = IF its.cw >= its.cr THEN its.cw - its.cr ELSE its.cw + QSlots - its.cr
          BY <3>1, RingDistance DEF Dist
        <4>4. /\ (k + QSlots - end) % QSlots = IF k >= end THEN k - end ELSE k + QSlots - end
              /\ (its.cw + QSlots - end) % QSlots = IF its.cw >= end THEN its.cw - end ELSE its.cw + QSlots - end
          BY <3>1, <3>2, RingDistance
        <4> DEFINE a == Dist(k)
                   b == Dist(its.cw)
                   aa == (k + QSlots - end) % QSlots
                   bb == (its.cw + QSlots - end) % QSlots
        <4>5. aa < bb
          <5>1. a < b /\ a = (IF k >= its.cr THEN k - its.cr ELSE k + QSlots - its.cr)
                  /\ b = (IF its.cw >= its.cr THEN its.cw - its.cr ELSE its.cw + QSlots - its.cr)
            BY <4>1, <4>3
          <5>2. /\ aa = (IF k >= end THEN k - end ELSE k + QSlots - end)
                /\ bb = (IF its.cw >= end THEN its.cw - end ELSE its.cw + QSlots - end)
            BY <4>4
          <5> HIDE DEF a, b, aa, bb
          <5> QED BY <3>1, <3>2, <4>2, <5>1, <5>2
        <4> QED BY <3>1, <4>1, <4>5 DEF Told, Dist
      <3> QED BY <3>1, <3>3, <3>4, <3>5 DEF LpiInv
    <2>9. CalloutType'
      BY <1>14 DEF CalloutType, InKernel, ItsStep, At, svars, kvars
    <2>10. IpiInv'
      BY <1>14 DEF IpiInv, Signalled, ItsStep, kvars
    <2>11. NoLostMsi'
      BY <1>14 DEF NoLostMsi, ItsStep, kvars
    <2> QED BY <2>1, <2>2, <2>3, <2>4, <2>5, <2>6, <2>7, <2>8, <2>9, <2>10, <2>11, <1>0
               DEF GicInv, GicType
  <1>15. CASE MsiRaise
    <2>1. HwInv'
      BY <1>15 DEF HwInv, GicType, MsiRaise, Rest, gvars
    <2>2. DistType(gicd)'
      BY <1>15 DEF GicType, MsiRaise, Rest, gvars
    <2>3. (DOMAIN map = Cpus)'
      BY <1>15 DEF GicType, MsiRaise, Rest, gvars
    <2>4. TablesType'
      BY <1>15 DEF TablesType, GicType, MsiRaise, Rest, gvars
    <2>5. ItsType'
      BY <1>15 DEF ItsType, GicType, MsiRaise, Rest, gvars
    <2>6. MapInv'
      BY <1>15 DEF MapInv, Ready, Reaches, MsiRaise, Rest, gvars, svars, HasMsi
    <2>7. SpiInv'
      BY <1>15 DEF SpiInv, MsiRaise, Rest, gvars, svars
    <2>8. LpiInv'
      BY <1>15 DEF LpiInv, UsesLpi, gic_v3_lpi_uses_its, MsiRaise, Rest, gvars, svars, HasMsi
    <2>9. CalloutType'
      BY <1>15 DEF CalloutType, InKernel, MsiRaise, At, Rest, svars
    <2>10. IpiInv'
      BY <1>15 DEF IpiInv, Signalled, MsiRaise
    <2>11. NoLostMsi'
      BY <1>15 DEF NoLostMsi, MsiRaise
    <2> QED BY <2>1, <2>2, <2>3, <2>4, <2>5, <2>6, <2>7, <2>8, <2>9, <2>10, <2>11, <1>0
               DEF GicInv, GicType
  <1>16. CASE interrupt_id_bcm2711_msi
    <2>1. HwInv'
      BY <1>16 DEF HwInv, GicType, interrupt_id_bcm2711_msi, Rest, gvars
    <2>2. DistType(gicd)'
      BY <1>16 DEF GicType, interrupt_id_bcm2711_msi, Rest, gvars
    <2>3. (DOMAIN map = Cpus)'
      BY <1>16 DEF GicType, interrupt_id_bcm2711_msi, Rest, gvars
    <2>4. TablesType'
      BY <1>16 DEF TablesType, GicType, interrupt_id_bcm2711_msi, Rest, gvars
    <2>5. ItsType'
      BY <1>16 DEF ItsType, GicType, interrupt_id_bcm2711_msi, Rest, gvars
    <2>6. MapInv'
      BY <1>16
         DEF MapInv, Ready, Reaches, interrupt_id_bcm2711_msi, Rest, gvars, svars, HasMsi
    <2>7. SpiInv'
      BY <1>16 DEF SpiInv, interrupt_id_bcm2711_msi, Rest, gvars, svars
    <2>8. LpiInv'
      BY <1>16
         DEF LpiInv, UsesLpi, gic_v3_lpi_uses_its, interrupt_id_bcm2711_msi, Rest, gvars,
             svars, HasMsi
    <2>9. CalloutType'
      <3>1. [op |-> "msi"] \in CpuStates /\ 0 \in Cpus
        BY NumCpuAssumption DEF CpuStates, Cpus
      <3>2. /\ cs' = [cs EXCEPT ![0] = [op |-> "msi"]] /\ UNCHANGED <<ipicmds, due>>
            /\ msi' = [msi EXCEPT !.mask = TRUE, !.st = FALSE, !.due = FALSE]
        BY <1>16 DEF interrupt_id_bcm2711_msi, Do
      <3>3. cs'[0] = [op |-> "msi"] /\ \A s \in Cpus : s # 0 => cs'[s] = cs[s]
        BY <3>1, <3>2 DEF CalloutType
      <3>4. msi'.mask = TRUE /\ msi'.st = FALSE /\ msi'.due = FALSE /\ msi'.cnt = msi.cnt
        BY <3>2 DEF CalloutType

      <3>5. cs' \in [Cpus -> CpuStates]
        BY <3>1, <3>2 DEF CalloutType
      <3>6. msi' \in [st : BOOLEAN, mask : BOOLEAN, due : BOOLEAN, cnt : {0, 1}]
        BY <3>2 DEF CalloutType
      <3>7. ASSUME NEW s \in Cpus, cs'[s].op \in {"ldxr", "stxr", "sgir"} PROVE InKernel(cs[s].to)'
        <4>1. s # 0
          BY <3>3, <3>7
        <4> QED BY <1>0, <3>3, <3>7, <4>1 DEF CalloutType, InKernel, At, svars
      <3> QED BY <3>2, <3>5, <3>6, <3>7 DEF CalloutType
    <2>10. IpiInv'
      BY <1>16 DEF IpiInv, Signalled, interrupt_id_bcm2711_msi, Is, Do
    <2>11. NoLostMsi'
      <3>1. [op |-> "msi"] \in CpuStates /\ 0 \in Cpus
        BY NumCpuAssumption DEF CpuStates, Cpus
      <3>2. /\ cs' = [cs EXCEPT ![0] = [op |-> "msi"]] /\ UNCHANGED <<ipicmds, due>>
            /\ msi' = [msi EXCEPT !.mask = TRUE, !.st = FALSE, !.due = FALSE]
        BY <1>16 DEF interrupt_id_bcm2711_msi, Do
      <3>3. cs'[0] = [op |-> "msi"] /\ \A s \in Cpus : s # 0 => cs'[s] = cs[s]
        BY <3>1, <3>2 DEF CalloutType
      <3>4. msi'.mask = TRUE /\ msi'.st = FALSE /\ msi'.due = FALSE /\ msi'.cnt = msi.cnt
        BY <3>2 DEF CalloutType

      <3> QED BY <3>3, <3>4 DEF NoLostMsi
    <2> QED BY <2>1, <2>2, <2>3, <2>4, <2>5, <2>6, <2>7, <2>8, <2>9, <2>10, <2>11, <1>0
               DEF GicInv, GicType
  <1>17. CASE interrupt_eoi_bcm2711_msi
    <2>1. HwInv'
      BY <1>17 DEF HwInv, GicType, interrupt_eoi_bcm2711_msi, Rest, gvars
    <2>2. DistType(gicd)'
      BY <1>17 DEF GicType, interrupt_eoi_bcm2711_msi, Rest, gvars
    <2>3. (DOMAIN map = Cpus)'
      BY <1>17 DEF GicType, interrupt_eoi_bcm2711_msi, Rest, gvars
    <2>4. TablesType'
      BY <1>17 DEF TablesType, GicType, interrupt_eoi_bcm2711_msi, Rest, gvars
    <2>5. ItsType'
      BY <1>17 DEF ItsType, GicType, interrupt_eoi_bcm2711_msi, Rest, gvars
    <2>6. MapInv'
      BY <1>17
         DEF MapInv, Ready, Reaches, interrupt_eoi_bcm2711_msi, Rest, gvars, svars, HasMsi
    <2>7. SpiInv'
      BY <1>17 DEF SpiInv, interrupt_eoi_bcm2711_msi, Rest, gvars, svars
    <2>8. LpiInv'
      BY <1>17
         DEF LpiInv, UsesLpi, gic_v3_lpi_uses_its, interrupt_eoi_bcm2711_msi, Rest, gvars,
             svars, HasMsi
    <2>9. CalloutType'
      BY <1>17
         DEF CalloutType, CpuStates, InKernel, interrupt_eoi_bcm2711_msi, At, Do, Rest, svars,
             Idle
    <2>10. IpiInv'
      BY <1>17 DEF IpiInv, Signalled, interrupt_eoi_bcm2711_msi, Is, Do
    <2>11. NoLostMsi'
      BY <1>17 DEF NoLostMsi, CalloutType, interrupt_eoi_bcm2711_msi
    <2> QED BY <2>1, <2>2, <2>3, <2>4, <2>5, <2>6, <2>7, <2>8, <2>9, <2>10, <2>11, <1>0
               DEF GicInv, GicType
  <1>18. CASE interrupt_mask_bcm2711_msi
    <2>1. HwInv'
      BY <1>18 DEF HwInv, GicType, interrupt_mask_bcm2711_msi, Rest, gvars
    <2>2. DistType(gicd)'
      BY <1>18 DEF GicType, interrupt_mask_bcm2711_msi, Rest, gvars
    <2>3. (DOMAIN map = Cpus)'
      BY <1>18 DEF GicType, interrupt_mask_bcm2711_msi, Rest, gvars
    <2>4. TablesType'
      BY <1>18 DEF TablesType, GicType, interrupt_mask_bcm2711_msi, Rest, gvars
    <2>5. ItsType'
      BY <1>18 DEF ItsType, GicType, interrupt_mask_bcm2711_msi, Rest, gvars
    <2>6. MapInv'
      BY <1>18
         DEF MapInv, Ready, Reaches, interrupt_mask_bcm2711_msi, Rest, gvars, svars, HasMsi
    <2>7. SpiInv'
      BY <1>18 DEF SpiInv, interrupt_mask_bcm2711_msi, Rest, gvars, svars
    <2>8. LpiInv'
      BY <1>18
         DEF LpiInv, UsesLpi, gic_v3_lpi_uses_its, interrupt_mask_bcm2711_msi, Rest, gvars,
             svars, HasMsi
    <2>9. CalloutType'
      <3>1. msi' = [msi EXCEPT !.cnt = 1, !.mask = TRUE] /\ UNCHANGED <<ipicmds, due, cs>>
        BY <1>18 DEF interrupt_mask_bcm2711_msi
      <3>2. msi' \in [st : BOOLEAN, mask : BOOLEAN, due : BOOLEAN, cnt : {0, 1}]
        BY <3>1 DEF CalloutType
      <3> QED BY <1>0, <3>1, <3>2 DEF CalloutType, InKernel, At, svars
    <2>10. IpiInv'
      BY <1>18 DEF IpiInv, Signalled, interrupt_mask_bcm2711_msi
    <2>11. NoLostMsi'
      BY <1>18 DEF NoLostMsi, interrupt_mask_bcm2711_msi
    <2> QED BY <2>1, <2>2, <2>3, <2>4, <2>5, <2>6, <2>7, <2>8, <2>9, <2>10, <2>11, <1>0
               DEF GicInv, GicType
  <1>19. CASE interrupt_unmask_bcm2711_msi
    <2>1. HwInv'
      BY <1>19 DEF HwInv, GicType, interrupt_unmask_bcm2711_msi, Rest, gvars
    <2>2. DistType(gicd)'
      BY <1>19 DEF GicType, interrupt_unmask_bcm2711_msi, Rest, gvars
    <2>3. (DOMAIN map = Cpus)'
      BY <1>19 DEF GicType, interrupt_unmask_bcm2711_msi, Rest, gvars
    <2>4. TablesType'
      BY <1>19 DEF TablesType, GicType, interrupt_unmask_bcm2711_msi, Rest, gvars
    <2>5. ItsType'
      BY <1>19 DEF ItsType, GicType, interrupt_unmask_bcm2711_msi, Rest, gvars
    <2>6. MapInv'
      BY <1>19
         DEF MapInv, Ready, Reaches, interrupt_unmask_bcm2711_msi, Rest, gvars, svars, HasMsi
    <2>7. SpiInv'
      BY <1>19 DEF SpiInv, interrupt_unmask_bcm2711_msi, Rest, gvars, svars
    <2>8. LpiInv'
      BY <1>19
         DEF LpiInv, UsesLpi, gic_v3_lpi_uses_its, interrupt_unmask_bcm2711_msi, Rest, gvars,
             svars, HasMsi
    <2>9. CalloutType'
      BY <1>19 DEF CalloutType, InKernel, interrupt_unmask_bcm2711_msi, At, Rest, svars
    <2>10. IpiInv'
      BY <1>19 DEF IpiInv, Signalled, interrupt_unmask_bcm2711_msi
    <2>11. NoLostMsi'
      BY <1>19 DEF NoLostMsi, interrupt_unmask_bcm2711_msi
    <2> QED BY <2>1, <2>2, <2>3, <2>4, <2>5, <2>6, <2>7, <2>8, <2>9, <2>10, <2>11, <1>0
               DEF GicInv, GicType
  <1> QED BY <1>1, <1>2, <1>3, <1>4, <1>5, <1>6, <1>7, <1>8, <1>9, <1>10, <1>11, <1>12, <1>13,
             <1>14, <1>15, <1>16, <1>17, <1>18, <1>19
             DEF CalloutNext

-----------------------------------------------------------------------------
\* The firmware's controller, with every CPU but the first still off.
LEMMA InitInv == Init => GicInv
  <1> SUFFICES ASSUME Init PROVE GicInv
    OBVIOUS
  <1>1. SmpInv
    BY NumCpuAssumption DEF Init, SmpInitState, SmpInv, Apart
  <1>2. HwInv
    BY MachineAssumption, InOrderAssumption, CalloutsAssumption DEF Init, GicInitState, HwInv
  <1>3. GicType
    <2>1. DistType(gicd) /\ DOMAIN map = Cpus /\ TablesType
      BY DEF Init, GicInitState, DistType, TablesType
    <2>2. ItsType
      <3>1. <<"none", None>> \in ItsCmds
        BY DEF None, ItsCmds
      <3>2. [k \in 0 .. QSlots - 1 |-> <<"none", None>>] \in [0 .. QSlots - 1 -> ItsCmds]
        BY <3>1
      <3>3. 0 \in 0 .. QSlots - 1
        BY NumCpuAssumption
      <3> QED BY <3>2, <3>3 DEF Init, GicInitState, ItsType
    <2> QED BY <1>2, <2>1, <2>2 DEF GicType
  <1>4. MapInv /\ SpiInv /\ LpiInv
    BY DEF Init, SmpInitState, MapInv, Ready, SpiInv, LpiInv, Aps
  <1>5. CalloutType
    <2>1. [op |-> "run"] \in CpuStates
      BY DEF CpuStates
    <2> QED BY <2>1 DEF Init, CalloutType, Idle
  <1>6. IpiInv /\ NoLostMsi
    BY DEF Init, IpiInv, NoLostMsi
  <1> QED BY <1>1, <1>3, <1>4, <1>5, <1>6 DEF GicInv

\* GicInv is inductive.
LEMMA Inductive == GicInv /\ [Next]_vars => GicInv'
  <1> SUFFICES ASSUME GicInv, [Next]_vars PROVE GicInv'
    OBVIOUS
  <1>1. CASE SmpNext /\ UNCHANGED kvars
    BY <1>1, SmpNextInv
  <1>2. CASE CalloutNext
    BY <1>2, CalloutNextInv
  <1>3. CASE UNCHANGED vars
    BY <1>3
       DEF vars, gvars, svars, kvars, GicInv, SmpInv, GicType, HwInv, TablesType, ItsType,
           MapInv, Ready, Reaches, UsesMm, SpiInv, LpiInv, UsesLpi, gic_v3_lpi_uses_its, Told,
           Dist, CalloutType, InKernel, At, IpiInv, Signalled, NoLostMsi
  <1> QED BY <1>1, <1>2, <1>3 DEF Next, CalloutNext

-----------------------------------------------------------------------------
\* Never two CPUs run the code of startup, whatever their number: the next one
\* is let go by start_aps() and transfer_aps() only when the last has cleared
\* cpu_starting or smp_entry.pending, and cpu_starting names the right one.
THEOREM OneCpuRuns == Spec => []OneCpuAtATime
  <1>1. GicInv => OneCpuAtATime
    <2> SUFFICES ASSUME SmpInv PROVE OneCpuAtATime
      BY DEF GicInv
    <2>1. ASSUME NEW c \in Aps, ApRuns(c) PROVE ~BootRuns
      BY <2>1, NumCpuAssumption DEF SmpInv, ApRuns, BootRuns, Aps, Cpus, Gone
    <2>2. ASSUME NEW c \in Aps, NEW d \in Aps \ {c}, ApRuns(c) PROVE ~ApRuns(d)
      BY <2>2, NumCpuAssumption DEF SmpInv, ApRuns, Aps, Cpus, Gone
    <2> QED BY <2>1, <2>2 DEF OneCpuAtATime, SmpInv
  <1> QED BY <1>1, InitInv, Inductive, PTL DEF Spec

\* A command sent by sendipi_*() finds its CPU, an MSI is not lost behind its
\* own mask bit, a masked SPI stays away and a masked LPI too once the ITS has
\* caught up: for any number of CPUs, machines and queue sizes.
THEOREM InterruptsStayArriving == Spec => []InterruptsArrive
  <1>1. GicInv => InterruptsArrive
    <2> SUFFICES ASSUME GicInv PROVE InterruptsArrive
      OBVIOUS
    <2>1. SpiInv /\ LpiInv /\ IpiInv /\ NoLostMsi /\ ItsType
      BY DEF GicInv, GicType
    <2>2. NoLostIpi
      BY <2>1 DEF NoLostIpi, IpiInv, Signalled
    <2>3. ASSUME its.cr = its.cw PROVE ~Told
      <3>1. its.cw \in 0 .. QSlots - 1 /\ QSlots \in Nat \ {0}
        BY <2>1, NumCpuAssumption DEF ItsType
      <3>2. Dist(its.cw) = 0
        BY <2>3, <3>1, RingDistance DEF Dist
      <3>3. \A k \in 0 .. QSlots - 1 : Dist(k) \in Nat
        BY <2>3, <3>1, RingDistance DEF Dist
      <3> QED BY <3>2, <3>3 DEF Told
    <2>4. MaskIsEffective
      BY <2>1, <2>3 DEF MaskIsEffective, SpiInv, LpiInv, At
    <2> QED BY <2>1, <2>2, <2>4 DEF InterruptsArrive, NoLostInterrupt
  <1> QED BY <1>1, InitInv, Inductive, PTL DEF Spec
=============================================================================
