------------------------------ MODULE GicInit ------------------------------
(***************************************************************************)
(* How startup programs the ARM interrupt controller: the GICv2 of the     *)
(* bcm2711 board, and the GICv3 of the library with its two CPU interfaces *)
(* (system registers, memory mapped), ESPIs, LPIs and the ITS.  Interrupt  *)
(* numbers are the real ones; the state keeps what happens to the sample   *)
(* Ids, which hold the first and the last of every register group.         *)
(***************************************************************************)
EXTENDS Naturals, Sequences, FiniteSets

CONSTANTS
  NumCpu,     \* CPUs that startup brings up (num_cpu)
  Ids,        \* sample interrupt numbers
  Machines,   \* the controllers to start on
  QSlots      \* slots of the ITS command queue (256 by default)

Cpus == 0 .. NumCpu - 1
Spi == 32
SpiMax == 1019
Espi == 4096
EspiMax == 5119
Lpi == 8192
None == 99999

ASSUME NumCpuAssumption == NumCpu \in 1 .. None - 1 /\ QSlots \in Nat \ {0}

\* What ID and configuration registers say, and for each CPU the number of its
\* interface (v2) or redistributor (v3) and its affinity.
MachineTypes ==
  [ver : {"v2", "v3"}, itl : 1 .. 32, espil : 0 .. 32, numlpi : Nat, idbits : Nat,
   mbis : BOOLEAN, lpis : BOOLEAN, plpis : BOOLEAN, direct : BOOLEAN, sre : BOOLEAN,
   mm : BOOLEAN, gicc : BOOLEAN, share : BOOLEAN, ct : BOOLEAN, devbits : Nat,
   entry : Nat, page : Nat \ {0}, cidbits : Nat, pos : [Cpus -> Nat], aff : [Cpus -> Nat]]

ASSUME MachineAssumption == Machines \subseteq MachineTypes

\* The memory mapped callouts take the number of a CPU for its redistributor's.
ASSUME InOrderAssumption ==
  \A m \in Machines : m.ver # "v2" /\ (m.mm \/ m.gicc \/ ~m.sre) => \A c \in Cpus : m.pos[c] = c

VARIABLES
  hw,      \* the machine: an element of Machines
  gicd,    \* distributor registers
  gicr,    \* banked registers (v2) or redistributor (v3) of each CPU
  ents,    \* startup_intrinfo entries, in the order added
  map,     \* gic_map->gic_cpu[] of the system page
  lpis,    \* lpi_params.num_lpis and the LPI configuration table
  its,     \* command queue registers, command queue, collection table
  rdcache  \* LPI configuration as cached by the redistributors

gvars == <<hw, gicd, gicr, ents, map, lpis, its, rdcache>>

NoTable == [bytes |-> 0, mem |-> "none"]

\* What firmware leaves behind: everything enabled, pending and edge triggered
GicInitState ==
  /\ hw \in Machines
  /\ gicd = [on |-> TRUE, en |-> Ids, pend |-> Ids, edge |-> Ids, group1 |-> {},
             prio |-> {}, route |-> [i \in Ids |-> None]]
  /\ gicr = [c \in Cpus |-> [en |-> 0..31, pend |-> 0..31, awake |-> FALSE, up |-> FALSE,
                             lpi |-> FALSE]]
  /\ ents = <<>>
  /\ map = [c \in Cpus |-> None]
  /\ lpis = [n |-> 0, table |-> [i \in Ids |-> TRUE]]
  /\ its = [on |-> FALSE, cw |-> 0, cr |-> 0, q |-> [k \in 0..QSlots-1 |-> <<"none", None>>],
            coll |-> [c \in Cpus |-> None], lock |-> None, dt |-> NoTable, ct |-> NoTable]
  /\ rdcache = [i \in Ids |-> TRUE]

----------------------------------------------------------------------------
(* What the hardware says of itself.                                       *)

\* Sample numbers whose register, per of them to a register, has an index in
\* lo .. hi - 1, counted from base
Regs(base, per, lo, hi) == {i \in Ids : i >= base /\ (i - base) \div per \in lo .. hi - 1}

gic_v3_num_spis ==
  IF hw.itl * 32 > SpiMax + 1 THEN SpiMax + 1 - 32 ELSE (hw.itl - 1) * 32

gic_v3_num_espis == 32 * hw.espil

gic_v3_num_lpis ==
  CASE ~hw.lpis -> 0
    [] hw.lpis /\ hw.numlpi = 0 -> 2^(hw.idbits + 1) - Lpi
    [] OTHER -> 2^(hw.numlpi + 1)

gic_v3_lpi_uses_its == hw.plpis /\ ~hw.direct

\* A board that knows its CPU interface may ask for the memory mapped callouts
gic_v3_use_mm_reg_callouts ==
  /\ hw' = [hw EXCEPT !.mm = TRUE]
  /\ UNCHANGED <<gicd, gicr, ents, map, lpis, its, rdcache>>

\* gic_v3_initialize() falls back on the memory mapped interface when the CPU
\* has no system registers for it
UsesMm == hw.mm \/ ~hw.sre

----------------------------------------------------------------------------
(* Vectors that the board claims: a range of them, possibly for MSIs.      *)

Last(e) == e.base + e.n - 1
OfKind(k) == SelectSeq(ents, LAMBDA e : e.kind = k)

\* The three tests of *_add_entry() against one entry added before
Clash(new, cur) ==
  \/ new.base >= cur.base /\ new.base <= Last(cur)
  \/ Last(new) >= cur.base /\ Last(new) <= Last(cur)
  \/ new.base <= Last(cur)

Accept(e, first, num) ==
  /\ Last(e) < num + first
  /\ e.msi /\ e.kind # "lpi" => hw.mbis
  /\ \A k \in 1..Len(ents) : ents[k].kind = e.kind => ~Clash(e, ents[k])

gic_v3_spi_add_entry(e) ==
  ents' = IF Accept(e, Spi, gic_v3_num_spis) THEN Append(ents, e) ELSE ents

gic_v3_espi_add_entry(e) ==
  ents' = IF gic_v3_num_espis # 0 /\ Accept(e, Espi, gic_v3_num_espis) THEN Append(ents, e) ELSE ents

gic_v3_lpi_add_entry(e) ==
  LET ok == Accept(e, Lpi, gic_v3_num_lpis)
  IN /\ ents' = IF ok THEN Append(ents, e) ELSE ents
     /\ lpis' = IF ok THEN [lpis EXCEPT !.n = @ + e.n] ELSE lpis

\* What gic_v3_initialize() adds when the board added none
DefaultEntries ==
  LET spi == [kind |-> "spi", base |-> Spi, n |-> gic_v3_num_spis, msi |-> FALSE]
      espi == [kind |-> "espi", base |-> Espi, n |-> gic_v3_num_espis, msi |-> FALSE]
  IN ents \o (IF OfKind("spi") = <<>> THEN <<spi>> ELSE <<>>)
          \o (IF OfKind("espi") = <<>> /\ gic_v3_num_espis > 0 THEN <<espi>> ELSE <<>>)

\* The private interrupts come first: the callouts of the others rely on it
PpiEntry == [kind |-> "ppi", base |-> 0, n |-> 32, msi |-> FALSE]

Vectors(e) == {i \in Ids : i \in e.base .. Last(e)}

\* SPIs and ESPIs used as MSIs
gic_v3_set_intr_trig_mode(d, S) ==
  [d EXCEPT !.edge = @ \cup {i \in S : i \in Spi .. (gic_v3_num_spis + Spi - 1)
                                          \cup Espi .. (gic_v3_num_espis + Espi - 1)}]

----------------------------------------------------------------------------
(* GICv2: distributor and CPU interface.                                   *)

Min2(a, b) == IF a < b THEN a ELSE b
Max2(a, b) == IF a > b THEN a ELSE b
Quad(i) == i - (i % 4)
LastSpi2 == Min2(1020, hw.itl * 32)
gic_v2_num_spis == hw.itl * 32

\* Faulty variant: the loop over the enable registers stops one early
V2QuietShort(d) ==
  LET spis == Regs(0, 32, 1, hw.itl - 1)
  IN [d EXCEPT !.on = FALSE, !.en = @ \ spis, !.pend = @ \ spis]

\* Distributor off, all SPIs disabled and nothing pending
V2Quiet(d) ==
  LET spis == Regs(0, 32, 1, hw.itl)
  IN [d EXCEPT !.on = FALSE, !.en = @ \ spis, !.pend = @ \ spis]

\* Priorities, routing to the boot CPU, level triggered, distributor on
V2Route(d) ==
  [d EXCEPT !.prio = @ \cup {i \in Ids : Quad(i) >= 8 /\ Quad(i) < LastSpi2},
            !.route = [i \in Ids |-> IF i >= Spi /\ Quad(i) < LastSpi2 THEN hw.pos[0] ELSE @[i]],
            !.edge = @ \ Regs(0, 16, 1, 2 * hw.itl),
            !.on = TRUE]

\* init_intrinfo() of the bcm2711 board: 32 MSIs behind BCM2711_PCIE_MSI
BoardMsis == [kind |-> "msi", base |-> 512, n |-> 32, msi |-> TRUE]

gic_v2_init ==
  /\ gicd' = V2Route(V2Quiet(gicd))
  /\ ents' = << PpiEntry,
                [kind |-> "spi", base |-> Spi, n |-> LastSpi2 - 32, msi |-> FALSE],
                BoardMsis >>
  /\ map' = [c \in Cpus |-> None]
  /\ UNCHANGED <<hw, gicr, lpis, its, rdcache>>

\* The CPU interface number, from the banked target register of SGI 0
gic_v2_cpunum(c) == hw.pos[c]

gic_v2_gicc_init(n, c) ==
  /\ map' = [map EXCEPT ![n] = gic_v2_cpunum(c)]
  /\ gicr' = [gicr EXCEPT ![c].en = (@ \ 16..31) \cup 0..15, ![c].up = TRUE]
  /\ UNCHANGED <<hw, gicd, ents, lpis, its, rdcache>>

----------------------------------------------------------------------------
(* GICv3: the distributor.                                                 *)

Itn == Min2(SpiMax + 1, hw.itl * 32)

\* All SPIs disabled, nothing pending, in group 1, at priority 0xa0, level
V3Spis(d) ==
  LET spis == Regs(0, 32, 1, hw.itl)
  IN [d EXCEPT !.on = FALSE, !.en = @ \ spis, !.pend = @ \ spis, !.group1 = @ \cup spis,
               !.prio = @ \cup Regs(0, 4, 8, 8 * hw.itl),
               !.edge = @ \ Regs(0, 16, 2, Itn \div 16)]

\* The same for the extended range, of which the group is not written
V3Espis(d) ==
  LET espis == Regs(Espi, 32, 0, hw.espil)
  IN [d EXCEPT !.en = @ \ espis, !.pend = @ \ espis,
               !.prio = @ \cup Regs(Espi, 4, 0, 8 * hw.espil),
               !.edge = @ \ Regs(Espi, 16, 0, gic_v3_num_espis \div 16)]

\* Affinity routing and group 1 on, every (E)SPI to the CPU that runs this
V3Route(d) ==
  [d EXCEPT !.on = TRUE,
            !.route = [i \in Ids |-> IF i \in Spi .. Itn - 1 \cup Espi .. Espi + gic_v3_num_espis - 1
                                     THEN hw.aff[0] ELSE @[i]]]

MsiVectors(seq) == UNION {Vectors(seq[k]) : k \in {j \in 1..Len(seq) : seq[j].msi}}

\* The LPI configuration table: allocated for num_lpis, enable bits off
V3LpiTable == [lpis EXCEPT !.table = [i \in Ids |-> IF i \in Lpi .. Lpi + lpis.n - 1 THEN FALSE ELSE @[i]]]

\* Size and memory attributes of a table that the ITS reads: whole pages, at
\* least one, of the attributes asked for where the shareability can be set
ItsTable(n, entry) ==
  [bytes |-> hw.page * Max2(1, (n * entry) \div hw.page),
   mem |-> IF hw.share THEN "shared" ELSE "noncached"]

DeviceTable == ItsTable(2^hw.devbits, hw.entry)

\* One collection for each CPU, in memory if the ITS has such a table
CollectionTable == IF hw.ct THEN ItsTable(Min2(2^hw.cidbits, NumCpu), hw.entry) ELSE NoTable

\* The ASSERTs: no direct LPIs, at most 256 pages
LpisFit == gic_v3_lpi_uses_its /\ DeviceTable.bytes \div hw.page <= 256

\* An ITS that is off, its tables, an empty command queue and the lock
gic_v3_its_initialize ==
  [its EXCEPT !.on = FALSE, !.dt = DeviceTable, !.ct = CollectionTable,
              !.cw = 0, !.cr = 0, !.q = [k \in 0..QSlots-1 |-> <<"none", None>>], !.lock = None]

gic_v3_initialize ==
  LET all == DefaultEntries
  IN /\ gicd' = gic_v3_set_intr_trig_mode(V3Route(V3Espis(V3Spis(gicd))),
                                           MsiVectors(SelectSeq(all, LAMBDA e : e.kind # "lpi")))
     /\ ents' = <<PpiEntry>> \o all
     /\ map' = [c \in Cpus |-> None]
     /\ lpis' = IF lpis.n > 0 THEN V3LpiTable ELSE lpis
     /\ its' = IF lpis.n > 0 THEN gic_v3_its_initialize ELSE its
     /\ UNCHANGED <<hw, gicr, rdcache>>

----------------------------------------------------------------------------
(* GICv3: redistributor and CPU interface of one CPU.                      *)

next_cmd_q_slot(k) == (k + 1) % QSlots

\* Three commands written from slot CWRITER on
Issue(q, at, cmds) ==
  [k \in DOMAIN q |-> LET off == (k + QSlots - at) % QSlots
                      IN IF off < Len(cmds) THEN cmds[off + 1] ELSE q[k]]

\* INVALL: the redistributor reads the table again
Refresh ==
  [i \in Ids |-> IF i >= Lpi THEN lpis.table[i] ELSE rdcache[i]]

\* MAPC, SYNC and INVALL for the collection of this CPU, then the wait until
\* the ITS has read them all
gic_v3_its_mapc(n, c) ==
  LET cmds == << <<"MAPC", n>>, <<"SYNC", hw.pos[c]>>, <<"INVALL", n>> >>
      end == next_cmd_q_slot(next_cmd_q_slot(next_cmd_q_slot(its.cw)))
  IN /\ its' = [its EXCEPT !.on = TRUE, !.q = Issue(@, its.cw, cmds), !.cw = end, !.cr = end,
                           !.coll[n] = hw.pos[c]]
     /\ rdcache' = Refresh

\* ICC_SGI1R_EL1 for an affinity: target list bit, range selector, upper levels
\* Faulty variant: CPUs past the 16th of a cluster without range selector
SgirNoRange(aff) == <<aff % 16, 0, aff \div 256>>

Sgir(aff) == <<aff % 16, (aff % 256) \div 16, aff \div 256>>

\* The memory mapped callout takes the CPU for the index of its redistributor
GicMapV3(n, c) == IF UsesMm THEN n ELSE Sgir(hw.aff[c])

\* A pending table of its own, the common configuration table, and LPIs on
GiccLpis(n, c) ==
  IF lpis.n > 0 /\ gic_v3_lpi_uses_its THEN gic_v3_its_mapc(n, c) ELSE UNCHANGED <<its, rdcache>>

\* CPU n, which is the c-th of the hardware
gic_v3_gicc_init(n, c) ==
  /\ gicr' = [gicr EXCEPT ![c] = [en |-> {0}, pend |-> {}, awake |-> TRUE, up |-> TRUE,
                                   lpi |-> lpis.n > 0]]
  /\ map' = [map EXCEPT ![n] = GicMapV3(n, c)]
  /\ GiccLpis(n, c)
  /\ UNCHANGED <<hw, gicd, ents, lpis>>

\* The CPUs that an SGI sent with a value of gic_map reaches
Reaches(v) ==
  CASE hw.ver = "v2" -> {c \in Cpus : hw.pos[c] = v}
    [] hw.ver # "v2" /\ UsesMm -> {c \in Cpus : hw.pos[c] = v}
    [] OTHER -> {c \in Cpus : /\ hw.aff[c] \div 256 = v[3]
                               /\ hw.aff[c] % 256 = 16 * v[2] + v[1]}
=============================================================================
