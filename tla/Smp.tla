-------------------------------- MODULE Smp --------------------------------
(***************************************************************************)
(* The CPUs come up one after the other.  The boot CPU programs the        *)
(* interrupt controller, lets every other CPU run its part of startup (all *)
(* of them on one stack, and without locks), writes the system page and    *)
(* passes the CPUs on to the kernel, again one by one.                     *)
(***************************************************************************)
EXTENDS GicInit

CONSTANT Claims       \* entries that a board may add to a GICv3

ASSUME ClaimsAssumption ==
  Claims \subseteq [kind : {"spi", "espi", "lpi"}, base : Nat, n : Nat, msi : BOOLEAN]

VARIABLES
  boot,               \* what the boot CPU is at
  ix,                  \* the loop variable of start_aps() and transfer_aps()
  ap,                 \* what every other CPU is at
  num,                \* the number that it thinks it has
  table,              \* spin table of the firmware: CPUs told to start
  cpu_starting,       \* 0, or the number of the CPU under way plus one
  syspage_available,  \* the CPU that may leave startup
  pending,            \* smp_entry.pending
  start_addr          \* smp_entry.start_addr (external: the kernel)

svars == <<boot, ix, ap, num, table, cpu_starting, syspage_available, pending, start_addr>>

Aps == Cpus \ {0}

SmpInitState ==
  /\ boot = "board" /\ ix = 0
  /\ ap = [c \in Aps |-> "off"] /\ num = [c \in Aps |-> None] /\ table = {}
  /\ cpu_starting = 0 /\ syspage_available = 0 /\ pending = 0 /\ start_addr = "none"

At(s) == boot = s
Go(s) == boot' = s

\* A board with a GICv3 segments its vectors before gic_v3_initialize()
AddEntry ==
  /\ At("board") /\ hw.ver # "v2"
  /\ \E e \in Claims :
       /\ Len(ents) < 3
       /\ CASE e.kind = "spi" -> gic_v3_spi_add_entry(e) /\ UNCHANGED lpis
            [] e.kind = "espi" -> gic_v3_espi_add_entry(e) /\ UNCHANGED lpis
            [] e.kind = "lpi" -> gic_v3_lpi_add_entry(e)
  /\ UNCHANGED <<hw, gicd, gicr, map, its, rdcache, svars>>

UseMm ==
  /\ At("board") /\ hw.ver # "v2" /\ hw.gicc /\ ~hw.mm
  /\ gic_v3_use_mm_reg_callouts
  /\ UNCHANGED svars

\* init_smp() and board_smp_init(); init_intrinfo()
InitIntrinfo ==
  /\ At("board")
  /\ IF hw.ver = "v2" THEN gic_v2_init ELSE gic_v3_initialize
  /\ Go(IF lpis.n > 0 => LpisFit THEN "cpu0" ELSE "crashed")
  /\ UNCHANGED <<ix, ap, num, table, cpu_starting, syspage_available, pending, start_addr>>

\* gic_cpu_init() of the CPU that runs init_one_cpuinfo(n)
GicCpuInit(n, c) == IF hw.ver = "v2" THEN gic_v2_gicc_init(n, c) ELSE gic_v3_gicc_init(n, c)

init_cpuinfo ==
  /\ At("cpu0")
  /\ GicCpuInit(0, 0)
  /\ Go("start") /\ ix' = 1
  /\ UNCHANGED <<ap, num, table, cpu_starting, syspage_available, pending, start_addr>>

----------------------------------------------------------------------------
(* start_aps(): one CPU after the other.                                   *)

\* board_smp_start(): the entry of the firmware's spin table, then an event
board_smp_start(c) == table' = table \cup {c}

\* Faulty variant: the next CPU is started without waiting for this one
StartUnawaited ==
  /\ At("start") /\ ix < NumCpu
  /\ cpu_starting' = ix + 1
  /\ board_smp_start(ix)
  /\ ix' = ix + 1
  /\ UNCHANGED <<boot, ap, num, syspage_available, pending, start_addr>> /\ UNCHANGED gvars

start_aps ==
  /\ At("start") /\ ix < NumCpu
  /\ cpu_starting' = ix + 1
  /\ board_smp_start(ix)
  /\ Go("await")
  /\ UNCHANGED <<ix, ap, num, syspage_available, pending, start_addr>> /\ UNCHANGED gvars

\* ... which waits for each; a count that wraps ends in ap_fail()
AwaitAp ==
  /\ At("await")
  /\ \/ cpu_starting = 0 /\ ix' = ix + 1 /\ Go("start")
     \/ cpu_starting # 0 /\ Go("crashed") /\ UNCHANGED ix
  /\ UNCHANGED <<ap, num, table, cpu_starting, syspage_available, pending, start_addr>>
  /\ UNCHANGED gvars

\* init_system_private() goes on and write_syspage_memory() follows
WriteSyspage ==
  /\ At("start") /\ ix = NumCpu
  /\ Go(IF NumCpu > 1 THEN "transfer" ELSE "kernel") /\ ix' = 1
  /\ UNCHANGED <<ap, num, table, cpu_starting, syspage_available, pending, start_addr>>
  /\ UNCHANGED gvars

\* transfer_aps(): sets pending, names the CPU, waits for pending to be cleared
transfer_aps ==
  /\ At("transfer") /\ ix < NumCpu
  /\ pending' = 1 /\ syspage_available' = ix
  /\ Go("pend")
  /\ UNCHANGED <<ix, ap, num, table, cpu_starting, start_addr>> /\ UNCHANGED gvars

AwaitPending ==
  /\ At("pend") /\ pending = 0
  /\ ix' = ix + 1
  /\ Go(IF ix + 1 < NumCpu THEN "transfer" ELSE "kernel")
  /\ UNCHANGED <<ap, num, table, cpu_starting, syspage_available, pending, start_addr>>
  /\ UNCHANGED gvars

----------------------------------------------------------------------------
(* smp_start: the other CPUs.                                              *)

ApGo(c, from, to) == ap[c] = from /\ ap' = [ap EXCEPT ![c] = to]

\* Out of the firmware's loop, on the common stack, with the number of
\* cpu_starting
ApEnter(c) ==
  /\ c \in table /\ ApGo(c, "off", "cpuinfo")
  /\ num' = [num EXCEPT ![c] = cpu_starting - 1]
  /\ UNCHANGED <<boot, ix, table, cpu_starting, syspage_available, pending, start_addr>>
  /\ UNCHANGED gvars

\* hypervisor_init(), cpu_startup(), init_one_cpuinfo()
init_one_cpuinfo(c) ==
  /\ ApGo(c, "cpuinfo", "done")
  /\ GicCpuInit(num[c], c)
  /\ UNCHANGED <<boot, ix, num, table, cpu_starting, syspage_available, pending, start_addr>>

ApDone(c) ==
  /\ ApGo(c, "done", "wait")
  /\ cpu_starting' = 0
  /\ UNCHANGED <<boot, ix, num, table, syspage_available, pending, start_addr>> /\ UNCHANGED gvars

\* cpu_startnext() with the MMU of vstart
ApNext(c) ==
  /\ syspage_available = num[c] /\ ApGo(c, "wait", "startnext")
  /\ UNCHANGED <<boot, ix, num, table, cpu_starting, syspage_available, pending, start_addr>>
  /\ UNCHANGED gvars

\* smp_spin: this CPU has left startup
ApSpin(c) ==
  /\ ApGo(c, "startnext", "spin")
  /\ pending' = 0
  /\ UNCHANGED <<boot, ix, num, table, cpu_starting, syspage_available, start_addr>>
  /\ UNCHANGED gvars

\* ... until the kernel gives it an address, which one CPU takes, or halts all
KernelStart ==
  /\ At("kernel") /\ start_addr = "none" /\ \E c \in Aps : ap[c] = "spin"
  /\ start_addr' \in {"run", "halt"}
  /\ UNCHANGED <<boot, ix, ap, num, table, cpu_starting, syspage_available, pending>>
  /\ UNCHANGED gvars

smp_spin(c) ==
  /\ \/ start_addr = "run" /\ ApGo(c, "spin", "kernel") /\ start_addr' = "none"
     \/ start_addr = "halt" /\ ApGo(c, "spin", "halted") /\ UNCHANGED start_addr
  /\ UNCHANGED <<boot, ix, num, table, cpu_starting, syspage_available, pending>>
  /\ UNCHANGED gvars

SmpNext ==
  \/ AddEntry \/ UseMm \/ InitIntrinfo \/ init_cpuinfo
  \/ start_aps \/ AwaitAp \/ WriteSyspage \/ transfer_aps \/ AwaitPending \/ KernelStart
  \/ \E c \in Aps : ApEnter(c) \/ init_one_cpuinfo(c) \/ ApDone(c) \/ ApNext(c) \/ ApSpin(c) \/ smp_spin(c)

\* In the kernel, on a controller that startup has finished
InKernel(c) == IF c = 0 THEN At("kernel") ELSE ap[c] = "kernel"
=============================================================================
