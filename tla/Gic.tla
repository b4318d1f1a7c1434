-------------------------------- MODULE Gic --------------------------------
(***************************************************************************)
(* The interrupt callouts at work in the kernel, on a controller that      *)
(* startup has programmed: inter-processor interrupts, masking of SPIs and *)
(* of LPIs through the ITS, and the MSI controller of the bcm2711 behind   *)
(* one SPI.  What the kernel does between the callouts is external.        *)
(***************************************************************************)
EXTENDS Smp

CONSTANTS Cmds,      \* commands of an IPI (bits of ipicmds[])
          TheSpi,    \* the SPI that is masked and unmasked
          TheLpi,    \* the LPI that is
          MaxOps     \* IPIs, mask calls and device events in a behaviour

ASSUME CalloutsAssumption ==
  /\ TheSpi \in Ids /\ \A m \in Machines : TheSpi \in Spi .. 32 * m.itl - 1
  /\ TheLpi \in Ids /\ MaxOps \in Nat

VARIABLES
  ipicmds,  \* of every CPU
  due,      \* commands sent and not yet acted upon
  sgi,      \* CPUs with SGI 0 pending
  cs,       \* what every CPU is at
  fwd,      \* SPIs that the distributor still forwards (RWP)
  quiet,    \* SPIs whose mask callout has returned
  leaked,   \* an SPI came although masked
  msi,      \* MSI controller: status and mask bit, events due, mask count
  ops

kvars == <<ipicmds, due, sgi, cs, fwd, quiet, leaked, msi, ops>>
vars == <<gvars, svars, kvars>>

Idle == [op |-> "run"]

Init ==
  /\ GicInitState /\ SmpInitState
  /\ ipicmds = [c \in Cpus |-> {}] /\ due = [c \in Cpus |-> {}]
  /\ sgi = {} /\ cs = [c \in Cpus |-> Idle]
  /\ fwd = {} /\ quiet = {TheSpi} /\ leaked = FALSE
  /\ msi = [st |-> FALSE, mask |-> FALSE, due |-> FALSE, cnt |-> 0]
  /\ ops = 0

Is(c, op) == InKernel(c) /\ cs[c].op = op
Do(c, rec) == cs' = [cs EXCEPT ![c] = rec]
NewOp == ops < MaxOps /\ ops' = ops + 1
Rest == UNCHANGED <<gvars, svars>>

----------------------------------------------------------------------------
(* sendipi_gic_v2, sendipi_gic_v3_sr and _mm, with interrupts off.         *)

SendStart(c) ==
  /\ Is(c, "run") /\ NewOp
  /\ \E t \in Cpus \ {c}, m \in Cmds : InKernel(t) /\ Do(c, [op |-> "ldxr", to |-> t, cmd |-> m])
  /\ UNCHANGED <<ipicmds, due, sgi, fwd, quiet, leaked, msi>> /\ Rest

Ldxr(c) ==
  /\ Is(c, "ldxr")
  /\ Do(c, [op |-> "stxr", to |-> cs[c].to, cmd |-> cs[c].cmd, old |-> ipicmds[cs[c].to]])
  /\ UNCHANGED <<ipicmds, due, sgi, fwd, quiet, leaked, msi, ops>> /\ Rest

\* Faulty variant: the status of the exclusive store is not looked at
StxrUnchecked(c) ==
  /\ Is(c, "stxr")
  /\ LET t == cs[c].to IN
       /\ ipicmds' = [ipicmds EXCEPT ![t] = cs[c].old \cup {cs[c].cmd}]
       /\ due' = [due EXCEPT ![t] = @ \cup {cs[c].cmd}]
       /\ Do(c, IF cs[c].old = {} THEN [op |-> "sgir", to |-> t] ELSE Idle)
  /\ UNCHANGED <<sgi, fwd, quiet, leaked, msi, ops>> /\ Rest

\* The exclusive store, and SGI 0 only when nothing was there before
Stxr(c) ==
  /\ Is(c, "stxr")
  /\ LET t == cs[c].to IN
     IF ipicmds[t] = cs[c].old
     THEN /\ ipicmds' = [ipicmds EXCEPT ![t] = cs[c].old \cup {cs[c].cmd}]
          /\ due' = [due EXCEPT ![t] = @ \cup {cs[c].cmd}]
          /\ Do(c, IF cs[c].old = {} THEN [op |-> "sgir", to |-> t] ELSE Idle)
     ELSE /\ Do(c, [op |-> "ldxr", to |-> t, cmd |-> cs[c].cmd])
          /\ UNCHANGED <<ipicmds, due>>
  /\ UNCHANGED <<sgi, fwd, quiet, leaked, msi, ops>> /\ Rest

Sgir0(c) ==
  /\ Is(c, "sgir")
  /\ sgi' = sgi \cup Reaches(map[cs[c].to])
  /\ Do(c, Idle)
  /\ UNCHANGED <<ipicmds, due, fwd, quiet, leaked, msi, ops>> /\ Rest

\* interrupt_id_*_ppi: SGI 0 acknowledged (and ended at once by v2)
TakeIpi(c) ==
  /\ Is(c, "run") /\ c \in sgi /\ 0 \in gicr[c].en /\ gicr[c].up
  /\ sgi' = sgi \ {c}
  /\ Do(c, [op |-> "ipi"])
  /\ UNCHANGED <<ipicmds, due, fwd, quiet, leaked, msi, ops>> /\ Rest

\* External: the kernel takes all commands at once, then interrupt_eoi_*
KernelIpi(c) ==
  /\ Is(c, "ipi")
  /\ ipicmds' = [ipicmds EXCEPT ![c] = {}]
  /\ due' = [due EXCEPT ![c] = @ \ ipicmds[c]]
  /\ Do(c, Idle)
  /\ UNCHANGED <<sgi, fwd, quiet, leaked, msi, ops>> /\ Rest

----------------------------------------------------------------------------
(* Masking an SPI: interrupt_mask_gic_v2_spi, _v3_spi, _v3_espi.           *)

MaskSpi(c) ==
  /\ Is(c, "run") /\ NewOp /\ TheSpi \in gicd.en
  /\ gicd' = [gicd EXCEPT !.en = @ \ {TheSpi}]
  /\ fwd' = IF hw.ver = "v2" THEN fwd \ {TheSpi} ELSE fwd
  /\ Do(c, [op |-> "rwp"])
  /\ UNCHANGED <<hw, gicr, ents, map, lpis, its, rdcache, svars>>
  /\ UNCHANGED <<ipicmds, due, sgi, quiet, leaked, msi>>

\* External: the distributor catches up (GICD_CTLR.RWP)
Propagate ==
  /\ fwd # gicd.en \cap {TheSpi} /\ At("kernel")
  /\ fwd' = gicd.en \cap {TheSpi}
  /\ UNCHANGED <<ipicmds, due, sgi, cs, quiet, leaked, msi, ops>> /\ Rest

\* Faulty variant: the callout does not wait for RWP
MaskRwpUnawaited(c) ==
  /\ Is(c, "rwp")
  /\ quiet' = IF TheSpi \in gicd.en THEN quiet ELSE quiet \cup {TheSpi}
  /\ Do(c, Idle)
  /\ UNCHANGED <<ipicmds, due, sgi, fwd, leaked, msi, ops>> /\ Rest

\* ... and the callout returns
MaskRwp(c) ==
  /\ Is(c, "rwp") /\ fwd = gicd.en \cap {TheSpi}
  /\ quiet' = IF TheSpi \in gicd.en THEN quiet ELSE quiet \cup {TheSpi}
  /\ Do(c, Idle)
  /\ UNCHANGED <<ipicmds, due, sgi, fwd, leaked, msi, ops>> /\ Rest

UnmaskSpi(c) ==
  /\ Is(c, "run") /\ NewOp /\ TheSpi \notin gicd.en
  /\ gicd' = [gicd EXCEPT !.en = @ \cup {TheSpi}]
  /\ quiet' = quiet \ {TheSpi}
  /\ UNCHANGED <<hw, gicr, ents, map, lpis, its, rdcache, svars>>
  /\ UNCHANGED <<ipicmds, due, sgi, cs, fwd, leaked, msi>>

\* A device raises the SPI and the CPU it is routed to takes it
TakeSpi(c) ==
  /\ Is(c, "run") /\ gicd.on /\ TheSpi \in fwd
  /\ c = 0 /\ (hw.ver # "v2" => TheSpi \in gicd.group1)
  /\ leaked' = (leaked \/ TheSpi \in quiet)
  /\ UNCHANGED <<ipicmds, due, sgi, cs, fwd, quiet, msi, ops>> /\ Rest

----------------------------------------------------------------------------
(* Masking an LPI: interrupt_mask_gic_v3_lpi_its and its counterpart.      *)

UsesLpi == hw.ver # "v2" /\ TheLpi \in Lpi .. Lpi + lpis.n - 1

\* The spinlock, then the bit of the configuration table
LpiLock(c) ==
  /\ Is(c, "run") /\ NewOp /\ UsesLpi /\ its.lock = None
  /\ its' = [its EXCEPT !.lock = c]
  /\ lpis' = [lpis EXCEPT !.table[TheLpi] = ~@]
  /\ Do(c, [op |-> "lpi"])
  /\ UNCHANGED <<hw, gicd, gicr, ents, map, rdcache, svars>>
  /\ UNCHANGED <<ipicmds, due, sgi, fwd, quiet, leaked, msi>>

\* Faulty variant: the redistributor is not told to read the table again
LpiSyncOnly(c) ==
  /\ Is(c, "lpi")
  /\ its' = [its EXCEPT !.q = Issue(@, its.cw, << <<"SYNC", 0>> >>), !.cw = next_cmd_q_slot(@),
                        !.lock = None]
  /\ Do(c, Idle)
  /\ UNCHANGED <<hw, gicd, gicr, ents, map, lpis, rdcache, svars>>
  /\ UNCHANGED <<ipicmds, due, sgi, fwd, quiet, leaked, msi, ops>>

\* INVALL and SYNC of collection 0 (num_collections is 1), then CWRITER; the
\* bound stands for an ITS that is never a whole queue behind, which the code
\* takes for granted
LpiCommands(c) ==
  /\ Is(c, "lpi")
  /\ (its.cw + QSlots - its.cr) % QSlots < QSlots - 2
  /\ its' = [its EXCEPT !.q = Issue(@, its.cw, << <<"INVALL", 0>>, <<"SYNC", 0>> >>),
                        !.cw = next_cmd_q_slot(next_cmd_q_slot(@)), !.lock = None]
  /\ Do(c, Idle)
  /\ UNCHANGED <<hw, gicd, gicr, ents, map, lpis, rdcache, svars>>
  /\ UNCHANGED <<ipicmds, due, sgi, fwd, quiet, leaked, msi, ops>>

\* External: the ITS executes the command at CREADR
ItsStep ==
  /\ At("kernel") /\ its.on /\ its.cr # its.cw
  /\ rdcache' = IF its.q[its.cr][1] = "INVALL" THEN Refresh ELSE rdcache
  /\ its' = [its EXCEPT !.cr = next_cmd_q_slot(@)]
  /\ UNCHANGED <<hw, gicd, gicr, ents, map, lpis, svars, kvars>>

----------------------------------------------------------------------------
(* MSIs of the bcm2711: one of the 32 behind BCM2711_PCIE_MSI.             *)

HasMsi == hw.ver = "v2" /\ InKernel(0)

MsiRaise ==
  /\ HasMsi /\ NewOp
  /\ msi' = [msi EXCEPT !.st = TRUE, !.due = TRUE]
  /\ UNCHANGED <<ipicmds, due, sgi, cs, fwd, quiet, leaked>> /\ Rest

\* Lowest unmasked bit: masked, status cleared; then the handlers run
interrupt_id_bcm2711_msi ==
  /\ HasMsi /\ Is(0, "run") /\ msi.st /\ ~msi.mask
  /\ msi' = [msi EXCEPT !.mask = TRUE, !.st = FALSE, !.due = FALSE]
  /\ Do(0, [op |-> "msi"])
  /\ UNCHANGED <<ipicmds, due, sgi, fwd, quiet, leaked, ops>> /\ Rest

\* Faulty variant: the mask count is not looked at
MsiEoiUnmasks ==
  /\ HasMsi /\ Is(0, "msi")
  /\ msi' = [msi EXCEPT !.mask = FALSE]
  /\ Do(0, Idle)
  /\ UNCHANGED <<ipicmds, due, sgi, fwd, quiet, leaked, ops>> /\ Rest

interrupt_eoi_bcm2711_msi ==
  /\ HasMsi /\ Is(0, "msi")
  /\ msi' = IF msi.cnt = 0 THEN [msi EXCEPT !.mask = FALSE] ELSE msi
  /\ Do(0, Idle)
  /\ UNCHANGED <<ipicmds, due, sgi, fwd, quiet, leaked, ops>> /\ Rest

\* External: InterruptMask() and InterruptUnmask() call back when the count
\* leaves or reaches zero
interrupt_mask_bcm2711_msi ==
  /\ HasMsi /\ NewOp /\ msi.cnt = 0
  /\ msi' = [msi EXCEPT !.cnt = 1, !.mask = TRUE]
  /\ UNCHANGED <<ipicmds, due, sgi, cs, fwd, quiet, leaked>> /\ Rest

interrupt_unmask_bcm2711_msi ==
  /\ HasMsi /\ msi.cnt = 1
  /\ msi' = [msi EXCEPT !.cnt = 0, !.mask = FALSE]
  /\ UNCHANGED <<ipicmds, due, sgi, cs, fwd, quiet, leaked, ops>> /\ Rest

----------------------------------------------------------------------------
Next ==
  \/ SmpNext /\ UNCHANGED kvars
  \/ \E c \in Cpus :
       \/ SendStart(c) \/ Ldxr(c) \/ Stxr(c) \/ Sgir0(c) \/ TakeIpi(c) \/ KernelIpi(c)
       \/ MaskSpi(c) \/ MaskRwp(c) \/ UnmaskSpi(c) \/ TakeSpi(c)
       \/ LpiLock(c) \/ LpiCommands(c)
  \/ Propagate \/ ItsStep
  \/ MsiRaise \/ interrupt_id_bcm2711_msi \/ interrupt_eoi_bcm2711_msi
  \/ interrupt_mask_bcm2711_msi \/ interrupt_unmask_bcm2711_msi

Spec == Init /\ [][Next]_vars

----------------------------------------------------------------------------
BootRuns == boot \in {"board", "cpu0", "start", "transfer"}
ApRuns(c) == ap[c] \in {"cpuinfo", "done", "startnext"}

\* Never two CPUs run the code of startup: start_aps() and transfer_aps() let
\* one go and wait for it, and each CPU finds the number that is meant for it.
OneCpuAtATime ==
  /\ \A c \in Aps : ApRuns(c) => ~BootRuns /\ \A d \in Aps \ {c} : ~ApRuns(d)
  /\ \A c \in Aps : num[c] \in {None, c}

Implemented == {k \in Ids : k \in Spi .. (IF hw.ver = "v2" THEN LastSpi2 ELSE Itn) - 1
                              \cup Espi .. Espi + 32 * hw.espil - 1}

\* Nothing of the firmware's settings is left when the kernel starts: no SPI
\* is enabled or pending, each is at its priority and goes to the boot CPU, is
\* level triggered unless it is an MSI, and of the private interrupts only
\* SGIs are on.  gic_v3_initialize() rounds 1020 lines down to whole registers
\* of 16, so that the last twelve keep the trigger that they had.
CleanHandover ==
  At("kernel") /\ ops = 0 =>
    /\ gicd.on /\ Implemented \cap (gicd.en \cup gicd.pend) = {} /\ Implemented \subseteq gicd.prio
    /\ \A k \in Implemented : gicd.route[k] = IF hw.ver = "v2" THEN hw.pos[0] ELSE hw.aff[0]
    /\ (gicd.edge \cap Implemented) \ MsiVectors(ents) \subseteq
         IF hw.ver # "v2" THEN {k \in Ids : k \in 16 * (Itn \div 16) .. SpiMax} ELSE {}
    /\ \A c \in Cpus : gicr[c].up /\ 0 \in gicr[c].en /\ gicr[c].en \cap 16..31 = {}
    /\ \A k \in Ids : k \in Lpi .. Lpi + lpis.n - 1 => ~rdcache[k]

\* Vectors registered with the kernel exist and belong to one entry, and the
\* entries of a kind are in increasing order, however a board claims them.
VectorsSound ==
  \A j \in 1..Len(ents) :
    /\ ents[j].kind = "spi" => Last(ents[j]) <= SpiMax
    /\ \A k \in 1..j-1 : /\ Vectors(ents[k]) \cap Vectors(ents[j]) = {}
                          /\ ents[k].kind = ents[j].kind => Last(ents[k]) < ents[j].base

\* The tables of the ITS hold every device and every CPU, the LPIs claimed are
\* no more than the GIC has, and every CPU in the kernel has its collection.
TablesSound ==
  lpis.n > 0 /\ At("kernel") =>
    /\ its.dt.bytes >= 2^hw.devbits * hw.entry /\ (hw.ct => its.ct.bytes >= NumCpu * hw.entry)
    /\ lpis.n <= gic_v3_num_lpis
    /\ \A c \in Cpus : its.coll[c] = hw.pos[c]

\* The kernel starts on a controller, tables and vectors that are sound.
HandoverSound == CleanHandover /\ VectorsSound /\ TablesSound

\* A command sent with sendipi_*() stays in ipicmds[] until its CPU takes it,
\* and that CPU has, had or will have SGI 0 pending: the SGI goes out only for
\* the first of several commands, by whoever found the word empty, and to the
\* CPU that gic_map names.
NoLostIpi ==
  \A c \in Cpus :
    /\ due[c] \subseteq ipicmds[c]
    /\ due[c] # {} => \/ c \in sgi \/ cs[c].op = "ipi"
                      \/ \E s \in Cpus : cs[s].op = "sgir" /\ cs[s].to = c

\* An MSI that comes while the last one is handled is kept, its mask bit is
\* given back when the handler ends, and a vector that is masked by the kernel
\* stays masked through the end of an interrupt.
NoLostMsi ==
  /\ msi.due => msi.st
  /\ msi.mask => cs[0].op = "msi" \/ msi.cnt > 0
  /\ msi.cnt > 0 => msi.mask

\* No interrupt is lost between the callouts, the controller and the kernel.
NoLostInterrupt == NoLostIpi /\ NoLostMsi

\* Masking works: after the mask callout of an SPI has returned it does not
\* come again, and once the ITS has caught up the redistributors know the
\* configuration table.
MaskIsEffective ==
  /\ ~leaked
  /\ UsesLpi /\ At("kernel") /\ its.lock = None /\ its.cr = its.cw
       => rdcache[TheLpi] = lpis.table[TheLpi]

\* Interrupts arrive unless they are masked, and only then.
InterruptsArrive == NoLostInterrupt /\ MaskIsEffective
=============================================================================
