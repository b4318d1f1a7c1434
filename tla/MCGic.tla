------------------------------- MODULE MCGic -------------------------------
(* The GIC-400 of the bcm2711 with the CPU interfaces in another order than *)
(* the CPUs, a GICv3 with ESPIs, an ITS and CPUs in several clusters, and a *)
(* full size GICv3 without system registers.                                *)
EXTENDS Gic

MCIds == {0, 31, 32, 255, 256, 991, 1007, 1019, 4096, 4127, 8192, 8193}

Common == [ver |-> "v3", itl |-> 8, espil |-> 0, mbis |-> FALSE, lpis |-> FALSE, numlpi |-> 0,
           idbits |-> 13, plpis |-> FALSE, direct |-> FALSE, sre |-> TRUE, mm |-> FALSE,
           gicc |-> FALSE, share |-> FALSE, devbits |-> 10, entry |-> 8, page |-> 4096, ct |-> TRUE,
           cidbits |-> 16,
           pos |-> [c \in Cpus |-> c], aff |-> [c \in Cpus |-> c]]

Bcm2711 == [Common EXCEPT !.ver = "v2", !.pos = [c \in Cpus |-> NumCpu - 1 - c]]
WithIts == [Common EXCEPT !.espil = 1, !.mbis = TRUE, !.lpis = TRUE, !.plpis = TRUE,
                          !.aff = [c \in Cpus |-> CASE c = 0 -> 0 [] c = 1 -> 16 [] OTHER -> 256]]
Full == [Common EXCEPT !.itl = 32, !.sre = FALSE, !.gicc = TRUE]
ManyDevices == [WithIts EXCEPT !.devbits = 20, !.espil = 0]
DirectLpis == [WithIts EXCEPT !.direct = TRUE]

MCMachines == {Bcm2711, WithIts, Full, ManyDevices, DirectLpis}

MCClaims ==
  {[kind |-> "spi", base |-> 32, n |-> 32, msi |-> FALSE],
   [kind |-> "spi", base |-> 48, n |-> 208, msi |-> TRUE],
   [kind |-> "spi", base |-> 255, n |-> 2, msi |-> FALSE],
   [kind |-> "espi", base |-> 4096, n |-> 32, msi |-> TRUE],
   [kind |-> "lpi", base |-> 8192, n |-> 2, msi |-> TRUE]}
=============================================================================
