------------------------------ MODULE MCStartup ------------------------------
(***************************************************************************)
(* Boards and command lines for the model of startup.  A page is two       *)
(* cells, the first gigabyte sixty.                                        *)
(***************************************************************************)
EXTENDS System

MCRoutines ==
    [r \in {"reboot", "miniuart", "pl011", "sendipi", "gic_id", "gic_mask", "msi_id", "msi_mask"} |->
        [len |-> IF r = "gic_id" THEN 4 ELSE 2,
         rw |-> CASE r \in {"gic_id", "gic_mask"} -> "gic" [] r = "msi_mask" -> "msi" [] OTHER -> "none",
         rwlen |-> IF r \in {"gic_id", "gic_mask"} THEN 3 ELSE 1,
         patched |-> r \notin {"reboot", "sendipi"}]]

\* two segments of an executable in the image at i, which starts behind the
\* three cells of startup
InImage(i) ==
    LET a == RoundUp(i + 3, Page)
    IN  <<[va |-> ImageVa, paddr |-> a, memsz |-> 2, filesz |-> 2, w |-> FALSE],
          [va |-> ImageVa + 3, paddr |-> a + 2, memsz |-> 4, filesz |-> 1, w |-> TRUE]>>

Plain ==
    [ram |-> <<<<0, 80>>>>, vc |-> 5, img |-> 2, startup |-> 3, ramsize |-> 8, stored |-> NULL,
     cpus |-> 2, debug |-> "miniuart", devices |-> 1, spectre |-> FALSE, jtag |-> NULL,
     reserve |-> << >>, extra |-> << >>,
     segs |-> InImage(2),
     restore |-> FALSE, cksum |-> FALSE, compressed |-> FALSE, writable |-> {<<1, 1>>},
     ifs2 |-> 0, ifs2dst |-> NULL, ifs2keep |-> FALSE,
     rate |-> 2, vcsays |-> TRUE, tools |-> "none", wdt |-> NULL]

\* the memory sizes the board comes with, and the place of the image
Memories ==
    {[Plain EXCEPT !.ram = m, !.vc = v, !.img = i, !.segs = InImage(i), !.stored = st] :
        m \in {<<<<0, 60>>>>, <<<<0, 80>>>>, <<<<0, 80>>, <<88, 24>>>>},
        v \in {0, 4, 5}, i \in {1, 2, 30}, st \in {NULL, 40}}

\* sizes of the system page around a page's end
FillUp ==
    {[Plain EXCEPT !.devices = d, !.cpus = c, !.debug = g, !.img = i, !.segs = InImage(i)] :
        d \in 0..4, c \in {1, 2}, g \in {"miniuart", "pl011"}, i \in {1, 10}}

\* options
R(n, a, l) == [size |-> n, align |-> a, low |-> l]
Options2 ==
    {[Plain EXCEPT !.reserve = r, !.extra = x, !.jtag = j, !.spectre = sp, !.img = 10, !.segs = InImage(10)] :
        r \in {<< >>, <<R(3, 0, FALSE)>>, <<R(1, 4, FALSE), R(5, 0, TRUE)>>},
        x \in {<< >>, <<<<80, 4>>>>, <<<<90, 8>>, <<98, 5>>>>},
        j \in {NULL, 33, 70}, sp \in BOOLEAN}

\* executables: copied, in place, crossing tables, with a large bss
Segments ==
    {[Plain EXCEPT !.segs = <<[va |-> ImageVa + v, paddr |-> p, memsz |-> m, filesz |-> f, w |-> w],
                              [va |-> ImageVa + 10, paddr |-> 0, memsz |-> 3, filesz |-> 3, w |-> TRUE]>>] :
        v \in {0, 2}, p \in {0, 6}, m \in {3, 9}, f \in {1, 2, 3}, w \in BOOLEAN}

\* the image kept over a power cycle
Restores ==
    {[Plain EXCEPT !.restore = TRUE, !.cksum = k, !.compressed = c, !.writable = w, !.ifs2 = n, !.ifs2keep = q] :
        k \in BOOLEAN, c \in BOOLEAN, w \in {{<<1, 1>>, <<2, 1>>}, {<<1, 1>>, <<1, 2>>}},
        n \in {0, 3}, q \in BOOLEAN}

\* the VideoCore refuses to say where its memory is
Refused == {[Plain EXCEPT !.vcsays = FALSE, !.rate = r] : r \in {2, 7}}

\* the tools
WithTools ==
    {[Plain EXCEPT !.tools = "gpio"], [Plain EXCEPT !.tools = "mbox"]}
    \cup {[Plain EXCEPT !.tools = "wdt", !.wdt = w] : w \in {500, 2500, 20000}}

MCBoards == Memories \cup FillUp \cup Options2 \cup Segments \cup Restores \cup Refused \cup WithTools

\* pins: two to a function register; the table has both of one
MCPinTable ==
    <<<<[pin |-> 2, fsel |-> 2, pull |-> 1, lvl |-> 0], [pin |-> 3, fsel |-> 1, pull |-> 0, lvl |-> 1]>>,
      <<[pin |-> 4, fsel |-> 4, pull |-> 0, lvl |-> 0]>>>>
MCGpioCmds ==
    {[pins |-> P, fsel |-> f, drive |-> d, pull |-> u] :
        P \in {{0, 1}, {2, 3}, {4}, {5}}, f \in {UNSET, FUNC_OP, 5}, d \in {UNSET, 1}, u \in {UNSET, 2}}

\* wdtkick
T(n, v) == [name |-> n, v |-> v]
W(r, v) == [opt |-> "W", off |-> r, val |-> v]
Reload == WithPassword(2500 * MsToTicks)
Start == WithPassword(32)
Hwinfo(device, tags, opts) ==
    [wdog |-> TRUE, base |-> 1, kick |-> 500, width |-> 32, device |-> device, tags |-> tags, opts |-> opts,
     stack |-> <<0, 0>>]
TagsOf ==
    LET R1 == T("offset", <<0, PM_WDOG>>)
        V1 == T("value", Reload)
        R2 == T("offset", <<0, PM_RSTC>>)
        V2 == T("value", Start)
        Lo == T("value32_lo", <<0, Reload[2]>>)
        Hi == T("value32_hi", <<0, Reload[1]>>)
    IN  {<< >>, <<R1, V1>>, <<V1, R1>>, <<R1, V1, R2, V2>>, <<V1, R1, R2, V2>>, <<R2, V2, V1, R1>>,
         <<R1, Lo, R1, Hi>>, <<Lo, R1, Hi, R1>>, <<R1, Lo, Hi>>, <<R1>>, <<R1, R2>>, <<R1, R2, V2>>,
         <<V1, V2>>, <<R1, Hi>>, <<R1, V1, R2, V2, R1, V1, R2, V2>>, <<T("other", Start)>>}
OptsOf ==
    {<< >>, <<W(PM_WDOG, Reload), W(PM_RSTC, Start)>>, <<W(PM_WDOG, <<2, 9>>)>>,
     <<W(PM_WDOG, WithPassword(20000))>>, <<[opt |-> "B", off |-> PM_WDOG, val |-> NoValue]>>,
     <<[opt |-> "B", off |-> PM_RSTC, val |-> <<90 * 256, 32>>]>>,
     <<[opt |-> "t", val |-> 3000], W(PM_WDOG, Reload)>>, <<[opt |-> "t", val |-> 1000], W(PM_WDOG, Reload)>>,
     <<[opt |-> "w", val |-> 16], W(PM_WDOG, Reload)>>, <<[opt |-> "w", val |-> 8], W(PM_WDOG, Reload)>>,
     <<[opt |-> "w", val |-> 7], W(PM_WDOG, Reload)>>, <<[opt |-> "a", val |-> 0], W(PM_WDOG, Reload)>>,
     <<W(PM_WDOG, NoValue)>>}
MCKickArgs ==
    {Hwinfo(d, t, o) : d \in {"none", "write", "bitswap"}, t \in TagsOf, o \in OptsOf}
    \cup {[Hwinfo("none", << >>, o) EXCEPT !.wdog = FALSE] : o \in OptsOf}
    \cup {[Hwinfo("write", t, << >>) EXCEPT !.stack = Reload] : t \in TagsOf}
=============================================================================
