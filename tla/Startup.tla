------------------------------- MODULE Startup -------------------------------
(***************************************************************************)
(* The startup program of the bcm2711 (main.c, _main.c, init_smp.c,        *)
(* bcm2711_init_raminfo.c, init_system_private.c, restore_ifs.c and what   *)
(* they call): it learns where memory is, builds page tables and the       *)
(* system page, loads the image file system and the bootstrap executables, *)
(* and hands over to the kernel.                                           *)
(*                                                                         *)
(* b is the board and the command line: chosen once, and the same at every *)
(* boot.  s is the memory of the program (Syspage, Ram, Mmu), pc the step  *)
(* main() has come to.  nv is what survives in RAM when the processor is   *)
(* switched off and the memory is kept alive (restore_ifs.c); power may go *)
(* at any step.                                                            *)
(***************************************************************************)
EXTENDS Mmu, Mailbox

CONSTANTS
    Boards,       \* the boards and command lines
    Gig,          \* the first gigabyte ends here
    MaxBoots      \* bound: boots

VARIABLES b, s, pc, nv, boots
vars == <<b, s, pc, nv, boots>>

Slot(x, k) == <<x, k>>
Blank ==
    [p |-> [x \in Sections |-> 0], size |-> [x \in Sections |-> 0], total |-> 0, max |-> 0,
     fixed |-> 0, mem |-> << >>, patch |-> << >>, names |-> {}, typed |-> {}, hwi |-> 0,
     rtn |-> [x \in {"callout", "smp", "intrinfo"} \X (0..5) |-> "none"], hooked |-> FALSE,
     sized |-> [code |-> 0, rwsize |-> 0, rw |-> [x \in {} |-> 0]], out |-> << >>,
     ram |-> << >>, avoid |-> << >>, early |-> 0, temp |-> NULL, as |-> << >>,
     sysram |-> FALSE, taken |-> {}, ret |-> NULL,
     pt |-> [t \in {} |-> << >>], ttbr0 |-> NULL, ttbr1 |-> NULL, freeva |-> 0, asked |-> << >>,
     private |-> NULL, sp |-> [lo |-> NULL, size |-> 0, callouts |-> 0, kern |-> NULL],
     mbox |-> <<0, 0>>, ifs2 |-> NULL, crash |-> "no"]

(***************************************************************************)
(* restore_ifs.c.  nv.ifs: the image's header is in RAM; nv.ro: whether    *)
(* its read-only part is as it was stored, only partly copied, or damaged; *)
(* nv.data: whether a writable segment <<executable, number>> is as it was *)
(* stored.  nv.sig and nv.sum: the saved information has its signature,    *)
(* and its checksum is right; nv.saved: the segments of which a copy was   *)
(* kept.  nv.ifs2, nv.sum2: the same for the second image.                 *)
(***************************************************************************)
Cold == [ifs |-> FALSE, ro |-> "damaged", data |-> [x \in b.writable |-> FALSE],
         sig |-> FALSE, sum |-> FALSE, saved |-> {}, ifs2 |-> FALSE, sum2 |-> FALSE]

Pristine(n) == n.ro = "good" /\ \A x \in DOMAIN n.data : n.data[x]

\* load_ifs(): the stored image is copied, or uncompressed, from its start
load_ifs_begin(n) ==
    [n EXCEPT !.ifs = TRUE, !.ro = "partial", !.data = [x \in DOMAIN @ |-> FALSE]]
load_ifs_end(n) == [n EXCEPT !.ro = "good", !.data = [x \in DOMAIN @ |-> TRUE]]

\* Faulty variant: the saved information stays valid while it is replaced.
RifsInitLate(n) == [n EXCEPT !.sig = TRUE]

\* rifs_init(): what was saved is used up
rifs_init(n) == [n EXCEPT !.sig = TRUE, !.sum = FALSE, !.saved = {}]

\* check_ifs_signature(), check_rifs_signature()
Restorable(n) == n.ifs /\ n.sig /\ n.sum

\* rifs_restore_ifs(): the saved segments are put back
PutBack(n) ==
    IF Restorable(n) THEN [n EXCEPT !.data = [x \in DOMAIN @ |-> @[x] \/ x \in n.saved]] ELSE n
rifs_restore_ifs(n) ==
    /\ b.restore /\ Restorable(n)
    /\ b.cksum => Pristine(PutBack(n))

\* the first writable segment of every executable is found and kept
rifs_readelf == {x \in b.writable : x[2] = 1}
\* the last thing init_system_private() does about the image
rifs_set_cksum(n) == [n EXCEPT !.sum = TRUE, !.saved = rifs_readelf]

(***************************************************************************)
(* load_ifs2_nonbootable(): the second image goes where the command line   *)
(* says, or into memory of its own; it is loaded unless it is still there. *)
(***************************************************************************)
rifs_load_ifs2(t) == IF b.ifs2dst = NULL THEN t ELSE alloc_ram(t, "ifs2", b.ifs2dst, b.ifs2, Page)
Ifs2Restored(n) == b.ifs2keep /\ n.ifs2 /\ n.sum2
load_ifs2_nonbootable(t, n) ==
    LET at(u) == [u EXCEPT !.ifs2 = IF b.ifs2dst = NULL THEN u.ret ELSE b.ifs2dst]
        info(u) == IF b.ifs2keep THEN alloc_ram(u, "rifs2", NULL, 1, 1) ELSE u
        load(u) == IF Ifs2Restored(n) THEN u ELSE rifs_load_ifs2(u)
    IN  IF b.ifs2 = 0 THEN t
        ELSE load(info(at(IF b.ifs2dst = NULL THEN alloc_ram(t, "ifs2", NULL, b.ifs2, Page) ELSE t)))

Init ==
    /\ b \in Boards
    /\ s = Blank /\ pc = "_main" /\ boots = 1
    /\ nv = Cold

Step(from, to, t) ==
    /\ pc = from /\ s.crash = "no"
    /\ s' = t /\ pc' = to
    /\ UNCHANGED <<b, boots>>

\* ws_alloc() for the first system page; the stored image is left alone
SyspageAtFirst ==
    Then(ws_alloc(ws_init(s, b), InitSize \div CellUnits), LAMBDA t :
        Then(init_syspage_memory(t, t.ret * CellUnits), LAMBDA u :
            IF b.stored = NULL THEN u ELSE avoid_ram(u, b.stored, 4)))
_main == Step("_main", "main", SyspageAtFirst) /\ UNCHANGED nv

(***************************************************************************)
(* main(): the reboot callout, the debug device (selected again once the   *)
(* options are known), and the options that need memory.                   *)
(***************************************************************************)
\* get_co_info(): room for twenty registrations
get_co_info(t) == ws_alloc(t, 1)
select_debug(t, device) == add_callout(t, 1, device, "dbg_device")
Options(t) ==
    LET listed == FoldLeft(LAMBDA u, r : ws_alloc(u, 1), t, b.reserve)
    IN  IF b.jtag = NULL THEN listed ELSE avoid_ram(listed, b.jtag, 1)
main ==
    LET t == select_debug(Options(select_debug(add_callout(get_co_info(s), 0, "reboot", "none"),
                                               "miniuart")), b.debug)
    IN  /\ Step("main", "raminfo", [t EXCEPT !.mbox = mbox_get_clock_rate(@, <<3, b.rate>>)])
        /\ UNCHANGED nv

\* the VideoCore's memory lies at the end of the first gigabyte: so much of it
\* as the VideoCore says, or what the last answer left in the buffer
VcSays == IF b.vcsays THEN <<Gig - b.vc, b.vc>> ELSE << >>
bcm2711_init_raminfo ==
    LET asked == mbox_get_vc_memory(s.mbox, VcSays)
        size == asked[2]
        start == Gig - size
        told == [s EXCEPT !.mbox = mbox_get_board_revision(asked, <<1>>)]
        kept == avoid_ram(avoid_ram(told, 0, 1), start, size)
        known == FoldLeft(LAMBDA t, r : add_ram(t, b, r[1], r[2]), kept, b.ram)
        low(t) == IF b.ram[1][2] > Gig THEN as_add_containing(t, 0, start - 1, "below1G", "ram") ELSE t
    IN  /\ Step("raminfo", "image",
                low(as_add_containing(alloc_ram(known, "vcram", start, size, 1),
                                      start, Gig - 1, "vcram", "ram")))
        /\ UNCHANGED nv

\* "Remove RAM used by modules in the image"
alloc_image ==
    Step("image", "smp", alloc_ram(s, "image", b.img, b.ramsize, 1)) /\ UNCHANGED nv

init_smp ==
    /\ Step("smp", "mmu",
            IF b.cpus = 1 THEN s
            ELSE [set_syspage_section(s, "smp", 1) EXCEPT !.rtn[Slot("smp", 0)] = "sendipi"])
    /\ UNCHANGED nv

map_startup == Step("mmu", "intrinfo", init_mmu(s, b)) /\ UNCHANGED nv

\* init_intrinfo(): the interrupt controllers of the board
init_intrinfo ==
    /\ Step("intrinfo", "info",
            add_interrupt(add_interrupt(s, <<"gic_id", "gic_mask">>, "gic"),
                          <<"msi_id", "msi_mask">>, "msi"))
    /\ UNCHANGED nv

\* hwidev_add(): a device of the unknown bus, with its tags
hwidev_add(t, i) == hwi_alloc_item(t, "Device", "device", 2)
\* init_hwinfo(): the devices of the board, the network's with the address the VideoCore gives
init_hwinfo(t) ==
    [FoldLeft(hwidev_add, t, [i \in 1..b.devices |-> i])
        EXCEPT !.mbox = mbox_get_board_mac_address(@, <<1, 2>>)]

\* init_qtime(), init_cpuinfo(), init_hwinfo() and the strings of main()
init_info ==
    LET times == set_syspage_section(s, "qtime", 1)
        cpu == set_syspage_section(times, "cpuinfo", b.cpus)
        hw == init_hwinfo(cpu)
        id == mbox_get_board_serial(mbox_get_board_revision(hw.mbox, <<1>>), <<1, 2>>)
    IN  /\ Step("info", "private",
                FoldLeft(add_typed_string, [hw EXCEPT !.mbox = id], <<"machine", "provider">>))
        /\ UNCHANGED nv

(***************************************************************************)
(* init_system_private()                                                   *)
(***************************************************************************)
\* the section is kept in the local variable private; the image of the last
\* boot is restored, or everything is loaded
restore_image ==
    LET t == set_syspage_section(s, "private", 1)
        named == add_typed_string([t EXCEPT !.private = t.p["private"]], "hostname")
    IN  /\ Step("private", IF rifs_restore_ifs(nv) THEN "ifs2" ELSE "ifs",
                IF b.restore THEN alloc_ram(named, "rifs", NULL, 1, 1) ELSE named)
        /\ nv' = IF b.restore THEN rifs_init(PutBack(nv)) ELSE nv

begin_load == Step("ifs", "copy", s) /\ nv' = load_ifs_begin(nv)
end_load == Step("copy", "ifs2", s) /\ nv' = load_ifs_end(nv)

place_ifs2 ==
    /\ Step("ifs2", "load", load_ifs2_nonbootable(s, nv))
    /\ nv' = [nv EXCEPT !.ifs2 = b.ifs2 # 0, !.sum2 = b.ifs2keep]

\* the kernel is told where the images and startup are
announce_image(t) ==
    LET f2(u) == IF b.ifs2 = 0 THEN u ELSE as_add(u, u.ifs2, u.ifs2 + b.ifs2 - 1, "imagefs", 1)
    IN  as_add(as_add(f2(as_add(t, b.img + b.startup, b.img + b.ramsize - 1, "imagefs", 1)),
                      b.img, b.img + b.startup - 1, "startup", 1),
               b.img + b.startup, b.img + b.ramsize - 1, "bootram", 1)

\* what is saved of a compressed image has memory of its own
rifs_save_elf32data(t) ==
    IF b.restore /\ b.compressed
    THEN FoldLeft(LAMBDA u, x : alloc_ram(u, "saved", NULL, 1, 1), t, SetToSeq(rifs_readelf))
    ELSE t

\* the executables are loaded, what must be restored at the next boot is saved
load_bootstraps ==
    /\ Step("load", "extra", rifs_save_elf32data(FoldLeft(load_segment, announce_image(s), b.segs)))
    /\ nv' = IF b.restore THEN rifs_set_cksum(nv) ELSE nv

\* -M, -r and the -R list, then the page of init_mitigation_mem()
init_mitigation_mem(t) ==
    LET a == find_top_ram_aligned_limit(t, Page, Page, Page, Top)
    IN  IF ~b.spectre THEN t
        ELSE IF a = NULL THEN crash(t, "no mitigation memory")
        ELSE as_add_containing(alloc_ram(t, "mitigation", a, Page, Page), a, a + Page - 1,
                               "sp2mmu", "ram")
memory_options ==
    LET more(t) == FoldLeft(LAMBDA u, r : add_ram(u, b, r[1], r[2]), t, b.extra)
        jtag(t) == IF b.jtag = NULL THEN t ELSE alloc_ram(t, "jtag", b.jtag, 1, 1)
        kept(t) == FoldLeft(LAMBDA u, r : reserve_ram(u, r.size, r.align, "reserved", r.low),
                            t, b.reserve)
    IN  Step("extra", "sysram", init_mitigation_mem(kept(jtag(more(s))))) /\ UNCHANGED nv

announce_sysram ==
    /\ Step("sysram", "syspage", set_syspage_section(add_sysram(s), "hypinfo", 1))
    /\ UNCHANGED nv

(***************************************************************************)
(* alloc_syspage_memory(): the final place of the system page, with the    *)
(* data of the callouts behind it, their code on pages of its own, and the *)
(* cpu pages; four more asinfo entries are allowed for.                    *)
(***************************************************************************)
SpareEntries == 4
SyspageUnits(t) ==
    RoundUp(t.total + t.sized.rwsize + SpareEntries, PageUnits) + RoundUp(t.sized.code, PageUnits)

cpu_alloc_syspage_memory(t) ==
    LET units == SyspageUnits(t)
        size == RoundUp(units + b.cpus, CellUnits) \div CellUnits
        place(m) == [m EXCEPT !.sp = [lo |-> m.ret, size |-> units, callouts |-> 0, kern |-> NULL]]
    IN  Then(calloc_ram(t, "syspage", size, Page), LAMBDA m :
        IF m.ret = NULL THEN crash(m, "no memory for syspage")
        ELSE Then(aarch64_map(place(m), NULL, m.ret, size, "rwx"), LAMBDA kern :
                 aarch64_map([kern EXCEPT !.sp.kern = kern.ret], NULL, kern.sp.lo, size, "rxu")))

alloc_syspage_memory ==
    LET at(t) == RoundUp(t.total + t.sized.rwsize, PageUnits)
        out(t) == [t EXCEPT !.max = 1, !.out = output_callouts([t EXCEPT !.max = 1]), !.sp.callouts = at(t)]
        code(t, pages) == elf_map(t, t.sp.kern + pages, t.sp.lo + pages * Page,
                                  RoundUp(t.sized.code, PageUnits) \div CellUnits, "rx")
    IN  /\ Step("syspage", "kernel",
                Then(cpu_alloc_syspage_memory([s EXCEPT !.sized = Sized(s)]), LAMBDA t :
                    code(out(t), at(t) \div PageUnits)))
        /\ UNCHANGED nv

(***************************************************************************)
(* The kernel runs and writes to its data; or the power goes, at any time, *)
(* and comes back with the memory kept, with a part of it damaged, or with *)
(* nothing of it left.                                                     *)
(***************************************************************************)
Running ==
    /\ pc = "kernel" /\ s.crash = "no"
    /\ \E x \in DOMAIN nv.data : nv.data[x] /\ nv' = [nv EXCEPT !.data[x] = FALSE]
    /\ UNCHANGED <<b, s, pc, boots>>

\* without -I or -i nothing of nv is looked at, and the next boot is like the first
PowerCycle ==
    /\ boots < MaxBoots /\ (b.restore \/ b.ifs2keep)
    /\ boots' = boots + 1 /\ s' = Blank /\ pc' = "_main"
    /\ nv' \in {nv, [nv EXCEPT !.ro = "damaged"], [nv EXCEPT !.ifs = FALSE], Cold}
    /\ UNCHANGED b

\* startup has handed over, or crashed, for the last time
Over == (pc = "kernel" \/ s.crash # "no") /\ UNCHANGED vars

Next ==
    \/ _main \/ main \/ bcm2711_init_raminfo \/ alloc_image \/ init_smp \/ map_startup
    \/ init_intrinfo \/ init_info \/ restore_image \/ begin_load \/ end_load
    \/ place_ifs2 \/ load_bootstraps \/ memory_options \/ announce_sysram
    \/ alloc_syspage_memory \/ Running \/ PowerCycle \/ Over

Spec == Init /\ [][Next]_vars

----------------------------------------------------------------------------
Ram1 == UNION {Cells(b.ram[i][1], b.ram[i][1] + b.ram[i][2]) : i \in DOMAIN b.ram}
Announced == Ram1 \cup UNION {Cells(b.extra[i][1], b.extra[i][1] + b.extra[i][2]) : i \in DOMAIN b.extra}
SysramCells ==
    UNION {Cells(s.as[i].start, s.as[i].end + 1) : i \in {j \in DOMAIN s.as : s.as[j].name = "sysram"}}
Sound == s.crash = "no"

(***************************************************************************)
(* Memory is handed out once.  The free list is sorted, its blocks are not *)
(* empty and do not touch, it contains nothing that has been taken; two    *)
(* blocks taken are disjoint, unless both belong to the image, and only    *)
(* what was asked for by address may lie where startup keeps its own data. *)
(***************************************************************************)
ByAddress == {"image", "vcram", "jtag", "ifs2"}
HandedOutOnce ==
    Sound =>
    /\ \A i \in DOMAIN s.ram : s.ram[i].size > 0
    /\ \A i \in 1..Len(s.ram) - 1 : s.ram[i].addr + s.ram[i].size < s.ram[i + 1].addr
    /\ ListCellsOf(s.ram) \subseteq Announced
    /\ \A x \in s.taken : Cells(x.lo, x.hi) \cap ListCellsOf(s.ram) = {}
    /\ \A x, y \in s.taken :
         x = y \/ Cells(x.lo, x.hi) \cap Cells(y.lo, y.hi) = {} \/ {x.what, y.what} = {"image"}
    /\ \A x \in s.taken : x.what \in ByAddress \/ Cells(x.lo, x.hi) \cap AvoidCells(s) = {}

(***************************************************************************)
(* What the kernel is told is free is what is free: the "sysram" entries   *)
(* do not overlap, and cover the free list and nothing else, also after    *)
(* the system page and its page tables have been allocated out of them;    *)
(* none of it is the VideoCore's, if the VideoCore has answered.           *)
(***************************************************************************)
SysramIsFree ==
    (Sound /\ s.sysram) =>
    /\ SysramCells = ListCellsOf(s.ram)
    /\ b.vcsays => SysramCells \cap Cells(Gig - b.vc, Gig) = {}
    /\ \A i, j \in DOMAIN s.as :
         (i # j /\ s.as[i].name = "sysram" /\ s.as[j].name = "sysram") =>
             s.as[i].end < s.as[j].start \/ s.as[j].end < s.as[i].start

(***************************************************************************)
(* The system page stays whole while its sections grow and it moves: every *)
(* section holds what was written into it, patch data follows its slot,    *)
(* the pointer init_system_private() keeps is still the section's; and the *)
(* finished page has room for the callouts' data and code, the code on     *)
(* pages which hold nothing else.                                          *)
(***************************************************************************)
CalloutsFit ==
    pc = "kernel" =>
    /\ \A i \in DOMAIN s.out :
         /\ s.out[i].rwat + (IF Routines[s.out[i].routine].rw = "none" THEN 0
                             ELSE Routines[s.out[i].routine].rwlen) <= s.sp.callouts
         /\ s.out[i].code >= s.sp.callouts
         /\ s.out[i].code + Routines[s.out[i].routine].len <= s.sp.size
    /\ s.sp.callouts >= s.total
SyspageWhole ==
    (Sound /\ pc \notin {"_main", "tools"}) =>
    /\ SectionsIntact(s)
    /\ PatchesFollow(s)
    /\ s.private # NULL => s.private = s.p["private"]
    /\ CalloutsFit

(***************************************************************************)
(* The page tables translate what was asked for, and the kernel's          *)
(* addresses lead to no page that is free.  (A part of the last page of    *)
(* the system page may be: its size is not rounded up for calloc_ram().)   *)
(***************************************************************************)
TablesRight ==
    Sound =>
    /\ Translates(s)
    /\ \A i \in DOMAIN s.asked : \A k \in 0..s.asked[i].n - 1 :
         LET a == s.asked[i].pa + k * Page
         IN  s.asked[i].va >= UserEnd => ~(Cells(a, a + Page) \subseteq ListCellsOf(s.ram))

(***************************************************************************)
(* The executables are loaded from the image as it was stored.  With the   *)
(* checksum option nothing that happens to the memory between two boots,   *)
(* nor a boot cut short, can change that; without it only damage to the    *)
(* memory can, and an executable with a second writable segment.           *)
(***************************************************************************)
StartsPristine ==
    pc = "load" =>
        \/ Pristine(nv)
        \/ /\ b.restore /\ ~b.cksum
           /\ nv.ro = "damaged" \/ \E x \in b.writable : x[2] # 1

(***************************************************************************)
(* Memory is in order: nothing is given away twice by the allocator of     *)
(* ram.c, and what is announced to the kernel as free is free.             *)
(***************************************************************************)
RamIsSound == HandedOutOnce /\ SysramIsFree

(***************************************************************************)
(* What is handed to the kernel is whole: the system page with its         *)
(* callouts (syspage_memory.c, callouts.c) and the page tables             *)
(* (aarch64_map.c).                                                        *)
(***************************************************************************)
HandoverWhole == SyspageWhole /\ TablesRight
=============================================================================
