--------------------------------- MODULE Mmu ---------------------------------
(***************************************************************************)
(* The page tables startup builds (aarch64_map.c, elf_map.c, init_mmu.c):  *)
(* three levels of tables of Npte entries, reached from ttbr0 for the low  *)
(* addresses and from ttbr1 for the kernel's.  A table is named by the     *)
(* address of the memory it was allocated from.  Virtual addresses are     *)
(* page numbers; 0 as an entry is an invalid one.                          *)
(*                                                                         *)
(* The position of the recursive entries and of the startup area is        *)
(* external (the kernel's mmu.h): the last entry of the startup area's     *)
(* second-level table refers back, and so does the first one of ttbr1.     *)
(* asked is the model's: every mapping requested, the latest first.        *)
(***************************************************************************)
EXTENDS Ram

CONSTANTS
    Npte,          \* entries of a table
    Contig,        \* CONTIG_PAGES
    ImageVa        \* the page at which the bootstrap executables are linked

UserEnd == Npte * Npte * Npte
\* AARCH64_STARTUP_BASE, __L1_L1_IDX, __L1_L2_IDX, __L2_L2_IDX
StartupBase == UserEnd + 2 * Npte * Npte
L1L1 == 0
L1L2 == 2
L2L2 == Npte - 1

L1Idx(va) == (va \div (Npte * Npte)) % Npte
L2Idx(va) == (va \div Npte) % Npte
L3Idx(va) == va % Npte

NoEntry == [pa |-> NULL, prot |-> "none", contig |-> FALSE]
set_pte(pa, prot) == [pa |-> pa, prot |-> prot, contig |-> FALSE]

\* a fresh table; calloc_ram() has zeroed it
NewTable(s) == [s EXCEPT !.pt = [t \in DOMAIN @ \cup {s.ret} |->
                    IF t = s.ret THEN [i \in 0..Npte - 1 |-> NoEntry] ELSE @[t]]]

pt_alloc(s) ==
    Then(calloc_ram(s, "pagetable", Page, Page), LAMBDA t :
        IF t.ret = NULL THEN crash(t, "pt_alloc") ELSE NewTable(t))

\* the next table behind entry i of table t, which is allocated if needed;
\* it is left in ret
NextTable(s, t, i) ==
    IF ~Runs(s) THEN s
    ELSE IF s.pt[t][i] # NoEntry THEN [s EXCEPT !.ret = s.pt[t][i].pa]
    ELSE Then(pt_alloc(s), LAMBDA u : [u EXCEPT !.pt[t][i] = set_pte(u.ret, "rw")])

\* the third-level table for va is left in ret
LastTable(s, L1, va) ==
    Then(NextTable(s, L1, L1Idx(va)), LAMBDA t : NextTable(t, t.ret, L2Idx(va)))

\* Faulty variant: the table of the first page is used for all of them.
MapPageSameTable(s, L1, first, pa, n, k, prot) ==
    Then(LastTable(s, L1, first), LAMBDA t :
        [t EXCEPT !.pt[t.ret][L3Idx(first + k)] = set_pte(pa + k * Page, prot)])

\* one page of [va, va + n), in a contiguous group if all of it is mapped
MapPage(s, L1, first, pa, n, k, prot) ==
    LET va == first + k
        group == va - (va % Contig)
        contig == /\ group >= first /\ group + Contig <= first + n
                  /\ ((pa \div Page) + (group - first)) % Contig = 0
    IN  Then(LastTable(s, L1, va), LAMBDA t :
            [t EXCEPT !.pt[t.ret][L3Idx(va)] = [set_pte(pa + k * Page, prot) EXCEPT !.contig = contig]])

\* addr is in cells; va is a page or NULL, and the page mapped is left in ret
aarch64_map(s, va, addr, size, prot) ==
    LET off == addr % Page
        pa == addr - off
        n == RoundUp(size + off, Page) \div Page
        first == IF va = NULL THEN s.freeva ELSE va
        L1 == IF first < UserEnd THEN s.ttbr0 ELSE s.ttbr1
        moved == [s EXCEPT !.freeva = IF va = NULL THEN @ + n ELSE @,
                           !.asked = <<[va |-> first, pa |-> pa, n |-> n, prot |-> prot]>> \o @]
    IN  IF ~Runs(s) THEN s
        ELSE IF va # NULL /\ off # 0 THEN crash(s, "bad alignment")
        ELSE IF first < UserEnd /\ first + n >= UserEnd THEN crash(s, "beyond user end")
        ELSE IF first >= UserEnd /\ first < StartupBase THEN crash(s, "below startup base")
        ELSE Then(FoldLeft(LAMBDA t, k : MapPage(t, L1, first, pa, n, k, prot),
                           moved, [i \in 1..n |-> i - 1]),
                  LAMBDA t : [t EXCEPT !.ret = first])

elf_map(s, va, addr, size, flags) == aarch64_map(s, va, addr, size, flags)

\* what the MMU would make of a page
elf_vaddr_to_paddr(s, va) ==
    LET L1 == IF va < UserEnd THEN s.ttbr0 ELSE s.ttbr1
        e1 == s.pt[L1][L1Idx(va)]
        e2 == s.pt[e1.pa][L2Idx(va)]
    IN  IF e1 = NoEntry THEN NoEntry
        ELSE IF e2 = NoEntry THEN NoEntry ELSE s.pt[e2.pa][L3Idx(va)]

aarch64_map_init(s) ==
    LET low(t) == [NewTable(t) EXCEPT !.ttbr0 = t.ret]
        high(t) == [t EXCEPT !.ttbr1 = t.ret, !.pt[t.ret][L1L1] = set_pte(t.ret, "rw")]
        startup(t) == [t EXCEPT !.pt[t.ttbr1][L1L2] = set_pte(t.ret, "rw"),
                                !.pt[t.ret][L2L2] = set_pte(t.ttbr1, "rw"),
                                !.freeva = StartupBase]
    IN  Then(calloc_ram(s, "pagetable", Page, Page), LAMBDA t1 :
        Then(pt_alloc(low(t1)), LAMBDA t2 :
        Then(pt_alloc(high(t2)), LAMBDA t3 :
        Then(calloc_ram(startup(t3), "L0", Page, Page), LAMBDA t4 :
            aarch64_map(t4, NULL, t4.ret, Page, "rw")))))

init_mmu(s, b) ==
    LET start == TRUNC(b.img, Page)
        end == RoundUp(b.img + b.startup, Page)
    IN  IF Runs(s) THEN aarch64_map(aarch64_map_init(s), start \div Page, start, end - start, "rwx")
        ELSE s

(***************************************************************************)
(* elf64.c: the loadable segments of a bootstrap executable.  A segment is *)
(* [va, paddr, memsz, filesz, w], its sizes in cells from the start of its *)
(* first page; paddr 0 says that it must be copied.                        *)
(***************************************************************************)
load_segment(s, g) ==
    LET padded == g.memsz = g.filesz /\ (~g.w \/ g.paddr # 0)
        memsz == IF padded THEN RoundUp(g.memsz, Page) ELSE g.memsz
        filesz == IF padded THEN RoundUp(g.filesz, Page) ELSE g.filesz
        whole == TRUNC(filesz, Page)
        flags == IF g.w THEN "rw" ELSE "rx"
        left == RoundUp(memsz - whole, Page)
        bss(t) == IF left = 0 THEN t
                  ELSE Then(calloc_ram(t, "bss", left, Page), LAMBDA u :
                           elf_map(u, g.va + whole \div Page, u.ret, left, flags))
    IN  IF g.paddr = 0
        THEN Then(calloc_ram(s, "copy", RoundUp(memsz, Page), Page), LAMBDA t :
                 elf_map(t, g.va, t.ret, memsz, flags))
        ELSE Then(elf_map(s, g.va, g.paddr, whole, flags), bss)

(***************************************************************************)
(* The tables translate exactly what was last asked for, page by page.     *)
(***************************************************************************)
Asked(s, va) ==
    LET hits == SelectSeq(s.asked, LAMBDA m : m.va <= va /\ va < m.va + m.n)
    IN  IF hits = << >> THEN [pa |-> NULL, prot |-> "none"]
        ELSE [pa |-> hits[1].pa + (va - hits[1].va) * Page, prot |-> hits[1].prot]
\* the pages through which the tables themselves can be reached
Recursive(va) == va >= UserEnd /\ (L1Idx(va) = L1L1 \/ (L1Idx(va) = L1L2 /\ L2Idx(va) = L2L2))
Translates(s) ==
    s.ttbr1 = NULL \/
    \A va \in 0..2 * UserEnd - 1 :
        Recursive(va) \/
        LET e == elf_vaddr_to_paddr(s, va)
        IN  [pa |-> e.pa, prot |-> e.prot] = Asked(s, va)
=============================================================================
