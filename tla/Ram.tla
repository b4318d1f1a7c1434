--------------------------------- MODULE Ram ---------------------------------
(***************************************************************************)
(* Memory while startup runs (ram.c and the as_*.c files).  Free memory is *)
(* a sorted list of blocks; blocks startup needs only for itself are kept  *)
(* on a list to be avoided; and the address space table (asinfo, a section *)
(* of the system page) tells the kernel what is where, the free memory     *)
(* being entered as "sysram" near the end.                                 *)
(*                                                                         *)
(* Addresses are counted in cells; a page is Page cells.  NULL is          *)
(* NULL_PADDR.  The field taken is the model's: every block handed out for *)
(* good, as [what, lo, hi] with hi the first cell behind it.               *)
(***************************************************************************)
EXTENDS Syspage

CONSTANTS
    Page,          \* cells in a page
    TempCells,     \* TEMP_SYSPAGE_SIZE
    ListCells,     \* MAX_AVOID_LIST_SIZE, MAX_RAM_LIST_SIZE
    Top,           \* the first address the CPU cannot decode
    FourGig,
    CellUnits      \* syspage units in a cell

NULL == -1
TRUNC(a, align) == (a \div align) * align

Cells(lo, hi) == lo .. hi - 1
ListCellsOf(list) == UNION {Cells(list[i].addr, list[i].addr + list[i].size) : i \in DOMAIN list}
AvoidCells(s) == UNION {Cells(s.avoid[i].start, s.avoid[i].end) : i \in DOMAIN s.avoid}

(***************************************************************************)
(* The free list                                                           *)
(***************************************************************************)
\* blocks which touch or overlap their predecessor are merged into it
Coalesced(list) ==
    FoldLeft(LAMBDA done, r :
        IF done = << >> THEN <<r>>
        ELSE LET l == Last(done)
                 e == l.addr + l.size
             IN  IF r.addr > e THEN Append(done, r)
                 ELSE Front(done) \o <<[addr |-> l.addr,
                        size |-> (IF r.addr + r.size > e THEN r.addr + r.size ELSE e) - l.addr]>>,
        << >>, list)

add_mem(list, start, size) ==
    IF size = 0 THEN list
    ELSE Coalesced(SelectSeq(list, LAMBDA r : r.addr <= start)
                   \o <<[addr |-> start, size |-> size]>>
                   \o SelectSeq(list, LAMBDA r : r.addr > start))

\* Faulty variant: a block within the candidate is not seen.
FixSizeEnds(se, as, ae) ==
    IF as > se[1] /\ ae < se[2] THEN se
    ELSE IF se[1] >= ae \/ se[2] <= as THEN se
    ELSE IF se[1] >= as /\ se[2] <= ae THEN <<0, 0>>
    ELSE IF se[1] >= as THEN <<ae, se[2]>> ELSE <<se[1], as>>

\* what is left of <<s, e>> when <<as, ae>> is avoided: the larger piece
fix_size(se, as, ae) ==
    LET s == se[1]
        e == se[2]
    IN  IF s >= ae \/ e <= as THEN se
        ELSE IF s >= as /\ e <= ae THEN <<0, 0>>
        ELSE IF s >= as THEN <<ae, e>>
        ELSE IF e < ae \/ as - s > e - ae THEN <<s, as>>
        ELSE <<ae, e>>

\* the usable part of every free block; <<0, 0>> where there is none
Candidate(s, r) ==
    FoldLeft(LAMBDA se, a : IF se = <<0, 0>> THEN se ELSE fix_size(se, a.start, a.end),
             <<r.addr, r.addr + r.size>>, s.avoid)
Candidates(s) ==
    SelectSeq([i \in DOMAIN s.ram |-> Candidate(s, s.ram[i])], LAMBDA se : se # <<0, 0>>)

\* the first candidate that is large enough once it is aligned
find_ram_in_range(s, from, to, size, align) ==
    LET at(se) == LET a == RoundUp(se[1], align) IN IF a < from THEN from ELSE a
        end(se) == IF se[2] > to THEN to ELSE se[2]
        fits == SelectSeq(Candidates(s), LAMBDA se : at(se) < end(se) /\ size <= end(se) - at(se))
    IN  IF fits = << >> THEN NULL ELSE at(fits[1])

find_ram(s, size, align) == find_ram_in_range(s, 0, Top, size, align)

\* the highest place, in the order of the list; a limit ends the search
find_top_ram_aligned_limit(s, wanted, align, pagesize, limit) ==
    LET size == RoundUp(wanted, pagesize)
        step(c, se) ==
            LET chk == TRUNC(se[2] - size, align)
            IN  IF c.done \/ se[2] - se[1] < size \/ chk < se[1] \/ chk <= c.top THEN c
                ELSE IF chk + size < limit THEN [c EXCEPT !.top = chk]
                ELSE [done |-> TRUE, top |-> IF limit - size < se[1] THEN c.top ELSE limit - size]
        found == FoldLeft(step, [done |-> FALSE, top |-> 0], Candidates(s)).top
    IN  IF limit < wanted \/ found = 0 THEN NULL ELSE found

(***************************************************************************)
(* The address space table                                                 *)
(***************************************************************************)
as_add(s, start, end, name, owner) ==
    Then(grow_syspage_section(add_string(s, name), "asinfo", 1), LAMBDA t :
        [Filled(t, "asinfo", 1)
            EXCEPT !.as = Append(@, [start |-> start, end |-> end, name |-> name, owner |-> owner])])

\* an entry, or one it lies in, has the name; owners come first in the table
Within(as, container) ==
    FoldLeft(LAMBDA set, i :
        IF as[i].name = container \/ as[i].owner \in set THEN set \cup {i} ELSE set,
        {}, [i \in DOMAIN as |-> i])

as_find_containing(as, start, end, container) ==
    SelectSeq([i \in DOMAIN as |-> i],
        LAMBDA i : /\ i \in Within(as, container)
                   /\ \/ start >= as[i].start /\ start <= as[i].end
                      \/ end >= as[i].start /\ end <= as[i].end
                      \/ start <= as[i].start /\ end >= as[i].end)

(***************************************************************************)
(* as_add_containing(): the new range is cut up along the entries that     *)
(* contain it, a later entry taking its piece from the earlier ones.       *)
(***************************************************************************)
Cut(list, piece) ==
    LET hit == SelectSeq([i \in DOMAIN list |-> i],
                   LAMBDA i : list[i].start <= piece.start /\ list[i].end >= piece.start)
    IN  IF hit = << >> THEN Append(list, piece)
        ELSE LET i == hit[1]
                 c == list[i]
                 rest == [c EXCEPT !.start = piece.end + 1]
             IN  SubSeq(list, 1, i - 1)
                 \o (IF c.start = piece.start /\ c.end = piece.end THEN <<piece>>
                     ELSE IF c.start = piece.start THEN <<piece, rest>>
                     ELSE <<[c EXCEPT !.end = piece.start - 1], piece>>
                          \o (IF c.end # piece.end THEN <<rest>> ELSE << >>))
                 \o SubSeq(list, i + 1, Len(list))

Pieces(as, start, end, container) ==
    FoldLeft(LAMBDA list, i :
        Cut(list, [start |-> IF as[i].start > start THEN as[i].start ELSE start,
                   end |-> IF as[i].end < end THEN as[i].end ELSE end,
                   owner |-> i]),
        << >>, as_find_containing(as, start, end, container))

as_add_containing(s, start, end, name, container) ==
    FoldLeft(LAMBDA t, x : IF x.start <= x.end THEN as_add(t, x.start, x.end, name, x.owner) ELSE t,
             s, Pieces(s.as, start, end, container))

(***************************************************************************)
(* avoid_ram() and ws_alloc(): memory for startup itself.  ws_init() puts  *)
(* both lists behind the image, before any memory has been announced.      *)
(***************************************************************************)
avoid_ram(s, start, size) ==
    IF Last(s.avoid).end = start
    THEN [s EXCEPT !.avoid[Len(s.avoid)].end = @ + size]
    ELSE [s EXCEPT !.avoid = Append(@, [start |-> start, end |-> start + size])]

ws_init(s, b) ==
    LET early == b.img + b.ramsize
        lists == [s EXCEPT !.avoid = <<[start |-> early, end |-> early + ListCells]>>]
    IN  avoid_ram([avoid_ram(lists, early + ListCells, ListCells) EXCEPT !.early = early + 2 * ListCells],
                  b.img, b.startup)

ws_alloc(s, size) ==
    LET a == IF s.ram = << >> THEN s.early ELSE find_ram(s, size, 1)
        t == [s EXCEPT !.ret = a, !.early = IF s.ram = << >> THEN @ + size ELSE @]
    IN  IF ~Runs(s) THEN s ELSE IF a = NULL THEN t ELSE avoid_ram(t, a, size)

(***************************************************************************)
(* alloc_ram(): memory taken for good, anywhere (addr = NULL) or at a      *)
(* given place, free or not.  Once the "sysram" entries exist they are cut *)
(* back like the list.                                                     *)
(***************************************************************************)
\* r without [addr, end): the first piece stays in its place, the second is
\* inserted by add_mem()
Without(list, addr, end) ==
    LET overlaps(r) == \/ addr <= r.addr /\ end > r.addr
                       \/ addr >= r.addr /\ addr < r.addr + r.size
        lower(r) == [r EXCEPT !.size = addr - r.addr]
        cut == FoldLeft(LAMBDA l, r :
                   IF ~overlaps(r) THEN Append(l, r)
                   ELSE IF addr > r.addr THEN Append(l, lower(r))
                   ELSE IF end < r.addr + r.size
                        THEN Append(l, [addr |-> end, size |-> r.addr + r.size - end])
                   ELSE l, << >>, list)
        upper == SelectSeq(list, LAMBDA r : overlaps(r) /\ addr > r.addr /\ end < r.addr + r.size)
    IN  FoldLeft(LAMBDA l, r : add_mem(l, end, r.addr + r.size - end), cut, upper)

\* Faulty variant: the upper part of a split entry is forgotten.
CutSysramLower(s, i, addr, last) ==
    LET a == s.as[i]
    IN  IF addr <= a.start THEN [s EXCEPT !.as[i].start = last + 1]
        ELSE [s EXCEPT !.as[i].end = addr - 1]

\* one "sysram" entry gives up [addr, last]
CutSysram(s, i, addr, last) ==
    LET a == s.as[i]
    IN  IF addr <= a.start /\ last >= a.end THEN crash(s, "whole sysram entry")
        ELSE IF addr <= a.start THEN [s EXCEPT !.as[i].start = last + 1]
        ELSE IF last >= a.end THEN [s EXCEPT !.as[i].end = addr - 1]
        ELSE as_add([s EXCEPT !.as[i].end = addr - 1], last + 1, a.end, "sysram", a.owner)

ClipSysram(s, a, size) ==
    IF ~s.sysram THEN s
    ELSE FoldLeft(LAMBDA t, i : Then(t, LAMBDA u : CutSysram(u, i, a, a + size - 1)),
                  s, as_find_containing(s.as, a, a + size - 1, "sysram"))

TakeRam(s, what, a, size) ==
    IF a = NULL THEN [s EXCEPT !.ret = NULL]
    ELSE ClipSysram([s EXCEPT !.ret = a, !.ram = Without(@, a, a + size),
                              !.taken = @ \cup {[what |-> what, lo |-> a, hi |-> a + size]}],
                    a, size)

alloc_ram(s, what, addr, size, align) ==
    Then(s, LAMBDA t : TakeRam(t, what, IF addr = NULL THEN find_ram(t, size, align) ELSE addr, size))

\* alloc_ram() and a memset()
calloc_ram(s, what, size, align) == alloc_ram(s, what, NULL, size, align)

(***************************************************************************)
(* add_ram(): memory is announced; the image in it is not free, and the    *)
(* first block with room receives the system page under construction.      *)
(***************************************************************************)
TempSyspageAt(s, a) ==
    IF a = NULL THEN s
    ELSE reloc_syspage_memory(avoid_ram([s EXCEPT !.temp = a], a, TempCells),
                              a * CellUnits, TempCells * CellUnits)
TempSyspage(s) ==
    IF ~Runs(s) \/ s.temp # NULL THEN s ELSE TempSyspageAt(s, find_ram(s, TempCells, Page))

add_ram(s, b, start, size) ==
    Then(as_add_containing(
             IF s.as # << >> THEN s
             ELSE as_add(as_add(s, 0, Top - 1, "memory", 0), 0, FourGig - 1, "below4G", 1),
             start, start + size - 1, "ram", "memory"),
         LAMBDA t : TempSyspage(alloc_ram([t EXCEPT !.ram = add_mem(@, start, size)],
                                          "image", b.img + b.startup, b.ramsize - b.startup, 1)))

add_sysram(s) ==
    [FoldLeft(LAMBDA t, r : as_add_containing(t, r.addr, r.addr + r.size - 1, "sysram", "ram"),
              s, s.ram) EXCEPT !.sysram = TRUE]

reserve_ram(s, size, align, name, low) ==
    LET al == IF align = 0 THEN Page ELSE align
        a == IF low THEN find_ram(s, size, al) ELSE find_top_ram_aligned_limit(s, size, al, Page, Top)
    IN  IF ~Runs(s) \/ size = 0 THEN s
        ELSE IF a = NULL THEN crash(s, "no memory to reserve")
        ELSE as_add_containing(alloc_ram(s, "reserved", a, size, al), a, a + size - 1, name, "ram")
=============================================================================
