------------------------------- MODULE Syspage -------------------------------
(***************************************************************************)
(* The system page while startup builds it (syspage_memory.c, callouts.c,  *)
(* add_interrupt.c, strings.c, hwi_alloc.c): a block of memory divided     *)
(* into sections which grow one at a time, so that the sections behind     *)
(* have to be moved, and the callout routines which are copied behind it   *)
(* when its size is known.                                                 *)
(*                                                                         *)
(* The startup program is sequential: an operation takes the state of the  *)
(* program, a record s, to its next state.  s.crash is "no" until crash()  *)
(* is called; nothing happens after that.  Addresses and sizes are counted *)
(* in 8-byte units.  A unit of memory holds the pair <<section, number>>   *)
(* of what its owner wrote there, or Zero.                                 *)
(***************************************************************************)
EXTENDS Integers, Sequences, SequencesExt, FiniteSets

CONSTANTS
    InitSize,    \* INIT_SYSPAGE_SIZE: the room for the first system page
    Chunk,       \* the strings and hwinfo sections grow in chunks
    UnitNames,   \* names that fit a unit of the strings section
    PageUnits,   \* units in a page
    Routines     \* the callout routines: name -> [len, rw, rwlen, patched]

\* the sections whose size is known when they are set up, and the others
FixedSections == {"callout", "gic_map", "smp", "cpuinfo", "qtime", "private", "hypinfo"}
GrowingSections == {"typed", "strings", "hwinfo", "asinfo", "intrinfo"}
Sections == FixedSections \cup GrowingSections \cup {"syspage"}

Zero == <<"zero", 0>>
RoundUp(n, unit) == ((n + unit - 1) \div unit) * unit

crash(s, why) == IF s.crash = "no" THEN [s EXCEPT !.crash = why] ELSE s
Runs(s) == s.crash = "no"

\* the program goes on with F, unless it has crashed
Then(s, F(_)) == IF Runs(s) THEN F(s) ELSE s

Base(s) == s.p["syspage"]
\* what lies at an address of the system page under construction
At(s, a) == s.mem[a - Base(s) + 1]

(***************************************************************************)
(* callouts.c: what a callout's patcher is to be given is registered under *)
(* the address of the slot; slots move with their section.  The field slot *)
(* is the model's: what the registering code meant.                        *)
(***************************************************************************)
\* Faulty variant: only the slots of the first moved section follow it.
RelocShort(patch, bottom, len, diff) ==
    [i \in DOMAIN patch |->
        IF bottom <= patch[i].owner /\ patch[i].owner < bottom + diff
        THEN [patch[i] EXCEPT !.owner = @ + diff] ELSE patch[i]]

callout_reloc_data(patch, bottom, len, diff) ==
    [i \in DOMAIN patch |->
        IF bottom <= patch[i].owner /\ patch[i].owner < bottom + len
        THEN [patch[i] EXCEPT !.owner = @ + diff] ELSE patch[i]]

callout_register_data(s, a, data) ==
    IF /\ data # "none"
       /\ s.rtn[At(s, a)] # "none" /\ Routines[s.rtn[At(s, a)]].patched
       /\ \A i \in DOMAIN s.patch : s.patch[i].owner # a
    THEN [s EXCEPT !.patch = <<[owner |-> a, slot |-> At(s, a), data |-> data]>> \o @]
    ELSE s

(***************************************************************************)
(* syspage_memory.c                                                        *)
(***************************************************************************)
grow_syspage_section(s, sect, n) ==
    LET bottom == s.p[sect] + s.size[sect]
        at == bottom - Base(s)
    IN  IF ~Runs(s) \/ n = 0 THEN s
        ELSE IF s.total + n > s.max THEN crash(s, "syspage full")
        ELSE [s EXCEPT
                !.p = [x \in Sections |->
                          IF x # sect /\ s.p[x] >= bottom THEN s.p[x] + n ELSE s.p[x]],
                !.mem = SubSeq(s.mem, 1, at) \o [i \in 1..n |-> Zero]
                            \o SubSeq(s.mem, at + 1, s.total),
                !.patch = callout_reloc_data(@, bottom, s.total - at, n),
                !.size[sect] = @ + n,
                !.total = @ + n]

\* the owner of a section writes the last n units of it
Filled(s, sect, n) ==
    IF ~Runs(s) THEN s
    ELSE [s EXCEPT !.mem = [i \in DOMAIN @ |->
             LET k == i - 1 - (s.p[sect] - Base(s))
             IN  IF k \in s.size[sect] - n .. s.size[sect] - 1 THEN <<sect, k>> ELSE @[i]]]

set_syspage_section(s, sect, n) ==
    LET placed == [s EXCEPT !.p[sect] = Base(s) + s.fixed, !.fixed = @ + n]
    IN  IF Runs(s) THEN Filled(grow_syspage_section(placed, sect, n), sect, n) ELSE s

\* everything moves to a larger place
reloc_syspage_memory(s, base, room) ==
    LET diff == base - Base(s)
    IN  [s EXCEPT !.patch = callout_reloc_data(@, Base(s), s.total, diff),
                  !.p = [x \in Sections |-> s.p[x] + diff],
                  !.max = room]

(***************************************************************************)
(* strings.c: a name is stored once; a full section grows by a chunk.      *)
(***************************************************************************)
add_string(s, name) ==
    LET used == Cardinality(s.names)
        full == used >= UnitNames * s.size["strings"]
        room == IF full THEN grow_syspage_section(s, "strings", Chunk) ELSE s
    IN  IF ~Runs(s) \/ name \in s.names THEN s
        ELSE [(IF full THEN Filled(room, "strings", Chunk) ELSE room) EXCEPT !.names = @ \cup {name}]

\* a typed string replaces the one of its type; the strings behind close up
add_typed_string(s, type) ==
    IF ~Runs(s) \/ type \in s.typed THEN s
    ELSE LET need == Cardinality(s.typed) + 2
             more == IF need > s.size["typed"] THEN need - s.size["typed"] ELSE 0
         IN  [Filled(grow_syspage_section(s, "typed", more), "typed", more)
                 EXCEPT !.typed = @ \cup {type}]

(***************************************************************************)
(* hwi_alloc.c: a tag of n units, with room for the terminating prefix.    *)
(***************************************************************************)
hwi_alloc_tag(s, name, n) ==
    LET t == add_string(s, name)
        spare == t.size["hwinfo"] - t.hwi
        more == IF n + 1 > spare THEN RoundUp(n + 1 - spare, Chunk) ELSE 0
    IN  [Filled(grow_syspage_section(t, "hwinfo", more), "hwinfo", more)
            EXCEPT !.hwi = IF Runs(s) THEN @ + n ELSE @]

\* the string first, so that the tag does not move once it is returned
hwi_alloc_item(s, name, item, n) == hwi_alloc_tag(add_string(s, item), name, n)

hwi_default(s) ==
    hwi_alloc_item(hwi_alloc_item(s, "Group", "hw", 1), "Bus", "unknown", 1)

init_syspage_memory(s, base) ==
    LET empty == [s EXCEPT !.p = [x \in Sections |-> base + 1],
                           !.size = [x \in Sections |-> 0]]
        head == [empty EXCEPT !.p["syspage"] = base, !.size["syspage"] = 1,
                              !.mem = <<<<"syspage", 0>>>>, !.total = 1, !.fixed = 1,
                              !.max = InitSize]
        sections == <<"typed", "strings", "hwinfo">>
        grown == FoldLeft(LAMBDA t, x : Filled(grow_syspage_section(t, x, 1), x, 1),
                          set_syspage_section(head, "callout", 2), sections)
    IN  hwi_default(set_syspage_section(grown, "gic_map", 1))

(***************************************************************************)
(* Callout slots: the callout section has one for the reboot routine and   *)
(* one for the debug device; an interrupt entry has two of its own.        *)
(***************************************************************************)
add_callout(s, slot, routine, data) ==
    IF ~Runs(s) THEN s
    ELSE LET a == s.p["callout"] + slot
         IN  callout_register_data([s EXCEPT !.rtn[At(s, a)] = routine], a, data)

add_interrupt(s, routines, data) ==
    LET n == Len(routines)
        t == Filled(grow_syspage_section(s, "intrinfo", n), "intrinfo", n)
        first == t.p["intrinfo"] + t.size["intrinfo"] - n
        stored == [t EXCEPT !.rtn = [x \in DOMAIN @ |->
                      IF \E i \in 1..n : x = At(t, first + i - 1)
                      THEN routines[CHOOSE i \in 1..n : x = At(t, first + i - 1)] ELSE @[x]]]
    IN  IF Runs(t)
        THEN FoldLeft(LAMBDA u, i : callout_register_data(u, first + i - 1, data),
                      [stored EXCEPT !.hooked = TRUE], [i \in 1..n |-> i])
        ELSE t

\* the slots in the order in which the hooked routines output them
Slots(s) ==
    LET of(sect, n) == [i \in 1..n |-> s.p[sect] + i - 1]
    IN  (IF s.size["smp"] > 0 THEN of("smp", 1) ELSE << >>)
        \o (IF s.hooked THEN of("intrinfo", s.size["intrinfo"]) ELSE << >>)
        \o of("callout", s.size["callout"])

Used(s) == SelectSeq(Slots(s), LAMBDA a : s.rtn[At(s, a)] # "none")

(***************************************************************************)
(* callout_output_one(sizing): the code of all routines, and the data of   *)
(* each rw area once.                                                      *)
(***************************************************************************)
SizedOne(c, r) ==
    LET known == Routines[r].rw = "none" \/ Routines[r].rw \in DOMAIN c.rw
    IN  [code |-> c.code + Routines[r].len,
         rwsize |-> IF known THEN c.rwsize ELSE c.rwsize + Routines[r].rwlen,
         rw |-> IF known THEN c.rw
                ELSE [x \in DOMAIN c.rw \cup {Routines[r].rw} |->
                         IF x \in DOMAIN c.rw THEN c.rw[x] ELSE c.rwsize]]

Sized(s) ==
    FoldLeft(LAMBDA c, a : SizedOne(c, s.rtn[At(s, a)]),
             [code |-> 0, rwsize |-> 0, rw |-> [x \in {} |-> 0]], Used(s))

\* output_callouts(NULL): where each routine and its data finally go
WrittenOne(s, c, a) ==
    LET r == s.rtn[At(s, a)]
        given == SelectSeq(s.patch, LAMBDA pd : pd.owner = a)
    IN  [next |-> c.next + Routines[r].len,
         list |-> Append(c.list,
             [routine |-> r, tag |-> At(s, a), code |-> c.next,
              rwat |-> IF Routines[r].rw = "none" THEN s.total
                       ELSE s.total + s.sized.rw[Routines[r].rw],
              data |-> IF given = << >> THEN "none" ELSE given[1].data])]

output_callouts(s) ==
    FoldLeft(LAMBDA c, a : WrittenOne(s, c, a),
             [next |-> RoundUp(s.total + s.sized.rwsize, PageUnits), list |-> << >>],
             Used(s)).list

(***************************************************************************)
(* The sections keep what was written into them and do not overlap, and    *)
(* what was registered for a slot is still registered for that slot,       *)
(* wherever it has been moved.                                             *)
(***************************************************************************)
SectionsIntact(s) ==
    /\ Len(s.mem) = s.total
    /\ \A x \in Sections, k \in 0..40 : k < s.size[x] => At(s, s.p[x] + k) = <<x, k>>
PatchesFollow(s) ==
    \A i \in DOMAIN s.patch :
        /\ s.patch[i].owner - Base(s) \in 0..s.total - 1
        /\ At(s, s.patch[i].owner) = s.patch[i].slot
=============================================================================
