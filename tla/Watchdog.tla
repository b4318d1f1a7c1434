------------------------------ MODULE Watchdog ------------------------------
(***************************************************************************)
(* The watchdog timer (init_wdt.c, support/wdtkick/main.c).  startup sets  *)
(* it going, wdtkick keeps it from running out: it learns from the hwinfo  *)
(* section and from its command line which registers to write, and writes  *)
(* them again and again.                                                   *)
(*                                                                         *)
(* A 32-bit value is a pair of halves <<high, low>>.  wd.cfg is the reset  *)
(* configuration of RSTC, wd.left the ticks until the timer has run out.   *)
(***************************************************************************)
EXTENDS Integers, Sequences, SequencesExt, FiniteSetsExt

CONSTANTS
    NoValue,      \* what has not been set
    MAX_NUM_REG,  \* entries of write_reg
    Slice         \* the ticks time goes on by

PM_RSTC == 28
PM_WDOG == 36
FullReset == 2
MsToTicks == 67
MaxTicks == 1048575
DefaultTicks == 65536
Ones == <<65535, 65535>>

Half(n) == n % 65536
Word(n) == <<n \div 65536, Half(n)>>

\* the bits of a half, and the operators of C on them
Bits(n) == {k \in 0..15 : (n \div 2^k) % 2 = 1}
FromBits(B) == SumSet({2^k : k \in B})
Or(x, y) == FromBits(Bits(x) \cup Bits(y))
Xor(x, y) == FromBits((Bits(x) \ Bits(y)) \cup (Bits(y) \ Bits(x)))

\* the top byte of what is written to a register must be the password
Passed(v) == v[1] \div 256 = 90
WithPassword(n) == <<90 * 256 + n \div 65536, Half(n)>>

\* the power management block (external)
PmWrite(wd, reg, v) ==
    CASE ~Passed(v) -> wd
      [] Passed(v) /\ reg = PM_RSTC -> [wd EXCEPT !.cfg = (v[2] \div 16) % 4]
      [] Passed(v) /\ reg = PM_WDOG -> [wd EXCEPT !.left = (v[1] % 16) * 65536 + v[2]]
      [] OTHER -> wd
PmRead(wd, reg) ==
    CASE reg = PM_RSTC -> <<0, wd.cfg * 16>> [] reg = PM_WDOG -> Word(wd.left) [] OTHER -> <<0, 0>>

\* bcm2711_wdt_enable(): stopped, loaded, started
bcm2711_wdt_enable(wd, timeout) ==
    LET ticks == IF timeout <= 1000 THEN DefaultTicks
                 ELSE IF timeout * MsToTicks > MaxTicks THEN MaxTicks ELSE timeout * MsToTicks
        stopped == PmWrite(wd, PM_RSTC, WithPassword(258))
        loaded == PmWrite(stopped, PM_WDOG, WithPassword(ticks))
    IN  PmWrite(loaded, PM_RSTC, WithPassword(FullReset * 16))

(***************************************************************************)
(* wdtkick's parameters.  wdi.mode is what the next tag is to be: anything *)
(* ("any"), the value of an offset, or the offset of a value.              *)
(***************************************************************************)
\* write_reg is on the stack and not set to anything: stack is what is there
WdtInit(stack) ==
    [kick_time |-> -1, base |-> 0, op |-> "none", width |-> 32, n |-> 0, incr |-> TRUE,
     reg |-> [i \in 1..MAX_NUM_REG |-> [off |-> 0, val |-> stack]], mode |-> "any", status |-> "ok"]
Fail(w) == [w EXCEPT !.status = "failure"]

\* parse_hwinfo_init(), parse_hwinfo_opt(), parse_hwinfo_bitswap()
parse_hwinfo(h) ==
    LET w == WdtInit(h.stack)
        timer == IF h.wdog THEN [w EXCEPT !.base = h.base, !.kick_time = h.kick] ELSE w
    IN  [timer EXCEPT !.width = h.width, !.op = h.device]

\* a half of a value is added to what is there
OrHigh(v, t) == <<Or(v[1], t[2]), v[2]>>
SetValue(w, t) ==
    CASE t.name = "value" -> [w EXCEPT !.reg[w.n + 1].val = t.v]
      [] t.name = "value32_lo" -> [w EXCEPT !.reg[w.n + 1].val = t.v, !.incr = FALSE]
      [] t.name = "value32_hi" -> [w EXCEPT !.reg[w.n + 1].val = OrHigh(@, t.v)]
IsValue(t) == t.name \in {"value", "value32_lo", "value32_hi"}

\* Faulty variant: the entry is not finished.
EntryDoneNever(w) == [w EXCEPT !.mode = "any"]

\* the end of the loop's body
EntryDone(w) == [w EXCEPT !.mode = "any", !.n = @ + (IF w.incr THEN 1 ELSE 0), !.incr = TRUE]

\* the value comes first: it is set once more, as it is
parse_hwinfo_value(w, t) == [SetValue(w, t) EXCEPT !.reg[w.n + 1].val = t.v, !.mode = "offset"]

SetOffset(w, t, mode) == [w EXCEPT !.reg[w.n + 1].off = t.v[2], !.mode = mode]
\* bitswapping defaults to all ones
Swapped(w) == [w EXCEPT !.reg[w.n + 1].val = Ones, !.n = @ + 1]

parse_tag(w, t) ==
    IF w.status # "ok" THEN w
    ELSE CASE w.mode = "any" /\ w.n >= MAX_NUM_REG -> Fail(w)
           [] w.mode = "any" /\ w.n < MAX_NUM_REG /\ t.name = "offset" -> SetOffset(w, t, "value")
           [] w.mode = "any" /\ w.n < MAX_NUM_REG /\ IsValue(t) -> parse_hwinfo_value(w, t)
           [] w.mode = "value" /\ IsValue(t) -> EntryDone(SetValue(w, t))
           [] w.mode = "value" /\ t.name = "offset" /\ w.op = "bitswap" ->
                IF w.n + 1 >= MAX_NUM_REG THEN Fail(w) ELSE SetOffset(Swapped(w), t, "value")
           [] w.mode = "offset" /\ t.name = "offset" -> EntryDone(SetOffset(w, t, "any"))
           [] OTHER -> Fail(w)

\* the tags have been read
LastTag(w) ==
    CASE w.status # "ok" \/ w.mode = "any" -> w
      [] w.mode = "value" /\ w.op = "bitswap" -> [Swapped(w) EXCEPT !.mode = "any"]
      [] OTHER -> Fail(w)
wd_parse_hwinfo(h) == LastTag(FoldLeft(parse_tag, parse_hwinfo(h), h.tags))

\* -W and -B, -t, -a and -w
AddReg(w, op, o) ==
    IF w.n >= MAX_NUM_REG THEN Fail(w)
    ELSE [w EXCEPT !.reg[w.n + 1] = [off |-> o.off, val |-> o.val], !.n = @ + 1, !.op = op]
wd_parse_options_write(w, o) == IF o.val = NoValue THEN Fail(w) ELSE AddReg(w, "write", o)
wd_parse_options_bitswap(w, o) ==
    AddReg(w, "bitswap", IF o.val \in {NoValue, <<0, 0>>} THEN [o EXCEPT !.val = Ones] ELSE o)
wd_parse_options(w, opts) ==
    FoldLeft(LAMBDA u, o :
                CASE u.status # "ok" -> u
                  [] u.status = "ok" /\ o.opt = "W" -> wd_parse_options_write(u, o)
                  [] u.status = "ok" /\ o.opt = "B" -> wd_parse_options_bitswap(u, o)
                  [] u.status = "ok" /\ o.opt = "t" -> [u EXCEPT !.kick_time = o.val]
                  [] u.status = "ok" /\ o.opt = "w" -> [u EXCEPT !.width = o.val]
                  [] OTHER -> [u EXCEPT !.base = o.val],
             w, opts)

wd_evaluate_params(w) ==
    IF w.base = 0 \/ w.kick_time = -1 \/ w.op = "none" \/ w.n = 0 THEN Fail(w) ELSE w
wd_setup_write_width(w) == IF w.width \in {8, 16, 32} THEN w ELSE Fail(w)

wdtkick(a) ==
    LET told == wd_parse_hwinfo(a)
        opts == IF told.status = "ok" THEN wd_parse_options(told, a.opts) ELSE told
        good == IF opts.status = "ok" THEN wd_evaluate_params(opts) ELSE opts
    IN  IF good.status = "ok" THEN wd_setup_write_width(good) ELSE good

\* write_wdt_8(), write_wdt_16(), write_wdt_32()
write_wdt(width, v) ==
    CASE width = 32 -> v [] width = 16 -> <<0, v[2]>> [] OTHER -> <<0, v[2] % 256>>
BitSwap(v, x) == <<Xor(v[1], x[1]), Xor(v[2], x[2])>>

\* the loop of wdtkick's main(): every register once
kick(wd, w) ==
    FoldLeft(LAMBDA t, i :
                LET v == IF w.op = "bitswap" THEN BitSwap(PmRead(t, w.reg[i].off), w.reg[i].val) ELSE w.reg[i].val
                IN  PmWrite(t, w.reg[i].off, write_wdt(w.width, v)),
             wd, [i \in 1..w.n |-> i])

(***************************************************************************)
(* What wdtkick has been told: the pairs of the hwinfo section, in either  *)
(* order, and then those of the command line, each with one value; a value *)
(* may come in two halves, each behind the offset.                         *)
(***************************************************************************)
PairAt(tags, i) == {tags[i].name, tags[i + 1].name} = {"offset", "value"}
HalvesAt(tags, i) ==
    /\ i + 3 <= Len(tags) /\ tags[i].name = "offset" /\ tags[i + 1].name = "value32_lo"
    /\ tags[i + 2] = tags[i] /\ tags[i + 3].name = "value32_hi"
Plain2(tags) == Len(tags) % 2 = 0 /\ \A i \in 1..Len(tags) : i % 2 = 1 => PairAt(tags, i)
ToldTags(tags) ==
    IF Len(tags) = 4 /\ HalvesAt(tags, 1)
    THEN <<[off |-> tags[1].v[2], val |-> <<tags[4].v[2], tags[2].v[2]>>]>>
    ELSE [k \in 1..Len(tags) \div 2 |->
            LET a == tags[2 * k - 1]
                z == tags[2 * k]
            IN  IF a.name = "offset" THEN [off |-> a.v[2], val |-> z.v] ELSE [off |-> z.v[2], val |-> a.v]]
Clear(a) == (Plain2(a.tags) \/ (Len(a.tags) = 4 /\ HalvesAt(a.tags, 1))) /\ \A i \in DOMAIN a.opts : a.opts[i].opt # "B"
Told(a) ==
    LET w == SelectSeq(a.opts, LAMBDA o : o.opt = "W")
    IN  ToldTags(a.tags) \o [i \in DOMAIN w |-> [off |-> w[i].off, val |-> w[i].val]]
\* the last value told for a register
LastTold(a, reg) ==
    LET at == {i \in DOMAIN Told(a) : Told(a)[i].off = reg}
    IN  IF at = {} THEN <<0, 0>> ELSE Told(a)[CHOOSE i \in at : \A j \in at : j <= i].val
\* it is told to load the timer with more than its period, in writes of 32 bits
TellsToFeed(a, period) ==
    /\ Clear(a) /\ a.device # "bitswap"
    /\ \A i \in DOMAIN a.opts : a.opts[i].opt = "w" => a.opts[i].val = 32
    /\ \A i \in DOMAIN Told(a) : Told(a)[i].val # NoValue /\ Passed(Told(a)[i].val)
    /\ (LastTold(a, PM_WDOG)[1] % 16) * 65536 + LastTold(a, PM_WDOG)[2] > period
=============================================================================
