-------------------------------- MODULE Gpio --------------------------------
(***************************************************************************)
(* The GPIO pins (bcm2711_init_board.c, support/bcm2711/gpio/gpio.c).      *)
(* Several pins share a function register, and several a pull register:    *)
(* startup sets the pins of a table, one after the other, and the utility  *)
(* changes pins by reading a register and writing it back.  The registers  *)
(* that set and clear an output's level change only the pins they name.    *)
(*                                                                         *)
(* gp is the hardware, f a command of the utility: its pins, and the       *)
(* function, level and pull asked for, or UNSET.                           *)
(***************************************************************************)
EXTENDS Integers, Sequences, SequencesExt, FiniteSetsExt

CONSTANTS
    GPIO_MAX,    \* the last pin
    PerFsel,     \* pins of a function register
    PerPull,     \* pins of a pull register
    PinTable     \* rpi_board_config: for every module of the board its pins

UNSET == -1
FUNC_IP == 0
FUNC_OP == 1
GpioPins == 0..GPIO_MAX

\* no pin is in the table twice, unless the rows are the same
TableRows == UNION {ToSet(PinTable[m]) : m \in DOMAIN PinTable}
ASSUME PinsAssumption ==
    /\ GPIO_MAX \in Nat /\ PerFsel \in Nat \ {0} /\ PerPull \in Nat \ {0}
    /\ PinTable \in Seq(Seq([pin : GpioPins, fsel : 0..7, pull : 0..2, lvl : 0..1]))
    /\ \A x, y \in TableRows : x.pin = y.pin => x = y

\* what the firmware leaves: inputs, pulled in some way
FirmwarePins ==
    [fsel |-> [p \in GpioPins |-> FUNC_IP], pull |-> [p \in GpioPins |-> 2], out |-> [p \in GpioPins |-> 0]]

\* the pins of a register, and its value
FselReg(p) == {q \in GpioPins : q \div PerFsel = p \div PerFsel}
PullReg(p) == {q \in GpioPins : q \div PerPull = p \div PerPull}
Fields(x, reg) == [q \in reg |-> x[q]]

\* a register written with val, the field of pin p replaced
Put(x, reg, val, p, v) == [q \in DOMAIN x |-> IF q = p THEN v ELSE IF q \in reg THEN val[q] ELSE x[q]]

\* Faulty variant: the other fields of the register are not kept.
PutAlone(gp, p, v) == [gp EXCEPT !.fsel = Put(@, FselReg(p), [q \in FselReg(p) |-> 0], p, v)]

\* bcm2711_set_gpio_fsel(), bcm2711_gpio_set_pull(), bcm2711_set_gpio_level():
\* in startup nothing comes between the read and the write
bcm2711_set_gpio_fsel(gp, p, v) == [gp EXCEPT !.fsel = Put(@, FselReg(p), Fields(@, FselReg(p)), p, v)]
bcm2711_gpio_set_pull(gp, p, v) ==
    IF v > 2 THEN gp ELSE [gp EXCEPT !.pull = Put(@, PullReg(p), Fields(@, PullReg(p)), p, v)]
bcm2711_set_gpio_level(gp, p, v) == [gp EXCEPT !.out[p] = v]

\* one row of the table
SetPin(g, x) ==
    LET set == bcm2711_gpio_set_pull(bcm2711_set_gpio_fsel(g, x.pin, x.fsel), x.pin, x.pull)
    IN  IF x.fsel = FUNC_OP THEN bcm2711_set_gpio_level(set, x.pin, x.lvl) ELSE set
module_pinmux(gp, pinmux) == FoldLeft(SetPin, gp, pinmux)
init_board(gp) == FoldLeft(module_pinmux, gp, PinTable)

\* what the table says of each of its pins
AsTable(gp) ==
    LET row(p) == CHOOSE x \in TableRows : x.pin = p
        named == {x.pin : x \in TableRows}
    IN  [fsel |-> [p \in GpioPins |-> IF p \in named THEN row(p).fsel ELSE gp.fsel[p]],
         pull |-> [p \in GpioPins |-> IF p \in named THEN row(p).pull ELSE gp.pull[p]],
         out |-> [p \in GpioPins |-> IF p \in named /\ row(p).fsel = FUNC_OP THEN row(p).lvl ELSE gp.out[p]]]

(***************************************************************************)
(* gpio set.  A command goes through its pins in ascending order, and for  *)
(* each through the steps below; val is the register value it has read.    *)
(***************************************************************************)
Commands ==
    [pins : (SUBSET GpioPins) \ {{}}, fsel : {UNSET} \cup 0..7, drive : {UNSET, 0, 1}, pull : {UNSET} \cup 0..2]

\* the arguments: pin 53 is refused, although it exists
gpio_main(f) ==
    IF \E p \in f.pins : p >= GPIO_MAX THEN [at |-> "refused", f |-> f, pin |-> 0, val |-> << >>]
    ELSE [at |-> "fsel", f |-> f, pin |-> Min(f.pins), val |-> << >>]

NextPin(u) ==
    LET more == {p \in u.f.pins : p > u.pin}
    IN  IF more = {} THEN [u EXCEPT !.at = "done"] ELSE [u EXCEPT !.at = "fsel", !.pin = Min(more)]

\* set_gpio_fsel(): the read, then the write
ReadFsel(gp, u) ==
    IF u.f.fsel = UNSET THEN [u EXCEPT !.at = "drive"]
    ELSE [u EXCEPT !.at = "wfsel", !.val = Fields(gp.fsel, FselReg(u.pin))]
set_gpio_fsel(gp, u) == [gp EXCEPT !.fsel = Put(@, FselReg(u.pin), u.val, u.pin, u.f.fsel)]

\* "Can't set pin value, not an output": the command ends here
Drives(gp, u) == u.f.drive = UNSET \/ gp.fsel[u.pin] = FUNC_OP
set_gpio_value(gp, u) == IF u.f.drive = UNSET THEN gp ELSE [gp EXCEPT !.out[u.pin] = u.f.drive]

\* gpio_set_pull(): the names of the command line are not the register's values
PullBits(type) == CASE type = 0 -> 0 [] type = 2 -> 1 [] type = 1 -> 2
ReadPull(gp, u) ==
    IF u.f.pull = UNSET THEN NextPin(u)
    ELSE [u EXCEPT !.at = "wpull", !.val = Fields(gp.pull, PullReg(u.pin))]
gpio_set_pull(gp, u) == [gp EXCEPT !.pull = Put(@, PullReg(u.pin), u.val, u.pin, PullBits(u.f.pull))]

\* gpio_set() and the loop of main(): one step of a command
gpio_set(gp, u) ==
    CASE u.at = "fsel" -> [gp |-> gp, u |-> ReadFsel(gp, u)]
      [] u.at = "wfsel" -> [gp |-> set_gpio_fsel(gp, u), u |-> [u EXCEPT !.at = "drive"]]
      [] u.at = "drive" ->
           IF Drives(gp, u) THEN [gp |-> set_gpio_value(gp, u), u |-> [u EXCEPT !.at = "pull"]]
           ELSE [gp |-> gp, u |-> [u EXCEPT !.at = "failed"]]
      [] u.at = "pull" -> [gp |-> gp, u |-> ReadPull(gp, u)]
      [] u.at = "wpull" -> [gp |-> gpio_set_pull(gp, u), u |-> NextPin(u)]

(***************************************************************************)
(* What a command is to do: up to the first pin that cannot be driven, of  *)
(* which only the function is set.                                         *)
(***************************************************************************)
AsAsked(gp, f) ==
    LET func(p) == IF f.fsel = UNSET THEN gp.fsel[p] ELSE f.fsel
        bad == {p \in f.pins : f.drive # UNSET /\ func(p) # FUNC_OP}
        stop == IF bad = {} THEN GPIO_MAX + 1 ELSE Min(bad)
        all(p) == p \in f.pins /\ p < stop
    IN  IF GPIO_MAX \in f.pins THEN gp
        ELSE [fsel |-> [p \in GpioPins |-> IF all(p) \/ p \in f.pins \cap {stop} THEN func(p) ELSE gp.fsel[p]],
              pull |-> [p \in GpioPins |-> IF all(p) /\ f.pull # UNSET THEN PullBits(f.pull) ELSE gp.pull[p]],
              out |-> [p \in GpioPins |-> IF all(p) /\ f.drive # UNSET THEN f.drive ELSE gp.out[p]]]

\* the registers two commands both write back
Regs(f) ==
    (IF f.fsel = UNSET THEN {} ELSE {<<"fsel", FselReg(p)>> : p \in f.pins})
    \cup (IF f.pull = UNSET THEN {} ELSE {<<"pull", PullReg(p)>> : p \in f.pins})
Conflict(f, g) == Regs(f) \cap Regs(g) # {} \/ f.pins \cap g.pins # {}
=============================================================================
