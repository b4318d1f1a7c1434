------------------------------ MODULE SdhciHost ------------------------------
(***************************************************************************)
(* The host controller and the card on its bus while a card is being set   *)
(* up: hc/sdhci.c, the board's additions in aarch64/bcm2711.le/bs.c, and   *)
(* the settings of sdiodi/base.c.                                          *)
(*                                                                         *)
(* Every operator takes the record s and gives a state, or the set of its  *)
(* outcomes when it can fail.  The fields:                                 *)
(*   hc             what does not change: [ver, clkMax, clkMin, clkMul,    *)
(*                  tune50, ocr]; clocks are in units of 100 kHz           *)
(*   hcaps          hc->caps, a set of names                               *)
(*   hclk, clkInit  hc->clk, hc->clk_init                                  *)
(*   freq           the clock the divider really gives                     *)
(*   timing, mode   hc->timing, and the mode in HCTL and HCTL2             *)
(*   width, vdd     hc->bus_width, hc->vdd                                 *)
(*   push           hc->bus_mode is BUS_MODE_PUSH_PULL                     *)
(*   sv, sig18      hc->signal_voltage, and SIG_1_8V of HCTL2              *)
(*   rail           the voltage the firmware's GPIO selects for the lines  *)
(*   preset, tuned  PRESET_VAL and TUNED_CLK of HCTL2                      *)
(*   info, c        the card: what it is, and the state it is in           *)
(*   ev             history since the card was powered: "fault" (a command *)
(*                  or a setting failed), "more" (a second one), "ghost"   *)
(*                  (it took effect all the same), "power" (a failed       *)
(*                  voltage switch has cut the power),                     *)
(*                  "mbox" (the firmware did not answer)                   *)
(*   faults         bound: failures still to come                          *)
(***************************************************************************)
EXTENDS Outcome, Integers, FiniteSets, FiniteSetsExt

Least(a, b) == IF a < b THEN a ELSE b

Spend(s, tags) ==
  [s EXCEPT !.faults = @ - 1, !.ev = @ \cup tags \cup (IF "fault" \in @ THEN {"more"} ELSE {})]

\* A setting or a command that works, or fails once in a while.
Either(ok, s, bad, rc) == Ret(ok, "EOK") \cup (IF s.faults = 0 THEN {} ELSE Ret(bad, rc))

----------------------------------------------------------------------------
\* The card (external): what a power-up and CMD0 leave of it.

Off == [st |-> "off", timing |-> "LS", width |-> 1, ddr |-> FALSE, es |-> FALSE,
        sv |-> 33, blk |-> 0, locked |-> FALSE]

Idle(info, sv) == IF info.type = "none" THEN Off ELSE
                  [Off EXCEPT !.st = "idle", !.sv = sv, !.blk = info.bl, !.locked = info.pwd]

\* A command: the card answers in the states of where only; done is
\* what it does to the card.  The last failure reaches the card, its answer is lost.
Cmd(s, where, done) ==
  IF s.c.st \notin where THEN Ret(s, "ETIMEDOUT")
  ELSE Either(done, s, Spend(s, {"fault"}), "ETIMEDOUT")
         \cup (IF s.faults = 0 \/ done = s THEN {}
               ELSE Ret(Spend(done, {"fault", "ghost"}), "ETIMEDOUT"))

\* A command with data: the lines must be used alike on both sides.
DataCmd(s, where, done) == IF s.c.width # s.width THEN Ret(s, "EIO") ELSE Cmd(s, where, done)

----------------------------------------------------------------------------
\* hc/sdhci.c

\* sdhci_init(): what the capability registers r, the host specific options
\* and the command line (~caps) leave of the features.
sdhci_init(r, options, off) ==
  LET v3 == r.ver >= 3
      mul == IF v3 THEN r.clkMul ELSE 0
      max == IF mul = 0 THEN r.clk ELSE r.clk * mul
      all == {"BW4", "HS", "ACMD12", "SV_3_3V"} \cup (IF v3 THEN {"BW8", "SV_1_8V"} ELSE {})
               \cup (r.cap \cap {"SDR104", "DDR50"})
               \cup (IF "SDR50" \in r.cap THEN {"SDR50", "SDR25", "SDR12"} ELSE {})
               \cup (options \cap {"HS200", "HS400", "HS400ES"})
  IN [hc |-> [ver |-> r.ver, clkMax |-> max, clkMul |-> mul, tune50 |-> "TUNE_SDR50" \in r.cap,
              clkMin |-> IF v3 THEN IF mul # 0 THEN max \div 1024 ELSE max \div 2046 ELSE max \div 256,
              ocr |-> CASE "S33" \in r.cap -> {32, 33} [] "S30" \in r.cap -> {29, 30} [] OTHER -> {17}],
      hcaps |-> (IF "HS" \in r.cap THEN all ELSE all \ {"HS"}) \ off]

\* sdhci_pwr(): the controller is reset when the power goes off and on, not
\* when only the voltage changes.
sdhci_pwr(s, vdd) ==
  LET t == IF s.vdd # 0 /\ vdd # 0 THEN s
           ELSE [s EXCEPT !.mode = "LS", !.sig18 = FALSE, !.preset = FALSE, !.tuned = FALSE]
  IN CASE vdd = 0 -> Ret([t EXCEPT !.vdd = 0, !.c = Off], "EOK")
       [] vdd \in {17, 29, 30, 32, 33} ->
            Ret([t EXCEPT !.vdd = vdd, !.c = IF @.st = "off" THEN Idle(s.info, 33) ELSE @], "EOK")
       [] OTHER -> Ret(t, "EINVAL")

sdhci_bus_mode(s, push) == [s EXCEPT !.push = push]

sdhci_bus_width(s, w) == [s EXCEPT !.width = w]

\* sdhci_clk(): the first divisor d of those the controller has with
\* clk_max / d <= clk, or the largest: any (programmable clock), even ones
\* (version 3, and 1), powers of two (version 2).
Divisor(hc, clk) ==
  LET d == hc.clkMax \div (clk + 1) + 1
  IN CASE hc.ver >= 3 /\ hc.clkMul # 0 -> Least(d, 1024)
       [] hc.ver >= 3 /\ hc.clkMul = 0 -> IF hc.clkMax <= clk THEN 1 ELSE Least(d + (d % 2), 2046)
       [] OTHER -> Min({256} \cup {p \in {1, 2, 4, 8, 16, 32, 64, 128} : p >= d})

sdhci_clk(s, clk) == [s EXCEPT !.hclk = clk, !.freq = s.hc.clkMax \div Divisor(s.hc, clk)]

\* sdhci_timing(): HS400ES has no mode bits in HCTL2, version 2 no HCTL2.
sdhci_timing(s, t) ==
  LET m == CASE t = "HS400ES" -> "LS"
             [] t \notin {"LS", "HS400ES"} /\ s.hc.ver < 3 -> "HS"
             [] OTHER -> t
      u == [s EXCEPT !.timing = t, !.mode = m]
  IN IF s.hc.ver >= 3 /\ s.preset THEN sdhci_clk(u, u.hclk) ELSE u

\* sdhci_signal_voltage(): a failed switch to 1.8 V cuts the power of the card.
sdhci_signal_voltage(s, v) ==
  LET done(t) == [t EXCEPT !.sv = v]
  IN CASE s.hc.ver < 3 \/ s.sv = v -> Ret(s, "EOK")
       [] s.hc.ver >= 3 /\ s.sv # v /\ v = 33 ->
            Either(done([s EXCEPT !.sig18 = FALSE]), s, Spend(s, {"fault"}), "EIO")
       [] s.hc.ver >= 3 /\ s.sv # v /\ v = 18 ->
            Either(done([s EXCEPT !.sig18 = TRUE]), s,
                   [Spend(s, {"fault", "power"}) EXCEPT !.sig18 = TRUE, !.c = Idle(s.info, 33)], "EIO")
       [] OTHER -> Ret(done(s), "EOK")

\* sdhci_tune(): as the condition is written, SDR50 alone goes without; the
\* card answers where tuning is defined.
sdhci_tune(s) ==
  IF s.hc.ver < 3 \/ (s.mode = "SDR50" /\ ~s.hc.tune50) THEN Ret(s, "EOK")
  ELSE IF s.c.timing \notin {"HS200", "SDR104", "SDR50", "DDR50"} \/ s.c.width # s.width
         THEN Ret([s EXCEPT !.tuned = FALSE], "EIO")
         ELSE Either([s EXCEPT !.tuned = TRUE], s, [Spend(s, {"fault"}) EXCEPT !.tuned = FALSE], "EIO")

sdhci_preset(s, on) == IF s.hc.ver < 3 THEN s ELSE [s EXCEPT !.preset = on]

----------------------------------------------------------------------------
\* aarch64/bcm2711.le/bs.c

\* mbox_send_msg_gpio_state(): the firmware may not answer.
mbox_send_msg_gpio_state(s, done) == Either(done, s, Spend(s, {"fault", "mbox"}), "EIO")

get_vdd_sd_io_state(s) == mbox_send_msg_gpio_state(s, s)

set_vdd_sd_io_state(s, v) == mbox_send_msg_gpio_state(s, [s EXCEPT !.rail = v])

\* bcm2711_signal_voltage(): that the GPIO could not be set is not looked at;
\* if it cannot be read 1.8 V becomes 3.3 V.
bcm2711_signal_voltage(s, v) ==
  Look(get_vdd_sd_io_state(s), LAMBDA t, rc :
    IF rc # "EOK"
      THEN IF v = 18 THEN sdhci_signal_voltage([t EXCEPT !.hcaps = @ \ {"SV_1_8V"}], 33)
           ELSE sdhci_signal_voltage(t, v)
      ELSE IF v \in {33, 18} /\ t.rail # v
             THEN Anyway(set_vdd_sd_io_state(t, v), LAMBDA u :
                    sdhci_signal_voltage([u EXCEPT !.sv = 0], v))
             ELSE sdhci_signal_voltage(t, v))

\* bcm2711_sdhci_tune(): a failure ends the use of 1.8 V for good.
bcm2711_sdhci_tune(s) ==
  Look(sdhci_tune(s), LAMBDA t, rc :
    Ret(IF rc = "EOK" THEN t ELSE [t EXCEPT !.hcaps = @ \ {"SV_1_8V"}], rc))

\* bcm2711_bs_init(): an embedded card may use HS200.
bcm2711_bs_init(r, embedded, options, off) ==
  sdhci_init(r, IF embedded THEN options \cup {"HS200"} ELSE options, off)

----------------------------------------------------------------------------
\* The settings of sdiodi/base.c.

sdio_pwr(s, vdd)            == sdhci_pwr(s, vdd)
sdio_bus_mode(s, push)      == sdhci_bus_mode(s, push)
sdio_bus_width(s, w)        == sdhci_bus_width(s, w)
sdio_timing(s, t)           == sdhci_timing(s, t)
sdio_signal_voltage(s, v)   == bcm2711_signal_voltage(s, v)
sdio_tune(s)                == bcm2711_sdhci_tune(s)
sdio_preset(s, on)          == sdhci_preset(s, on)

sdio_clock(s, clk) == IF clk < s.hc.clkMin THEN s ELSE sdhci_clk(s, Least(clk, s.hc.clkMax))

\* sdio_select_voltage(): the lowest one both can do.
sdio_select_voltage(s, ocr) ==
  LET both == ocr \cap s.hc.ocr
  IN IF both = {} THEN Ret([s EXCEPT !.ocr = 0], "EINVAL")
     ELSE sdio_pwr([s EXCEPT !.ocr = Min(both)], Min(both))

\* sdio_power(): the statuses are not looked at.
sdio_power_on(s) ==
  LET t == [s EXCEPT !.hclk = s.clkInit, !.timing = "LS", !.width = 1, !.push = FALSE, !.sv = 33]
      set(u) == sdio_bus_mode(sdio_timing(sdio_preset(sdio_bus_width(
                  sdio_clock(u, s.clkInit), 1), FALSE), "LS"), FALSE)
  IN Anyway(sdio_pwr(t, Max(s.hc.ocr)), LAMBDA u : As(sdio_signal_voltage(set(u), 33), "EOK"))

sdio_power_off(s) == LET o == CHOOSE o \in sdio_pwr(s, 0) : TRUE IN [o[1] EXCEPT !.ev = {}]
=============================================================================
