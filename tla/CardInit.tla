------------------------------ MODULE CardInit ------------------------------
(***************************************************************************)
(* A card slot over time: the operations of sdiodi/base.c that set a card  *)
(* up, set it up again, or step it down, each with all the commands and    *)
(* settings it makes (SdhciHost, MmcInit, SdInit).  The caller holds       *)
(* hc->device's lock for the whole of it (_sdio_synchronize).              *)
(***************************************************************************)
EXTENDS SdInit

CONSTANTS
  Hosts,      \* what sdhci_init() found: [hc, hcaps], and the device type asked for
  Cards,      \* the cards that may be inserted
  MaxOps,     \* bound: operations
  MaxFaults   \* bound: commands and settings that fail

VARIABLES
  s,     \* host controller, device and card, see SdhciHost, MmcInit, SdInit
  op,    \* the last operation
  rc,    \* its status
  ops    \* operations so far

slotVars == <<s, op, rc, ops>>

SDIO_MAX_BUS_ERRS == 2

Blank(t) == [t EXCEPT !.dtype = "none", !.rca = 0, !.cid = 0, !.dcaps = {}, !.flags = {},
                      !.dtrHs = 0, !.dtrLs = 0, !.ocr = 0, !.blk = 0, !.egd = FALSE,
                      !.modes = {}, !.pwd = "none"]

NoCard == [cid |-> 0, type |-> "none", has |-> {}, modes |-> {}]

\* sdhci_init() leaves the power off; the host's own settings are zero.
SlotInit ==
  /\ \E h \in Hosts, skip \in BOOLEAN :
       s = [hc |-> h.hc, hcaps |-> h.hcaps, only |-> h.only, hclk |-> 0, clkInit |-> 4, freq |-> 0,
            timing |-> "LS", mode |-> "LS", width |-> 1, vdd |-> 0, push |-> FALSE, sv |-> 33,
            sig18 |-> FALSE, rail |-> 33, preset |-> FALSE, tuned |-> FALSE,
            info |-> NoCard, c |-> Off, ev |-> {}, faults |-> MaxFaults,
            dtype |-> "none", rca |-> 0, cid |-> 0, dcaps |-> {}, flags |-> {}, dtrHs |-> 0,
            dtrLs |-> 0, ocr |-> 0, blk |-> 0, egd |-> FALSE, modes |-> {}, pwd |-> "none",
            skip |-> skip, rst |-> FALSE, busErrs |-> 0]
  /\ op = "none" /\ rc = "EOK" /\ ops = 0

----------------------------------------------------------------------------
\* _sdio_attach(): at 400 kHz, and slower when no card answers; what a failed
\* attempt has left in the device stays for the next.
AttachAt(t, clk) ==
  LET u == [t EXCEPT !.clkInit = Max({clk, t.hc.clkMin})]
      is(x, type) == {IF o[2] = "EOK" THEN <<Flag([o[1] EXCEPT !.dtype = type], "PRESENT"), "EOK">>
                      ELSE o : o \in x}
      sd(x) == IF x.only = "MMC" THEN Ret(x, "ENODEV") ELSE is(sd_ident(x), "SD")
      mmc(x) == IF x.only = "SD" THEN Ret(x, "ENODEV") ELSE is(mmc_ident(x), "MMC")
  IN Anyway(IF t.skip THEN Ret(u, "EOK") ELSE sdio_power_on(u), LAMBDA v :
       Look(Look(sd(v), LAMBDA x, st : IF st = "EOK" THEN Ret(x, st) ELSE mmc(x)), LAMBDA x, st :
         IF st = "EOK" THEN Ret(x, st)
         ELSE Ret(sdio_power_off([x EXCEPT !.skip = FALSE]), st)))

_sdio_attach(t) ==
  LET u == [Blank(t) EXCEPT !.busErrs = 0]
      try(O, clk) == Look(O, LAMBDA x, st : IF st = "EOK" THEN Ret(x, st) ELSE AttachAt(x, clk))
      off == Ret(IF t.skip THEN u ELSE sdio_power_off(u), "ENODEV")
  IN try(try(try(try(off, 4), 3), 2), 1)

\* _sdio_reset(): power off and on, and the card set up again, three times
\* (SDIO_RESET_RETRIES) at the most; another card ends it.
ResetOnce(t) ==
  OnOk(sdio_power_on(sdio_power_off(t)), LAMBDA u :
    IF u.dtype = "MMC" THEN mmc_init_device(u, TRUE) ELSE sd_init_device(u, TRUE))

_sdio_reset(t) ==
  LET u == [t EXCEPT !.rst = TRUE, !.skip = FALSE, !.rca = 0]
      try(O) == Look(O, LAMBDA x, st : IF st \in {"EOK", "ENXIO"} THEN Ret(x, st) ELSE ResetOnce(x))
  IN IF t.rst THEN Ret(t, "EBUSY")
     ELSE {<<[o[1] EXCEPT !.rst = FALSE], o[2]>> : o \in try(try(try(Ret(u, "EAGAIN"))))}

_sdio_retune(t) == IF t.dtype = "MMC" THEN mmc_retune(t) ELSE sdio_tune(t)

\* _sdio_bus_error(): every third error takes the bus a step down.
_sdio_bus_error(t) ==
  IF t.busErrs < SDIO_MAX_BUS_ERRS THEN Ret([t EXCEPT !.busErrs = @ + 1], "EOK")
  ELSE {<<[o[1] EXCEPT !.busErrs = 0], o[2]>> :
          o \in IF t.dtype = "MMC" THEN mmc_bus_error(t) ELSE sd_bus_error(t)}

\* sdio_lock_unlock(): not for an MMC.
sdio_lock_unlock(t, pwd, lock) ==
  IF t.dtype = "MMC" THEN Ret(t, "EINVAL") ELSE sd_lock_unlock(t, pwd, lock)

----------------------------------------------------------------------------
Identified == s.dtype # "none"

Do(name, O) == /\ ops < MaxOps /\ ops' = ops + 1 /\ op' = name
               /\ \E o \in O : s' = o[1] /\ rc' = o[2]

Attach   == Do("attach", _sdio_attach(s))
Reset    == Identified /\ Do("reset", _sdio_reset(s))
Retune   == Identified /\ "PRESENT" \in s.flags /\ Do("retune", _sdio_retune(s))
BusError == Identified /\ Do("bus_error", _sdio_bus_error([s EXCEPT !.busErrs = SDIO_MAX_BUS_ERRS]))
Lock     == Identified /\ \E p \in {"right", "wrong"}, l \in BOOLEAN :
              Do("lock", sdio_lock_unlock(s, p, l))

\* A card is put in, or changed (external): it comes up at 3.3 V if the slot
\* is powered.
Insert == \E i \in Cards :
  /\ ops < MaxOps /\ i.cid # s.info.cid /\ op # "insert"
  /\ s' = [s EXCEPT !.info = i, !.c = IF s.vdd = 0 THEN Off ELSE Idle(i, 33), !.ev = {"swap"}]
  /\ op' = "insert" /\ rc' = "EOK" /\ UNCHANGED ops

SlotNext == Attach \/ Reset \/ Retune \/ BusError \/ Lock \/ Insert

SlotSpec == SlotInit /\ [][SlotNext]_slotVars

----------------------------------------------------------------------------
\* A card the caller may use: the last operation has succeeded.
Usable == Identified /\ op # "insert" /\ rc = "EOK" /\ "LOCKED" \notin s.flags
          /\ "swap" \notin s.ev /\ s.cid = s.info.cid

\* One failed command or setting at most, of which attach can recover; not
\* when HS400 is tried, which goes on after HS200 has failed.
Clean == /\ s.ev \cap {"ghost", "mbox", "more"} = {}
         /\ "fault" \in s.ev => op = "attach" /\ "HS400" \notin s.dcaps

\* Two failures at most in all: what more of them leave behind, a reset given
\* up on or flags of an attempt that failed, no later operation looks for.
Few == MaxFaults - s.faults <= 2

\* The mode the card is in, by the host's names.
CardMode(c) == IF c.timing = "HS" /\ c.ddr THEN "DDR50" ELSE c.timing

\* What the card may be clocked at in the mode it is in.
Limit(c) == CASE c.timing = "LS" -> 260 [] c.timing = "HS" -> 520
              [] c.timing \in {"HS200", "HS400"} -> 2000 [] OTHER -> Dtr(c.timing)

\* When attach, reset, bus error or retune has succeeded host and card use the
\* bus with the same width and in the same mode: the fallbacks of
\* mmc_init_bus() and sd_init_bus() leave no half done step behind.
BusAgrees ==
  Usable /\ Clean /\ Few => s.width = s.c.width /\ s.mode = CardMode(s.c)

\* The clock of the host is never above what the mode the card is in allows
\* (sdhci_clk() rounds down; the clock is raised after the card has switched).
ClockWithinMode == Usable /\ Clean => s.freq <= Limit(s.c)

\* An SD card in use, the host controller and the regulator behind it signal at
\* the same voltage, even when the answer to CMD11 was lost ("Device still in
\* 1.8V signaling"); two failures, or a silent firmware, defeat this, and so does
\* a password: sd_lock_unlock() does not look for the voltage.
SignalAgrees == Usable /\ s.dtype = "SD" /\ s.ev \cap {"mbox", "more"} = {}
                  /\ ~(s.info.pwd /\ "ghost" \in s.ev)
                  => (s.c.sv = 18) = s.sig18 /\ (s.rail = 18) = s.sig18

\* A card set up with success is in the transfer state.  A reset in which the
\* voltage switch cuts the power is the exception: the flags and the block
\* length kept from before let it succeed.
UsableIsSelected == Usable /\ Few /\ (op = "attach" \/ "power" \notin s.ev) => s.c.st = "tran"

\* A reset that succeeds has found the card that was identified: the registers
\* kept from before are not used for another card.
SameCard == Identified /\ rc = "EOK" /\ op \in {"attach", "reset"} => s.cid = s.info.cid

\* A card just attached uses blocks of 512 bytes, as the transfers assume; after
\* a reset _sdio_set_block_length() trusts the length it remembers, which is
\* right for cards that wake up with 512 bytes only.
BlockLengthIs512 ==
  Usable /\ "ghost" \notin s.ev /\ (op = "attach" \/ (s.info.bl = 512 /\ "fault" \notin s.ev))
    => s.c.blk = 512

\* Host, regulator and card agree on how the bus is used after every operation
\* that succeeds: width, mode, signal voltage and clock.
HostAndCardAgree == BusAgrees /\ SignalAgrees /\ ClockWithinMode

\* A card that was set up with success can be read and written: it is selected
\* and transfers blocks of 512 bytes.
UsableIsReady == UsableIsSelected /\ BlockLengthIs512
=============================================================================
