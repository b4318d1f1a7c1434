----------------------------- MODULE SdioDevice -----------------------------
(***************************************************************************)
(* What a handle of the SDIO layer offers the CAM module: the calls of     *)
(* sdiodi/card.c on an attached card, with the parts of sdiodi/base.c and  *)
(* sdiodi/mmc.c that decide what they do to the card.  The card is what    *)
(* outlives a call: its selected partition, its volatile cache, its        *)
(* background operations and its active security system.                   *)
(*                                                                         *)
(* Every operator takes the record s and gives the set of its outcomes.    *)
(* The fields it uses:                                                     *)
(*   card            the handle is usable: no removal is pending           *)
(*   faults          bound: commands that may still fail                   *)
(*   dtype, caps     DEV_TYPE_x and the set of DEV_CAP_x                   *)
(*   hpm             hc->pm_state                                          *)
(*   pactive, wce    dev->pactive, DEV_FLAG_WCE                            *)
(*   tune            HC_FLAG_TUNE                                          *)
(*   cpart           partition the card has selected                       *)
(*   cacheOn, cached the card's cache is on, and holds data                *)
(*   hist            history, a set of: "lost" (cached data was lost),     *)
(*                   "stray" (an access went to another partition than its *)
(*                   own), "ghost" (a command took effect whose answer     *)
(*                   was lost), and the tags the users of this module add  *)
(*   cbk, bkRun      the card's BKOPS_STATUS, and whether it is at work    *)
(*   csec            security system the card has selected, or "none"    *)
(***************************************************************************)
EXTENDS Outcome, Integers

CONSTANTS
  HcPm,        \* hc->entry.pm is set: the host takes part in power management
  HcSleep      \* HC_CAP_SLEEP: the host can put the card to sleep

User == "user"      \* partition 0

Note(s, p, tag) == IF p THEN [s EXCEPT !.hist = @ \cup {tag}] ELSE s

\* The card comes up with its defaults: what was in the cache is gone.
PowerCycle(s) ==
  [Note(s, s.cached, "lost") EXCEPT
     !.cached = FALSE, !.cacheOn = FALSE, !.wce = FALSE,
     !.cpart = User, !.pactive = User, !.bkRun = FALSE, !.csec = "none"]

Spend(s) == [s EXCEPT !.faults = @ - 1]

\* _sdio_reset(): power off, power on, identification.  A card that does not
\* come up again is reported as removed.
_sdio_reset(s) ==
  LET up(t) == Ret(t, "EOK")
                 \cup (IF t.faults = 0 THEN {} ELSE Ret([Spend(t) EXCEPT !.card = FALSE], "ENXIO"))
  IN up(PowerCycle(s))

\* _sdio_pwrmgnt(): a wake-up or a sleep that fails ends in a reset.  The
\* status of the reset is the one of a wake-up, but not after a suspend.
_sdio_pwrmgnt(s, pm) ==
  LET to(t, q) == [t EXCEPT !.hpm = q]
      flaky(t, ok) == Ret(ok, "EOK") \cup (IF t.faults = 0 THEN {} ELSE Ret(Spend(t), "EIO"))
      reset(t, rc) == Look(_sdio_reset(t), LAMBDA u, own :
                        Ret(u, IF pm = "ACTIVE" /\ s.hpm = "SLEEP" THEN own ELSE rc))
  IN IF ~HcPm \/ pm = s.hpm THEN Ret(s, "EOK")
     ELSE
     CASE pm = "IDLE" -> Ret(IF s.hpm = "ACTIVE" THEN to(s, pm) ELSE s, "EOK")
       [] \/ pm = "ACTIVE" /\ s.hpm = "SUSPEND"
          \/ pm = "ACTIVE" /\ s.hpm = "SLEEP" /\ HcSleep /\ "SLEEP" \notin s.caps ->
            reset(to(s, pm), "EOK")
       [] \/ pm = "ACTIVE" /\ s.hpm = "SLEEP" /\ HcSleep /\ "SLEEP" \in s.caps
          \/ pm = "SLEEP" /\ HcSleep /\ "SLEEP" \in s.caps ->
            Look(flaky(s, to(s, pm)), LAMBDA t, rc :
              IF rc = "EOK" THEN Ret(t, rc) ELSE reset(to(t, IF pm = "SLEEP" THEN "IDLE" ELSE pm), rc))
       [] OTHER -> Ret(to(s, pm), "EOK")

\* _sdio_synchronize(): nobody uses a handle whose card is gone.
_sdio_synchronize(s, O) == IF s.card THEN O ELSE Ret(s, "ENXIO")

\* A command is what it asks of the card and an argument.
Command(c, x) == [cmd |-> c, arg |-> x]
Plain == Command("plain", "")

\* The card (external): what a command does to it.  A transfer that does not
\* go to the partition it is for is a stray one, and so is an erase; one that
\* comes while the card is at work on its own overlaps.  A security command
\* reaches the system that is selected.
CardDoes(t, c) ==
  CASE c.cmd = "PARTITION" -> [t EXCEPT !.cpart = c.arg]
    [] c.cmd = "CACHE_ON"  -> [t EXCEPT !.cacheOn = TRUE]
    [] c.cmd = "CACHE_OFF" -> [t EXCEPT !.cacheOn = FALSE, !.cached = FALSE]
    [] c.cmd = "FLUSH"     -> [t EXCEPT !.cached = FALSE]
    [] c.cmd = "ERASE"     -> Note(t, t.dtype = "MMC" /\ t.cpart # c.arg, "stray")
    [] c.cmd = "BKOPS"     -> [t EXCEPT !.bkRun = c.arg, !.cbk = IF c.arg THEN @ ELSE 0]
    [] c.cmd = "HPI"       -> [t EXCEPT !.bkRun = FALSE]
    [] c.cmd = "SELECT"    -> [t EXCEPT !.csec = c.arg]
    [] c.cmd = "SECURE"    -> Note(t, t.asec # "none" /\ t.csec # t.asec, "misdirected")
    [] c.cmd \in {"READ", "WRITE"} ->
         [Note(Note(t, t.dtype = "MMC" /\ t.cpart # c.arg, "stray"),
               t.bkRun /\ t.drvr = "RUN", "overlap")
            EXCEPT !.cached = @ \/ (c.cmd = "WRITE" /\ t.cacheOn)]
    [] OTHER -> t

\* sdio_send_cmd(): the card is woken up.  A command that times out may have
\* reached the card.
sdio_send_cmd(s, c) ==
  LET sent(t, done) ==
        Ret(done, "EOK")
          \cup (IF t.faults = 0 THEN {}
                ELSE Ret(Spend(t), "ETIMEDOUT") \cup Ret(Spend(t), "EIO")
                       \cup Ret(Note(Spend(done), done # t, "ghost"), "ETIMEDOUT"))
  IN _sdio_synchronize(s, OnOk(_sdio_pwrmgnt(s, "ACTIVE"), LAMBDA t : sent(t, CardDoes(t, c))))

\* Commands that change nothing the properties look at.
sdio_stop_transmission(s) == sdio_send_cmd(s, Plain)
sdio_set_block_length(s)  == sdio_send_cmd(s, Plain)
sdio_wait_card_status(s)  == sdio_send_cmd(s, Plain)
sdio_send_status(s)       == sdio_send_cmd(s, Plain)
sdio_send_ext_csd(s)      == sdio_send_cmd(s, Plain)
sdio_app_read_status(s)   == sdio_send_cmd(s, Plain)
sdio_mmc_switch(s, c)     == sdio_send_cmd(s, c)

mmc_rpmb_rw(s)      == sdio_send_cmd(s, Plain)
sdio_mmc_rpmb_rw(s) == _sdio_synchronize(s, mmc_rpmb_rw(s))

\* mmc_gen_man_cmd(): with another block length the status is the one of the
\* command that restores it.
mmc_gen_man_cmd(s, blklen) ==
  IF blklen = 512 THEN sdio_send_cmd(s, Plain)
  ELSE OnOk(sdio_set_block_length(s), LAMBDA t :
         Anyway(sdio_send_cmd(t, Plain), LAMBDA u : sdio_set_block_length(u)))
sdio_mmc_gen_man(s, blklen) == _sdio_synchronize(s, mmc_gen_man_cmd(s, blklen))

\* mmc_set_partition() trusts dev->pactive.
mmc_set_partition(s, p) ==
  IF s.pactive = p THEN Ret(s, "EOK")
  ELSE OnOk(sdio_mmc_switch(s, Command("PARTITION", p)), LAMBDA t :
         Ret([t EXCEPT !.pactive = p], "EOK"))
sdio_set_partition(s, p) ==
  _sdio_synchronize(s, Where(s.dtype = "MMC", s, mmc_set_partition(s, p)))

\* mmc_cache(): switching the cache off writes it back.
mmc_cache(s, op) ==
  LET c == CASE op = "enable" -> "CACHE_ON" [] op = "disable" -> "CACHE_OFF" [] op = "flush" -> "FLUSH"
  IN Where(op = "flush" => s.wce, s, OnOk(sdio_send_cmd(s, Command(c, "")), LAMBDA t :
       Ret([t EXCEPT !.wce = IF op = "flush" THEN @ ELSE op = "enable"], "EOK")))
sdio_cache(s, op) ==
  IF "CACHE" \notin s.caps THEN Ret(s, "ENOTSUP") ELSE _sdio_synchronize(s, mmc_cache(s, op))

sdio_pwroff_notify(s) ==
  IF "PWROFF_NOTIFY" \notin s.caps THEN Ret(s, "EOK") ELSE sdio_send_cmd(s, Plain)

\* mmc_erase() selects the partition; the three commands of an erase go to
\* whatever partition the card has selected.
mmc_erase(s, p) ==
  OnOk(mmc_set_partition(s, p), LAMBDA t : sdio_send_cmd(t, Command("ERASE", p)))
sd_erase(s, p) == sdio_send_cmd(s, Command("ERASE", p))
sdio_erase(s, p) ==
  _sdio_synchronize(s, IF s.dtype = "MMC" THEN mmc_erase(s, p) ELSE sd_erase(s, p))

sdio_lock_unlock(s) ==
  _sdio_synchronize(s, IF s.dtype = "MMC" THEN Ret(s, "EINVAL") ELSE sdio_send_cmd(s, Plain))

\* sdio_reset() keeps the status of _sdio_reset() to itself.
sdio_reset(s) == _sdio_synchronize(s, As(_sdio_reset(s), "EOK"))

sdio_pwrmgnt(s, pm) == _sdio_synchronize(s, _sdio_pwrmgnt(s, pm))

\* sdio_bus_error(): sd_init_bus() in a slower mode; the card stays selected.
sdio_bus_error(s) == _sdio_synchronize(s, As(sdio_send_cmd(s, Plain), "EOK"))

\* sdio_retune(): only when the host asked for it, and the request is gone
\* whether it helped or not.
sdio_retune(s) ==
  LET done(t) == [t EXCEPT !.tune = FALSE]
  IN IF ~s.tune THEN Ret(s, "EOK")
     ELSE _sdio_synchronize(s, LET O == sdio_send_cmd(s, Plain) IN {<<done(o[1]), o[2]>> : o \in O})

\* sdio_hpi(): wait, and interrupt what is still going on.
sdio_hpi(s) ==
  Look(sdio_wait_card_status(s), LAMBDA t, rc :
    CASE rc = "EOK" /\ ~t.bkRun -> Ret(t, rc)
      [] rc = "ETIMEDOUT" \/ t.bkRun ->
           OnOk(sdio_send_cmd(t, Command("HPI", "")), LAMBDA u : sdio_wait_card_status(u))
      [] OTHER -> Ret(t, rc))
=============================================================================
