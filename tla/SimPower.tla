------------------------------ MODULE SimPower ------------------------------
(***************************************************************************)
(* sim_sdmmc.c: configuration, reset, power management and background      *)
(* operations, as the driver thread of the CAM module runs them: each call *)
(* from its beginning to its end.  Further fields of the record s:         *)
(*   pm, timer   ext->pm_state; what the PM timer waits for                *)
(*   drvr        ext->drvr_state                                           *)
(*   bk, inprog, ticks   ext->bkops_status (without and the INPROG bit)    *)
(*               and ext->bkops_ticks                                      *)
(*   wp          partitions with SDMMC_PFLAG_WP                            *)
(***************************************************************************)
EXTENDS SimAssd

CONSTANTS
  NcTicks,     \* BKOPS_NC_TICKS
  ImpTicks     \* BKOPS_IMPACTED_TICKS

\* sdmmc_bkops_cfg()
sdmmc_bkops_cfg(s) == IF "BKOPS" \in s.caps THEN sdio_mmc_switch(s, Plain) ELSE Ret(s, "ENOTSUP")

\* sdmmc_dev_cfg(): the features that cannot be set up are dropped.
sdmmc_dev_cfg(s) ==
  LET cache(t) == Where("CACHE" \in t.caps, t,
                    Mend(sdio_cache(t, IF Flag(t, "CACHE") THEN "enable" ELSE "disable"),
                         LAMBDA u : Clear(u, "CACHE")))
      bkops(t) == Where(t.dtype = "MMC", t,
                    Mend(sdmmc_bkops_cfg(t), LAMBDA u : Clear(u, "BKOPS")))
      notify(t) == Where(Flag(t, "PWROFF_NOTIFY"), t,
                     Mend(sdio_pwroff_notify(t), LAMBDA u : Clear(u, "PWROFF_NOTIFY")))
      relwr(t) == IF "WR_REL" \in t.caps THEN t ELSE Clear(t, "RELWR")
  IN As(OnOk(cache(s), LAMBDA t : OnOk(bkops(t), LAMBDA u : OnOk(notify(relwr(u)), LAMBDA v :
       Where("ASSD" \in v.caps, v, sdmmc_assd_init(v))))), "EOK")

\* sdmmc_dev_dcfg(): each step overwrites the status of the one before.
sdmmc_dev_dcfg(s) ==
  LET flush == Where("CACHE" \in s.caps /\ Flag(s, "CACHE"), s, sdio_cache(s, "flush"))
      bkops(t, rc) == IF Flag(t, "BKOPS_AUTO") THEN sdmmc_bkops_cfg(t) ELSE Ret(t, rc)
      notify(t, rc) == IF Flag(t, "PWROFF_NOTIFY") THEN sdio_pwroff_notify(t) ELSE Ret(t, rc)
  IN Look(Look(flush, bkops), notify)

\* sdmmc_set_partition_attr()
sdmmc_set_partition_attr(s, p) == [s EXCEPT !.wp = @ \cup {p}]

\* Faulty variant: the dirty cache is forgotten.
ResetUnmarked(s) ==
  Anyway(sdio_reset(s), LAMBDA t : sdmmc_dev_cfg(Clear(Clear(t, "CACHE"), "VCACHE_DIRTY")))

\* sdmmc_reset(): what may have been in the cache makes the user partition
\* read only.
sdmmc_reset(s) ==
  LET caching(t) == "CACHE" \in t.caps /\ Flag(t, "CACHE")
      mark(t) == CASE ~caching(t) -> t
                   [] caching(t) /\ Flag(t, "VCACHE_DIRTY") ->
                        Clear(sdmmc_set_partition_attr(t, User), "CACHE")
                   [] OTHER -> Clear(t, "CACHE")
  IN Anyway(sdio_reset(s), LAMBDA t : sdmmc_dev_cfg(mark(t)))

\* sdmmc_timer_settime()
sdmmc_timer_settime(s, t) == [s EXCEPT !.timer = t]

\* Faulty variant: a card that wakes up is taken to be as it was.
PmKeepsSelection(s, op) ==
  Anyway(sdio_pwrmgnt(s, op), LAMBDA t : Ret([t EXCEPT !.pm = op,
    !.timer = IF op = "ACTIVE" THEN "idle" ELSE IF op = "IDLE" THEN "sleep" ELSE "off"], "EOK"))

\* sdmmc_pm()
sdmmc_pm(s, op) ==
  LET arm(t, w) == sdmmc_timer_settime(t, w)
      lost == s.pm \in {"SLEEP", "SUSPEND"} /\ "ASSD" \in s.caps
      enter(t) == [t EXCEPT !.pm = op]
  IN CASE s.pm = op -> Ret(s, "EOK")
       [] s.pm # op /\ op = "IDLE" ->
            Anyway(sdio_pwrmgnt(s, "IDLE"), LAMBDA t :
              Ret(enter(arm(t, IF HcSleep THEN "sleep" ELSE "off")), "EOK"))
       [] s.pm # op /\ op = "SLEEP" ->
            Look(sdio_pwrmgnt(arm(s, "off"), "SLEEP"), LAMBDA t, rc :
              Ret(IF rc = "EOK" THEN enter(t) ELSE [arm(t, "sleep") EXCEPT !.pm = "IDLE"], "EOK"))
       [] s.pm # op /\ op = "ACTIVE" ->
            LET t == IF lost THEN Set(s, "ASSD_INIT") ELSE s
            IN Anyway(sdio_pwrmgnt(arm(t, "idle"), "ACTIVE"), LAMBDA u : Ret(enter(u), "EOK"))
       [] OTHER ->
            Anyway(sdio_pwrmgnt(arm(s, "off"), "SUSPEND"), LAMBDA t : Ret(enter(t), "EOK"))

\* Faulty variant: the flush is believed to succeed.
FlushUnchecked(s) ==
  IF "CACHE" \in s.caps /\ Flag(s, "CACHE") /\ Flag(s, "VCACHE_DIRTY")
    THEN As({<<Clear(o[1], "VCACHE_DIRTY"), o[2]>> : o \in sdio_cache(s, "flush")}, "EOK")
    ELSE Ret(s, "EOK")

\* sdmmc_cache_flush()
sdmmc_cache_flush(s) ==
  IF "CACHE" \in s.caps /\ Flag(s, "CACHE") /\ Flag(s, "VCACHE_DIRTY")
    THEN OnOk(sdio_cache(s, "flush"), LAMBDA t : Ret(Clear(t, "VCACHE_DIRTY"), "EOK"))
    ELSE Ret(s, "EOK")

\* The part of sdmmc_bkops() that starts a background operation: with a tick
\* the card goes on by itself, without one the call waits for the end.
StartBkops(s, tick) ==
  LET due == \/ s.bk = 3
             \/ s.bk = 2 /\ s.ticks >= ImpTicks
             \/ s.bk = 1 /\ s.ticks >= NcTicks /\ s.ticks >= ImpTicks
  IN IF ~due THEN Ret(s, "EOK")
     ELSE As(Look(sdio_mmc_switch(s, Command("BKOPS", tick)), LAMBDA t, rc :
            CASE rc = "EOK" -> Ret([t EXCEPT !.inprog = TRUE, !.ticks = 0], rc)
              [] rc = "ETIMEDOUT" -> Look(sdio_hpi(t), LAMBDA u, hpi :
                                       IF hpi = "EOK" THEN Ret(u, hpi) ELSE sdmmc_reset(u))
              [] OTHER -> Ret(t, rc)), "EOK")

\* Faulty variant: what is in progress is left alone.
BkopsUninterrupted(s, tick) ==
  IF ~Flag(s, "BKOPS") \/ s.inprog THEN Ret(s, "EOK")
  ELSE IF tick THEN OnOk(sdio_send_ext_csd(s), LAMBDA t : StartBkops([t EXCEPT !.bk = t.cbk], tick))
  ELSE StartBkops(s, tick)

\* sdmmc_bkops()
sdmmc_bkops(s, tick) ==
  LET none(t) == [t EXCEPT !.bk = 0, !.inprog = FALSE]
      poll(t) == LET u == IF t.bk # 0 THEN [t EXCEPT !.ticks = @ + 1] ELSE t
                 IN As({IF o[2] = "EOK" /\ o[1].bk # o[1].cbk
                            THEN <<[o[1] EXCEPT !.bk = o[1].cbk, !.ticks = 0], o[2]>>
                            ELSE o : o \in sdio_send_ext_csd(u)}, "EOK")
  IN CASE ~Flag(s, "BKOPS") \/ s.drvr = "PAUSE" -> Ret(s, "EOK")
       [] Flag(s, "BKOPS") /\ s.drvr # "PAUSE" /\ s.inprog ->
            OnOk(sdmmc_pm(s, "ACTIVE"), LAMBDA t :
              IF tick THEN Ret(t, "EOK")
              ELSE Look(sdio_hpi(t), LAMBDA u, rc :
                     IF rc = "EOK" THEN Ret(none(u), rc)
                     ELSE Look(sdmmc_reset(u), LAMBDA v, ok : Ret(none(v), rc))))
       [] OTHER ->
            OnOk(Where(tick, s, OnOk(sdmmc_pm(s, "ACTIVE"), poll)), LAMBDA t : StartBkops(t, tick))

\* sdmmc_timer(): the PM timer's pulse, when the time since the last request
\* has really passed.
sdmmc_timer(s) ==
  CASE s.drvr # "PAUSE" /\ s.pm = "ACTIVE" -> sdmmc_pm(s, "IDLE")
    [] s.drvr # "PAUSE" /\ s.pm = "IDLE" /\ HcSleep ->
         OnOk(sdmmc_cache_flush(s), LAMBDA t : sdmmc_pm(t, "SLEEP"))
    [] OTHER -> Ret(s, "EOK")
=============================================================================
