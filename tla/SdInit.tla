------------------------------- MODULE SdInit -------------------------------
(***************************************************************************)
(* Setting up an SD card: sdiodi/sd.c.  The device has two more fields:    *)
(*   modes  swcaps.bus_mode, what CMD6 last reported                       *)
(*   pwd    the password kept in dev->pwd: "none", "right" or "wrong"      *)
(* What the card is (info.has): "V2" (answers CMD8), "HCS", "S18" (can     *)
(* signal at 1.8 V), "SPEC3", "BW4", "HS", "SWITCH" (class 10), "ASSD",    *)
(* "CACHE"; its UHS modes are info.modes.                                  *)
(***************************************************************************)
EXTENDS MmcInit

UHS == {"SDR50", "SDR104", "DDR50"}

\* DTR_MAX_x
Dtr(m) == CASE m = "SDR104" -> 2080 [] m = "SDR50" -> 1000 [] m = "SDR12" -> 250 [] OTHER -> 500

----------------------------------------------------------------------------
\* Commands and registers.

\* sd_send_if_cond(): a card before 2.0 does not answer; any other failure is EIO.
sd_send_if_cond(s) ==
  IF "V2" \notin s.info.has THEN Ret(s, "ETIMEDOUT")
  ELSE LET O == Cmd(s, {"idle"}, s)
       IN O \cup As({o \in O : o[2] # "EOK" /\ o[1] # s}, "EIO")

\* sd_app_send_op_cond(): with an OCR the card leaves the idle state.
sd_app_send_op_cond(s, inquire) ==
  IF s.info.type # "SD" THEN Ret(s, "ETIMEDOUT")
  ELSE Cmd(s, {"idle", "ready"}, IF inquire THEN s ELSE [s EXCEPT !.c.st = "ready"])

sd_voltage_switch(s) == Cmd(s, {"ready"}, [s EXCEPT !.c.sv = 18])

sdio_send_relative_addr(s) ==
  OnOk(Cmd([s EXCEPT !.rca = 0], {"ident"}, [s EXCEPT !.rca = 0, !.c.st = "stby"]), LAMBDA t :
    Ret([t EXCEPT !.rca = 1], "EOK"))

\* sd_switch(), and the comparison of the function the card took: it takes
\* what it has, the modes beyond HS at 1.8 V only.
sd_switch(s, takes, done) ==
  OnOk(DataCmd(s, {"tran"}, IF takes THEN done ELSE s), LAMBDA t :
    Ret(t, IF takes THEN "EOK" ELSE "EIO"))

sd_app_send_scr(s) == DataCmd(s, {"tran"}, s)

sd_read_status(s) == DataCmd(s, {"tran"}, s)

\* sd_read_switch(): modes is overwritten, caps only grow.
sd_read_switch(s) ==
  LET seen(t) == IF t.c.sv = 18 THEN t.info.modes ELSE t.info.modes \ UHS
      uhs(t) == "SPEC3" \in t.info.has /\ seen(t) \cap UHS # {}
      hs(t) == "HS" \in t.info.has
  IN IF "SWITCH" \notin s.info.has THEN Ret(s, "EOK")
     ELSE OnOk(DataCmd(s, {"tran"}, s), LAMBDA t :
            Ret([t EXCEPT !.dtrHs = IF hs(t) THEN 500 ELSE @,
                          !.modes = IF "SPEC3" \in t.info.has THEN seen(t) ELSE @,
                          !.dcaps = @ \cup (IF hs(t) /\ "HS" \in t.hcaps THEN {"HS"} ELSE {})
                                      \cup (IF uhs(t) THEN {"UHS"} ELSE {})
                                      \cup (t.info.has \cap {"ASSD"})], "EOK"))

\* sd_capabilities()
sd_capabilities(s) ==
  OnOk(sd_app_send_scr(s), LAMBDA t : OnOk(sd_read_status(t), LAMBDA u : sd_read_switch(u)))

\* sd_parse_cid(), sd_parse_csd()
sd_parse_csd(s) == [s EXCEPT !.dtrLs = s.info.dtr,
                             !.dcaps = @ \cup (s.info.has \cap {"HCS"})]

----------------------------------------------------------------------------
\* The bus.

\* sd_switch_hs()
sd_switch_hs(s) == sd_switch(s, "HS" \in s.info.has, [s EXCEPT !.c.timing = "HS"])

\* sd_set_bus_width(), sd_app_set_bus_width(): always to 4 bits.
sd_set_bus_width(s) ==
  IF "BW4" \notin s.hcaps \cap s.info.has THEN Ret(s, "EINVAL")
  ELSE OnOk(Cmd(s, {"tran"}, [s EXCEPT !.c.width = 4]), LAMBDA t :
         Ret(sdio_bus_width(t, 4), "EOK"))

\* sd_set_bus_speed_mode(): the host follows the card.
sd_set_bus_speed_mode(s, m) ==
  OnOk(sd_switch(s, s.c.sv = 18 /\ m \in s.info.modes \cup {"SDR12"},
                 [s EXCEPT !.c.timing = m]),
    LAMBDA t : Ret(sdio_clock(sdio_timing(t, m), Dtr(m)), "EOK"))

\* sd_set_current_limit()
sd_set_current_limit(s) == sd_switch(s, TRUE, s)

\* sd_init_assd()
sd_init_assd(s) == sd_switch(s, TRUE, s)

sd_select_bus_mode(s) ==
  LET both == s.modes \cap s.hcaps
  IN CASE "SDR104" \in both -> "SDR104"
       [] "SDR104" \notin both /\ "DDR50" \in both -> "DDR50"
       [] both \cap {"SDR104", "DDR50"} = {} /\ "SDR50" \in both -> "SDR50"
       [] both \cap UHS = {} /\ "SDR25" \in both -> "SDR25"
       [] OTHER -> "SDR12"

\* sd_init_uhs(): no host has a driver strength, so sd_set_drv_type() returns
\* at once; tuning may fail.
sd_init_uhs(s) ==
  OnOk(sd_set_bus_width(s), LAMBDA t :
    OnOk(sd_set_current_limit(t), LAMBDA u :
      OnOk(sd_set_bus_speed_mode(u, sd_select_bus_mode(u)), LAMBDA v :
        Anyway(sdio_tune(sdio_preset(v, TRUE)), LAMBDA x : Ret(Flag(x, "UHS"), "EOK")))))

sd_init_bus(s) ==
  LET hs(t) == OnOk(sd_switch_hs(t), LAMBDA u : Ret(Flag(u, "HS"), "EOK"))
      wide(t) == Where("BW4" \in t.hcaps \cap t.info.has, t, sd_set_bus_width(t))
      fast == "HS" \in s.dcaps
      plain == OnOk(Where(fast, s, hs(s)), LAMBDA t : OnOk(wide(t), LAMBDA u :
                 _sdio_set_block_length(
                   IF fast THEN sdio_clock(sdio_timing(u, "HS"), u.dtrHs)
                   ELSE sdio_clock(sdio_timing(u, "LS"), u.dtrLs), 512)))
  IN OnOk(IF s.sv = 18 THEN sd_init_uhs(s) ELSE plain, LAMBDA t :
       Where("ASSD" \in t.dcaps, t, sd_init_assd(t)))

----------------------------------------------------------------------------
\* Passwords.

\* _sdio_lock_unlock(): a block of the length of the password, then the usual
\* length again, then the state of the card.
_sdio_lock_unlock(s, pwd, lock) ==
  Look(OnOk(_sdio_set_block_length(s, 4), LAMBDA t :
         Look(DataCmd(t, {"tran"}, IF pwd = "right" THEN [t EXCEPT !.c.locked = lock] ELSE t),
           LAMBDA u, rc : As(_sdio_set_block_length(u, 512), rc))),
    LAMBDA t, rc :
      IF rc # "EOK" THEN Ret(t, rc)
      ELSE OnOk(Cmd(t, {"tran"}, t), LAMBDA u :
             Ret(IF u.c.locked THEN Flag(u, "LOCKED") ELSE Unflag(u, "LOCKED"), "EOK")))

\* sd_lock_unlock(): the password is kept before the card has seen it.
sd_lock_unlock(s, pwd, lock) ==
  Look(_sdio_lock_unlock([s EXCEPT !.pwd = pwd], pwd, lock), LAMBDA t, rc :
    IF "LOCKED" \in t.flags THEN Ret(t, IF lock THEN rc ELSE "EACCES")
    ELSE IF "LOCKED" \notin s.flags THEN Ret(t, rc)
    ELSE OnOk(sd_capabilities(t), LAMBDA u : sd_init_bus(u)))

sd_unlock(s) ==
  IF "LOCKED" \in s.flags /\ s.pwd # "none" THEN _sdio_lock_unlock(s, s.pwd, FALSE) ELSE Ret(s, "EOK")

----------------------------------------------------------------------------
\* The card.

\* sd_init_device(): the loop over ACMD41, once more without S18R when the
\* card does not take CMD11.
OpCond(s, s18r, hcs) ==
  LET s18a(t) == hcs /\ "HCS" \in t.info.has /\ "S18" \in t.info.has /\ t.c.sv = 33
      signal(t) == Look(sdio_signal_voltage(t, 18), LAMBDA u, rc :
                     Ret(IF rc = "EOK" THEN u ELSE Flag(u, "SIG_ERR"), rc))
  IN OnOk(sd_app_send_op_cond(s, FALSE), LAMBDA t :
       IF ~(s18r /\ s18a(t)) THEN Ret(t, "EOK")
       ELSE Look(sd_voltage_switch(t), LAMBDA u, rc :
              IF rc = "EOK" THEN signal(u) ELSE sd_app_send_op_cond(u, FALSE)))

\* Faulty variant: a card that still signals at 1.8 V is not looked for.
StillUnasked(s) == Ret(s, "EOK")

\* the card left in 1.8 V signalling; what happens here is not looked at
Still18V(s) ==
  IF "SV_1_8V" \notin s.hcaps \/ s.sv = 18 THEN Ret(s, "EOK")
  ELSE Look(sd_read_switch(s), LAMBDA t, rc :
         IF rc = "EOK" /\ t.modes \cap UHS # {} THEN As(sdio_signal_voltage(t, 18), "EOK")
         ELSE Ret(t, "EOK"))

sd_init_device(s, again) ==
  LET s18r(t) == /\ "SIG_ERR" \notin t.flags /\ "SV_1_8V" \in t.hcaps
                 /\ t.hcaps \cap (UHS \cup {"SDR12", "SDR25"}) # {} /\ (again => t.modes # {})
  IN Anyway(sd_send_if_cond([s EXCEPT !.rca = 0]), LAMBDA t1 :
     Anyway(sdio_go_idle(t1), LAMBDA t2 :
     Look(sd_send_if_cond(t2), LAMBDA t3, v2 :
     OnOk(IF v2 = "EIO" THEN Ret(t3, "EIO") ELSE OpCond(t3, s18r(t3), v2 = "EOK"), LAMBDA t4 :
     OnOk(sdio_all_send_cid(t4, again), LAMBDA t5 :
     OnOk(sdio_send_relative_addr(t5), LAMBDA t6 :
     OnOk(Where(~again, t6, sdio_send_csd(sdio_bus_mode(t6, TRUE))), LAMBDA t7 :
     OnOk(sdio_select_card(sdio_bus_mode(IF again THEN t7 ELSE sd_parse_csd(t7), TRUE)), LAMBDA t8 :
     OnOk(sd_unlock(t8), LAMBDA t9 :
       IF "LOCKED" \in t9.flags THEN Ret(t9, "EOK")
       ELSE OnOk(Where(~again, t9, sd_capabilities(t9)), LAMBDA x :
              OnOk(Still18V(x), LAMBDA y : sd_init_bus(y))))))))))))

\* sd_bus_error(): one mode, or one step of the clock, down.
sd_bus_error(s) ==
  sd_init_bus(
    CASE "UHS" \in s.flags -> [Unflag(s, "UHS") EXCEPT !.modes = @ \ {sd_select_bus_mode(s)}]
      [] "UHS" \notin s.flags /\ "HS" \in s.flags ->
           [Unflag(s, "HS") EXCEPT !.dtrHs = Max({HS26, @ - 50})]
      [] OTHER -> [s EXCEPT !.dtrLs = Max({1, @ - ((@ + 9) \div 10)})])

\* sd_ident()
sd_ident(s) ==
  Anyway(sdio_go_idle([s EXCEPT !.rca = 0]), LAMBDA t :
    Anyway(sd_send_if_cond(t), LAMBDA u :
      OnOk(sd_app_send_op_cond(u, TRUE), LAMBDA v :
        OnOk(sdio_select_voltage(v, v.info.ocr), LAMBDA x : sd_init_device(x, FALSE)))))
=============================================================================
