------------------------------- MODULE MmcInit -------------------------------
(***************************************************************************)
(* Setting up an MMC: sdiodi/mmc.c, and the steps of sdiodi/base.c it      *)
(* shares with SD cards.  The fields of the device (hc->device):           *)
(*   dtype, rca, cid  DEV_TYPE_x, dev->rca, dev->raw_cid                   *)
(*   dcaps, flags     DEV_CAP_x and DEV_FLAG_x, sets of names              *)
(*   dtrHs, dtrLs     ecsd.dtr_max_hs (swcaps.dtr_max_hs), csd.dtr_max     *)
(*   ocr, blk         dev->ocr, dev->block_length                          *)
(*   egd              ecsd.erase_grp_def                                   *)
(*   skip, rst        HC_FLAG_SKIP_PWRUP, HC_FLAG_RST                      *)
(* What the card is (info) stands for its CID, CSD and EXT_CSD: cid, type, *)
(* v4 (spec_vers >= 4), rev (EXT_CSD_REV), types (CARD_TYPE), has (its     *)
(* features), ocr, dtr, bl (READ_BL_LEN) and pwd (a password is set).      *)
(***************************************************************************)
EXTENDS SdhciHost

Flag(s, f)   == [s EXCEPT !.flags = @ \cup {f}]
Unflag(s, f) == [s EXCEPT !.flags = @ \ {f}]
Drop(s, k)   == [s EXCEPT !.dcaps = @ \ {k}]

HS52 == 520
HS26 == 260

----------------------------------------------------------------------------
\* sdiodi/base.c

sdio_go_idle(s) == Cmd(s, {"idle", "ready", "ident", "stby", "tran"}, [s EXCEPT !.c = Idle(s.info, s.c.sv)])

\* Faulty variant: another card is taken for the one identified before.
CidUnchecked(s, again) ==
  OnOk(Cmd(s, {"ready"}, [s EXCEPT !.c.st = "ident"]), LAMBDA t : Ret(t, "EOK"))

\* sdio_all_send_cid(); a card that is not the one identified is told by it.
sdio_all_send_cid(s, again) ==
  OnOk(Cmd(s, {"ready"}, [s EXCEPT !.c.st = "ident"]), LAMBDA t :
    IF again /\ t.cid # t.info.cid THEN Ret(t, "ENXIO")
    ELSE Ret([t EXCEPT !.cid = t.info.cid], "EOK"))

sdio_send_csd(s) == Cmd(s, {"stby"}, s)

\* Faulty variant: the status of the command is not looked at.
SelectUnchecked(s) == As(Cmd(s, {"stby"}, [s EXCEPT !.c.st = "tran"]), "EOK")

\* sdio_select_card(): LOCKED is set, never cleared here.
sdio_select_card(s) ==
  OnOk(Cmd(s, {"stby"}, [s EXCEPT !.c.st = "tran"]), LAMBDA t :
    Ret(IF t.c.locked THEN Flag(t, "LOCKED") ELSE t, "EOK"))

\* Faulty variant: the length is remembered whatever the card says.
BlockLengthAssumed(s, len) ==
  IF (s.flags \cap {"DDR", "HS400", "HS400ES"} # {} /\ "HC" \in s.dcaps) \/ s.blk = len
    THEN Ret(s, "EOK")
    ELSE Anyway(Cmd(s, {"tran"}, [s EXCEPT !.c.blk = len]), LAMBDA t :
           Ret([t EXCEPT !.blk = len], "EOK"))

_sdio_set_block_length(s, len) ==
  IF (s.flags \cap {"DDR", "HS400", "HS400ES"} # {} /\ "HC" \in s.dcaps) \/ s.blk = len
    THEN Ret(s, "EOK")
    ELSE OnOk(Cmd(s, {"tran"}, [s EXCEPT !.c.blk = len]), LAMBDA t :
           Ret([t EXCEPT !.blk = len], "EOK"))

_sdio_wait_card_status(s) == Cmd(s, {"tran"}, s)

\* sdio_device_errata(), sdio_reconcile_errata()
sdio_reconcile_errata(s) ==
  LET t == IF "errata_ACMD12" \in s.info.has THEN [s EXCEPT !.hcaps = @ \ {"ACMD12"}] ELSE s
  IN IF "errata_DISCARD" \in s.info.has THEN [t EXCEPT !.dcaps = @ \cup {"DISCARD"}] ELSE t

----------------------------------------------------------------------------
\* sdiodi/mmc.c: registers

\* mmc_parse_csd(), mmc_parse_cid()
mmc_parse_csd(s) == [s EXCEPT !.dtrLs = s.info.dtr]

\* mmc_parse_ext_csd(): the features of each revision, and the modes both
\* sides can do at a voltage both can do.
mmc_parse_ext_csd(s) ==
  LET i == s.info
      from(rev, caps) == IF i.rev >= rev THEN caps ELSE {}
      at(m) == \/ "SV_1_8V" \in s.hcaps /\ <<m, 18>> \in i.types
               \/ "SV_1_2V" \in s.hcaps /\ <<m, 12>> \in i.types
      hs400 == s.hcaps \cap {"HS400", "HS400ES"} # {} /\ at("HS400")
      hs200 == "HS200" \in s.hcaps /\ at("HS200")
      hs52  == "HS" \in s.hcaps /\ <<"HS", 33>> \in i.types
  IN [s EXCEPT
       !.dtrHs = CASE hs400 \/ hs200 -> 2000 [] ~(hs400 \/ hs200) /\ hs52 -> HS52 [] OTHER -> HS26,
       !.dcaps = @ \cup {"CMD23"}
         \cup from(2, i.has \cap {"HC"})
         \cup from(3, {"SLEEP"} \cup (i.has \cap {"WR_REL"}))
         \cup from(4, i.has \cap {"TRIM", "SECURE"})
         \cup from(5, i.has \cap {"BKOPS", "HPI_CMD12"})
         \cup from(6, {"DISCARD", "PWROFF_NOTIFY"} \cup (i.has \cap {"CACHE", "SANITIZE"}))
         \cup from(8, IF "HS400ES" \in s.hcaps /\ "STROBE" \in i.has THEN {"HS400ES"} ELSE {})
         \cup (IF hs400 THEN {"HS400", "HS"} ELSE {})
         \cup (IF hs200 THEN {"HS200", "HS"} ELSE {})
         \cup (IF hs52 THEN {"HS"} ELSE {})
         \cup (IF "DDR50" \in s.hcaps /\ (<<"DDR", 18>> \in i.types
                    \/ ("SV_1_2V" \in s.hcaps /\ <<"DDR", 12>> \in i.types))
                 THEN {"DDR50"} ELSE {})]

\* mmc_erase_grp_size(), mmc_wp_grp_size(): the group in use.
mmc_erase_grp_size(s) == IF s.egd THEN "hc" ELSE "csd"

\* mmc_erase_timeout(): at least MMC_ERASE_TIMEOUT_MIN, two groups spare.
mmc_erase_timeout(tmult, nlba, group, least) == Max({tmult * (nlba \div group + 2), least})

\* _mmc_switch(): the card may have done it although the command, or the wait
\* for it to be ready, fails.
mmc_switch(s, done) == Cmd(s, {"tran"}, done)

BusWidth(w, ddr, es) == [width |-> w, ddr |-> ddr, es |-> es]

SwitchWidth(s, b) == mmc_switch(s,
  [s EXCEPT !.c.width = b.width, !.c.ddr = b.ddr, !.c.es = b.es])

SwitchTiming(s, x) == mmc_switch(s, [s EXCEPT !.c.timing = x])

\* mmc_send_ext_csd(), mmc_set_relative_addr()
mmc_send_ext_csd(s) == DataCmd(s, {"tran"}, s)

mmc_set_relative_addr(s) == Cmd(s, {"ident"}, [s EXCEPT !.c.st = "stby"])

\* mmc_send_op_cond(): an SD card does not answer; the card may stay busy.
mmc_send_op_cond(s, inquire) ==
  IF s.info.type # "MMC" THEN Ret(s, "ETIMEDOUT")
  ELSE Cmd(s, {"idle"}, IF inquire THEN s ELSE [s EXCEPT !.c.st = "ready"])

\* mmc_bus_width(): the widest the host can do (the bus test is not asked for).
mmc_bus_width(s) == CASE "BW8" \in s.hcaps -> 8
                      [] "BW8" \notin s.hcaps /\ "BW4" \in s.hcaps -> 4
                      [] OTHER -> 1

----------------------------------------------------------------------------
\* sdiodi/mmc.c: modes

\* Faulty variant: the clock is raised before the card is told.
InitHsEarly(s) ==
  LET t == [s EXCEPT !.dtrHs = Least(@, HS52)]
  IN Look(SwitchTiming(sdio_clock(t, t.dtrHs), "HS"), LAMBDA u, rc :
       IF rc = "EOK" THEN Ret(Flag(sdio_timing(u, "HS"), "HS"), rc) ELSE Ret(u, rc))

mmc_init_hs(s) ==
  LET t == [s EXCEPT !.dtrHs = Least(@, HS52)]
  IN OnOk(SwitchTiming(t, "HS"), LAMBDA u :
       Ret(Flag(sdio_clock(sdio_timing(u, "HS"), u.dtrHs), "HS"), "EOK"))

_mmc_init_hs200(s, w) ==
  OnOk(SwitchWidth(s, BusWidth(w, FALSE, FALSE)), LAMBDA t :
    OnOk(SwitchTiming(sdio_bus_width(t, w), "HS200"), LAMBDA u :
      sdio_tune(sdio_clock(sdio_timing(u, "HS200"), u.dtrHs))))

\* 1.2 V if both can do it, else 1.8 V.
SelectSignal(s, m) ==
  LET can(t, v, cap) == m \subseteq {x[1] : x \in {y \in t.info.types : y[2] = v}} /\ cap \in t.hcaps
  IN Look(IF can(s, 12, "SV_1_2V") THEN sdio_signal_voltage(s, 12) ELSE Ret(s, "EINVAL"),
       LAMBDA t, rc : IF rc # "EOK" /\ can(t, 18, "SV_1_8V") THEN sdio_signal_voltage(t, 18)
                      ELSE Ret(t, rc))

mmc_init_hs200(s, w) ==
  OnOk(SelectSignal(s, {"HS200"}), LAMBDA t :
    OnOk(_mmc_init_hs200(t, w), LAMBDA u : Ret(Flag(u, "HS200"), "EOK")))

mmc_init_hs400es(s, w) ==
  OnOk(SelectSignal(s, {"HS400"}), LAMBDA t :
    OnOk(SwitchWidth(t, BusWidth(w, FALSE, FALSE)), LAMBDA u :
      OnOk(SwitchTiming(sdio_bus_width(u, w), "HS"), LAMBDA v :
        OnOk(SwitchWidth(sdio_clock(sdio_timing(v, "HS"), HS52), BusWidth(8, TRUE, TRUE)), LAMBDA x :
          OnOk(SwitchTiming(x, "HS400"), LAMBDA y :
            Ret(Flag(sdio_clock(sdio_timing(y, "HS400ES"), y.dtrHs), "HS400ES"), "EOK"))))))

\* mmc_hs200_to_hs400(): that the card is not ready in between is overlooked.
mmc_hs200_to_hs400(s) ==
  OnOk(SwitchTiming(s, "HS"), LAMBDA t :
    Anyway(_sdio_wait_card_status(sdio_clock(sdio_timing(t, "HS"), HS52)), LAMBDA u :
      OnOk(SwitchWidth(u, BusWidth(8, TRUE, FALSE)), LAMBDA v :
        OnOk(SwitchTiming(v, "HS400"), LAMBDA x :
          OnOk(_sdio_wait_card_status(sdio_clock(sdio_timing(x, "HS400"), x.dtrHs)), LAMBDA y :
            Ret(Flag(Unflag(y, "HS200"), "HS400"), "EOK"))))))

\* mmc_init_hs400(): goes on to HS400 even if HS200 has failed.
mmc_init_hs400(s, w) ==
  OnOk(SelectSignal(s, {"HS400", "HS200"}), LAMBDA t :
    Look(_mmc_init_hs200(t, w), LAMBDA u, rc :
      mmc_hs200_to_hs400(IF rc = "EOK" THEN Flag(u, "HS200") ELSE u)))

mmc_hs400_to_hs200(s) ==
  OnOk(SwitchTiming(sdio_clock(s, HS52), "HS"), LAMBDA t :
    OnOk(_sdio_wait_card_status(sdio_timing(t, "DDR50")), LAMBDA u :
      OnOk(SwitchWidth(u, BusWidth(8, FALSE, FALSE)), LAMBDA v :
        OnOk(_sdio_wait_card_status(v), LAMBDA x :
          OnOk(SwitchTiming(sdio_timing(x, "HS"), "HS200"), LAMBDA y :
            OnOk(_sdio_wait_card_status(sdio_timing(y, "HS200")), LAMBDA z :
              Ret(Unflag(Flag(sdio_clock(z, z.dtrHs), "HS200"), "HS400"), "EOK")))))))

mmc_retune(s) ==
  IF "HS400" \notin s.flags THEN sdio_tune(s)
  ELSE OnOk(mmc_hs400_to_hs200(s), LAMBDA t :
         OnOk(sdio_tune(t), LAMBDA u : mmc_hs200_to_hs400(u)))

\* Faulty variant: whether the card has taken it is not looked at.
InitDdrUnchecked(s, w) ==
  Anyway(SwitchWidth(s, BusWidth(w, TRUE, FALSE)), LAMBDA u :
    Ret(Flag(sdio_timing(sdio_bus_width(u, w), "DDR50"), "DDR"), "EOK"))

mmc_init_ddr(s, w) ==
  LET low == <<"DDR", 12>> \in s.info.types /\ "SV_1_2V" \in s.hcaps
  IN OnOk(IF low THEN sdio_signal_voltage(s, 12) ELSE Ret(s, "EOK"), LAMBDA t :
       OnOk(SwitchWidth(t, BusWidth(w, TRUE, FALSE)), LAMBDA u :
         Ret(Flag(sdio_timing(sdio_bus_width(u, w), "DDR50"), "DDR"), "EOK")))

\* mmc_init_bus(): from the fastest mode down; what is already in dev->flags
\* counts, whoever has set it.
mmc_init_bus(s) ==
  LET w == mmc_bus_width(s)
      has(t, F) == t.flags \cap F # {}
      fast(t, k, n) == k \in t.dcaps /\ t.dtrHs > HS52 /\ w >= n
      es(t) == Where(fast(t, "HS400ES", 8), t, mmc_init_hs400es(t, w))
      h4(t) == Where(~has(t, {"HS400ES"}) /\ fast(t, "HS400", 8), t, mmc_init_hs400(t, w))
      h2(t) == Where(~has(t, {"HS400", "HS400ES"}) /\ fast(t, "HS200", 4), t, mmc_init_hs200(t, w))
      hs(t) == Where(~has(t, {"HS200", "HS400", "HS400ES"}) /\ "HS" \in t.dcaps, t, mmc_init_hs(t))
      ddr(t) == Where(has(t, {"HS"}) /\ w >= 4 /\ "DDR50" \in t.dcaps, t, mmc_init_ddr(t, w))
      wide(t) == Where(has(t, {"HS"}) /\ w >= 4 /\ ~has(t, {"DDR"}), t,
                   OnOk(SwitchWidth(t, BusWidth(w, FALSE, FALSE)), LAMBDA u :
                     Ret(sdio_bus_width(u, w), "EOK")))
      slow(t) == IF has(t, {"HS", "HS200", "HS400", "HS400ES"}) THEN t
                 ELSE sdio_clock(sdio_timing(t, "LS"), t.dtrLs)
  IN Anyway(es(s), LAMBDA t1 : Anyway(h4(t1), LAMBDA t2 : Anyway(h2(t2), LAMBDA t3 :
       Anyway(hs(t3), LAMBDA t4 : Anyway(ddr(t4), LAMBDA t5 : Anyway(wide(t5), LAMBDA t6 :
         _sdio_set_block_length(slow(t6), 512)))))))

\* mmc_init_device()
mmc_init_device(s, again) ==
  LET grp(t) == Where("ERASE_GRP" \in t.info.has, t,
                  OnOk(mmc_switch(t, t), LAMBDA u : Ret([u EXCEPT !.egd = TRUE], "EOK")))
      hpi(t) == Where("HPI" \in t.info.has, t, mmc_switch(t, t))
      ext(t) == IF ~t.info.v4 THEN Ret(t, "EOK")
                ELSE OnOk(IF again THEN Ret(t, "EOK")
                          ELSE OnOk(mmc_send_ext_csd(t), LAMBDA u : Ret(mmc_parse_ext_csd(u), "EOK")),
                       LAMBDA u : OnOk(grp(u), LAMBDA v :
                         hpi(IF "HC" \in v.info.has THEN [v EXCEPT !.dcaps = @ \cup {"HC"}] ELSE v)))
  IN OnOk(IF s.skip THEN Ret(s, "EOK") ELSE sdio_go_idle(s), LAMBDA t1 :
     OnOk(mmc_send_op_cond(t1, FALSE), LAMBDA t2 :
     OnOk(sdio_all_send_cid(t2, again), LAMBDA t3 :
     OnOk(mmc_set_relative_addr([t3 EXCEPT !.rca = 1]), LAMBDA t4 :
     OnOk(Where(~again, t4, sdio_send_csd(sdio_bus_mode(t4, TRUE))), LAMBDA t5 :
     OnOk(sdio_select_card(sdio_bus_mode(IF again THEN t5 ELSE mmc_parse_csd(t5), TRUE)), LAMBDA t6 :
       IF "LOCKED" \in t6.flags THEN Ret(t6, "EOK")
       ELSE OnOk(ext(t6), LAMBDA t7 : mmc_init_bus(IF again THEN t7 ELSE sdio_reconcile_errata(t7))))))))) 

\* mmc_bus_error(): one mode down, then again.
mmc_bus_error(s) ==
  mmc_init_bus(
    CASE "HS400ES" \in s.flags -> Drop(Unflag(s, "HS400ES"), "HS400ES")
      [] "HS400ES" \notin s.flags /\ "HS400" \in s.flags -> Drop(Unflag(s, "HS400"), "HS400")
      [] s.flags \cap {"HS400ES", "HS400"} = {} /\ "HS200" \in s.flags ->
           [Drop(Unflag(s, "HS200"), "HS200") EXCEPT !.dtrHs = HS52]
      [] s.flags \cap {"HS400ES", "HS400", "HS200"} = {} /\ "DDR" \in s.flags ->
           Drop(Unflag(s, "DDR"), "DDR50")
      [] s.flags \cap {"HS400ES", "HS400", "HS200", "DDR"} = {} /\ "HS" \in s.flags ->
           [Unflag(s, "HS") EXCEPT !.dtrHs = IF @ = HS26 THEN @ ELSE Max({HS26, @ - 50})]
      [] OTHER -> [s EXCEPT !.dtrLs = Max({1, @ - 1})])

\* mmc_ident()
mmc_ident(s) ==
  Look(IF s.skip THEN mmc_init_device(s, FALSE) ELSE Ret(s, "EAGAIN"), LAMBDA t, rc :
    IF rc = "EOK" THEN Ret(t, rc)
    ELSE OnOk(sdio_go_idle(t), LAMBDA u :
         OnOk(mmc_send_op_cond(u, TRUE), LAMBDA v :
         OnOk(sdio_select_voltage(v, v.info.ocr), LAMBDA x : mmc_init_device(x, FALSE)))))
=============================================================================
