------------------------------- MODULE SimIo -------------------------------
(***************************************************************************)
(* sim_sdmmc.c: the SCSI requests and the devctls.  The driver thread runs *)
(* a request to its end, so each is an operator from the record s to its   *)
(* outcomes: a SCSI request ends in a CAM status, a devctl in the status   *)
(* it leaves in cam_devctl_status.  Further fields of s:                   *)
(*   locked      DEV_FLAG_CARD_LOCKED                                      *)
(*   cmd23       DEV_CAP_CMD23 in the copy ext->dev_inf                    *)
(*   frozen      partitions whose queue the simq holds back                *)
(* Tags of hist: "unsure" (the selected partition is in doubt), "overlap"  *)
(* (data moved during a background operation), "forgotten" (the answer to  *)
(* a transfer overwrote the note of one in progress), "outside" (an erase  *)
(* past the end of the partition), "unmarked" (a reset that marks nothing).*)
(* What a request answers out of ext alone (inquiry pages, registers,      *)
(* counters) is not kept.                                                  *)
(***************************************************************************)
EXTENDS SimPower

CONSTANTS
  HcAcmd12,    \* HC_CAP_ACMD12: the host stops a multiple block transfer
  Word,        \* a uint32_t counts modulo Word
  EraseGroup,  \* erase group size in blocks
  FfuState     \* "none", "denied", "open": what the card says of updates

\* The status of a SCSI request made of a call.
Cam(O) == Status(O, sdmmc_error)

IfUnitReady(s, r, O) == IF Ready(s, r) THEN O ELSE Ret(s, sdmmc_unit_ready(s, r))

----------------------------------------------------------------------------
\* Requests answered out of what the module knows.

sdmmc_mpage_rw_err(s, r) == Ret(s, "CMP")

\* sdmmc_mpage_caching(): mode select switches the card's cache.
sdmmc_mpage_caching(s, r, select) ==
  LET on == r.arg = "on"
      done(t) == IF on THEN Set(t, "CACHE") ELSE Clear(t, "CACHE")
  IN CASE ~select -> Ret(s, "CMP")
       [] select /\ "CACHE" \notin s.caps -> Ret(s, sdmmc_error("EINVAL"))
       [] OTHER -> Cam(OnOk(sdio_cache(s, IF on THEN "enable" ELSE "disable"), LAMBDA t :
                     Ret(done(t), "EOK")))

sdmmc_mode_select(s, r) ==
  IF r.arg \in {"on", "off"} THEN sdmmc_mpage_caching(s, r, TRUE)
  ELSE Ret(s, sdmmc_error("EINVAL"))

sdmmc_mode_sense(s, r) ==
  IfUnitReady(s, r, CASE r.arg = "rw_err" -> sdmmc_mpage_rw_err(s, r)
                      [] r.arg = "caching" -> sdmmc_mpage_caching(s, r, FALSE)
                      [] OTHER -> Ret(s, sdmmc_error("EINVAL")))

\* Inquiries say nothing of whether the card is there.
sdmmc_evpd_inquiry(s, r) == Ret(s, IF r.arg = "vpd" THEN "CMP" ELSE sdmmc_error("EINVAL"))
sdmmc_std_inquiry(s, r)  == Ret(s, "CMP")
sdmmc_inquiry(s, r) == IF r.arg = "std" THEN sdmmc_std_inquiry(s, r) ELSE sdmmc_evpd_inquiry(s, r)

sdmmc_spindle(s, r) ==
  IfUnitReady(s, r, Ret(s, IF r.arg \in {"start", "stop"} THEN "CMP" ELSE sdmmc_error("EINVAL")))

sdmmc_capacity(s, r) == IfUnitReady(s, r, Ret(s, "CMP"))

sdmmc_service_action(s, r) ==
  IF r.arg = "cap16" THEN sdmmc_capacity(s, r) ELSE Ret(s, sdmmc_error("EINVAL"))

----------------------------------------------------------------------------
\* Erasing.

\* sdio_erase(), and whether the blocks are the partition's.  A switch that
\* fails here is not followed by a reset.
Erase(s, r) ==
  LET out(t) == Note(t, r.lba + r.nlba > s.nlba[r.part], "outside")
  IN {<<Note(out(o[1]), o[1].cpart # o[1].pactive, "unsure"), o[2]>> : o \in sdio_erase(s, r.part)}

\* The test of a devctl: 64 bit wide.
Inside(s, r) == r.lba < s.nlba[r.part] /\ r.lba + r.nlba <= s.nlba[r.part]

Aligned(r) == r.lba % EraseGroup = 0 /\ r.nlba % EraseGroup = 0

sdmmc_write_same(s, r) ==
  IfUnitReady(s, r, IF "TRIM" \in s.caps /\ r.arg = "unmap" THEN Cam(Erase(s, r))
                    ELSE Ret(s, sdmmc_error("EINVAL")))

\* sdmmc_erase12(): the end of the range is computed in 32 bits.
sdmmc_erase12(s, r) ==
  LET pend == s.nlba[r.part] - 1
      end == (r.lba + r.nlba - 1 + Word) % Word
  IN IfUnitReady(s, r, IF r.lba <= pend /\ end <= pend /\ Aligned(r) THEN Cam(Erase(s, r))
                       ELSE Ret(s, sdmmc_error("EINVAL")))

\* sdmmc_erase_devctl(): every action has its capability.
sdmmc_erase_devctl(s, r) ==
  LET may == CASE r.arg = "normal" -> Aligned(r)
               [] r.arg = "secure" -> "SECURE" \in s.caps /\ Aligned(r)
               [] r.arg \in {"trim", "discard"} -> "TRIM" \in s.caps
               [] r.arg \in {"secure_trim", "purge"} -> {"SECURE", "TRIM"} \subseteq s.caps
               [] OTHER -> FALSE
  IN IfReady(s, r, IF Inside(s, r) /\ may THEN Erase(s, r) ELSE Ret(s, "EINVAL"))

\* sdmmc_dsm(): one range after the other, up to the first that fails.
sdmmc_dsm(s, r) ==
  LET one(t) == IF Inside(t, r) THEN Erase(t, r) ELSE Ret(t, "EINVAL")
  IN CASE r.ranges = 0 -> Ret(s, "EOK")
       [] r.ranges = 1 -> one(s)
       [] OTHER -> OnOk(one(s), one)

sdmmc_dsm_devctl(s, r) ==
  LET may == \/ r.arg = "trim" /\ "TRIM" \in s.caps
             \/ r.arg = "discard" /\ "DISCARD" \in s.caps
  IN IfReady(s, r, IF may THEN sdmmc_dsm(s, r) ELSE Ret(s, "EINVAL"))

----------------------------------------------------------------------------
\* Reading and writing.

\* The data command of sdmmc_rw(), and how the transfer is brought to an end.
\* Every failure but that of a removed card becomes ETIMEDOUT.
Transfer(s, p, out, multi, sbc) ==
  LET blocks == p # "firmware"
      data == IF ~blocks THEN Plain ELSE Command(IF out THEN "WRITE" ELSE "READ", p)
      stop(t) == Status(Where(multi /\ ~sbc /\ ~HcAcmd12, t, sdio_stop_transmission(t)),
                        LAMBDA rc : IF rc = "EOK" THEN rc ELSE "ETIMEDOUT")
      ready(t) == Look(sdio_wait_card_status(t), LAMBDA u, rc :
                    IF rc = "EOK" THEN Ret(u, rc) ELSE As(sdio_stop_transmission(u), rc))
      settle(t) == Anyway(Look(sdio_send_status(t), LAMBDA u, rc :
                     IF rc = "EOK" THEN Ret(u, rc) ELSE sdio_stop_transmission(u)), LAMBDA u :
                       Ret(u, "ETIMEDOUT"))
  IN Look(sdio_send_cmd(s, data), LAMBDA t, rc :
       CASE rc = "ENXIO" -> Ret(t, "ENXIO")
         [] rc = "EOK" -> OnOk(stop(t), LAMBDA u : Where(out, u, ready(u)))
         [] OTHER -> settle(t))

\* sdmmc_rw(): what the response says, then the recovery.
sdmmc_rw(s, p, out, multi, rlw) ==
  LET sbc == rlw \/ (multi /\ ~HcAcmd12 /\ s.cmd23)
      urgent(t) == IF t.cbk = 3
                     THEN [Note(t, t.inprog /\ t.bkRun /\ t.drvr = "RUN", "forgotten")
                             EXCEPT !.bk = 3, !.inprog = FALSE]
                     ELSE t
      reset(t) == Look(sdio_send_status(t), LAMBDA u, rc :
                    IF rc = "EOK" THEN Ret(u, rc) ELSE sdmmc_reset(u))
      slower(t) == IF t.dtype # "SD" THEN Ret(t, "EOK") ELSE Ret(t, "EOK") \cup sdio_bus_error(t)
      refresh(t, rc) == [t EXCEPT !.cmd23 =
                           "CMD23" \in t.caps /\ ~(rc = "ETIMEDOUT" /\ sbc /\ t.dtype = "SD")]
  IN Look(Transfer(s, p, out, multi \/ rlw, sbc), LAMBDA t, rc :
       CASE rc = "ENXIO" -> Ret(t, rc)
         [] rc = "EOK" -> Ret(urgent(t), rc)
         [] OTHER -> Anyway(reset(urgent(t)), LAMBDA u : Anyway(slower(u), LAMBDA v :
                       Ret(refresh(v, rc), rc))))

\* sdmmc_ccb_lba(): how many blocks, and FUA.
sdmmc_ccb_lba(r) == [multi |-> r.nlba > 1, fua |-> r.arg = "fua"]

\* Faulty variant: no reset after a failed switch.
ReadWriteNoReset(s, r, out) ==
  IfUnitReady(s, r, Look(sdio_set_partition(s, r.part), LAMBDA t, rc :
    IF rc # "EOK" THEN Ret(t, sdmmc_error(rc)) ELSE Cam(sdmmc_rw(t, r.part, out, FALSE, FALSE))))

\* sdmmc_read_write(): the partition is selected before the background
\* operation is interrupted, and a failed interruption resets the card.
sdmmc_read_write(s, r, out) ==
  LET c == sdmmc_ccb_lba(r)
      rlw == out /\ (Flag(s, "RELWR") \/ (c.fua /\ "WR_REL" \in s.caps))
      go(t) == LET u == Note(t, t.dtype = "MMC" /\ t.cpart # r.part, "unsure")
                   rw(v) == sdmmc_rw(v, r.part, out, c.multi, rlw)
               IN IF rlw /\ c.multi /\ "WR_REL_ENH" \notin u.caps
                    THEN OnOk(sdmmc_rw(u, r.part, out, FALSE, rlw), rw)
                    ELSE rw(u)
  IN IfUnitReady(s, r,
       CASE s.locked -> Ret(s, sdmmc_error("EACCES"))
         [] ~s.locked /\ out /\ r.part \in s.wp -> Ret(s, sdmmc_error("EROFS"))
         [] ~s.locked /\ ~(out /\ r.part \in s.wp) /\ r.part = "rpmb" -> Ret(s, "PROVIDE_FAIL")
         [] OTHER -> Look(sdio_set_partition(s, r.part), LAMBDA t, rc :
              IF rc # "EOK" THEN As(sdmmc_reset(t), sdmmc_error("ETIMEDOUT"))
              ELSE Cam(Anyway(sdmmc_bkops(t, FALSE), go))))

\* An errno that ends up in cam_status as it is: EPERM is CAM_REQ_CMP.
RawErrno(rc) == CASE rc \in {"EOK", "EPERM"} -> "CMP"
                  [] rc = "EINVAL" -> "PROVIDE_FAIL"
                  [] OTHER -> "CMP_ERR"

sdmmc_sync(s, r) ==
  IF ~Flag(s, "PRESENT") THEN Ret(s, "CMP")
  ELSE IfUnitReady(s, r, Status(sdmmc_cache_flush(s), RawErrno))

\* sdmmc_ffu(): the first block enters the update mode.
sdmmc_ffu(s, r) ==
  LET enter == OnOk(Where("CACHE" \in s.caps /\ Flag(s, "CACHE"), s, sdio_cache(s, "flush")), LAMBDA t :
                 OnOk(Where(Flag(t, "BKOPS_AUTO"), t, sdmmc_bkops_cfg(t)), LAMBDA u :
                   sdio_mmc_switch(u, Plain)))
      write(t) == sdmmc_rw(t, "firmware", TRUE, r.nlba > 1, FALSE)
      activate == Look(sdio_mmc_switch(s, Plain), LAMBDA t, rc : As(sdmmc_reset(t), rc))
  IN Status(CASE s.dtype # "MMC" \/ FfuState = "none" -> Ret(s, "ENOTSUP")
              [] s.dtype = "MMC" /\ FfuState = "denied" -> Ret(s, "EPERM")
              [] s.dtype = "MMC" /\ FfuState = "open" /\ r.arg \notin {"first", "next", "activate"} ->
                   Ret(s, "EINVAL")
              [] OTHER -> CASE ~Ready(s, r) -> Ret(s, "EBUSY")
                            [] Ready(s, r) /\ r.arg = "activate" -> activate
                            [] OTHER -> OnOk(Where(r.arg = "first", s, enter), write), RawErrno)

\* sdmmc_scsi_io(): a write marks the cache before it is tried.
sdmmc_scsi_io(s, r) ==
  LET dirty == IF "CACHE" \in s.caps /\ Flag(s, "CACHE") THEN Set(s, "VCACHE_DIRTY") ELSE s
  IN CASE r.op = "UNIT_RDY" -> Ret(s, sdmmc_unit_ready(s, r))
       [] r.op = "INQUIRY"  -> sdmmc_inquiry(s, r)
       [] r.op = "SPINDLE"  -> sdmmc_spindle(s, r)
       [] r.op = "RD_CAP"   -> sdmmc_capacity(s, r)
       [] r.op \in {"READ", "WRITE"} ->
            sdmmc_read_write(IF r.op = "WRITE" THEN dirty ELSE s, r, r.op = "WRITE")
       [] r.op = "SYNC"     -> sdmmc_sync(s, r)
       [] r.op = "MSELECT"  -> sdmmc_mode_select(s, r)
       [] r.op = "MSENSE"   -> sdmmc_mode_sense(s, r)
       [] r.op = "ERASE"    -> sdmmc_erase12(s, r)
       [] r.op = "WR_BUF"   -> sdmmc_ffu(s, r)
       [] r.op = "WR_SAME"  -> sdmmc_write_same(s, r)
       [] r.op = "SERVICE"  -> sdmmc_service_action(s, r)
       [] OTHER             -> Ret(s, sdmmc_error("EINVAL"))

----------------------------------------------------------------------------
\* Devctls.

sdmmc_dsn_devctl(s, r) == IfReady(s, r, Ret(s, "EOK"))

\* sdmmc_drvr_state_devctl(): RUN resets the card without sdmmc_reset().
sdmmc_drvr_state_devctl(s, r) ==
  LET enter(t) == [t EXCEPT !.drvr = r.arg]
  IN IfReady(s, r,
       IF r.arg = "PAUSE"
         THEN Look(sdmmc_dev_dcfg(s), LAMBDA t, rc :
                IF rc # "EOK" THEN Ret(t, "EIO")
                ELSE Anyway(sdmmc_pm(t, "IDLE"), LAMBDA u :
                       Ret([enter(u) EXCEPT !.frozen = @ \cup {r.part}], "EOK")))
         ELSE Anyway(sdmmc_pm(s, "ACTIVE"), LAMBDA t : Anyway(sdio_reset(Note(t, t.cached, "unmarked")), LAMBDA u :
                Anyway(sdmmc_dev_cfg(u), LAMBDA v : Ret(enter(v), "EOK")))))

\* sdmmc_write_protect(): here, too, a failed switch is not followed by a
\* reset.
sdmmc_write_protect(s, r) ==
  LET doubt(O) == {<<Note(o[1], o[1].cpart # o[1].pactive, "unsure"), o[2]>> : o \in O}
      mode(t) == CASE r.arg # "set" -> Ret(t, "EOK")
                   [] r.arg = "set" /\ r.part = "rpmb" -> Ret(t, "EINVAL")
                   [] OTHER -> sdio_mmc_switch(t, Plain)
  IN IF r.lba % EraseGroup # 0 THEN Ret(s, "EINVAL")
     ELSE OnOk(doubt(sdio_set_partition(s, r.part)), LAMBDA t :
            OnOk(mode(t), LAMBDA u : sdio_send_cmd(u, Plain)))

sdmmc_wp_devctl(s, r) ==
  IfReady(s, r, CASE ~Inside(s, r) \/ r.arg \notin {"set", "clr", "prot", "type"} -> Ret(s, "EINVAL")
                  [] Inside(s, r) /\ r.arg \in {"set", "clr", "prot", "type"} /\ s.dtype # "MMC" ->
                       Ret(s, "ENOTSUP")
                  [] OTHER -> sdmmc_write_protect(s, r))

\* sdmmc_lock_unlock_devctl()
sdmmc_lock_unlock_devctl(s, r) ==
  IfReady(s, r, IF r.arg \notin {"lock", "unlock"} THEN Ret(s, "EINVAL")
                ELSE OnOk(sdio_lock_unlock(s), LAMBDA t :
                       Ret([t EXCEPT !.locked = (r.arg = "lock"), !.cmd23 = "CMD23" \in t.caps], "EOK")))

\* sdmmc_card_register_devctl(): EXT_CSD and SD status are read from the card.
sdmmc_card_register_devctl(s, r) ==
  LET ecsd == Look(sdio_send_ext_csd(s), LAMBDA t, rc :
                CASE rc = "EOK" -> Ret(t, rc)
                  [] rc = "ETIMEDOUT" -> As(sdmmc_reset(t), rc)
                  [] OTHER -> Ret(t, "EIO"))
      eio(O) == Status(O, LAMBDA rc : IF rc = "EOK" THEN rc ELSE "EIO")
  IN IfReady(s, r,
       CASE r.arg = "cid" -> Ret(s, "EOK")
         [] r.arg = "ecsd" -> IF s.dtype = "MMC" THEN ecsd ELSE Ret(s, "ENOTSUP")
         [] r.arg = "sds" -> IF s.dtype = "SD" THEN eio(sdio_app_read_status(s)) ELSE Ret(s, "ENOTSUP")
         [] r.arg = "write" -> IF s.dtype = "MMC" THEN eio(sdio_mmc_switch(s, Plain)) ELSE Ret(s, "ENOTSUP")
         [] OTHER -> Ret(s, "EINVAL"))

sdmmc_verbosity_devctl(s, r)   == Ret(s, "EOK")
sdmmc_device_info_devctl(s, r) == Ret(s, "EOK")
sdmmc_part_info_devctl(s, r)   == IfReady(s, r, Ret(s, "EOK"))

\* sdmmc_pwr_mgnt_devctl(): times below the host's are refused.
sdmmc_pwr_mgnt_devctl(s, r) == IfReady(s, r, Ret(s, IF r.arg = "short" THEN "EINVAL" ELSE "EOK"))

sdmmc_rpmb_info(s, r) == IF s.dtype = "MMC" /\ r.part = "rpmb" THEN "EOK" ELSE "ENOTSUP"

sdmmc_rpmb_info_devctl(s, r) == Ret(s, sdmmc_rpmb_info(s, r))

\* sdmmc_rpmb_devctl(): interrupt, select, then two or three transfers; the
\* card is reset after any that fails.
sdmmc_rpmb_devctl(s, r) ==
  LET frame(t) == sdio_mmc_rpmb_rw(Note(t, t.cpart # r.part, "stray"))
      frames(t) == OnOk(Where(r.arg # "read", t, frame(t)), LAMBDA u : OnOk(frame(u), frame))
  IN CASE sdmmc_rpmb_info(s, r) # "EOK" -> Ret(s, sdmmc_rpmb_info(s, r))
       [] sdmmc_rpmb_info(s, r) = "EOK" /\ ~Ready(s, r) -> Ret(s, "EIO")
       [] OTHER -> Anyway(sdmmc_bkops(s, FALSE), LAMBDA t :
                     Look(OnOk(sdio_set_partition(t, r.part), frames), LAMBDA u, rc :
                       IF rc = "EOK" THEN Ret(u, rc) ELSE As(sdmmc_reset(u), rc)))

\* sdmmc_gencmd_devctl()
sdmmc_gencmd_devctl(s, r) ==
  IfReady(s, r, Anyway(sdmmc_bkops(s, FALSE), LAMBDA t :
    Look(sdio_mmc_gen_man(t, r.blklen), LAMBDA u, rc :
      IF rc = "EOK" THEN Ret(u, rc) ELSE As(sdmmc_reset(u), rc))))

\* sdmmc_mancmd_devctl(): manufacturer commands only.
sdmmc_mancmd_devctl(s, r) ==
  IfReady(s, r, Anyway(sdmmc_bkops(s, FALSE), LAMBDA t :
    IF r.arg # "man" THEN Ret(t, "ENOTSUP")
    ELSE Look(sdio_mmc_gen_man(t, r.blklen), LAMBDA u, rc :
           IF rc = "EOK" THEN Ret(u, rc) ELSE As(sdmmc_reset(u), rc))))

sdmmc_devctl_perm(r) == r.rdwr

\* sdmmc_devctl(): without read or write permission EACCES, and nothing done.
sdmmc_devctl(s, r) ==
  IF ~sdmmc_devctl_perm(r) THEN Ret(s, "EACCES")
  ELSE CASE r.op = "DEVICE_INFO"   -> sdmmc_device_info_devctl(s, r)
         [] r.op = "D_ERASE"       -> sdmmc_erase_devctl(s, r)
         [] r.op = "WRITE_PROTECT" -> sdmmc_wp_devctl(s, r)
         [] r.op = "REGISTER"      -> sdmmc_card_register_devctl(s, r)
         [] r.op = "ASSD_STATUS"   -> sdmmc_assd_status_devctl(s, r)
         [] r.op = "ASSD_PROPS"    -> sdmmc_assd_properties_devctl(s, r)
         [] r.op = "ASSD_CONTROL"  -> sdmmc_assd_control_devctl(s, r)
         [] r.op = "ASSD_APDU"     -> sdmmc_assd_apdu_devctl(s, r)
         [] r.op = "LOCK_UNLOCK"   -> sdmmc_lock_unlock_devctl(s, r)
         [] r.op = "PART_INFO"     -> sdmmc_part_info_devctl(s, r)
         [] r.op = "PWR_MGNT"      -> sdmmc_pwr_mgnt_devctl(s, r)
         [] r.op = "VERBOSITY"     -> sdmmc_verbosity_devctl(s, r)
         [] r.op = "SERIAL"        -> sdmmc_dsn_devctl(s, r)
         [] r.op = "DSM"           -> sdmmc_dsm_devctl(s, r)
         [] r.op = "RPMB_INFO"     -> sdmmc_rpmb_info_devctl(s, r)
         [] r.op = "RPMB"          -> sdmmc_rpmb_devctl(s, r)
         [] r.op = "GEN_CMD"       -> sdmmc_gencmd_devctl(s, r)
         [] r.op = "MAN_CMD"       -> sdmmc_mancmd_devctl(s, r)
         [] r.op = "DRVR_STATE"    -> sdmmc_drvr_state_devctl(s, r)
         [] OTHER                  -> Ret(s, "EOK")
=============================================================================
