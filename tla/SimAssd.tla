------------------------------ MODULE SimAssd ------------------------------
(***************************************************************************)
(* sim_assd.c: the security systems of an SD card (ASSD), as devctls of    *)
(* the CAM module.  Further fields of the record s:                        *)
(*   eflags   set of SDMMC_EFLAG_x                                         *)
(*   asec     ext->assd_active_sec_sys, "none" at first                  *)
(*   nlba     partition -> number of blocks; 0 for one that is not there   *)
(* A request r has the fields op, part, lba, nlba and arg.  A devctl gives *)
(* the status it leaves in cam_devctl_status.                              *)
(***************************************************************************)
EXTENDS SdioDevice

CONSTANTS
  SecSys       \* security systems an SD card has

Flag(s, f)  == f \in s.eflags
Set(s, f)   == [s EXCEPT !.eflags = @ \cup {f}]
Clear(s, f) == [s EXCEPT !.eflags = @ \ {f}]

\* sdmmc_error(): errno to CAM status.
sdmmc_error(rc) == CASE rc = "EOK" -> "CMP"
                     [] rc = "ETIMEDOUT" -> "CMD_TIMEOUT"
                     [] rc = "ENODEV" -> "NO_HBA"
                     [] OTHER -> "CMP_ERR"

\* sdmmc_unit_ready(): the second test overrules the first.
sdmmc_unit_ready(s, r) == CASE s.nlba[r.part] = 0 -> sdmmc_error("ENXIO")
                            [] s.nlba[r.part] # 0 /\ ~Flag(s, "PRESENT") -> sdmmc_error("ENODEV")
                            [] OTHER -> "CMP"

Ready(s, r) == sdmmc_unit_ready(s, r) = "CMP"

\* A devctl of a unit that is not ready fails with EIO.
IfReady(s, r, O) == IF Ready(s, r) THEN O ELSE Ret(s, "EIO")

assd_control_system(s, ssi) ==
  OnOk(sdio_set_block_length(s), LAMBDA t : sdio_send_cmd(t, Command("SELECT", ssi)))

\* A security command reaches the system the card has selected.
assd_write_sec_cmd(s) ==
  OnOk(sdio_set_block_length(s), LAMBDA t :
    sdio_send_cmd(t, Command("SECURE", "")))

assd_read_sec_cmd(s) ==
  OnOk(sdio_set_block_length(s), LAMBDA t : sdio_send_cmd(t, Plain))

\* assd_send_psi(): only the last command's status comes back, so that the
\* register may not have been read; the outcome also has whether it was.
assd_send_psi(s) ==
  Anyway(sdio_set_block_length(s), LAMBDA t :
    Look(sdio_send_cmd(t, Plain), LAMBDA u, read :
      {<<o[1], o[2], read = "EOK">> : o \in sdio_set_block_length(u)}))

\* assd_status(): the outcome also has active_sec_system; what was not read is
\* what the buffer held.
assd_status(s) ==
  UNION {{<<o[1], o[2], sec>> : sec \in IF o[3] THEN {o[1].csec} ELSE SecSys} : o \in assd_send_psi(s)}

assd_properties(s) == Status(assd_send_psi(s), LAMBDA rc : rc)

\* assd_wait_scc(): the system answers in time, or not.
assd_wait_scc(s) ==
  UNION {{<<o[1], rc>> : rc \in CASE o[2] # "EOK" -> {o[2]}
                                  [] o[2] = "EOK" /\ o[3] -> {"EOK"}
                                  [] OTHER -> {"EOK", "EIO", "ETIMEDOUT"}} : o \in assd_send_psi(s)}

\* Select ssi and see that it is selected.
SelectSec(s, ssi) ==
  OnOk(assd_control_system(s, ssi), LAMBDA t :
    {<<o[1], IF o[2] = "EOK" /\ o[3] # ssi THEN "EIO" ELSE o[2]>> : o \in assd_status(t)})

\* assd_state(): after a reset the selection is repeated, once.
assd_state(s, reinit) ==
  LET select(t, rc) == IF t.asec = "none" THEN Ret(t, rc) ELSE SelectSec(t, t.asec)
  IN CASE "ASSD" \notin s.caps -> Ret(s, "ENOTSUP")
       [] "ASSD" \in s.caps /\ ~Flag(s, "ASSD_INIT") -> Ret(s, "EOK")
       [] OTHER -> OnOk(Look(Where(~reinit, s, assd_properties(s)), select), LAMBDA t :
                     Ret(Clear(t, "ASSD_INIT"), "EOK"))

\* sdmmc_assd_control_devctl(): SELECT_RESET is the operation it supports.
sdmmc_assd_control_devctl(s, r) ==
  LET doubt(O) == {<<Note(o[1], o[2] # "EOK" /\ o[1].csec # o[1].asec, "doubt"), o[2]>> : o \in O}
  IN IfReady(s, r, OnOk(assd_state(s, TRUE), LAMBDA t :
       IF r.arg \notin SecSys THEN Ret(t, "EINVAL")
       ELSE doubt(OnOk(SelectSec(t, r.arg), LAMBDA u : Ret([u EXCEPT !.asec = r.arg], "EOK")))))

sdmmc_assd_status_devctl(s, r) ==
  IfReady(s, r, OnOk(assd_state(s, TRUE), LAMBDA t :
    Status(assd_status(t), LAMBDA rc : rc)))

sdmmc_assd_properties_devctl(s, r) ==
  IfReady(s, r, OnOk(assd_state(s, TRUE), assd_properties))

sdmmc_assd_apdu_devctl(s, r) ==
  IfReady(s, r, OnOk(assd_state(s, TRUE), LAMBDA t :
    IF r.arg = "long" THEN Ret(t, "EINVAL")
    ELSE OnOk(assd_write_sec_cmd(t), LAMBDA u :
           OnOk(sdio_wait_card_status(u), LAMBDA v :
             OnOk(assd_wait_scc(v), assd_read_sec_cmd)))))

sdmmc_assd_init(s) == assd_state(Set(s, "ASSD_INIT"), FALSE)
=============================================================================
