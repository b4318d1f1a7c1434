------------------------------- MODULE MCSim -------------------------------
(* Two clients, an eMMC with all its features and an SD card with ASSD. *)
EXTENDS Sim, TLC

SCSI(op, p, lba, n, arg) == [scsi |-> TRUE, op |-> op, part |-> p, lba |-> lba, nlba |-> n,
                             arg |-> arg, rdwr |-> TRUE, ranges |-> 1, blklen |-> 512]
DCTL(op, p, lba, n, arg) == [SCSI(op, p, lba, n, arg) EXCEPT !.scsi = FALSE]

MCBlocks == [user |-> 8, boot |-> 4, rpmb |-> 2]

MCCards == {[dtype |-> "MMC", caps |-> {"CACHE", "BKOPS", "TRIM", "CMD23", "SLEEP"}, use |-> "disk"],
            [dtype |-> "MMC", caps |-> {"CACHE", "TRIM", "SECURE"}, use |-> "all"],
            [dtype |-> "SD", caps |-> {"ASSD", "CMD23"}, use |-> "assd"]}

MCOptions == {<<"bkops=on", "partitions=on">>}

\* A disk with much traffic, every other request two at a time, secure APDUs.
MCMaxRequests == [disk |-> 3, all |-> 2, assd |-> 3]

MCRequests ==
  [disk |-> {SCSI("WRITE", "user", 0, 2, ""), DCTL("D_ERASE", "boot", 0, 2, "trim"),
             DCTL("DRVR_STATE", "user", 0, 0, "PAUSE"), DCTL("DRVR_STATE", "user", 0, 0, "RUN")},
   all |-> {SCSI(op, "user", 0, 2, "") :
              op \in {"WRITE", "SYNC", "INQUIRY", "RD_CAP", "SPINDLE", "WR_BUF"}}
       \cup {SCSI(op, "boot", 3, 2, "") : op \in {"READ", "ERASE", "WR_SAME"}}
       \cup {DCTL(op, "user", 0, 2, "") : op \in {"DEVICE_INFO", "DSM", "GEN_CMD"}}
       \cup {DCTL("WRITE_PROTECT", "boot", 0, 2, "set"), DCTL("D_ERASE", "user", 0, 2, "secure"),
             DCTL("REGISTER", "user", 0, 2, "ecsd"), DCTL("RPMB", "rpmb", 0, 1, "write"),
             SCSI("WRITE", "boot", 0, 1, ""), SCSI("MSELECT", "user", 0, 0, "on"),
             DCTL("MAN_CMD", "user", 0, 1, "man"), DCTL("LOCK_UNLOCK", "user", 0, 0, "lock")},
   assd |-> {SCSI("READ", "user", 0, 2, ""), DCTL("ASSD_CONTROL", "user", 0, 0, "s1"),
             DCTL("ASSD_PROPS", "user", 0, 0, ""), DCTL("ASSD_APDU", "user", 0, 0, "")}]

Symmetric == Permutations(Clients)
=============================================================================
