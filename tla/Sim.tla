-------------------------------- MODULE Sim --------------------------------
(***************************************************************************)
(* The CAM module at work: clients that queue requests, the driver thread  *)
(* that runs them, its timers, and the card below.                         *)
(*                                                                         *)
(* Clients call sdmmc_sim_action() in their own threads: they put a CCB    *)
(* into the simq, then look at ext->nexus to see whether the driver thread *)
(* has to be told.  The driver thread receives a pulse, does what it asks  *)
(* for, and runs sdmmc_start_ccb() until the queue has nothing to offer or *)
(* start_ccb_max requests have been run.  The simq (libcam, not part of    *)
(* the repository) holds the CCBs in order and passes over those of a      *)
(* frozen queue; there is one for each partition.                          *)
(***************************************************************************)
EXTENDS SimIo, Sequences, FiniteSets, SequencesExt

CONSTANTS
  Clients,      \* threads that make requests
  Requests,     \* use of the card -> the requests made
  Cards,        \* cards: [dtype, caps, use]
  Options,      \* command lines: sequences of options
  Blocks,       \* partition -> blocks of an MMC with partitions
  StartCcbMax,  \* SDMMC_START_CCB_MAX
  MaxRequests,  \* bound: use of the card -> number of requests made
  MaxFaults,    \* bound: commands that fail
  MaxTimers     \* bound: SIM_TIMER and PM timer pulses

ASSUME SimAssumption == StartCcbMax \in Nat \ {0} /\ MaxFaults \in Nat

\* Only an MMC can be put to sleep, only an SD card has ASSD.
ASSUME CardsAssumption == \A c \in Cards : "ASSD" \in c.caps => "SLEEP" \notin c.caps

None == "none"

NoRequest == [op |-> None, part |-> User]

VARIABLES
  s,        \* ext, the SDIO handle below it and the card
  queue,    \* simq: clients whose CCB waits
  req,      \* client -> the request of its CCB
  cpc,      \* client -> "idle", "check", "waiting"
  pulses,   \* pulses of the driver thread's channel
  dpc,      \* driver thread: "receive", "start", "run", "post"
  again,    \* the thread calls sdmmc_start_ccb() once more
  scnt,     \* scnt of sdmmc_start_ccb()
  nexus,    \* ext->nexus
  last,     \* the request run last and its status
  made, timers

vars == <<s, queue, req, cpc, pulses, dpc, again, scnt, nexus, last, made, timers>>

----------------------------------------------------------------------------
\* Attaching.

\* sdmmc_sim_args(): what the options turn on; an option without its argument
\* ends the list.
sdmmc_sim_args(opts) ==
  LET flag(o) == CASE o = "bkops=on" -> {"BKOPS"}
                   [] o = "bkops=auto" -> {"BKOPS_AUTO"}
                   [] o = "partitions=on" -> {"PARTITIONS"}
                   [] o = "pwroff_notify=short" -> {"PWROFF_NOTIFY"}
                   [] o = "relwr=on" -> {"RELWR"}
                   [] OTHER -> {}
      cut == {i \in 1 .. Len(opts) : opts[i] = "missing"}
  IN UNION {flag(opts[i]) : i \in {i \in 1 .. Len(opts) : \A j \in cut : i < j}}

\* sdmmc_partition_enum(): boot, RPMB and general purpose areas; the size is
\* kept in 32 bits on the way.
sdmmc_partition_enum(p) == Blocks[p] % Word

\* sdmmc_partition_config()
sdmmc_partition_config(dtype, eflags) ==
  [p \in DOMAIN Blocks |->
     CASE p = User -> Blocks[p]
       [] p # User /\ dtype = "MMC" /\ "PARTITIONS" \in eflags -> sdmmc_partition_enum(p)
       [] OTHER -> 0]

\* sdmmc_alloc_hba(), sdio_attach() and sdmmc_attach() up to sdmmc_dev_cfg().
Attached(card, opts) ==
  LET eflags == sdmmc_sim_args(opts)
  IN [use |-> card.use, card |-> TRUE, faults |-> MaxFaults, dtype |-> card.dtype, caps |-> card.caps,
      hpm |-> "IDLE", pactive |-> User, wce |-> FALSE, tune |-> FALSE,
      cpart |-> User, cacheOn |-> FALSE, cached |-> FALSE, hist |-> {},
      cbk |-> 0, bkRun |-> FALSE, csec |-> None,
      eflags |-> eflags, asec |-> None, nlba |-> sdmmc_partition_config(card.dtype, eflags),
      pm |-> "IDLE", timer |-> "off", drvr |-> "RUN",
      bk |-> 0, inprog |-> FALSE, ticks |-> 0,
      wp |-> {}, locked |-> FALSE, cmd23 |-> "CMD23" \in card.caps, frozen |-> {}]

\* sdmmc_reg(): the thread runs before PRESENT is set, with nothing to do.
Init ==
  /\ s \in {Set(o[1], "PRESENT") :
              o \in UNION {sdmmc_dev_cfg(Attached(c, opts)) : c \in Cards, opts \in Options}}
  /\ queue = <<>>
  /\ req = [c \in Clients |-> NoRequest]
  /\ cpc = [c \in Clients |-> "idle"]
  /\ pulses = {}
  /\ dpc = "receive" /\ again = FALSE /\ scnt = 0
  /\ nexus = None
  /\ last = [op |-> None, status |-> None]
  /\ made = 0 /\ timers = 0

----------------------------------------------------------------------------
\* Clients.

\* sdmmc_rel_simq()
sdmmc_rel_simq(p) == /\ s' = [s EXCEPT !.frozen = @ \ {p}]
                     /\ pulses' = pulses \cup {"ENQUEUE"}

\* sdmmc_sim_action(): the CCB goes into the queue ...
sdmmc_sim_action(c, r) ==
  /\ cpc[c] = "idle" /\ made < MaxRequests[s.use]
  /\ r.op # "DRVR_STATE"
  /\ queue' = Append(queue, c)
  /\ req' = [req EXCEPT ![c] = r]
  /\ cpc' = [cpc EXCEPT ![c] = "check"]
  /\ made' = made + 1
  /\ UNCHANGED <<s, pulses, dpc, again, scnt, nexus, last, timers>>

\* ... and the thread is told, unless it is at work.
PulseIfIdle(c) ==
  /\ cpc[c] = "check"
  /\ cpc' = [cpc EXCEPT ![c] = IF c \in Range(queue) \/ nexus = c THEN "waiting" ELSE "idle"]
  /\ pulses' = IF nexus = None THEN pulses \cup {"ENQUEUE"} ELSE pulses
  /\ UNCHANGED <<s, queue, req, dpc, again, scnt, nexus, last, made, timers>>

\* sdmmc_sim_action_devctl(): a change of the driver's state goes to the head
\* of the queue; RUN releases the queue it will run from.
sdmmc_sim_action_devctl(c, r) ==
  /\ cpc[c] = "idle" /\ made < MaxRequests[s.use]
  /\ r.op = "DRVR_STATE"
  /\ made' = made + 1
  /\ \/ /\ s.drvr = r.arg
        /\ UNCHANGED <<s, queue, req, cpc, pulses>>
     \/ /\ s.drvr # r.arg /\ r.arg = "PAUSE"
        /\ queue' = <<c>> \o queue
        /\ req' = [req EXCEPT ![c] = r]
        /\ cpc' = [cpc EXCEPT ![c] = "check"]
        /\ UNCHANGED <<s, pulses>>
     \/ /\ s.drvr # r.arg /\ r.arg = "RUN"
        /\ queue' = <<c>> \o queue
        /\ req' = [req EXCEPT ![c] = r]
        /\ cpc' = [cpc EXCEPT ![c] = "waiting"]
        /\ sdmmc_rel_simq(r.part)
  /\ UNCHANGED <<dpc, again, scnt, nexus, last, timers>>

----------------------------------------------------------------------------
\* The driver thread.

Startable == {i \in 1 .. Len(queue) : req[queue[i]].part \notin s.frozen}

\* sdmmc_start_ccb(): the next CCB; without one the loop ends.
Dequeue ==
  /\ dpc = "start"
  /\ IF Startable = {}
       THEN /\ dpc' = IF again THEN "start" ELSE "receive"
            /\ again' = FALSE /\ scnt' = 0
            /\ UNCHANGED <<queue, nexus>>
       ELSE LET i == CHOOSE i \in Startable : \A j \in Startable : i <= j
            IN /\ nexus' = queue[i]
               /\ queue' = RemoveAt(queue, i)
               /\ dpc' = "run"
               /\ UNCHANGED <<again, scnt>>
  /\ UNCHANGED <<s, req, cpc, pulses, last, made, timers>>

\* ... is run: the card is woken up first.
RunCcb ==
  /\ dpc = "run"
  /\ LET r == req[nexus]
     IN \E o \in Anyway(sdmmc_pm(s, "ACTIVE"), LAMBDA t :
                   IF r.scsi THEN sdmmc_scsi_io(t, r) ELSE sdmmc_devctl(t, r)) :
          /\ s' = o[1]
          /\ last' = [op |-> r.op, status |-> o[2]]
  /\ dpc' = "post"
  /\ UNCHANGED <<queue, req, cpc, pulses, again, scnt, nexus, made, timers>>

\* Faulty variant: the thread does not remind itself of the rest.
PostWithoutPulse ==
  /\ dpc = "post"
  /\ nexus' = None
  /\ cpc' = [cpc EXCEPT ![nexus] = IF @ = "waiting" THEN "idle" ELSE @]
  /\ scnt' = 0 /\ again' = FALSE /\ dpc' = IF again THEN "start" ELSE "receive"
  /\ UNCHANGED <<s, queue, req, pulses, last, made, timers>>

\* ... and posted; a retuning that fails resets the card.
sdmmc_post_ccb ==
  /\ dpc = "post"
  /\ nexus' = None
  /\ cpc' = [cpc EXCEPT ![nexus] = IF @ = "waiting" THEN "idle" ELSE @]
  /\ \E o \in Look(sdio_retune(s), LAMBDA t, rc :
                 IF rc = "EOK" THEN Ret(t, rc) ELSE sdmmc_reset(t)) : s' = o[1]
  /\ IF scnt + 1 < StartCcbMax
       THEN scnt' = scnt + 1 /\ dpc' = "start" /\ UNCHANGED <<pulses, again>>
       ELSE /\ scnt' = 0 /\ again' = FALSE
            /\ dpc' = IF again THEN "start" ELSE "receive"
            /\ pulses' = pulses \cup {"ENQUEUE"}
  /\ req' = [req EXCEPT ![nexus] = NoRequest]
  /\ last' = [op |-> None, status |-> None]
  /\ UNCHANGED <<queue, made, timers>>

\* sdmmc_driver_thread(): a pulse; then the queue, after SIM_ENQUEUE twice.
sdmmc_driver_thread ==
  /\ dpc = "receive"
  /\ \E p \in pulses :
       /\ pulses' = pulses \ {p}
       /\ again' = (p = "ENQUEUE")
       /\ \E o \in CASE p = "ENQUEUE" -> Ret(s, "EOK")
                     [] p = "TIMER" -> IF s.pm = "ACTIVE" THEN sdmmc_bkops(s, TRUE) ELSE Ret(s, "EOK")
                     [] p = "PM" -> sdmmc_timer(s) :
            s' = o[1]
  /\ dpc' = "start" /\ scnt' = 0
  /\ UNCHANGED <<queue, req, cpc, nexus, last, made, timers>>

----------------------------------------------------------------------------
\* What happens around it.

\* A timer fires: the simq's, which polls for background operations, or PM's.
\* A pulse that comes while a request runs is received after it; PM's is then
\* too early by the time stamp of the request, and does nothing.
TimerFires(p) ==
  /\ dpc = "receive" /\ timers < MaxTimers /\ p \notin pulses
  /\ p = "PM" => s.timer # "off"
  /\ timers' = timers + 1
  /\ pulses' = pulses \cup {p}
  /\ s' = IF p = "PM" /\ s.timer = "sleep" THEN [s EXCEPT !.timer = "off"] ELSE s
  /\ UNCHANGED <<queue, req, cpc, dpc, again, scnt, nexus, last, made>>

\* The card has more to do, or has done it; nobody looks but the thread.
CardBkops ==
  /\ dpc = "receive" /\ s.dtype = "MMC" /\ "BKOPS" \in s.caps
  /\ \/ s.bkRun /\ s' = [s EXCEPT !.bkRun = FALSE, !.cbk = 0]
     \/ ~s.bkRun /\ s.cbk = 0 /\ timers < MaxTimers
          /\ \E n \in {1, 3} : s' = [s EXCEPT !.cbk = n]
  /\ UNCHANGED <<queue, req, cpc, pulses, dpc, again, scnt, nexus, last, made, timers>>

\* The host wants to be tuned again (HC_FLAG_TUNE, set while a command runs).
NeedsTuning ==
  /\ dpc = "post" /\ ~s.tune /\ s.faults > 0
  /\ s' = [s EXCEPT !.tune = TRUE]
  /\ UNCHANGED <<queue, req, cpc, pulses, dpc, again, scnt, nexus, last, made, timers>>

Driver == Dequeue \/ RunCcb \/ sdmmc_post_ccb \/ sdmmc_driver_thread

Next ==
  \/ \E c \in Clients : \/ \E r \in Requests[s.use] : sdmmc_sim_action(c, r) \/ sdmmc_sim_action_devctl(c, r)
                        \/ PulseIfIdle(c)
  \/ Driver
  \/ TimerFires("TIMER") \/ TimerFires("PM")
  \/ CardBkops \/ NeedsTuning

Spec == Init /\ [][Next]_vars

----------------------------------------------------------------------------
\* A SYNCHRONIZE CACHE that completes leaves nothing in the card's cache
\* (sdmmc_sync(), sdmmc_cache_flush()), unless a command took effect whose
\* answer was lost: after such a one the module may take the cache to be off.
SyncIsStable ==
  last = [op |-> "SYNC", status |-> "CMP"] /\ dpc = "post" /\ "ghost" \notin s.hist
    => ~s.cached

\* Cached data that a reset throws away makes the user partition read only
\* (sdmmc_reset()): nobody goes on writing as if it were there.  A sleep never
\* costs data, because sdmmc_timer() flushes first.
\* The devctl RUN does not reset by sdmmc_reset() and may lose unmarked what the
\* queues that PAUSE does not freeze let through.
LossIsKnown == "lost" \in s.hist => User \in s.wp \/ {"ghost", "unmarked"} \cap s.hist # {}

\* A transfer goes to the partition it is for.  A failed switch is followed by
\* a reset in sdmmc_read_write() and sdmmc_rpmb_devctl(); the doubtful cases
\* are an erase or a write protection whose switch failed, and a reset by
\* sdmmc_bkops() between the switch and the transfer.
AccessHitsOwnPartition == "stray" \in s.hist => "unsure" \in s.hist

\* Reads and writes never overlap a background operation: sdmmc_bkops()
\* interrupts it first.  (In a paused driver it does nothing, though the
\* partitions that are not frozen can be written.)  A firmware download does
\* not interrupt one, and when its answer calls the next one urgent, sdmmc_rw()
\* forgets that one is in progress.
RwInterruptsBkops == "overlap" \in s.hist => {"ghost", "forgotten"} \cap s.hist # {}

\* An APDU reaches the security system selected last, whatever resets and
\* sleeps came between, unless a selection failed halfway.
ApduReachesSelected == "misdirected" \in s.hist => "doubt" \in s.hist

\* No wakeup is lost: when the driver thread goes to sleep while a CCB could be
\* started, a pulse is on its way or a client is about to look at ext->nexus.
\* Neither the unlocked look nor the bound on the loop of sdmmc_start_ccb()
\* leaves a CCB behind.
NoLostWakeup ==
  dpc = "receive" /\ Startable # {}
    => pulses # {} \/ \E c \in Clients : cpc[c] = "check" /\ nexus = None

\* What was written is safe or known to be lost, over caches, resets and power
\* states (sdmmc_sync(), sdmmc_cache_flush(), sdmmc_reset(), sdmmc_timer()).
DataIsSafe == SyncIsStable /\ LossIsKnown

\* A request acts on what it is meant for, although the partition, the
\* background operation and the security system are state of the card that
\* other requests, resets and timers change in between.
RequestFindsItsTarget == AccessHitsOwnPartition /\ RwInterruptsBkops /\ ApduReachesSelected
=============================================================================
