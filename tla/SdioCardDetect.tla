--------------------------- MODULE SdioCardDetect ---------------------------
(***************************************************************************)
(* Insertion and removal of a card, from the slot to the block driver:     *)
(* sdio_hc_event() and the card detection thread (sdiodi/base.c), the use  *)
(* count that keeps a handle alive while I/O is under way (sdiodi/card.c), *)
(* and the callbacks of the CAM module that create and tear down its       *)
(* driver thread and its handle (sim_sdmmc.c).                             *)
(*                                                                         *)
(* One host controller.  The card detection thread, the I/O threads that   *)
(* use the handle, the controller's event thread and the user who plugs    *)
(* cards run side by side; every section under sdio_ctrl.mutex is one step.*)
(* SdioConnect brings the controller up and down around this module.       *)
(***************************************************************************)
EXTENDS Naturals, FiniteSets

CONSTANTS
  Io,            \* the threads that use the handle
  Driver,        \* the one of them the removal callback waits for
  MaxCards,      \* bound: cards that are inserted
  CdModes        \* "intr": HC_CAP_CD_INTR, card detect interrupts and no
                 \* polling; "poll": the timer

ASSUME CardAssumption ==
  /\ IsFiniteSet(Io) /\ Driver \in Io /\ MaxCards \in Nat
  /\ CdModes \subseteq {"intr", "poll"}

VARIABLES
  mode,      \* how this controller detects cards
  card,      \* the card in the slot, 0 when it is empty
  cards,     \* cards inserted so far
  latch,     \* CINS / CREM in SDHCI_IS
  media,     \* DEV_FLAG_MEDIA_CHANGE
  present,   \* DEV_FLAG_PRESENT
  invalid,   \* DEV_FLAG_INVALID_CARD
  power,     \* the card is powered
  pulses,    \* SDIO_EV_CD and SDIO_EV_TIMER pulses queued
  cdpc,      \* where the card detection thread is
  cd,        \* the state hce->cd() returned to it
  flags,     \* the copy of media in "dev->flags |= DEV_FLAG_PRESENT"
  ident,     \* the card _sdio_attach() identified last
  device,    \* the handle is in sdio_ctrl.dlist
  rmv,       \* DEV_FLAG_RMV_PENDING
  usage,     \* device->usage
  closed,    \* the channel of the driver thread is destroyed
  io,        \* where each I/O thread is
  lost,      \* history: a command has cleared a card detect bit
  chan,      \* the channel of the card detection thread exists
  armed,     \* the polling timer runs
  enum,      \* sdio_ctrl.cd_enum: change detection is enabled
  enumerating, \* SDMMC_CFLAG_ENUMERATING: the callbacks do nothing
  scan,      \* SDMMC_CFLAG_SCAN: the CAM module takes what is inserted
  up         \* the controller is initialised and its interrupt attached

slotv  == <<card, cards, latch>>
flagv  == <<media, present, invalid, power>>
cdv    == <<cdpc, cd, flags, ident>>
handle == <<device, rmv, usage, closed>>
hist   == <<mode, lost>>
ctl    == <<chan, armed, enum, enumerating, scan, up>>
cardv  == <<slotv, flagv, pulses, cdv, handle, io, hist>>

-----------------------------------------------------------------------------
\* A card is plugged in or pulled out.
PlugIn ==
  /\ card = 0 /\ cards < MaxCards
  /\ cards' = cards + 1 /\ card' = cards + 1
  /\ latch' = (mode = "intr")
  /\ UNCHANGED <<flagv, pulses, cdv, handle, io, hist, ctl>>

PullOut ==
  /\ card # 0
  /\ card' = 0
  /\ latch' = (mode = "intr")
  /\ UNCHANGED <<cards, flagv, pulses, cdv, handle, io, hist, ctl>>

\* sdhci_intr_event() and sdio_hc_event(HC_EV_CD)
CdEvent ==
  /\ latch /\ up
  /\ latch' = FALSE
  /\ media' = TRUE
  /\ pulses' = IF chan THEN pulses + 1 ELSE pulses
  /\ UNCHANGED <<card, cards, present, invalid, power, cdv, handle, io, hist, ctl>>

\* The polling timer; one expiry is enough to have in the queue.
Timer ==
  /\ armed /\ chan /\ pulses = 0
  /\ pulses' = 1
  /\ UNCHANGED <<slotv, flagv, cdv, handle, io, hist, ctl>>

-----------------------------------------------------------------------------
\* The card detection thread receives a pulse, ...
Receive ==
  /\ cdpc = "receive" /\ chan /\ pulses > 0
  /\ pulses' = pulses - 1
  /\ cdpc' = "enum"
  /\ UNCHANGED <<slotv, flagv, cd, flags, ident, handle, io, hist, ctl>>

\* ... waits until change detection is enabled, and calls sdio_cd().
CdEnum ==
  /\ cdpc = "enum" /\ enum
  /\ cdpc' = "detect"
  /\ UNCHANGED <<slotv, flagv, pulses, cd, flags, ident, handle, io, hist, ctl>>

\* MsgReceivePulse() fails once the channel is destroyed.
CdEnd ==
  /\ cdpc = "receive" /\ ~chan
  /\ cdpc' = "ended"
  /\ UNCHANGED <<slotv, flagv, pulses, cd, flags, ident, handle, io, hist, ctl>>

\* Faulty variant: only a media change event ends the present card.
DetectMediaOnly ==
  /\ cdpc = "detect"
  /\ cd' = (card # 0)
  /\ IF media
       THEN /\ media' = FALSE /\ invalid' = FALSE /\ present' = FALSE
            /\ cdpc' = IF present THEN "mark" ELSE "insert"
       ELSE cdpc' = "insert" /\ UNCHANGED <<media, invalid, present>>
  /\ UNCHANGED <<slotv, power, pulses, flags, ident, handle, io, hist, ctl>>

\* hce->cd() reads the slot; a change or an empty slot ends the present card.
Detect ==
  /\ cdpc = "detect"
  /\ cd' = (card # 0)
  /\ IF media \/ card = 0
       THEN /\ media' = FALSE /\ invalid' = FALSE /\ present' = FALSE
            /\ cdpc' = IF present THEN "mark" ELSE "insert"
       ELSE cdpc' = "insert" /\ UNCHANGED <<media, invalid, present>>
  /\ UNCHANGED <<slotv, power, pulses, flags, ident, handle, io, hist, ctl>>

\* Faulty variant: the users of the handle are not waited for.
MarkAtOnce ==
  /\ cdpc = "mark"
  /\ rmv' = (rmv \/ device)
  /\ cdpc' = IF device THEN "close" ELSE "insert"
  /\ power' = IF ~device /\ ~cd THEN FALSE ELSE power
  /\ UNCHANGED <<slotv, media, present, invalid, pulses, cd, flags, ident, device,
                 usage, closed, io, hist, ctl>>

\* Under the mutex: the handle is marked, and the thread waits on cd_cond
\* while it is in use.
Mark ==
  /\ cdpc = "mark"
  /\ rmv' = (rmv \/ device)
  /\ cdpc' = IF ~device THEN "insert" ELSE IF usage # 0 THEN "sleep" ELSE "close"
  /\ power' = IF ~device /\ ~cd THEN FALSE ELSE power
  /\ UNCHANGED <<slotv, media, present, invalid, pulses, cd, flags, ident, device,
                 usage, closed, io, hist, ctl>>

\* funcs->removal() leaves the handle alone while the driver enumerates; else
\* sdmmc_detach() destroys the driver's channel, ...
Close ==
  /\ cdpc = "close"
  /\ IF enumerating
       THEN cdpc' = "insert" /\ power' = (cd /\ power) /\ UNCHANGED closed
       ELSE cdpc' = "join" /\ closed' = TRUE /\ UNCHANGED power
  /\ UNCHANGED <<slotv, media, present, invalid, pulses, cd, flags, ident, device, rmv,
                 usage, io, hist, ctl>>

\* ... waits for the driver thread to end ...
Join ==
  /\ cdpc = "join" /\ io[Driver] = "none"
  /\ cdpc' = "free"
  /\ UNCHANGED <<slotv, flagv, pulses, cd, flags, ident, handle, io, hist, ctl>>

\* ... and sdio_detach() frees the handle, unless it is in use; the slot is
\* powered off if it was seen empty.
Detach ==
  /\ cdpc = "free"
  /\ IF usage = 0
       THEN /\ device' = FALSE /\ rmv' = FALSE /\ closed' = FALSE
            /\ io' = [t \in Io |-> IF io[t] = "ready" THEN "none" ELSE io[t]]
       ELSE UNCHANGED <<device, rmv, closed, io>>
  /\ power' = IF cd THEN power ELSE FALSE
  /\ cdpc' = "insert"
  /\ UNCHANGED <<slotv, media, present, invalid, pulses, cd, flags, ident, usage, hist, ctl>>

\* A card that is neither in use nor known to be invalid is attached, if
\* hce->cd() saw one.
InsertCard ==
  /\ cdpc = "insert"
  /\ cdpc' = IF cd /\ ~present /\ ~invalid THEN "ident" ELSE "receive"
  /\ UNCHANGED <<slotv, flagv, pulses, cd, flags, ident, handle, io, hist, ctl>>

\* _sdio_attach() clears the whole sdio_dev_t, flags included, powers the
\* card up and identifies it; it fails if the card is gone by now, and then
\* sdio_cd() calls it invalid.
Ident ==
  /\ cdpc = "ident"
  /\ media' = FALSE /\ present' = FALSE
  /\ IF card # 0
       THEN ident' = card /\ power' = TRUE /\ invalid' = FALSE /\ cdpc' = "flags"
       ELSE power' = FALSE /\ invalid' = TRUE /\ cdpc' = "receive" /\ UNCHANGED ident
  /\ UNCHANGED <<slotv, pulses, cd, flags, handle, io, hist, ctl>>

\* dev->flags |= DEV_FLAG_PRESENT is a read ...
ReadFlags ==
  /\ cdpc = "flags"
  /\ flags' = media
  /\ cdpc' = "present"
  /\ UNCHANGED <<slotv, flagv, pulses, cd, ident, handle, io, hist, ctl>>

\* ... and a write.
SetPresent ==
  /\ cdpc = "present"
  /\ media' = flags /\ present' = TRUE
  /\ cdpc' = "callback"
  /\ UNCHANGED <<slotv, invalid, power, pulses, cd, flags, ident, handle, io, hist, ctl>>

\* sdio_attach() makes a handle for a present card, and sdmmc_reg() starts the
\* driver thread.
AttachSlot ==
  IF present
    THEN /\ device' = TRUE /\ rmv' = FALSE /\ usage' = 0 /\ closed' = FALSE
         /\ io' = [t \in Io |-> "ready"]
    ELSE UNCHANGED <<handle, io>>

\* Faulty variant: the callback attaches while the driver enumerates.
InsertionUnchecked ==
  /\ cdpc = "callback"
  /\ IF scan THEN AttachSlot ELSE UNCHANGED <<handle, io>>
  /\ cdpc' = "receive"
  /\ UNCHANGED <<slotv, flagv, pulses, cd, flags, ident, hist, ctl>>

\* funcs->insertion() does nothing for a driver that was given its buses, nor
\* while it enumerates.
InsertionCallback ==
  /\ cdpc = "callback"
  /\ IF scan /\ ~enumerating THEN AttachSlot ELSE UNCHANGED <<handle, io>>
  /\ cdpc' = "receive"
  /\ UNCHANGED <<slotv, flagv, pulses, cd, flags, ident, hist, ctl>>

-----------------------------------------------------------------------------
\* Faulty variant: the request is not counted.
EnterUncounted(t) ==
  /\ io[t] = "ready" /\ device
  /\ ~rmv /\ ~media
  /\ io' = [io EXCEPT ![t] = "busy"]
  /\ UNCHANGED <<slotv, flagv, pulses, cdv, handle, hist, ctl>>

\* _sdio_synchronize(device, 1, 1) lets a request in, unless the handle is
\* marked or the media has changed (ENXIO).
Enter(t) ==
  /\ io[t] = "ready" /\ device
  /\ ~rmv /\ ~media
  /\ usage' = usage + 1
  /\ io' = [io EXCEPT ![t] = "busy"]
  /\ UNCHANGED <<slotv, flagv, pulses, cdv, device, rmv, closed, hist, ctl>>

\* A command of the request: sdhci_cmd() clears the status register, and
\* SDHCI_INTR_CLR_MSK includes the card detect bits.
Command(t) ==
  /\ io[t] = "busy" /\ latch
  /\ latch' = FALSE /\ lost' = TRUE
  /\ UNCHANGED <<card, cards, flagv, pulses, cdv, handle, io, mode, ctl>>

\* _sdio_synchronize(device, 1, -1): the last one out of a marked handle
\* signals cd_cond.
Leave(t) ==
  /\ io[t] = "busy"
  /\ usage' = usage - 1
  /\ io' = [io EXCEPT ![t] = "ready"]
  /\ cdpc' = IF cdpc = "sleep" /\ usage = 1 /\ rmv THEN "close" ELSE cdpc
  /\ UNCHANGED <<slotv, flagv, pulses, cd, flags, ident, device, rmv, closed, hist, ctl>>

\* The driver thread ends when its channel is gone.
DriverExit ==
  /\ closed /\ io[Driver] = "ready"
  /\ io' = [io EXCEPT ![Driver] = "none"]
  /\ UNCHANGED <<slotv, flagv, pulses, cdv, handle, hist, ctl>>

-----------------------------------------------------------------------------
\* The body of sdio_cd(), in the card detection thread or in sdio_connect().
SdioCd ==
  \/ Detect \/ Mark \/ Close \/ Join \/ Detach \/ InsertCard
  \/ Ident \/ ReadFlags \/ SetPresent \/ InsertionCallback

CdThread == Receive \/ CdEnum \/ CdEnd \/ SdioCd

CardNext ==
  \/ PlugIn \/ PullOut \/ CdEvent \/ Timer \/ CdThread \/ DriverExit
  \/ \E t \in Io : Enter(t) \/ Command(t) \/ Leave(t)

-----------------------------------------------------------------------------
(* Properties                                                              *)

\* A request that was let in has a live handle, and is counted in its usage,
\* until it is out: the removal callback and sdio_detach() never free it under
\* an I/O thread, whether the driver's own or another one (sdio_cd,
\* _sdio_synchronize, sdio_detach).
IoHasDevice ==
  /\ \A t \in Io : io[t] = "busy" => device
  /\ device => usage = Cardinality({t \in Io : io[t] = "busy"})
=============================================================================
