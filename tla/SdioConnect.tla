---------------------------- MODULE SdioConnect ----------------------------
(***************************************************************************)
(* The life of the SD/MMC driver's process around card detection: main()   *)
(* of the CAM module attaches (sdmmc_sim_attach, sim_sdmmc.c), which       *)
(* connects to the SDIO library (_sdio_connect, sdiodi/base.c): the card   *)
(* detection thread, the command line's controllers, their threads and     *)
(* registrations, the first look at their slots; and at the end            *)
(* sdmmc_sim_detach() takes it all down, as a failed connection does.      *)
(*                                                                         *)
(* At most one controller has a slot, the one of SdioCardDetect; the others*)
(* have a soldered device ("emmc").  This build has neither PCI nor SOC    *)
(* support (bs.h), so that controllers come from the command line only.    *)
(***************************************************************************)
EXTENDS SdioCardDetect, SequencesExt

CONSTANTS
  Cmdlines,      \* the "sdio" option sets of a command line: sequences of
                 \* sequences of options [o |-> name, a |-> argument]
  Targets        \* the bus an "sdmmc busno=" option names, 0 for none

VARIABLES
  mainpc,    \* where the driver's main thread is
  cmdline,   \* its command line
  target,    \* the bus the CAM module was given, 0 if it scans
  n,         \* the option set, controller or bus main is at
  sdioscan,  \* SDIO_CFLAG_SCAN
  hlist,     \* sdio_ctrl.hlist
  ids,       \* what sdio_ctrl holds of the card detection thread
  mutex,     \* sdio_ctrl.mutex is initialised
  registered,\* the controllers whose registers are registered with CAM
  why,       \* what sdio_dinit() or sdio_cd_dinit() is called for
  cstatus    \* what sdio_connect() returns

connv == <<mainpc, cmdline, target, n, sdioscan, hlist, ids, mutex, registered, why, cstatus>>
connVars  == <<cardv, ctl, connv>>

-----------------------------------------------------------------------------
(* Controllers and their options                                           *)

\* sdio_hc_alloc(): every feature allowed, nothing created yet.
sdio_hc_alloc ==
  [path |-> Len(hlist) + 1, caps |-> {"CD_INTR", "CD_WP", "DMA", "ACMD12", "ACMD23"},
   emb |-> FALSE, named |-> FALSE, addrs |-> 0, irqs |-> 0,
   have |-> {}, drv |-> "none", present |-> FALSE, handle |-> FALSE]

NoArgs   == {"~bmstr", "~ac12", "~ac23", "emmc", "nowp"}
WithArgs == {"priority", "hc", "vid", "did", "idx", "addr", "irq", "dma", "clk", "bw",
             "timing", "pm", "bs", "hs", "drv_type"}
\* The ones whose argument is checked; a bad number of another is ignored.
Checked  == {"priority", "vid", "did", "idx", "irq", "dma", "clk", "bw", "timing",
             "drv_type", "verbose"}

\* getsubopt() and the checks of one option: an unknown name, an argument that
\* should not be there or is missing, or a bad one.
OptionFails(o) ==
  \/ o.o \notin NoArgs \cup WithArgs \cup {"verbose"}
  \/ o.o \in NoArgs /\ o.a # "none"
  \/ o.o \in WithArgs /\ o.a = "none"
  \/ o.o \in Checked /\ o.a = "bad"

\* The capabilities that the options without an argument take away.
SetFeature ==
  {<<"~bmstr", "DMA">>, <<"~ac12", "ACMD12">>, <<"~ac23", "ACMD23">>, <<"emmc", "CD_INTR">>,
   <<"nowp", "CD_WP">>}

\* The options with one: what names a controller, its registers and its
\* interrupts; the others (clock, widths, timings, ...) decide nothing here.
SetValue(o) ==
  CASE o.o \in {"hc", "vid", "idx"}     -> "named"
    [] o.o = "addr" /\ o.a = "good"     -> "addr"
    [] o.o = "irq"                      -> "irq"
    [] OTHER                            -> "nothing"

\* sdio_options() stops at the first option that fails: the ones before it.
Accepted(opts) ==
  {i \in DOMAIN opts : \A j \in DOMAIN opts : OptionFails(opts[j]) => i < j}

Soldered(opts) == \E i \in Accepted(opts) : opts[i].o = "emmc"

\* No option undoes another.
sdio_options(hc, opts) ==
  LET good == Accepted(opts)
      Given(v) == {i \in good : SetValue(opts[i]) = v}
  IN  [hc |-> [hc EXCEPT !.caps  = {c \in @ : \A i \in good : <<opts[i].o, c>> \notin SetFeature},
                         !.emb   = Soldered(opts),
                         !.named = Given("named") # {},
                         !.addrs = Cardinality(Given("addr")),
                         !.irqs  = Cardinality(Given("irq"))],
       ok |-> good = DOMAIN opts]

\* At most one of a command line's controllers has a slot.
ASSUME CmdlineAssumption ==
  /\ Cmdlines \subseteq Seq(Seq([o : STRING, a : {"none", "good", "bad"}]))
  /\ \A c \in Cmdlines : \A i, j \in DOMAIN c : Soldered(c[i]) \/ Soldered(c[j]) \/ i = j
  /\ Targets \subseteq Nat

Slot == {i \in DOMAIN hlist : ~hlist[i].emb}
Handles == (IF device THEN {0} ELSE {}) \cup {i \in DOMAIN hlist : hlist[i].handle}

-----------------------------------------------------------------------------
(* Connecting                                                              *)

\* An empty process: the card may already be in the slot.
ConnectInit ==
  /\ card \in 0 .. 1 /\ cards = card /\ latch = FALSE
  /\ media = FALSE /\ present = FALSE /\ invalid = FALSE /\ power = FALSE
  /\ pulses = 0 /\ cdpc = "none" /\ cd = FALSE /\ flags = FALSE /\ ident = 0
  /\ device = FALSE /\ rmv = FALSE /\ usage = 0 /\ closed = FALSE
  /\ io = [t \in Io |-> "none"]
  /\ mode \in CdModes /\ lost = FALSE
  /\ chan = FALSE /\ armed = FALSE /\ enum = FALSE /\ enumerating = FALSE /\ up = FALSE
  /\ cmdline \in Cmdlines /\ target \in Targets /\ scan = (target = 0)
  /\ mainpc = "start" /\ n = 1 /\ sdioscan = FALSE /\ hlist = <<>> /\ ids = {}
  /\ mutex = FALSE /\ registered = {} /\ why = "none" /\ cstatus = "none"

\* sdio_dinit() after a failure of _sdio_connect(), which returns st.
Fail(st) == mainpc' = "dinit" /\ why' = "connect" /\ cstatus' = st

\* sdio_create_thread() returns when the thread has reported: there is none, or
\* it has made what it needs in that order, up to the first failure.
sdio_create_thread(needs) ==
  {{}} \cup {{"tid"} \cup ToSet(SubSeq(needs, 1, k)) : k \in 0 .. Len(needs)}

\* What sdio_cd_thread() needs.
CdNeeds == <<"chid", "coid", "timer">>

\* sdmmc_sim_attach(): from here on the callbacks do nothing.
SimStart ==
  /\ mainpc = "start"
  /\ mainpc' = "init" /\ enumerating' = TRUE
  /\ UNCHANGED <<cardv, chan, armed, enum, scan, up, cmdline, target, n, sdioscan, hlist,
                 ids, mutex, registered, why, cstatus>>

\* sdio_init(): the mutex and the card detection thread.
SdioInit ==
  /\ mainpc = "init"
  /\ mutex' = TRUE
  /\ \E got \in sdio_create_thread(CdNeeds) :
       LET ok == ToSet(CdNeeds) \subseteq got IN
       /\ ids' = got /\ chan' = ("chid" \in got)
       /\ cdpc' = IF ok THEN "receive" ELSE IF got = {} THEN "none" ELSE "ended"
       /\ IF ok THEN mainpc' = "args" /\ UNCHANGED <<why, cstatus>> ELSE Fail("EIO")
  /\ UNCHANGED <<slotv, flagv, pulses, cd, flags, ident, handle, io, hist, armed, enum,
                 enumerating, scan, up, cmdline, target, n, sdioscan, hlist, registered>>

\* Faulty variant: bad options end the connection without sdio_dinit().
ParseArgsLeaks ==
  /\ mainpc = "args" /\ n <= Len(cmdline)
  /\ IF sdioscan
       THEN UNCHANGED <<mainpc, why, cstatus, hlist, sdioscan>>
       ELSE LET r == sdio_options(sdio_hc_alloc, cmdline[n])
            IN  /\ hlist' = Append(hlist, r.hc)
                /\ sdioscan' = ~r.hc.named
                /\ cstatus' = IF r.ok THEN cstatus ELSE "EINVAL"
                /\ mainpc' = IF r.ok THEN mainpc ELSE "ended"
                /\ UNCHANGED why
  /\ n' = n + 1
  /\ UNCHANGED <<cardv, ctl, cmdline, target, ids, mutex, registered>>

\* One "sdio" option set.  A set that names no controller makes the library
\* scan, and every set after it is ignored.
ParseArgs ==
  /\ mainpc = "args" /\ n <= Len(cmdline)
  /\ \/ /\ sdioscan
        /\ UNCHANGED <<mainpc, why, cstatus, hlist, sdioscan>>
     \/ /\ ~sdioscan                                 \* calloc() fails
        /\ Fail("ENOMEM") /\ UNCHANGED <<hlist, sdioscan>>
     \/ /\ ~sdioscan
        /\ LET r == sdio_options(sdio_hc_alloc, cmdline[n])
           IN  /\ hlist' = Append(hlist, r.hc)
               /\ sdioscan' = ~r.hc.named
               /\ IF r.ok THEN UNCHANGED <<mainpc, why, cstatus>> ELSE Fail("EINVAL")
  /\ n' = n + 1
  /\ UNCHANGED <<cardv, ctl, cmdline, target, ids, mutex, registered>>

\* With neither PCI nor SOC support there is nothing to scan for; controllers
\* that were named are not found, and the connection is taken down again, but
\* status is still that of the options: EOK.
FindControllers ==
  /\ mainpc = "args" /\ n > Len(cmdline)
  /\ IF hlist = <<>> \/ sdioscan
       THEN mainpc' = "hosts" /\ UNCHANGED <<why, cstatus>>
       ELSE Fail("EOK")
  /\ n' = 1
  /\ UNCHANGED <<cardv, ctl, cmdline, target, sdioscan, hlist, ids, mutex, registered>>

\* The chipset's init: bcm2711_bs_init() and sdhci_init() refuse a controller
\* without registers; a later failure has freed the handle already, and leaves
\* the pointer to it.
ChipsetInit(hc) ==
  {[hc EXCEPT !.drv = "none"], [hc EXCEPT !.drv = "stale"]}
    \cup (IF hc.addrs = 0 THEN {} ELSE {[hc EXCEPT !.drv = "held"]})

\* What sdio_hc_thread() needs.
HcNeeds == <<"chid", "coid">>

\* sdio_hc_init(): the controller's thread is created and waited for, and the
\* chipset (always found) is initialised.
HcInit(hc) ==
  LET full == {"tid"} \cup ToSet(HcNeeds)
  IN  {[hc EXCEPT !.have = got] : got \in sdio_create_thread(HcNeeds) \ {full}}
        \cup ChipsetInit([hc EXCEPT !.have = full])

\* sdio_xpt_device_notify() of a controller's registers.
sdio_xpt_device_notify(hc, op) ==
  registered' = IF op /\ hc.addrs > 0 THEN registered \cup {hc.path}
                                       ELSE registered \ {hc.path}

\* The board keeps card detect interrupts off for a slot, and the "emmc" option
\* for a soldered device; another board's controller may have them.
CdIntr(hc) == "CD_INTR" \in hc.caps /\ mode = "intr"

\* The next controller: it is initialised, and looked at by the card detection
\* thread if it interrupts for cards, else at once.
InitHost ==
  /\ mainpc = "hosts" /\ n <= Len(hlist)
  /\ sdio_xpt_device_notify(hlist[n], TRUE)
  /\ \E hc \in HcInit(hlist[n]) :
       LET ok == hc.drv = "held" IN
       IF ~ok
         THEN /\ hlist' = [hlist EXCEPT ![n] = hc] /\ Fail("EIO")
              /\ UNCHANGED <<pulses, cdpc, up, n>>
         ELSE /\ up' = (up \/ ~hc.emb)
              /\ pulses' = IF CdIntr(hc) THEN pulses + 1 ELSE pulses
              /\ IF ~hc.emb /\ ~CdIntr(hc)
                   THEN mainpc' = "cd" /\ cdpc' = "detect" /\ hlist' = [hlist EXCEPT ![n] = hc]
                   ELSE /\ \E p \in IF hc.emb THEN BOOLEAN ELSE {FALSE} :
                             hlist' = [hlist EXCEPT ![n] = [hc EXCEPT !.present = p]]
                        /\ UNCHANGED <<mainpc, cdpc>>
              /\ n' = IF ~hc.emb /\ ~CdIntr(hc) THEN n ELSE n + 1
              /\ UNCHANGED <<why, cstatus>>
  /\ UNCHANGED <<slotv, flagv, cd, flags, ident, handle, io, hist, chan, armed, enum,
                 enumerating, scan, cmdline, target, sdioscan, ids, mutex>>

\* sdio_cd() of the slot has returned to _sdio_connect().
FirstLook ==
  /\ mainpc = "cd" /\ cdpc = "receive"
  /\ mainpc' = "hosts" /\ n' = n + 1
  /\ UNCHANGED <<cardv, ctl, cmdline, target, sdioscan, hlist, ids, mutex, registered,
                 why, cstatus>>

\* The timer is started for a slot that is polled; without any controller the
\* connection fails, and is not taken down.
Connected ==
  /\ mainpc = "hosts" /\ n > Len(hlist)
  /\ armed' = \E i \in Slot : ~CdIntr(hlist[i])
  /\ cstatus' = IF hlist = <<>> THEN "ENODEV" ELSE "EOK"
  /\ mainpc' = IF hlist = <<>> THEN "ended" ELSE "attach"
  /\ n' = 1
  /\ UNCHANGED <<cardv, chan, enum, enumerating, scan, up, cmdline, target, sdioscan,
                 hlist, ids, mutex, registered, why>>

-----------------------------------------------------------------------------
(* Attaching and detaching                                                 *)

\* sdmmc_attach() of bus n: a handle for a present card.  The mutex that
\* sdio_attach() locks is gone when FindControllers has failed: abort().
SimAttach ==
  /\ mainpc = "attach"
  /\ IF ~mutex
       THEN mainpc' = "abort" /\ UNCHANGED <<n, handle, io, hlist>>
       ELSE /\ n <= Len(hlist) /\ n' = n + 1 /\ UNCHANGED mainpc
            /\ IF target \notin {0, hlist[n].path}
                 THEN UNCHANGED <<handle, io, hlist>>
                 ELSE IF hlist[n].emb
                 THEN /\ hlist' = [hlist EXCEPT ![n].handle = hlist[n].present]
                      /\ UNCHANGED <<handle, io>>
                 ELSE AttachSlot /\ UNCHANGED hlist
  /\ UNCHANGED <<slotv, flagv, pulses, cdv, hist, ctl, cmdline, target, sdioscan, ids,
                 mutex, registered, why, cstatus>>

\* The buses are done: the callbacks act, and sdio_enum() lets the card
\* detection thread go.
Attached ==
  /\ mainpc = "attach" /\ mutex /\ n > Len(hlist)
  /\ mainpc' = "run" /\ enumerating' = FALSE /\ enum' = TRUE
  /\ UNCHANGED <<cardv, chan, armed, scan, up, cmdline, target, n, sdioscan, hlist, ids,
                 mutex, registered, why, cstatus>>

\* sdmmc_sim_detach(), when the driver terminates, and _sdio_disconnect().
SimDetach ==
  /\ mainpc = "run"
  /\ mainpc' = "dinit" /\ why' = "disconnect" /\ enumerating' = TRUE
  /\ UNCHANGED <<cardv, chan, armed, enum, scan, up, cmdline, target, n, sdioscan, hlist,
                 ids, mutex, registered, cstatus>>

\* Faulty variant: the channel is not destroyed.
CdDinitKeepsChannel ==
  /\ mainpc = "dinit"
  /\ armed' = (armed /\ "timer" \notin ids)
  /\ mainpc' = "join"
  /\ UNCHANGED <<slotv, flagv, pulses, cdv, handle, io, hist, chan, enum, enumerating, scan,
                 up, cmdline, target, n, sdioscan, hlist, ids, mutex, registered, why, cstatus>>

\* sdio_cd_dinit(): the timer, the connection and the channel go, ...
CdDinit ==
  /\ mainpc = "dinit"
  /\ armed' = (armed /\ "timer" \notin ids)
  /\ chan' = (chan /\ "chid" \notin ids)
  /\ pulses' = IF chan' THEN pulses ELSE 0
  /\ mainpc' = "join"
  /\ UNCHANGED <<slotv, flagv, cdv, handle, io, hist, enum, enumerating, scan, up, cmdline,
                 target, n, sdioscan, hlist, ids, mutex, registered, why, cstatus>>

\* Where _sdio_disconnect() or sdio_dinit() goes on after sdio_cd_dinit(): a
\* handle in dlist makes the disconnection EBUSY, and sdmmc_sim_detach() then
\* detaches what it has and tries again.
AfterCdDinit ==
  CASE why \in {"connect", "close"}            -> mainpc' = "free" /\ UNCHANGED why
    [] why = "disconnect" /\ Handles # {}      -> mainpc' = "unplug" /\ UNCHANGED why
    [] why = "again" /\ Handles # {}           -> mainpc' = "ended" /\ UNCHANGED why
    [] OTHER                                   -> mainpc' = "dinit" /\ why' = "close"

\* ... and the thread is waited for.
CdJoin ==
  /\ mainpc = "join"
  /\ "tid" \in ids => cdpc = "ended"
  /\ cdpc' = IF "tid" \in ids THEN "none" ELSE cdpc
  /\ ids' = {} /\ n' = 1
  /\ AfterCdDinit
  /\ UNCHANGED <<slotv, flagv, pulses, cd, flags, ident, handle, io, hist, ctl, cmdline,
                 target, sdioscan, hlist, mutex, registered, cstatus>>

\* sdmmc_detach() of the slot's bus, as in the removal callback: its channel,
\* its thread, its handle, whose EBUSY is ignored; that of a soldered device.
Unplug ==
  /\ mainpc = "unplug" /\ n <= Len(hlist)
  /\ \/ /\ hlist[n].emb
        /\ hlist' = [hlist EXCEPT ![n].handle = FALSE]
        /\ n' = n + 1 /\ UNCHANGED <<handle, io>>
     \/ /\ ~hlist[n].emb /\ device /\ ~closed
        /\ closed' = TRUE
        /\ UNCHANGED <<n, hlist, device, rmv, usage, io>>
     \/ /\ ~hlist[n].emb /\ device /\ closed /\ io[Driver] = "none"
        /\ IF usage = 0
             THEN /\ device' = FALSE /\ rmv' = FALSE /\ closed' = FALSE
                  /\ io' = [t \in Io |-> IF io[t] = "ready" THEN "none" ELSE io[t]]
             ELSE UNCHANGED <<device, rmv, closed, io>>
        /\ n' = n + 1 /\ UNCHANGED <<hlist, usage>>
     \/ /\ ~hlist[n].emb /\ ~device
        /\ n' = n + 1 /\ UNCHANGED <<hlist, handle, io>>
  /\ UNCHANGED <<slotv, flagv, pulses, cdv, hist, ctl, mainpc, cmdline, target, sdioscan,
                 ids, mutex, registered, why, cstatus>>

Disconnect ==
  /\ mainpc = "unplug" /\ n > Len(hlist)
  /\ mainpc' = "dinit" /\ why' = "again"
  /\ UNCHANGED <<cardv, ctl, cmdline, target, n, sdioscan, hlist, ids, mutex, registered,
                 cstatus>>

\* sdhci_dinit() of a handle that was freed before is undefined: it may abort.
sdhci_dinit(hc) == IF hc.drv = "stale" THEN {"free", "abort"} ELSE {"free"}

\* sdio_hc_free()
sdio_hc_free == hlist' = Tail(hlist)

\* sdio_hc_dinit() of the first controller: interrupt and power go, its thread
\* is joined, and its registers are deregistered.
FreeHost ==
  /\ mainpc = "free" /\ hlist # <<>>
  /\ LET hc == Head(hlist)
     IN  /\ mainpc' \in sdhci_dinit(hc)
         /\ sdio_xpt_device_notify(hc, FALSE)
         /\ up' = (up /\ hc.emb)
         /\ power' = (power /\ hc.emb)
  /\ sdio_hc_free
  /\ UNCHANGED <<slotv, media, present, invalid, pulses, cdv, handle, io, hist, chan, armed,
                 enum, enumerating, scan, cmdline, target, n, sdioscan, ids, mutex, why, cstatus>>

\* The end of sdio_dinit(); sdmmc_sim_attach() goes on if the status is EOK.
Freed ==
  /\ mainpc = "free" /\ hlist = <<>>
  /\ mutex' = FALSE
  /\ mainpc' = IF why = "connect" /\ cstatus = "EOK" THEN "attach" ELSE "ended"
  /\ UNCHANGED <<cardv, ctl, cmdline, target, n, sdioscan, hlist, ids, registered, why,
                 cstatus>>

-----------------------------------------------------------------------------
MainThread ==
  \/ SimStart \/ SdioInit \/ ParseArgs \/ FindControllers \/ InitHost \/ FirstLook \/ Connected
  \/ SimAttach \/ Attached \/ CdDinit \/ CdJoin \/ Unplug \/ Disconnect \/ FreeHost \/ Freed

\* A step of the other threads or of the user, while the process lives.
Beside(Step) == mainpc # "abort" /\ Step /\ UNCHANGED connv

ConnectNext == MainThread \/ SimDetach \/ Beside(CardNext)

\* The threads run on, requests end (SdioCmd's SendReturns), the interrupt is
\* delivered and the timer is periodic; the driver thread comes back to its
\* channel between requests (start_ccb_max).  Termination is never demanded.
ConnectFairness ==
  /\ WF_connVars(MainThread) /\ WF_connVars(Beside(CdThread))
  /\ WF_connVars(Beside(CdEvent)) /\ WF_connVars(Beside(Timer))
  /\ SF_connVars(Beside(DriverExit))
  /\ \A t \in Io : WF_connVars(Beside(Leave(t)))

ConnectSpec == ConnectInit /\ [][ConnectNext]_connVars /\ ConnectFairness

-----------------------------------------------------------------------------
(* Properties                                                              *)

InSdioCd == cdpc \notin {"none", "ended", "receive", "enum"}

\* A controller outlives whoever uses it: while sdio_cd() works on the slot, in
\* either thread, and while a handle to it exists, it is in the list and
\* initialised, whatever failed or ended in the meantime (sdio_dinit,
\* sdio_cd_dinit, the SDMMC_CFLAG_ENUMERATING checks of the callbacks); and the
\* mutex of the library exists while a thread may lock it.
HostOutlivesUsers == InSdioCd \/ device => up /\ Slot # {} /\ mutex

\* When the driver has given up connecting, or has detached, nothing is left: no
\* thread, channel, timer, registration, controller or handle.  Except for a
\* connection without any controller, which keeps its card detection thread,
\* and a handle in use by another thread when its bus was detached
\* (_sdio_connect, sdio_dinit, _sdio_disconnect, sdmmc_sim_detach).
NothingLeft ==
  mainpc = "ended" =>
    \/ cstatus = "ENODEV" /\ hlist = <<>>
    \/ device /\ why = "again" /\ cdpc = "none"
    \/ /\ ids = {} /\ ~chan /\ ~armed /\ cdpc = "none" /\ ~mutex
       /\ hlist = <<>> /\ registered = {} /\ ~up /\ Handles = {}

\* One handle per card while the driver runs: between two calls of sdio_cd() a
\* handle belongs to a present, powered card, and a driver that scans has one
\* for every such card, the one found at start included; an insertion finds
\* the handle of the last card gone (sdio_cd, sdmmc_sim_attach, the callbacks).
OneHandlePerCard ==
  mainpc = "run" =>
    /\ cdpc \in {"ident", "flags", "present", "callback"} => ~device
    /\ cdpc \in {"receive", "enum"} =>
         (device => present) /\ (present => power /\ (scan => device))

\* Handles are sound: alive and counted under every request, one per card, and
\* never without their controller.
HandlesSound == IoHasDevice /\ OneHandlePerCard /\ HostOutlivesUsers

\* When the user leaves the slot alone (after MaxCards cards), a driver that
\* keeps running ends up with a present card exactly if there is one that it
\* has not given up as invalid, unless a command has cleared the interrupt that
\* told of the change (sdio_cd_thread, sdio_hc_event, sdhci_cmd).
PresenceSettles ==
  <>[](mainpc # "run" \/ ~up \/ lost \/ present = (card # 0 /\ ~invalid))

\* A connection comes to its end: it runs, or has ended, unless main waits for
\* the card detection thread while that waits for sdio_enum(), which only main
\* would call (sdio_cd_enum, sdio_cd_dinit).
ConnectionSettles ==
  <>[](mainpc \in {"run", "ended", "abort"} \/ (mainpc = "join" /\ cdpc = "enum" /\ ~enum))

-----------------------------------------------------------------------------
(* The command lines of the run                                            *)

Opt(o) == [o |-> o, a |-> "good"]
Bare(o) == [o |-> o, a |-> "none"]

\* images/rpi4.build: sdio addr=0xfe340000,irq=158
Slot1 == <<Opt("addr"), Opt("irq")>>
Emmc  == <<Bare("emmc"), Opt("addr"), Opt("irq")>>

MCCmdlines ==
  { <<>>,                                            \* no "sdio" at all
    <<Slot1>>,
    <<Slot1, Emmc>>,                                 \* the second is ignored
    <<<<Opt("idx")>> \o Slot1, Emmc>>,               \* both are taken
    <<<<Opt("idx")>> \o Emmc, Slot1>>,
    <<<<Opt("hc")>> \o Slot1>>,                      \* named, and not found
    <<<<Bare("~bmstr"), Bare("~ac12"), Bare("~ac23"), Bare("nowp"), Opt("irq")>>>>,
    <<Slot1 \o <<[o |-> "clk", a |-> "bad"]>>>> }    \* EINVAL
=============================================================================
