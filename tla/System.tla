------------------------------- MODULE System -------------------------------
(***************************************************************************)
(* The board from power-on: startup (Startup), which also sets the pins,   *)
(* starts the watchdog and asks the VideoCore, and then the tools of the   *)
(* boot script, which share that hardware with nobody to arbitrate: gpio   *)
(* commands, the users of the mailbox, wdtkick.  b.tools says which of     *)
(* them this board runs; they have no register in common.                  *)
(***************************************************************************)
EXTENDS Startup, Gpio, Watchdog

CONSTANTS
    GpioUsers,    \* processes of the gpio utility
    GpioCmds,     \* the commands they are given
    KickArgs      \* the hwinfo section and the command line of wdtkick

ASSUME CommandsAssumption == GpioCmds \subseteq Commands

VARIABLES gp, gu, want, crossed, mb, mc, wd
tools == <<gp, gu, want, crossed, mb, mc, wd>>

NoTimer ==
    [cfg |-> 0, left |-> 0, passed |-> 0, bitten |-> FALSE, kick |-> WdtInit(<<0, 0>>), args |-> << >>,
     due |-> 0, kicks |-> 0]

SysInit ==
    /\ Init
    /\ gp = FirmwarePins /\ want = FirmwarePins /\ crossed = FALSE
    /\ gu = [i \in GpioUsers |-> [at |-> "none"]]
    /\ mb = NoMail /\ mc = [x \in MboxUsers |-> Caller]
    /\ wd = NoTimer

\* main() sets the pins first, and the watchdog when it has read the options
BootMain ==
    /\ main
    /\ gp' = init_board(gp) /\ want' = AsTable(gp)
    /\ wd' = IF b.wdt = NULL THEN wd ELSE bcm2711_wdt_enable(wd, b.wdt)
    /\ UNCHANGED <<gu, crossed, mb, mc>>

\* the other steps of startup and of the kernel; a bite ends them
Boot ==
    /\ ~wd.bitten
    /\ \/ _main \/ bcm2711_init_raminfo \/ alloc_image \/ init_smp \/ map_startup
       \/ init_intrinfo \/ init_info \/ restore_image \/ begin_load \/ end_load
       \/ place_ifs2 \/ load_bootstraps \/ memory_options \/ announce_sysram
       \/ alloc_syspage_memory \/ Running
    /\ UNCHANGED tools

\* the power goes: the pins, the VideoCore and the timer start anew, too
PowerCut ==
    /\ ~wd.bitten /\ PowerCycle
    /\ gp' = FirmwarePins /\ want' = FirmwarePins /\ crossed' = FALSE
    /\ gu' = [i \in GpioUsers |-> [at |-> "none"]]
    /\ mb' = NoMail /\ mc' = [x \in MboxUsers |-> Caller]
    /\ wd' = NoTimer

\* the kernel takes over the memory of startup, and the boot script starts the tools
Handover ==
    /\ pc = "kernel" /\ Sound /\ b.tools # "none" /\ ~wd.bitten
    /\ pc' = "tools" /\ s' = Blank
    /\ UNCHANGED <<b, nv, boots, tools>>
Up(tool) == pc = "tools" /\ b.tools = tool

----------------------------------------------------------------------------
\* gpio: commands
GpioStart(i) ==
    /\ Up("gpio") /\ gu[i].at = "none"
    /\ \E f \in GpioCmds :
         /\ gu' = [gu EXCEPT ![i] = gpio_main(f)]
         /\ want' = AsAsked(want, f)
         /\ crossed' = (crossed \/ \E j \in GpioUsers : gu[j].at \notin {"none", "refused", "done", "failed"}
                                                        /\ Conflict(f, gu[j].f))
    /\ UNCHANGED <<vars, gp, mb, mc, wd>>
GpioStep(i) ==
    /\ Up("gpio") /\ gu[i].at \in {"fsel", "wfsel", "drive", "pull", "wpull"}
    /\ LET r == gpio_set(gp, gu[i]) IN gp' = r.gp /\ gu' = [gu EXCEPT ![i] = r.u]
    /\ UNCHANGED <<vars, want, crossed, mb, mc, wd>>

----------------------------------------------------------------------------
\* the mailbox
User(x, at) == Up("mbox") /\ mc[x].at = at
MailOnly == UNCHANGED <<vars, gp, gu, want, crossed, wd>>
GivesUp(x) == mc' = [mc EXCEPT ![x].at = "error", ![x].gaveup = TRUE] /\ UNCHANGED mb

mbox_fill(x) ==
    /\ Up("mbox") /\ mc[x].at \in {"idle", "ok", "error"} /\ mc[x].n < MaxMsgs
    /\ mc' = [mc EXCEPT ![x] = Fill(@)] /\ UNCHANGED mb /\ MailOnly
\* "check for space on tovc channel to send with timeout"
mbox_space(x) ==
    /\ User(x, "space")
    /\ \/ ~Full(mb.to) /\ mc' = [mc EXCEPT ![x].at = "send"] /\ UNCHANGED mb
       \/ Full(mb.to) /\ GivesUp(x)
    /\ MailOnly
\* the utility waits for room again; its count never gets anywhere
mbox_send(x) ==
    /\ User(x, "send")
    /\ mb' = Send(mb, x, mc[x])
    /\ mc' = [mc EXCEPT ![x].at = IF x \in Tools THEN "sent" ELSE "wait"]
    /\ MailOnly
mbox_sent(x) ==
    /\ User(x, "sent") /\ ~Full(mb.to)
    /\ mc' = [mc EXCEPT ![x].at = "wait"] /\ UNCHANGED mb /\ MailOnly
\* the status of the FIFO is read; the word may be gone when it is fetched
mbox_wait(x) ==
    /\ User(x, "wait")
    /\ \/ mb.from # << >> /\ mc' = [mc EXCEPT ![x].at = "read"] /\ UNCHANGED mb
       \/ mb.from = << >> /\ GivesUp(x)
    /\ MailOnly
mbox_read(x) ==
    /\ User(x, "read")
    /\ \E r \in Pop(mb) :
         /\ mb' = r.mb
         /\ mc' = [mc EXCEPT ![x] = IF r.w = "ours" THEN TakeAnswer(@) ELSE [@ EXCEPT !.at = "wait"]]
    /\ MailOnly

\* the VideoCore (external)
VcTakes == Up("mbox") /\ mb.to # << >> /\ mb.vc = << >> /\ mb' = VcTake(mb, mc) /\ UNCHANGED mc /\ MailOnly
VcAnswers ==
    /\ Up("mbox") /\ mb.vc # << >> /\ ~Full(mb.from)
    /\ \E code \in {"ok", "failed"} : mc' = VcAnswer(mb, mc, code)
    /\ mb' = [mb EXCEPT !.vc = << >>, !.from = Append(@, "ours")]
    /\ MailOnly
VcOther ==
    /\ Up("mbox") /\ mb.others < MaxOther /\ ~Full(mb.from)
    /\ mb' = [mb EXCEPT !.others = @ + 1, !.from = Append(@, "other")]
    /\ UNCHANGED mc /\ MailOnly

----------------------------------------------------------------------------
\* time goes by, in the boot and after it; wdtkick is prompt
Kicking == wd.kicks > 0
Tick ==
    /\ b.wdt # NULL /\ pc \notin {"_main", "main"} /\ ~wd.bitten
    /\ Kicking => wd.due > 0
    /\ LET left == IF wd.left > Slice THEN wd.left - Slice ELSE 0
       IN  wd' = [wd EXCEPT !.left = left, !.bitten = (left = 0 /\ wd.cfg = FullReset), !.due = IF Kicking THEN @ - 1 ELSE @,
                            !.passed = IF Kicking THEN @ ELSE @ + 1]
    /\ UNCHANGED <<vars, gp, gu, want, crossed, mb, mc>>

KickStart ==
    /\ Up("wdt") /\ wd.args = << >> /\ ~wd.bitten
    /\ \E a \in KickArgs : wd' = [wd EXCEPT !.args = <<a>>, !.kick = wdtkick(a)]
    /\ UNCHANGED <<vars, gp, gu, want, crossed, mb, mc>>
Slices(ms) == IF ms * MsToTicks <= Slice THEN 1 ELSE (ms * MsToTicks) \div Slice
Kick ==
    /\ Up("wdt") /\ wd.args # << >> /\ wd.kick.status = "ok" /\ ~wd.bitten
    /\ Kicking => wd.due = 0
    /\ wd' = [kick(wd, wd.kick) EXCEPT !.due = Slices(wd.kick.kick_time), !.kicks = 1]
    /\ UNCHANGED <<vars, gp, gu, want, crossed, mb, mc>>

\* nothing more happens on this board
Rest ==
    /\ pc \in {"kernel", "tools"} \/ ~Sound \/ wd.bitten
    /\ UNCHANGED <<vars, tools>>

SysNext ==
    \/ BootMain \/ Boot \/ PowerCut \/ Handover
    \/ \E i \in GpioUsers : GpioStart(i) \/ GpioStep(i)
    \/ \E x \in MboxUsers :
         mbox_fill(x) \/ mbox_space(x) \/ mbox_send(x) \/ mbox_sent(x) \/ mbox_wait(x) \/ mbox_read(x)
    \/ VcTakes \/ VcAnswers \/ VcOther
    \/ Tick \/ KickStart \/ Kick
    \/ Rest

SysSpec == SysInit /\ [][SysNext]_<<vars, tools>>

----------------------------------------------------------------------------
(***************************************************************************)
(* The pins are as they were asked to be, by the table of startup and by   *)
(* the commands since, whenever no command is under way: commands that run *)
(* at the same time do not disturb each other unless they have a pin or a  *)
(* register in common.                                                     *)
(***************************************************************************)
PinsAsAsked ==
    (~crossed /\ \A i \in GpioUsers : gu[i].at \in {"none", "refused", "done", "failed"}) => gp = want

(***************************************************************************)
(* A user of the mailbox that takes an answer takes the answer to its own  *)
(* message, although any user may fetch any word: the code in its buffer   *)
(* tells.  Only the utility, which goes on with the same buffer after it   *)
(* has given up a message, may take a late answer for the next one's.      *)
(***************************************************************************)
AnswerIsOwn ==
    \A x \in MboxUsers : mc[x].at = "ok" => mc[x].got = mc[x].n \/ (x \in Tools /\ mc[x].gaveup)

(***************************************************************************)
(* The watchdog bites before wdtkick has begun only when the time asked    *)
(* for has passed (it can be no more than 15.6 s), and after that never if *)
(* wdtkick accepted its arguments and they tell it to load the timer with  *)
(* more than its period.  What it writes is what it was told.              *)
(***************************************************************************)
WatchdogFed ==
    /\ (wd.bitten /\ ~Kicking) =>
         wd.passed * Slice >= (IF b.wdt * MsToTicks > MaxTicks THEN MaxTicks ELSE b.wdt * MsToTicks)
    /\ (wd.args # << >> /\ wd.kick.status = "ok") =>
         LET a == wd.args[1]
         IN  /\ Clear(a) => SubSeq(wd.kick.reg, 1, wd.kick.n) = Told(a)
             /\ (Kicking /\ wd.bitten) => ~TellsToFeed(a, Slices(wd.kick.kick_time) * Slice)
=============================================================================
