------------------------------- MODULE SdioCmd -------------------------------
(***************************************************************************)
(* How the SD/MMC driver sends one command: _sdio_send_cmd() with its      *)
(* prefix commands and retries, the command slot hc->wspc.cmd and the wait *)
(* with a timeout (sdiodi/base.c), the SDHCI host controller's command and *)
(* interrupt code (sdiodi/hc/sdhci.c), and the recycling of command        *)
(* objects (sdiodi/card.c).                                                *)
(*                                                                         *)
(* Three actors: the client thread that sends, the host controller's event *)
(* thread, and the controller with the card.  The sections under hc->mutex *)
(* are single steps; what happens outside of them is not.  A command is    *)
(* its flags; arguments, responses and data are left out.                  *)
(***************************************************************************)
EXTENDS Naturals, Sequences

CONSTANTS
  Kinds,          \* the flags of the commands the client sends
  HcCaps,         \* HC_CAP_ACMD12 / HC_CAP_ACMD23 of the host controller
  MaxRetries,     \* bound: retries asked of _sdio_send_cmd()
  MaxPolls,       \* bound: status polls until the card is ready
  IdMod,          \* bound: issues are told apart by an id that wraps
  LateAnswers,    \* the timeout may expire before a slow answer comes
  Removal         \* the card may be removed

Flags == [data : BOOLEAN, app : BOOLEAN, sbc : BOOLEAN, rlw : BOOLEAN, drdy : BOOLEAN]

ASSUME CmdAssumption ==
  /\ Kinds \subseteq Flags /\ HcCaps \subseteq {"ACMD12", "ACMD23"}
  /\ MaxRetries \in Nat /\ MaxPolls \in Nat \ {0} /\ IdMod \in Nat \ {0}
  /\ {LateAnswers, Removal} \subseteq BOOLEAN

\* At most two commands are in use at a time: the client's and a prefix.
Cmds == 1 .. 2

None == 0

VARIABLES
  pc,         \* where the client is in _sdio_send_cmd()
  kind,       \* flags of the client's command
  main,       \* the client's command
  todo,       \* what is still to be issued in this attempt
  cur,        \* the command being issued
  retries,    \* retries left
  saved,      \* acmd_caps
  caps,       \* the ACMD12 / ACMD23 bits of hc->caps
  tune,       \* HC_FLAG_TUNE
  clist,      \* sdio_ctrl.clist, the free commands
  made,       \* commands allocated so far
  status,     \* cmd->status of each command
  slot,       \* hc->wspc.cmd
  is, ie,     \* the SDHCI_IS and SDHCI_IE registers
  cmdl, datl, \* the issues that occupy the command and the data lines
  hung,       \* the controller has stopped answering
  removed,    \* the card is gone
  hpc,        \* where the event thread is in sdhci_intr_event()
  sts,        \* the status bits it works on
  hcmd, hcs,  \* the command and the completion status it reports
  issued,     \* history: id of the last issue
  issueOf,    \* history: the last issue of each command, 0 before it
  isId,       \* history: the issue whose completion is latched in IS
  stsId       \* history: the issue whose completion is in sts

client == <<pc, kind, main, todo, cur, retries, saved, caps, tune>>
pool   == <<clist, made>>
lines  == <<cmdl, datl, hung>>
hc     == <<hpc, sts, hcmd, hcs, stsId>>
vars   == <<client, pool, status, slot, is, ie, isId, lines, removed, hc,
            issued, issueOf>>

Bits == {"cc", "tc", "blk", "cto", "dcrc", "rem"}
Errors == {"cto", "dcrc"}
Roles == {"app", "sbc", "main", "drdy"}
CmdStatus == {"INPROG", "CMP", "CMD_TO_ERR", "DATA_CRC_ERR", "CARD_REMOVED", "ETIMEDOUT", "EIO"}

TypeOK ==
  /\ pc \in {"idle", "attempt", "post", "clear", "inhibit", "wait", "abort",
             "judge", "done"}
  /\ kind \in Flags /\ main \in Cmds \cup {None} /\ cur \in Cmds \cup {None}
  /\ todo \in Seq(Roles) /\ retries \in 0 .. MaxRetries
  /\ saved \subseteq HcCaps /\ caps \subseteq HcCaps /\ tune \in BOOLEAN
  /\ clist \in Seq(Cmds) /\ made \in 0 .. 2
  /\ status \in [Cmds -> CmdStatus]
  /\ slot \in Cmds \cup {None}
  /\ is \subseteq Bits /\ ie \in {"cc", "tc"}
  /\ cmdl \in 0 .. IdMod /\ datl \in 0 .. IdMod
  /\ hung \in BOOLEAN /\ removed \in BOOLEAN
  /\ hpc \in {"idle", "look", "cmplt"} /\ sts \subseteq Bits
  /\ hcmd \in Cmds \cup {None} /\ hcs \in CmdStatus
  /\ issued \in 0 .. IdMod
  /\ issueOf \in [Cmds -> 0 .. IdMod] /\ isId \in 0 .. IdMod /\ stsId \in 0 .. IdMod

Init ==
  /\ pc = "idle" /\ kind \in Kinds /\ main = None /\ todo = << >> /\ cur = None
  /\ retries = 0 /\ saved = {} /\ caps = HcCaps /\ tune = FALSE
  /\ clist = << >> /\ made = 0 /\ status = [c \in Cmds |-> "INPROG"]
  /\ slot = None /\ is = {} /\ ie = "cc" /\ cmdl = 0 /\ datl = 0
  /\ hung = FALSE /\ removed = FALSE
  /\ hpc = "idle" /\ sts = {} /\ hcmd = None /\ hcs = "INPROG"
  /\ issued = 0 /\ issueOf = [c \in Cmds |-> 0] /\ isId = 0 /\ stsId = 0

-----------------------------------------------------------------------------
\* sdio_alloc_cmd(): the oldest free command, or a new one.
Allocated == IF clist = << >> THEN made + 1 ELSE Head(clist)

Alloc ==
  IF clist = << >> THEN made' = made + 1 /\ UNCHANGED clist
                   ELSE clist' = Tail(clist) /\ UNCHANGED made

\* sdio_free_cmd()
Free(c) == clist' = Append(clist, c) /\ UNCHANGED made

\* The commands of one attempt, in order: APP_CMD, SET_BLOCK_COUNT unless the
\* controller sends it by itself, the command, and the status polls.
Attempt(k, cs) ==
  (IF k.app THEN <<"app">> ELSE << >>)
  \o (IF k.sbc /\ "ACMD23" \notin cs THEN <<"sbc">> ELSE << >>)
  \o <<"main">>
  \o (IF k.drdy THEN [i \in 1 .. MaxPolls |-> "drdy"] ELSE << >>)

\* Faulty variant: the features stay on for a reliable write.
SendKeepsCaps(k, r) ==
  /\ pc = "idle"
  /\ kind' = k /\ retries' = r
  /\ Alloc /\ main' = Allocated
  /\ saved' = IF k.rlw THEN caps ELSE {}
  /\ pc' = "attempt"
  /\ UNCHANGED <<todo, cur, caps, tune, status, slot, is, ie, isId, lines,
                 removed, hc, issued, issueOf>>

\* The client allocates a command and calls _sdio_send_cmd(): for a reliable
\* write the controller's ACMD12 and ACMD23 features are switched off.
Send(k, r) ==
  /\ pc = "idle"
  /\ kind' = k /\ retries' = r
  /\ Alloc /\ main' = Allocated
  /\ saved' = IF k.rlw THEN caps ELSE {}
  /\ caps' = IF k.rlw THEN {} ELSE caps
  /\ pc' = "attempt"
  /\ UNCHANGED <<todo, cur, tune, status, slot, is, ie, isId, lines, removed, hc,
                 issued, issueOf>>

\* One turn of the retry loop.
BeginAttempt ==
  /\ pc = "attempt"
  /\ todo' = Attempt(kind, caps)
  /\ status' = [status EXCEPT ![main] = "INPROG"]
  /\ pc' = "post"
  /\ UNCHANGED <<kind, main, cur, retries, saved, caps, tune, pool, slot,
                 is, ie, isId, lines, removed, hc, issued, issueOf>>

\* sdio_issue_cmd(): the client's command goes into the slot.
Post ==
  /\ pc = "post" /\ Head(todo) = "main"
  /\ cur' = main /\ slot' = main
  /\ issueOf' = [issueOf EXCEPT ![main] = 0]
  /\ pc' = "clear"
  /\ UNCHANGED <<kind, main, todo, retries, saved, caps, tune, pool, status, is, ie,
                 isId, lines, removed, hc, issued>>

\* A prefix command or a status poll is allocated, and sent by a nested
\* _sdio_send_cmd().
PostPrefix ==
  /\ pc = "post" /\ Head(todo) # "main"
  /\ Alloc /\ cur' = Allocated /\ slot' = Allocated
  /\ status' = [status EXCEPT ![Allocated] = "INPROG"]
  /\ issueOf' = [issueOf EXCEPT ![Allocated] = 0]
  /\ pc' = "clear"
  /\ UNCHANGED <<kind, main, todo, retries, saved, caps, tune, is, ie,
                 isId, lines, removed, hc, issued>>

HasData == Head(todo) = "main" /\ kind.data

\* sdhci_cmd(): all status bits are cleared ...
ClearStatus ==
  /\ pc = "clear"
  /\ is' = {} /\ isId' = 0
  /\ pc' = "inhibit"
  /\ UNCHANGED <<kind, main, todo, cur, retries, saved, caps, tune, pool,
                 status, slot, ie, lines, removed, hc, issued, issueOf>>

\* ... sdhci_xfer_setup() may refuse the buffers ...
XferSetupFails ==
  /\ pc = "inhibit" /\ HasData
  /\ pc' = "abort"
  /\ UNCHANGED <<kind, main, todo, cur, retries, saved, caps, tune, pool,
                 status, slot, is, ie, isId, lines, removed, hc, issued, issueOf>>

NextId == (issued % IdMod) + 1

Inhibited == cmdl # 0 \/ (HasData /\ datl # 0)

\* ... and once the lines are free the interrupts are enabled and the command
\* is written.
Issue ==
  /\ pc = "inhibit" /\ ~Inhibited
  /\ issued' = NextId
  /\ issueOf' = [issueOf EXCEPT ![cur] = NextId]
  /\ ie' = IF HasData THEN "tc" ELSE "cc"
  /\ cmdl' = NextId
  /\ datl' = IF HasData THEN NextId ELSE datl
  /\ pc' = "wait"
  /\ UNCHANGED <<kind, main, todo, cur, retries, saved, caps, tune, pool,
                 status, slot, is, isId, hung, removed, hc>>

\* sdhci_waitmask() gives up on lines that do not become free.
InhibitTimeout ==
  /\ pc = "inhibit" /\ Inhibited
  /\ LateAnswers \/ hung
  /\ pc' = "abort"
  /\ UNCHANGED <<kind, main, todo, cur, retries, saved, caps, tune, pool,
                 status, slot, is, ie, isId, lines, removed, hc, issued, issueOf>>

\* sdio_wait_cmd() returns because the command has a status, or ...
WaitDone ==
  /\ pc = "wait" /\ status[cur] # "INPROG"
  /\ pc' = "judge"
  /\ UNCHANGED <<kind, main, todo, cur, retries, saved, caps, tune, pool,
                 status, slot, is, ie, isId, lines, removed, hc, issued, issueOf>>

\* Nothing that would complete the command is on its way any more.
NoAnswerComing ==
  /\ is = {} /\ hpc = "idle"
  /\ hung \/ (cmdl # issueOf[cur] /\ datl # issueOf[cur])

\* ... because the time is over; the status may have come at the last moment.
WaitTimeout ==
  /\ pc = "wait"
  /\ LateAnswers \/ NoAnswerComing
  /\ pc' = "abort"
  /\ UNCHANGED <<kind, main, todo, cur, retries, saved, caps, tune, pool,
                 status, slot, is, ie, isId, lines, removed, hc, issued, issueOf>>

\* Return to the client, which frees its command.
Return ==
  /\ Free(main)
  /\ main' = None /\ cur' = None /\ todo' = << >> /\ retries' = 0 /\ saved' = {}
  /\ pc' = "idle"

\* Faulty variant: prefix commands are not freed.
FreePrefixForgotten == UNCHANGED pool

\* Leaving _sdio_send_cmd() for a prefix command frees it.
FreePrefix == IF cur = main THEN UNCHANGED pool ELSE Free(cur)

\* Faulty variant: the slot keeps the command that failed.
AbortKeepsSlot ==
  /\ pc = "abort"
  /\ status' = [status EXCEPT ![cur] = "ETIMEDOUT"]
  /\ FreePrefix
  /\ pc' = "done"
  /\ UNCHANGED <<kind, main, todo, cur, retries, saved, caps, tune, slot, is,
                 ie, isId, lines, removed, hc, issued, issueOf>>

\* sdio_issue_cmd() failed: entry.abort() does nothing, the slot is emptied,
\* and the caller of _sdio_send_cmd() is to recover.
Abort ==
  /\ pc = "abort"
  /\ slot' = None
  /\ status' = [status EXCEPT ![cur] = "ETIMEDOUT"]
  /\ FreePrefix
  /\ pc' = "done"
  /\ UNCHANGED <<kind, main, todo, cur, retries, saved, caps, tune, is,
                 ie, isId, lines, removed, hc, issued, issueOf>>

-----------------------------------------------------------------------------
\* The switch on cmd->status: success goes on to the next command of the
\* attempt, or is the end of it.
JudgeOk ==
  /\ pc = "judge" /\ status[cur] = "CMP"
  /\ FreePrefix
  /\ todo' = Tail(todo)
  /\ pc' = IF todo' = << >> THEN "done" ELSE "post"
  /\ UNCHANGED <<kind, main, cur, retries, saved, caps, tune, status,
                 slot, is, ie, isId, lines, removed, hc, issued, issueOf>>

\* _sdio_wait_card_status(): a poll finds the card ready, or in error.
PollReady ==
  /\ pc = "judge" /\ status[cur] = "CMP" /\ Head(todo) = "drdy"
  /\ FreePrefix
  /\ todo' = << >>
  /\ pc' = "done"
  /\ UNCHANGED <<kind, main, cur, retries, saved, caps, tune, status,
                 slot, is, ie, isId, lines, removed, hc, issued, issueOf>>

\* A poll that failed is repeated: _sdio_send_status() has retries of its own,
\* which count as polls here.
PollAgain ==
  /\ pc = "judge" /\ status[cur] \notin {"CMP", "CARD_REMOVED"}
  /\ Head(todo) = "drdy" /\ Len(todo) > 1
  /\ FreePrefix
  /\ todo' = Tail(todo)
  /\ pc' = "post"
  /\ UNCHANGED <<kind, main, cur, retries, saved, caps, tune, status,
                 slot, is, ie, isId, lines, removed, hc, issued, issueOf>>

\* Faulty variant: the retries are not counted.
JudgeErrorForever ==
  /\ pc = "judge" /\ status[cur] \notin {"CMP", "CARD_REMOVED"}
  /\ FreePrefix
  /\ \E fast \in BOOLEAN : tune' = (tune \/ (fast /\ status[cur] = "DATA_CRC_ERR"))
  /\ pc' = IF cur = main THEN "attempt" ELSE "done"
  /\ UNCHANGED <<kind, main, todo, cur, retries, saved, caps, status, slot,
                 is, ie, isId, lines, removed, hc, issued, issueOf>>

\* Faulty variant: the retries are counted down past zero.
JudgeErrorOverrun ==
  /\ pc = "judge" /\ status[cur] \notin {"CMP", "CARD_REMOVED"}
  /\ FreePrefix
  /\ \E fast \in BOOLEAN : tune' = (tune \/ (fast /\ status[cur] = "DATA_CRC_ERR"))
  /\ \/ cur = main /\ retries' = retries - 1 /\ pc' = "attempt"
     \/ pc' = "done" /\ UNCHANGED retries
  /\ UNCHANGED <<kind, main, todo, cur, saved, caps, status, slot,
                 is, ie, isId, lines, removed, hc, issued, issueOf>>

\* An error of the command itself is retried unless the card called it
\* illegal; one of APP_CMD, of SET_BLOCK_COUNT or of the last status poll ends
\* the loop.  A data CRC error on a present card in a fast mode asks for a
\* tuning.
JudgeError ==
  /\ pc = "judge" /\ status[cur] \notin {"CMP", "CARD_REMOVED"}
  /\ FreePrefix
  /\ \E fast \in BOOLEAN : tune' = (tune \/ (fast /\ status[cur] = "DATA_CRC_ERR"))
  /\ \/ cur = main /\ retries > 0 /\ retries' = retries - 1 /\ pc' = "attempt"
     \/ pc' = "done" /\ UNCHANGED retries
  /\ UNCHANGED <<kind, main, todo, cur, saved, caps, status, slot,
                 is, ie, isId, lines, removed, hc, issued, issueOf>>

\* A removed card: return ENXIO.  The return of the outer _sdio_send_cmd()
\* skips the rest of the function; that of a prefix command does not.
JudgeRemoved ==
  /\ pc = "judge" /\ status[cur] = "CARD_REMOVED"
  /\ IF cur = main
       THEN Return
       ELSE Free(cur) /\ pc' = "done" /\ UNCHANGED <<main, cur, todo, retries, saved>>
  /\ UNCHANGED <<kind, caps, tune, status, slot,
                 is, ie, isId, lines, removed, hc, issued, issueOf>>

\* Faulty variant: the features are not restored.
DoneUnrestored ==
  /\ pc = "done"
  /\ Return
  /\ UNCHANGED <<kind, caps, tune, status, slot,
                 is, ie, isId, lines, removed, hc, issued, issueOf>>

\* Behind the loop: the features are restored and the client frees the
\* command.
Done ==
  /\ pc = "done"
  /\ caps' = caps \cup saved
  /\ Return
  /\ UNCHANGED <<kind, tune, status, slot,
                 is, ie, isId, lines, removed, hc, issued, issueOf>>

-----------------------------------------------------------------------------
\* The status bits the controller latches are those SDHCI_IE enables: the
\* command complete bit or the bits of a data transfer, errors and removal.
Latch(bits, id) ==
  LET seen == {b \in bits : b \in {"cto", "rem"} \/ (b = "cc") = (ie = "cc")}
  IN  /\ is' = is \cup seen
      /\ isId' = IF seen = {} THEN isId ELSE id

\* The response of the command on the command line, or its absence.
Respond ==
  /\ cmdl # 0 /\ ~hung
  /\ \/ ~removed /\ Latch({"cc"}, cmdl) /\ UNCHANGED datl
     \/ Latch({"cto"}, cmdl) /\ datl' = IF datl = cmdl THEN 0 ELSE datl
  /\ cmdl' = 0
  /\ UNCHANGED <<client, pool, status, slot, ie, hung, removed, hc, issued, issueOf>>

\* A block or DMA boundary of the data transfer.
DataBlock ==
  /\ datl # 0 /\ datl # cmdl /\ ~hung /\ ~removed /\ "blk" \notin is
  /\ Latch({"blk"}, datl)
  /\ UNCHANGED <<client, pool, status, slot, ie, lines, removed, hc, issued, issueOf>>

\* The end of the data transfer.
DataEnd ==
  /\ datl # 0 /\ datl # cmdl /\ ~hung
  /\ \/ ~removed /\ Latch({"tc"}, datl)
     \/ Latch({"dcrc"}, datl)
  /\ datl' = 0
  /\ UNCHANGED <<client, pool, status, slot, ie, cmdl, hung, removed, hc, issued, issueOf>>

\* The controller stops: a card that holds a line, a lost interrupt.
Hang ==
  /\ cmdl # 0 \/ datl # 0
  /\ hung' = TRUE
  /\ UNCHANGED <<client, pool, status, slot, is, ie, isId, cmdl, datl, removed,
                 hc, issued, issueOf>>

RemoveCard ==
  /\ Removal /\ ~removed
  /\ removed' = TRUE
  /\ is' = is \cup {"rem"}
  /\ UNCHANGED <<client, pool, status, slot, ie, isId, lines, hc, issued, issueOf>>

-----------------------------------------------------------------------------
\* The end of sdhci_intr_event().
IntrReturn == hpc' = "idle" /\ sts' = {} /\ stsId' = 0 /\ hcmd' = None /\ hcs' = "INPROG"

\* sdhci_intr_event(): the status bits are read and cleared (a removal is
\* also passed on to the card detection thread) ...
IntrRead ==
  /\ hpc = "idle" /\ is # {}
  /\ sts' = is /\ stsId' = isId /\ is' = {} /\ isId' = 0
  /\ hpc' = "look"
  /\ UNCHANGED <<client, pool, status, slot, ie, lines, removed, hcmd, hcs,
                 issued, issueOf>>

\* Faulty variant: a block boundary completes the command.
CompletionOfBlock(bits) ==
  IF "rem" \in bits THEN "CARD_REMOVED"
  ELSE IF "cto" \in bits THEN "CMD_TO_ERR"
  ELSE IF "dcrc" \in bits THEN "DATA_CRC_ERR"
  ELSE "CMP"

\* The status a set of bits gives a command; a removal overrides the others.
Completion(bits) ==
  IF "rem" \in bits THEN "CARD_REMOVED"
  ELSE IF "cto" \in bits THEN "CMD_TO_ERR"
  ELSE IF "dcrc" \in bits THEN "DATA_CRC_ERR"
  ELSE IF bits \cap {"cc", "tc"} # {} THEN "CMP" ELSE "INPROG"

\* ... the slot is read without the mutex; errors reset both lines ...
IntrLook ==
  /\ hpc = "look"
  /\ IF slot # None /\ sts \cap Errors # {}
       THEN cmdl' = 0 /\ datl' = 0 /\ hung' = FALSE
       ELSE UNCHANGED lines
  /\ IF slot = None \/ Completion(sts) = "INPROG"
       THEN IntrReturn
       ELSE hpc' = "cmplt" /\ hcmd' = slot /\ hcs' = Completion(sts) /\ UNCHANGED <<sts, stsId>>
  /\ UNCHANGED <<client, pool, status, slot, is, ie, isId, removed, issued, issueOf>>

\* ... and sdio_cmd_cmplt() empties the slot, sets the status and signals.
IntrComplete ==
  /\ hpc = "cmplt"
  /\ slot' = None
  /\ status' = [status EXCEPT ![hcmd] = hcs]
  /\ IntrReturn
  /\ UNCHANGED <<client, pool, is, ie, isId, lines, removed, issued, issueOf>>

-----------------------------------------------------------------------------
ClientStep ==
  \/ BeginAttempt \/ Post \/ PostPrefix \/ ClearStatus \/ XferSetupFails \/ Issue
  \/ InhibitTimeout \/ WaitDone \/ WaitTimeout \/ Abort
  \/ JudgeOk \/ PollReady \/ PollAgain \/ JudgeError \/ JudgeRemoved \/ Done

EventStep == IntrRead \/ IntrLook \/ IntrComplete

Controller == Respond \/ DataEnd \/ DataBlock

Next ==
  \/ \E k \in Kinds, r \in 0 .. MaxRetries : Send(k, r)
  \/ ClientStep \/ EventStep \/ Controller \/ Hang \/ RemoveCard

\* The two threads run on, and a controller that has not stopped answers.
Fairness ==
  /\ WF_vars(ClientStep) /\ WF_vars(EventStep)
  /\ WF_vars(Respond) /\ WF_vars(DataEnd)

Spec == Init /\ [][Next]_vars
FairSpec == Spec /\ Fairness

-----------------------------------------------------------------------------
(* Properties                                                              *)

\* A command is reported as successful only by the completion of its own
\* issue, and while the client still waits for it: no completion of an
\* earlier command, of a prefix command or of an abandoned attempt is taken
\* for it (hc->wspc.cmd in sdhci_intr_event, the clearing of SDHCI_IS in
\* sdhci_cmd).
CompletionIsOwn ==
  (hpc = "cmplt" /\ hcs = "CMP") =>
     /\ hcmd = cur /\ pc \in {"wait", "abort"}
     /\ stsId = issueOf[hcmd]

\* While the card is in, the slot names the command the client is issuing, or
\* nothing: never a command that has been freed or that an earlier attempt
\* left behind (sdio_issue_cmd, sdio_cmd_cmplt).
SlotIsCurrent ==
  (slot # None /\ ~removed) =>
     /\ slot = cur /\ pc \in {"clear", "inhibit", "wait", "abort"}
     /\ \A i \in DOMAIN clist : clist[i] # slot

\* No command is in the free list twice or while it is in use: every path out
\* of _sdio_send_cmd() and its prefix commands frees what it allocated once
\* (sdio_alloc_cmd, sdio_free_cmd, sd_app_cmd, _sdio_set_block_count).
PoolIsConsistent ==
  /\ \A i, j \in DOMAIN clist : clist[i] = clist[j] => i = j
  /\ \A i \in DOMAIN clist : clist[i] # main
  /\ pc = "idle" => Len(clist) = made

\* Commands are accounted for: in the slot only while they are issued, in the
\* pool only while nobody has them, over retries, timeouts and removals.
CommandsAccounted == TypeOK /\ SlotIsCurrent /\ PoolIsConsistent

\* base.c:1398: the ACMD12 and ACMD23 features are disabled only temporarily;
\* outside of _sdio_send_cmd() the controller has all it had at the start.
CapsRestored == pc = "idle" => caps = HcCaps

\* The paths that do restore them: all but those of a removed card, whatever
\* command of the attempt fails and how often it is tried (_sdio_send_cmd).
CapsRestoredIfPresent == ~removed => CapsRestored

\* While a reliable write is under way the controller must not add commands
\* of its own: its SET_BLOCK_COUNT is the one that carries the reliable write
\* bit (_sdio_send_cmd, sdhci_xfer_setup).
ReliableWriteSendsOwnCount ==
  (pc = "wait" /\ kind.rlw /\ cur = main) => caps = {}

\* Every call of _sdio_send_cmd() returns, whatever the controller, the card
\* and the event thread do: the timed wait and the bounded retries see to it.
SendReturns == (pc # "idle") ~> (pc = "idle")

\* The ACMD12 and ACMD23 features are off during a reliable write and on
\* otherwise.
CapsFollowCommand == CapsRestoredIfPresent /\ ReliableWriteSendsOwnCount

----------------------------------------------------------------------------
(* The commands the client sends in the runs.                              *)

Plain == [data |-> FALSE, app |-> FALSE, sbc |-> FALSE, rlw |-> FALSE, drdy |-> FALSE]

\* Commands as sim_sdmmc.c and sd.c build them: a plain one, an application
\* command, an erase that waits for the card, a read with a block count and
\* a reliable write.
AppCmd        == [Plain EXCEPT !.app = TRUE]
Erase         == [Plain EXCEPT !.drdy = TRUE]
ReadMultiple  == [Plain EXCEPT !.data = TRUE, !.sbc = TRUE]
ReliableWrite == [ReadMultiple EXCEPT !.rlw = TRUE]

AllKinds == {Plain, AppCmd, Erase, ReadMultiple, ReliableWrite}
=============================================================================
