----------------------------- MODULE DmaChannel -----------------------------
(***************************************************************************)
(* One channel of the BCM2711 DMA library (src/lib/dma/bcm2711), as its    *)
(* client drives it through the function table of get_dmafuncs(), with the *)
(* DMA engine and the interrupt underneath it.                             *)
(*                                                                         *)
(* Two threads of the client call the library: "client" sets up, starts,   *)
(* polls, aborts and releases; "handler" receives the interrupt event and  *)
(* calls xfer_complete().  Every access to a device register or to an      *)
(* atomic field that another party can observe is a step of its own.       *)
(*                                                                         *)
(* Data is abstracted away: a control block is its successor and its       *)
(* interrupt-enable bit, and each block moves one unit of data.            *)
(***************************************************************************)
EXTENDS Naturals, Sequences

CONSTANTS
  MaxFrags,        \* bound: fragments asked of one setup_xfer()
  NumCbs,          \* chan->num_cbs, the control blocks of the channel
  CountMod,        \* frg_count is a uint32_t: 2^32 in the code
  MaxStarts,       \* bound: transfers started in one behaviour
  AttachModes,     \* the channel_attach() calls the client makes
  RepeatModes,     \* values of DMA_MODE_FLAG_REPEAT the client asks for
  Threaded,        \* the client does not serialise its two threads
  ReSetup,         \* the client calls setup_xfer() before each xfer_start()
  Coalesce,        \* the engine may finish a block before the event for
                   \* the previous one has been handled
  ReleaseBusy      \* the client releases channels with a transfer running

Threads == {"client", "handler"}

\* flags: DMA_ATTACH_EVENT_*; iid: an event was given, chan->iid # -1.
Modes == [flags : {"complete", "segment", "none"}, iid : BOOLEAN]

ASSUME BoundsAssumption ==
  /\ MaxFrags \in Nat \ {0}
  /\ NumCbs \in Nat \ {0}
  /\ MaxStarts \in Nat
  /\ CountMod \in Nat /\ CountMod > NumCbs

ASSUME ClientAssumption ==
  /\ AttachModes \subseteq Modes
  /\ RepeatModes \subseteq BOOLEAN
  /\ {Threaded, ReSetup, Coalesce, ReleaseBusy} \subseteq BOOLEAN

VARIABLES
  attached,   \* the client holds a handle
  mode,       \* chan->aflags and whether chan->iid is attached
  busy,       \* DMACH_BUSY in chan->status
  frg_count,  \* chan->frg_count
  repeat,     \* DMA_MODE_FLAG_REPEAT in chan->mflags
  chain,      \* the control blocks written by dma_setup_cbs()
  ready,      \* setup_xfer() has succeeded and may be followed by a start
  conblk,     \* CONBLK_AD / DMA4_CB: current block, 0 when idle
  active,     \* CS.ACTIVE
  int,        \* CS.INT
  error,      \* CS.ERROR
  masked,     \* the interrupt is masked: an event is out
  pulse,      \* an event is queued and not yet received
  cpc,        \* where each thread is in the library
  op,         \* the entry point each thread is in
  prev,       \* prev_frgcount of xfer_complete()
  err,        \* the error status xfer_complete() read
  started,    \* history: transfers started so far
  pulseId,    \* history: the transfer whose interrupt the queued event is
  callId,     \* history: the transfer the thread's call is about
  moved,      \* history: blocks finished in the current transfer
  result      \* history: how the current transfer ended

soft   == <<attached, mode, busy, frg_count, repeat, chain, ready>>
engine == <<conblk, active, int, error>>
irq    == <<masked, pulse, pulseId>>
calls  == <<cpc, op, prev, err, callId>>
hist   == <<started, moved, result>>
chanVars == <<soft, engine, irq, calls, hist>>

ThreadSteps == {"idle", "start_cb", "start_cs", "read_cs", "ack", "unmask",
                "conblk", "pause", "reset", "clear", "rel_pause", "release"}

TypeOK ==
  /\ attached \in BOOLEAN /\ mode \in Modes /\ busy \in BOOLEAN
  /\ frg_count \in 0 .. CountMod - 1
  /\ repeat \in BOOLEAN
  /\ chain \in Seq([next : Nat, inten : BOOLEAN]) /\ Len(chain) <= NumCbs
  /\ \A i \in DOMAIN chain : chain[i].next \in {0} \cup DOMAIN chain
  /\ ready \in BOOLEAN
  /\ conblk \in Nat /\ active \in BOOLEAN /\ int \in BOOLEAN /\ error \in BOOLEAN
  /\ masked \in BOOLEAN /\ pulse \in BOOLEAN
  /\ cpc \in [Threads -> ThreadSteps]
  /\ op \in [Threads -> {"none", "start", "abort", "complete", "release"}]
  /\ prev \in [Threads -> 0 .. CountMod - 1]
  /\ err \in [Threads -> BOOLEAN]
  /\ started \in Nat /\ pulseId \in Nat /\ callId \in [Threads -> Nat]
  /\ moved \in Nat
  /\ result \in {"none", "ok", "failed", "stopped"}

ChanInit ==
  /\ attached = FALSE /\ mode \in AttachModes /\ busy = FALSE
  /\ frg_count = 0 /\ repeat = FALSE /\ chain = << >> /\ ready = FALSE
  /\ conblk = 0 /\ active = FALSE /\ int = FALSE /\ error = FALSE
  /\ masked = FALSE /\ pulse = FALSE /\ pulseId = 0
  /\ cpc = [t \in Threads |-> "idle"] /\ op = [t \in Threads |-> "none"]
  /\ prev = [t \in Threads |-> 0] /\ err = [t \in Threads |-> FALSE]
  /\ callId = [t \in Threads |-> 0]
  /\ started = 0 /\ moved = 0 /\ result = "none"

-----------------------------------------------------------------------------
\* The interrupt line is raised and will turn into an event.
Raised == attached /\ mode.iid /\ int /\ ~masked

\* dma_api.README asks the driver to call xfer_complete() for an event
\* before any other interaction.  A client with one thread, or one that
\* serialises them, does; a Threaded client does not.
ClientMayCall ==
  /\ attached /\ cpc["client"] = "idle"
  /\ Threaded \/ (cpc["handler"] = "idle" /\ ~pulse /\ ~Raised)

HandlerMayCall ==
  /\ attached /\ cpc["handler"] = "idle"
  /\ Threaded \/ cpc["client"] = "idle"

GotoStep(t, step) == cpc' = [cpc EXCEPT ![t] = step]

Enter(t, entry, step) ==
  /\ cpc' = [cpc EXCEPT ![t] = step]
  /\ op' = [op EXCEPT ![t] = entry]

Leave(t) ==
  /\ cpc' = [cpc EXCEPT ![t] = "idle"]
  /\ op' = [op EXCEPT ![t] = "none"]

-----------------------------------------------------------------------------
\* channel_attach(): a fresh dma_channel_t and a paused engine.  CS.INT and
\* the control block address keep what the previous owner left.
ChannelAttach ==
  /\ ~attached /\ \A t \in Threads : cpc[t] = "idle"
  /\ mode' \in AttachModes
  /\ attached' = TRUE /\ busy' = FALSE /\ frg_count' = 0 /\ repeat' = FALSE
  /\ chain' = << >> /\ ready' = FALSE
  /\ active' = FALSE
  /\ masked' = FALSE /\ pulse' = FALSE
  /\ result' = "none" /\ moved' = 0
  /\ UNCHANGED <<conblk, int, error, pulseId, calls, started>>

\* channel_release() is called ...
ChannelRelease ==
  /\ ClientMayCall
  /\ ReleaseBusy \/ ~busy
  /\ cpc["handler"] = "idle"
  /\ Enter("client", "release", "rel_pause")
  /\ UNCHANGED <<soft, engine, irq, prev, err, callId, hist>>

\* ... pauses the engine ...
ReleasePause ==
  /\ cpc["client"] = "rel_pause"
  /\ active' = FALSE
  /\ GotoStep("client", "release")
  /\ UNCHANGED <<soft, conblk, int, error, irq, op, prev, err, callId, hist>>

\* ... disable the channel, free the control blocks, detach the interrupt
\* and the channel, free the handle.
ReleaseFree ==
  /\ cpc["client"] = "release"
  /\ attached' = FALSE /\ busy' = FALSE /\ chain' = << >> /\ ready' = FALSE
  /\ masked' = FALSE /\ pulse' = FALSE
  /\ result' = "none"
  /\ Leave("client")
  /\ UNCHANGED <<mode, frg_count, repeat, engine, pulseId, prev, err, callId,
                 started, moved>>

-----------------------------------------------------------------------------
\* The control blocks dma_setup_cbs() writes for n fragments.
ControlBlocks(n, flags, rep) ==
  [i \in 1 .. n |->
     [next  |-> IF i < n THEN i + 1 ELSE IF rep THEN 1 ELSE 0,
      inten |-> flags = "segment" \/ (i = n /\ flags = "complete")]]

\* Faulty variant: setup_xfer() without the EBUSY check.
SetupXferUnchecked(n, rep) ==
  /\ ClientMayCall
  /\ n <= NumCbs
  /\ repeat' = rep /\ frg_count' = n
  /\ chain' = ControlBlocks(n, mode.flags, rep)
  /\ ready' = TRUE /\ result' = "none"
  /\ UNCHANGED <<attached, mode, busy, engine, irq, calls, started, moved>>

\* setup_xfer(), accepted.  On a busy channel it returns EBUSY and changes
\* nothing.
SetupXfer(n, rep) ==
  /\ ClientMayCall
  /\ ~busy
  /\ n <= NumCbs
  /\ repeat' = rep /\ frg_count' = n
  /\ chain' = ControlBlocks(n, mode.flags, rep)
  /\ ready' = TRUE /\ result' = "none"
  /\ UNCHANGED <<attached, mode, busy, engine, irq, calls, started, moved>>

\* setup_xfer(), refused by dma_setup_cbs() for want of control blocks: the
\* mode flags are already those of the refused transfer, the blocks are not.
SetupXferFails(n, rep) ==
  /\ ClientMayCall
  /\ ~busy
  /\ n > NumCbs
  /\ repeat' = rep
  /\ ready' = FALSE
  /\ UNCHANGED <<attached, mode, busy, frg_count, chain, engine, irq, calls, hist>>

-----------------------------------------------------------------------------
\* xfer_start(): DMACH_BUSY is tested and set atomically (EBUSY and no
\* change when it was set) ...
Start ==
  /\ ClientMayCall /\ ready /\ started < MaxStarts
  /\ ~busy
  /\ busy' = TRUE
  /\ started' = started + 1 /\ moved' = 0 /\ result' = "none"
  /\ ready' = ~ReSetup
  /\ Enter("client", "start", "start_cb")
  /\ UNCHANGED <<attached, mode, frg_count, repeat, chain, engine, irq, prev, err, callId>>

\* ... the first control block is written (an engine left ACTIVE by
\* xfer_complete() takes off here) ...
StartCb ==
  /\ cpc["client"] = "start_cb"
  /\ conblk' = 1
  /\ GotoStep("client", "start_cs")
  /\ UNCHANGED <<soft, active, int, error, irq, op, prev, err, callId, hist>>

\* ... and then CS with ACTIVE.
StartCs ==
  /\ cpc["client"] = "start_cs"
  /\ active' = TRUE
  /\ Leave("client")
  /\ UNCHANGED <<soft, conblk, int, error, irq, prev, err, callId, hist>>

-----------------------------------------------------------------------------
\* xfer_abort(), called by the client; xfer_complete() ends in the same code.
XferAbort ==
  /\ ClientMayCall
  /\ Enter("client", "abort", "conblk")
  /\ callId' = [callId EXCEPT !["client"] = started]
  /\ UNCHANGED <<soft, engine, irq, prev, err, hist>>

\* A zero control block address means that the engine is idle.
AbortConblk(t) ==
  /\ cpc[t] = "conblk"
  /\ GotoStep(t, IF conblk = 0 THEN "clear" ELSE "pause")
  /\ UNCHANGED <<soft, engine, irq, op, prev, err, callId, hist>>

\* Pause; the wait for outstanding writes gives up after its timeout, and
\* the reset that follows is written either way.
AbortPause(t) ==
  /\ cpc[t] = "pause"
  /\ active' = FALSE
  /\ GotoStep(t, "reset")
  /\ UNCHANGED <<soft, conblk, int, error, irq, op, prev, err, callId, hist>>

\* Faulty variant: the engine is paused and never reset.
AbortResetForgotten(t) ==
  /\ cpc[t] = "reset"
  /\ int' = FALSE /\ error' = FALSE
  /\ GotoStep(t, "clear")
  /\ UNCHANGED <<soft, conblk, active, irq, op, prev, err, callId, hist>>

AbortReset(t) ==
  /\ cpc[t] = "reset"
  /\ conblk' = 0 /\ active' = FALSE /\ int' = FALSE /\ error' = FALSE
  /\ GotoStep(t, "clear")
  /\ UNCHANGED <<soft, irq, op, prev, err, callId, hist>>

\* How a transfer that was still running ends when DMACH_BUSY is cleared.
Outcome(t) ==
  IF ~busy THEN result
  ELSE IF op[t] = "abort" THEN "stopped"
  ELSE IF err[t] THEN "failed" ELSE "ok"

\* Faulty variant: xfer_complete() leaves DMACH_BUSY set.
AbortClearForgotten(t) ==
  /\ cpc[t] = "clear"
  /\ busy' = (busy /\ op[t] = "complete")
  /\ result' = Outcome(t)
  /\ Leave(t)
  /\ UNCHANGED <<attached, mode, frg_count, repeat, chain, ready, engine, irq,
                 prev, err, callId, started, moved>>

AbortClear(t) ==
  /\ cpc[t] = "clear"
  /\ busy' = FALSE
  /\ result' = Outcome(t)
  /\ Leave(t)
  /\ UNCHANGED <<attached, mode, frg_count, repeat, chain, ready, engine, irq,
                 prev, err, callId, started, moved>>

-----------------------------------------------------------------------------
\* bytes_left() while the engine has `out' writes outstanding: the blocks
\* from the current one on, but not the first block.
BytesLeft(out) ==
  out + (IF conblk > 1 THEN Len(chain) - conblk + 1 ELSE 0)

\* The engine runs: it is enabled for the channel's owner, ACTIVE and has a
\* control block.
Running == attached /\ active /\ conblk # 0

\* Faulty variant: a count that does not wrap.
CompleteBeginSigned(t, id) ==
  /\ prev' = [prev EXCEPT ![t] = frg_count]
  /\ frg_count' = frg_count - 1
  /\ callId' = [callId EXCEPT ![t] = id]
  /\ Enter(t, "complete", "read_cs")
  /\ UNCHANGED <<attached, mode, busy, repeat, chain, ready, engine, err, hist>>

\* xfer_complete(): the fragment count is decremented first.
CompleteBegin(t, id) ==
  /\ prev' = [prev EXCEPT ![t] = frg_count]
  /\ frg_count' = (frg_count + CountMod - 1) % CountMod
  /\ callId' = [callId EXCEPT ![t] = id]
  /\ Enter(t, "complete", "read_cs")
  /\ UNCHANGED <<attached, mode, busy, repeat, chain, ready, engine, err, hist>>

\* The handler thread receives the event and calls xfer_complete().
CompleteOnEvent ==
  /\ HandlerMayCall
  /\ pulse
  /\ pulse' = FALSE
  /\ CompleteBegin("handler", pulseId)
  /\ UNCHANGED <<masked, pulseId>>

\* A client without an event calls xfer_complete() once bytes_left() is 0.
CompleteOnPoll ==
  /\ ClientMayCall
  /\ ~mode.iid /\ busy
  /\ \E out \in (IF Running THEN {0, 1} ELSE {0}) : BytesLeft(out) = 0
  /\ CompleteBegin("client", started)
  /\ UNCHANGED irq

CompleteReadCs(t) ==
  /\ cpc[t] = "read_cs"
  /\ err' = [err EXCEPT ![t] = error]
  /\ GotoStep(t, "ack")
  /\ UNCHANGED <<soft, engine, irq, op, prev, callId, hist>>

\* INT and END are cleared, ACTIVE is set.
CompleteAck(t) ==
  /\ cpc[t] = "ack"
  /\ int' = FALSE /\ active' = TRUE
  /\ GotoStep(t, "unmask")
  /\ UNCHANGED <<soft, conblk, error, irq, op, prev, err, callId, hist>>

\* Faulty variant: the count is compared after the decrement.
SegmentOffByOne(t) ==
  \/ err[t]
  \/ mode.flags = "segment" /\ prev[t] = 0
  \/ mode.flags # "segment" /\ ~repeat

\* Faulty variant: DMA_MODE_FLAG_REPEAT is not looked at.
RepeatIgnored(t) ==
  \/ err[t]
  \/ mode.flags = "segment" /\ prev[t] = 1
  \/ mode.flags # "segment"

\* Does xfer_complete() end the transfer?
EndsTransfer(t) ==
  \/ err[t]
  \/ mode.flags = "segment" /\ prev[t] = 1
  \/ mode.flags # "segment" /\ ~repeat

\* Faulty variant: the interrupt stays masked.
CompleteUnmaskForgotten(t) ==
  /\ cpc[t] = "unmask"
  /\ IF EndsTransfer(t) THEN GotoStep(t, "conblk") /\ UNCHANGED op ELSE Leave(t)
  /\ UNCHANGED <<soft, engine, irq, prev, err, callId, hist>>

\* InterruptUnmask() when an event is attached, then the decision.
CompleteUnmask(t) ==
  /\ cpc[t] = "unmask"
  /\ masked' = IF mode.iid THEN FALSE ELSE masked
  /\ IF EndsTransfer(t) THEN GotoStep(t, "conblk") /\ UNCHANGED op ELSE Leave(t)
  /\ UNCHANGED <<soft, engine, pulse, pulseId, prev, err, callId, hist>>

-----------------------------------------------------------------------------
\* The engine finishes the current block, with or without an error, raises
\* the interrupt if the block asks for it and goes on to the next block.
EngineStep ==
  /\ Running /\ conblk \in DOMAIN chain
  /\ Coalesce \/ (~int /\ ~pulse /\ cpc["handler"] = "idle")
  /\ \E e \in BOOLEAN : error' = (error \/ e)
  /\ int' = (int \/ chain[conblk].inten)
  /\ conblk' = chain[conblk].next
  /\ moved' = IF moved < Len(chain) THEN moved + 1 ELSE moved
  /\ UNCHANGED <<soft, active, irq, calls, started, result>>

\* InterruptAttachEvent(): the kernel masks the line and queues the event.
InterruptEvent ==
  /\ Raised
  /\ masked' = TRUE /\ pulse' = TRUE /\ pulseId' = started
  /\ UNCHANGED <<soft, engine, calls, hist>>

-----------------------------------------------------------------------------
\* The steps a thread that is inside the library goes on to take.
ThreadStep(t) ==
  \/ AbortConblk(t) \/ AbortPause(t) \/ AbortReset(t) \/ AbortClear(t)
  \/ CompleteReadCs(t) \/ CompleteAck(t) \/ CompleteUnmask(t)

InFlight ==
  \/ StartCb \/ StartCs \/ ReleasePause \/ ReleaseFree
  \/ \E t \in Threads : ThreadStep(t)

\* What the client decides to do.
ClientCall ==
  \/ ChannelAttach \/ ChannelRelease \/ Start \/ XferAbort
  \/ \E n \in 1 .. MaxFrags, rep \in RepeatModes :
       SetupXfer(n, rep) \/ SetupXferFails(n, rep)

ChanNext ==
  \/ ClientCall \/ CompleteOnEvent \/ CompleteOnPoll \/ InFlight
  \/ EngineStep \/ InterruptEvent

\* Threads do not stop inside the library, the engine and the interrupt make
\* progress, and the client answers events and polls busy channels.
Fairness ==
  /\ WF_chanVars(StartCb \/ StartCs \/ ReleasePause \/ ReleaseFree)
  /\ \A t \in Threads : WF_chanVars(ThreadStep(t))
  /\ WF_chanVars(EngineStep) /\ WF_chanVars(InterruptEvent)
  /\ WF_chanVars(CompleteOnEvent) /\ WF_chanVars(CompleteOnPoll)

ChanSpec == ChanInit /\ [][ChanNext]_chanVars
FairSpec == ChanSpec /\ Fairness

-----------------------------------------------------------------------------
\* The channel as dma_api.README describes it.
Api == INSTANCE DmaApi WITH
         st    <- IF ~attached THEN "released" ELSE IF busy THEN "busy" ELSE "idle",
         total <- Len(chain)

(* Properties                                                              *)

\* The engine runs only on behalf of a transfer the software knows about:
\* DMACH_BUSY is what keeps setup_xfer() from rewriting control blocks and
\* xfer_start() from reprogramming an engine in use (dma_setup_xfer,
\* dma_start), through every abort, late event and release.
EngineImpliesBusy == Running => busy

\* An event-driven transfer that xfer_complete() ended without an error has
\* moved all of its fragments, also when stale events, aborts and errors of
\* earlier transfers came before (xfer_complete, frg_count).
CompletedMovedAll ==
  (result = "ok" /\ mode.iid) => moved = Len(chain)

\* No transfer is left for ever in DMACH_BUSY: once the engine has finished,
\* no interrupt or event is outstanding and nobody is in the library, the
\* channel of an event-driven client can be used again (xfer_complete).
NoOrphanBusy ==
  ~ /\ attached /\ mode.iid /\ busy /\ conblk = 0
    /\ ~int /\ ~pulse /\ \A t \in Threads : cpc[t] = "idle"

\* With completion events the library and the engine implement the channel of
\* dma_api.README: control blocks change and handles go only while no transfer
\* is outstanding, data moves only in between xfer_start() and its end, and
\* success means that everything was moved (all of bcm2711_dmac.c:690-1070).
ImplementsApi == Api!Spec

\* dma_api.README:727: in repeat mode the transfers go on "continuously until
\* xfer_abort() is called": xfer_complete() ends one only on an error.
RepeatEndsByAbort ==
  [][\A t \in Threads :
       (AbortClear(t) /\ busy /\ repeat) => (op[t] = "abort" \/ err[t])]_chanVars

\* A transfer that was started, and is not in repeat mode, is over one day:
\* the interrupt, the event and xfer_complete() see to it (xfer_complete).
TransferEnds == (busy /\ ~repeat) ~> ~busy

\* A completion is what it says: everything has moved, and the channel can be
\* used again.
CompletionIsHonest == CompletedMovedAll /\ NoOrphanBusy

\* One-shot transfers end by themselves, repeating ones by an abort.
TransfersEnd == TransferEnds /\ RepeatEndsByAbort

-----------------------------------------------------------------------------
(* The channel_attach() calls of the runs                                  *)

\* SPI's receive channel: an event on completion.
OnComplete == [flags |-> "complete", iid |-> TRUE]
\* SPI's transmit channel: DMA_ATTACH_EVENT_ON_COMPLETE, no event.
NoEvent    == [flags |-> "complete", iid |-> FALSE]
PerSegment == [flags |-> "segment", iid |-> TRUE]

CompleteModes == {OnComplete, NoEvent}
EventModes    == {OnComplete, PerSegment}
=============================================================================
