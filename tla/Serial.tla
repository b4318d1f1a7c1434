------------------------------- MODULE Serial -------------------------------
(***************************************************************************)
(* The two serial drivers, one device at a time.                           *)
(***************************************************************************)
EXTENDS Pl011, MiniUart

\* create_device(): empty buffers, nothing paged
Buffers ==
  /\ obuf = <<>> /\ paged = FALSE /\ override = FALSE /\ tmr = FALSE /\ event = FALSE
  /\ txf = <<>> /\ sh = None /\ line = <<>> /\ rxf = <<>> /\ cts = TRUE
  /\ wrote = 0 /\ rxd = 0 /\ sttys = 0 /\ hist = {}

\* ser_attach_intr(): interrupts cleared, the handler attached to a pulse
Attached ==
  /\ raw = {} /\ rt = FALSE /\ masked = FALSE /\ pulse = FALSE
  /\ pc = "idle" /\ ret = "idle" /\ mis = {} /\ moved = 0

\* ... and the first ser_stty()
Init ==
  /\ kind \in {"pl011", "mini"}
  /\ Buffers /\ Attached
  /\ cfg \in Settings /\ want = cfg /\ im = {"RX"}

IoChar == Write \/ Inject \/ TxTimer \/ Event \/ Stty
Hardware == Shift \/ Transmit \/ Cts \/ Receive \/ ReceiveTimeout \/ Interrupt

Next == Hardware \/ IoChar \/ Pl011Next \/ MiniNext \/ Unmask

Spec == Init /\ [][Next]_vars

----------------------------------------------------------------------------
\* Output moves on: when the dispatch thread rests with output that nothing
\* holds back, the timer of LOSES_TX_INTR runs, tto() has been asked for, or a
\* transmit interrupt is on or will be.  The exception is a ser_stty() that
\* reprogrammed the UART since the last tto(): it drops TXIM (IER_TXEN) and
\* starts nothing, so that output waits for the next write when the timer is
\* not running.
OutputMoves ==
  Idle /\ obuf # <<>> /\ ~paged
    => \/ tmr \/ event \/ pulse
       \/ "TX" \in im /\ (kind = "mini" \/ Pending # {} \/ Len(txf) > Trigger)
       \/ "restarted" \in hist

\* Input moves on: a character in the FIFO raises an interrupt, has raised it,
\* or will when the receive timeout runs out (rx_interrupt(), do_interrupt()).
InputMoves ==
  Idle /\ rxf # <<>> => pulse \/ Pending # {} \/ rt

\* Nothing is stranded in a buffer of the driver or of the UART.
NothingStranded == OutputMoves /\ InputMoves

\* Suspended output sends nothing but the injected flow control character:
\* OSW_PAGED_OVERRIDE lets exactly one pass (tto()).
PagedStaysQuiet == "leaked" \notin hist

\* drain_check() says 1 when everything has been sent; of the PL011 it does not
\* ask the shift register, so that one character may still be under way.
DrainedIsSent ==
  CASE kind = "pl011" /\ pl011_drain_check -> Len(line) + (IF sh \in {None, XC} THEN 0 ELSE 1) = wrote
    [] kind = "mini" /\ mini_drain_check -> Len(line) = wrote
    [] OTHER -> TRUE

\* What has not left the UART yet, the next to go first.
Rest == (IF sh = None THEN <<>> ELSE <<sh>>) \o txf \o obuf

\* Each character is later than those before it; injected ones stand anywhere.
Ordered(seq) ==
  \A j \in DOMAIN seq : \A i \in 1..j-1 : seq[i] = XC \/ seq[j] = XC \/ seq[i] < seq[j]

\* The line has the first characters, and all others are behind them in order.
InOrder ==
  LET rest == Rest
  IN /\ line = [i \in 1..Len(line) |-> i]
     /\ Ordered(rest)
     /\ {rest[i] : i \in DOMAIN rest} \ {XC} = Len(line)+1..wrote

\* What clients write is sent once and in order, across interrupts, timer and
\* injected characters.  ser_stty() waits for the transmitter before it flushes
\* the FIFO; only a line that the other side holds can make it lose characters.
SentInOrder ==
  IF "cut" \in hist THEN "held" \in hist ELSE InOrder /\ DrainedIsSent

\* The rate is the one asked for, as near as the divisor allows, for every
\* speed that the divisor registers can express (ser_stty()).
RateIsRight ==
  LET b == cfg.baud
      near(x, y, d) == x - y <= d /\ y - x <= d
  IN CASE kind = "pl011" -> near((Ibrd(b) * 64 + Fbrd(b)) * b, Clock.pl011 * 64, b \div 2 + 1)
       [] kind = "mini" -> Clock.mini \div (b * 8) \in 1..BaudRange
                             => Clock.mini - (Divd(b) + 1) * (b * 8) \in 0..(b * 8 - 1)

\* Output and input flow: nothing is stranded, and suspended output stays
\* suspended (tto(), do_interrupt(), interrupt_event_handler()).
CharactersFlow == NothingStranded /\ PagedStaysQuiet

-----------------------------------------------------------------------------
(* The line settings of the run                                            *)

MCSettings == {[baud |-> 115200, flow |-> FALSE], [baud |-> 1200, flow |-> TRUE]}
=============================================================================
