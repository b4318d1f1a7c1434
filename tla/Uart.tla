-------------------------------- MODULE Uart --------------------------------
(***************************************************************************)
(* What the two serial drivers of src/hardware/devc share: the device that *)
(* io-char keeps for them (buffers, paging flags, timer), the kernel's     *)
(* part of an interrupt, and the UART itself.  io-char and the UART are    *)
(* not part of the repository and are modelled as the drivers use them.    *)
(* One thread serves the dispatch context ttyctrl.dpp: handlers do not     *)
(* overlap each other, but the UART goes on under each of their steps.     *)
(***************************************************************************)
EXTENDS Integers, Sequences

CONSTANTS
  Cap,         \* depth of the FIFOs
  Trigger,     \* their interrupt trigger level (IFLS)
  Burst,       \* characters one call of tto() moves at most (1024)
  MaxWrites,   \* characters that clients write
  MaxRx,       \* characters that come in
  MaxStty,     \* changes of the line settings
  Settings     \* the settings clients ask for: [baud, flow]

ASSUME UartAssumption ==
  {Cap, Trigger, Burst, MaxWrites, MaxRx, MaxStty} \subseteq Nat /\ Trigger < Cap /\ Burst > 0

VARIABLES
  kind,      \* "pl011" or "mini"
  obuf,      \* tty.obuf
  txf, sh,   \* transmit FIFO and shift register
  line,      \* the data that has left the UART
  rxf, rt,   \* receive FIFO; the receive timeout is running
  raw,       \* PL011: latched interrupts (RIS)
  im,        \* enabled interrupts (IMSC, IER)
  masked, pulse,   \* the interrupt line; the pulse to the dispatch thread
  paged,     \* OSW_PAGED or OHW_PAGED
  override,  \* OSW_PAGED_OVERRIDE
  tmr,       \* tx_tmr is running
  event,     \* EVENT_TTO
  cts,       \* the other side allows sending
  want, cfg, \* tty.c_cflag and tty.baud; what is programmed
  pc, ret, mis, moved,   \* the dispatch thread: its place, the caller of
             \* tto(), its copy of MIS or IIR, characters moved by this tto()
  wrote, rxd, sttys,     \* how much has happened
  hist       \* history: what has gone wrong so far

hw == <<txf, sh, line, rxf, rt, raw, cts>>
intr == <<im, masked, pulse>>
tty == <<obuf, paged, override, tmr, event, want>>
disp == <<pc, ret, mis, moved>>
count == <<wrote, rxd, sttys>>
vars == <<kind, hw, intr, tty, disp, count, cfg, hist>>

None == 0
XC == -1          \* a flow control character that tx_inject() puts in front
RxChars == {"data", "STOP", "START"}

Clock == [pl011 |-> 48000000 \div 16, mini |-> 500000000]

----------------------------------------------------------------------------
\* The UART.

\* The FIFO feeds the shift register.  The PL011 latches its transmit
\* interrupt when the level falls to the trigger level.
Shift ==
  /\ sh = None /\ txf # <<>>
  /\ sh' = Head(txf) /\ txf' = Tail(txf)
  /\ raw' = IF kind = "pl011" /\ Len(txf) = Trigger + 1 THEN raw \cup {"TX"} ELSE raw
  /\ UNCHANGED <<kind, line, rxf, rt, cts, intr, tty, disp, count, cfg, hist>>

\* With hardware flow control the other side can hold the line.
Transmit ==
  /\ sh # None /\ (cfg.flow => cts)
  /\ line' = (IF sh = XC THEN line ELSE Append(line, sh)) /\ sh' = None
  /\ UNCHANGED <<kind, txf, rxf, rt, raw, cts, intr, tty, disp, count, cfg, hist>>

Cts == cfg.flow /\ cts' = ~cts
       /\ UNCHANGED <<kind, txf, sh, line, rxf, rt, raw, intr, tty, disp, count, cfg, hist>>

\* A character comes in; one more than the FIFO holds is an overrun.
Receive ==
  /\ rxd < MaxRx /\ rxd' = rxd + 1
  /\ \E c \in RxChars :
       IF Len(rxf) = Cap THEN UNCHANGED <<rxf, rt, raw>>
       ELSE /\ rxf' = Append(rxf, c)
            /\ rt' = (kind = "pl011")
            /\ raw' = IF kind = "pl011" /\ Len(rxf) + 1 = Trigger THEN raw \cup {"RX"} ELSE raw
  /\ UNCHANGED <<kind, txf, sh, line, cts, intr, tty, disp, wrote, sttys, cfg, hist>>

\* Nothing has come for a while and the FIFO is not empty.
ReceiveTimeout ==
  /\ rt /\ rxf # <<>>
  /\ rt' = FALSE /\ raw' = raw \cup {"RT"}
  /\ UNCHANGED <<kind, txf, sh, line, rxf, cts, intr, tty, disp, count, cfg, hist>>

\* What the line is raised for; the mini UART has levels, and no latch.
Pending ==
  IF kind = "pl011" THEN {i \in raw : (IF i = "TX" THEN "TX" ELSE "RX") \in im}
  ELSE (IF "RX" \in im /\ rxf # <<>> THEN {"RX"} ELSE {})
         \cup (IF "TX" \in im /\ txf = <<>> THEN {"TX"} ELSE {})

\* The kernel masks the line and sends the pulse (InterruptAttachEvent()).
Interrupt ==
  /\ ~masked /\ Pending # {}
  /\ masked' = TRUE /\ pulse' = TRUE
  /\ UNCHANGED <<kind, hw, im, tty, disp, count, cfg, hist>>

----------------------------------------------------------------------------
\* io-char.

Idle == pc = "idle"

\* The dispatch thread enters tto(dev, TTO_DATA or TTO_EVENT).
Call(place) == pc' = place /\ ret' = "idle" /\ moved' = 0 /\ UNCHANGED mis

\* A client writes a character.
Write ==
  /\ Idle /\ wrote < MaxWrites
  /\ wrote' = wrote + 1 /\ obuf' = Append(obuf, wrote + 1)
  /\ Call("tto")
  /\ UNCHANGED <<kind, hw, intr, paged, override, tmr, event, want, rxd, sttys, cfg, hist>>

\* tx_inject(): a flow control character goes first.
Inject ==
  /\ Idle /\ ~override /\ \A i \in DOMAIN obuf : obuf[i] # XC
  /\ paged
  /\ obuf' = <<XC>> \o obuf /\ override' = TRUE
  /\ Call("tto")
  /\ UNCHANGED <<kind, hw, intr, paged, tmr, event, want, count, cfg, hist>>

\* The timer of a device with LOSES_TX_INTR runs out.
TxTimer ==
  /\ Idle /\ tmr /\ tmr' = FALSE
  /\ Call("tto")
  /\ UNCHANGED <<kind, hw, intr, obuf, paged, override, event, want, count, cfg, hist>>

\* EVENT_TTO is served.
Event ==
  /\ Idle /\ event /\ event' = FALSE
  /\ Call("tto")
  /\ UNCHANGED <<kind, hw, intr, obuf, paged, override, tmr, want, count, cfg, hist>>

\* tcsetattr()
Stty ==
  /\ Idle /\ sttys < MaxStty /\ sttys' = sttys + 1
  /\ want' \in Settings
  /\ Call("stty")
  /\ UNCHANGED <<kind, hw, intr, obuf, paged, override, tmr, event, wrote, rxd, cfg, hist>>

\* tti(): STOP and START are obeyed, and START sees that output goes on.
Tti(c) ==
  /\ paged' = CASE c = "STOP" -> TRUE [] c = "START" -> FALSE [] OTHER -> paged
  /\ event' = (event \/ c = "START")

EnterHandler(place) ==
  /\ Idle /\ pulse /\ pulse' = FALSE
  /\ pc' = place
  /\ UNCHANGED <<kind, hw, im, masked, tty, ret, mis, moved, count, cfg, hist>>

\* InterruptUnmask() at the end of interrupt_event_handler()
Unmask ==
  /\ pc = "unmask" /\ masked' = FALSE
  /\ pc' = "idle" /\ ret' = "idle" /\ mis' = {} /\ moved' = 0
  /\ UNCHANGED <<kind, hw, im, pulse, tty, count, cfg, hist>>
=============================================================================
