---------------------------- MODULE Serial_proofs ---------------------------
(***************************************************************************)
(* Proofs about Serial, for either driver, every depth of the FIFOs, every *)
(* trigger level and any number of writes, characters received and changes *)
(* of the settings: output and input flow, what clients write leaves the   *)
(* UART once and in order, and the rate is the one asked for.              *)
(***************************************************************************)
EXTENDS Serial, SequenceTheorems, TLAPS

-----------------------------------------------------------------------------
\* Buffers are sequences, and the receive interrupt stays enabled.
FlowType ==
  /\ kind \in {"pl011", "mini"} /\ ret \in {"idle", "unmask"} /\ moved \in Nat /\ wrote \in Nat
  /\ obuf \in Seq(Int) /\ txf \in Seq(Int) /\ rxf \in Seq(RxChars)
  /\ "RX" \in im

\* An injected character is the next to go, and suspended output is in the
\* loop of tto() only for its sake.
PagedInv ==
  /\ override => obuf # <<>> /\ Head(obuf) = XC
  /\ pc = "loop" /\ paged => override

\* The FIFO tells when it has run low, or has told.
Signals == kind = "mini" \/ "TX" \in raw \/ Len(txf) > Trigger

\* Output that nothing holds back has the timer, the event or an interrupt to
\* come, or the dispatch thread is on its way to the end of tto().
OutputInv ==
  /\ pc = "tto" => moved = 0
  /\ pc = "loop" /\ kind = "pl011" /\ moved > 0 => tmr
  /\ pc = "enable" /\ obuf # <<>> /\ ~paged => tmr \/ Signals
  /\ obuf # <<>> /\ ~paged =>
       \/ tmr \/ event \/ "restarted" \in hist \/ pc \in {"tto", "loop", "enable"}
       \/ "TX" \in im /\ Signals
       \/ kind = "pl011" /\ pc \in {"rx", "tx"} /\ "TX" \in mis

\* Input of the PL011 has its interrupt latched or the receive timeout
\* running, or rx_interrupt() is emptying the FIFO.
InputInv ==
  kind = "pl011" /\ rxf # <<>> => rt \/ "RX" \in raw \/ "RT" \in raw \/ pc = "rx"

FlowInv == FlowType /\ PagedInv /\ OutputInv /\ InputInv /\ PagedStaysQuiet

-----------------------------------------------------------------------------
\* Every step of io-char, of the drivers and of the UART keeps the invariant.
LEMMA FlowNext == FlowInv /\ [Next]_vars => FlowInv'
  <1> SUFFICES ASSUME FlowInv, [Next]_vars PROVE FlowInv'
    OBVIOUS
  <1>a. FlowType /\ PagedInv /\ OutputInv /\ InputInv /\ PagedStaysQuiet
    BY DEF FlowInv
  <1> USE <1>a
  <1>1. CASE Shift
    <2>1. FlowType'
      BY <1>1, UartAssumption DEF FlowType, Shift, intr, tty, disp, count
    <2>2. PagedInv'
      BY <1>1 DEF PagedInv, Shift, tty, disp
    <2>3. OutputInv'
      BY <1>1, UartAssumption, SMTT(60)
         DEF OutputInv, Signals, FlowType, Pending, Shift, intr, tty, disp, count
    <2>4. InputInv'
      BY <1>1, UartAssumption DEF InputInv, Shift, disp
    <2>5. PagedStaysQuiet'
      BY <1>1 DEF PagedStaysQuiet, Shift
    <2> QED BY <2>1, <2>2, <2>3, <2>4, <2>5 DEF FlowInv
  <1>2. CASE Transmit
    <2>1. FlowType'
      BY <1>2, UartAssumption DEF FlowType, Transmit, intr, tty, disp, count
    <2>2. PagedInv'
      BY <1>2 DEF PagedInv, Transmit, tty, disp
    <2>3. OutputInv'
      BY <1>2, UartAssumption DEF OutputInv, Signals, Transmit, intr, tty, disp
    <2>4. InputInv'
      BY <1>2, UartAssumption DEF InputInv, Transmit, disp
    <2>5. PagedStaysQuiet'
      BY <1>2 DEF PagedStaysQuiet, Transmit
    <2> QED BY <2>1, <2>2, <2>3, <2>4, <2>5 DEF FlowInv
  <1>3. CASE Cts
    <2>1. FlowType'
      BY <1>3, UartAssumption DEF FlowType, Cts, intr, tty, disp, count
    <2>2. PagedInv'
      BY <1>3 DEF PagedInv, Cts, tty, disp
    <2>3. OutputInv'
      BY <1>3, UartAssumption DEF OutputInv, Signals, Cts, intr, tty, disp
    <2>4. InputInv'
      BY <1>3, UartAssumption DEF InputInv, Cts, disp
    <2>5. PagedStaysQuiet'
      BY <1>3 DEF PagedStaysQuiet, Cts
    <2> QED BY <2>1, <2>2, <2>3, <2>4, <2>5 DEF FlowInv
  <1>4. CASE Receive
    <2>1. FlowType'
      <3>1. PICK c \in RxChars : rxf' = rxf \/ rxf' = Append(rxf, c)
        BY <1>4 DEF Receive
      <3>2. rxf' \in Seq(RxChars)
        <4> HIDE DEF FlowType
        <4>1. rxf \in Seq(RxChars)
          BY DEF FlowType
        <4> QED BY <3>1, <4>1
      <3>3. UNCHANGED <<kind, ret, moved, wrote, obuf, txf, im>>
        BY <1>4 DEF Receive, intr, tty, disp
      <3> QED BY <3>2, <3>3 DEF FlowType
    <2>2. PagedInv'
      BY <1>4 DEF PagedInv, Receive, tty, disp
    <2>3. OutputInv'
      BY <1>4, UartAssumption DEF OutputInv, Signals, Receive, intr, tty, disp
    <2>4. InputInv'
      BY <1>4, UartAssumption DEF InputInv, Receive, disp
    <2>5. PagedStaysQuiet'
      BY <1>4 DEF PagedStaysQuiet, Receive
    <2> QED BY <2>1, <2>2, <2>3, <2>4, <2>5 DEF FlowInv
  <1>5. CASE ReceiveTimeout
    <2>1. FlowType'
      BY <1>5, UartAssumption DEF FlowType, ReceiveTimeout, intr, tty, disp, count
    <2>2. PagedInv'
      BY <1>5 DEF PagedInv, ReceiveTimeout, tty, disp
    <2>3. OutputInv'
      BY <1>5, UartAssumption DEF OutputInv, Signals, ReceiveTimeout, intr, tty, disp
    <2>4. InputInv'
      BY <1>5, UartAssumption DEF InputInv, ReceiveTimeout
    <2>5. PagedStaysQuiet'
      BY <1>5 DEF PagedStaysQuiet, ReceiveTimeout
    <2> QED BY <2>1, <2>2, <2>3, <2>4, <2>5 DEF FlowInv
  <1>6. CASE Interrupt
    <2>1. FlowType'
      BY <1>6, UartAssumption DEF FlowType, Interrupt, hw, tty, disp, count
    <2>2. PagedInv'
      BY <1>6 DEF PagedInv, Interrupt, tty, disp
    <2>3. OutputInv'
      BY <1>6, UartAssumption DEF OutputInv, Signals, Interrupt, hw, tty, disp
    <2>4. InputInv'
      BY <1>6, UartAssumption DEF InputInv, Interrupt, hw, disp
    <2>5. PagedStaysQuiet'
      BY <1>6 DEF PagedStaysQuiet, Interrupt
    <2> QED BY <2>1, <2>2, <2>3, <2>4, <2>5 DEF FlowInv
  <1>7. CASE Write
    <2>1. FlowType'
      BY <1>7, UartAssumption DEF FlowType, Write, hw, intr, Call
    <2>2. PagedInv'
      BY <1>7 DEF PagedInv, Write, Call
    <2>3. OutputInv'
      BY <1>7, UartAssumption DEF OutputInv, Write, Call
    <2>4. InputInv'
      BY <1>7, UartAssumption DEF InputInv, Write, hw, Idle
    <2>5. PagedStaysQuiet'
      BY <1>7 DEF PagedStaysQuiet, Write
    <2> QED BY <2>1, <2>2, <2>3, <2>4, <2>5 DEF FlowInv
  <1>8. CASE Inject
    <2>1. FlowType'
      <3>1. <<XC>> \in Seq(Int) /\ obuf \in Seq(Int)
        BY DEF FlowType, XC
      <3>2. obuf' \in Seq(Int)
        BY <3>1, <1>8 DEF Inject
      <3>3. UNCHANGED <<kind, wrote, txf, rxf, im>> /\ ret' = "idle" /\ moved' = 0
        BY <1>8 DEF Inject, Call, hw, intr, count
      <3> QED BY <3>2, <3>3 DEF FlowType
    <2>2. PagedInv'
      BY <1>8 DEF PagedInv, Inject
    <2>3. OutputInv'
      BY <1>8, UartAssumption DEF OutputInv, Inject, Call
    <2>4. InputInv'
      BY <1>8, UartAssumption DEF InputInv, Inject, hw, Idle
    <2>5. PagedStaysQuiet'
      BY <1>8 DEF PagedStaysQuiet, Inject
    <2> QED BY <2>1, <2>2, <2>3, <2>4, <2>5 DEF FlowInv
  <1>9. CASE TxTimer
    <2>1. FlowType'
      BY <1>9, UartAssumption DEF FlowType, TxTimer, hw, intr, count, Call
    <2>2. PagedInv'
      BY <1>9 DEF PagedInv, TxTimer, Call
    <2>3. OutputInv'
      BY <1>9, UartAssumption DEF OutputInv, TxTimer, Call
    <2>4. InputInv'
      BY <1>9, UartAssumption DEF InputInv, TxTimer, hw, Idle
    <2>5. PagedStaysQuiet'
      BY <1>9 DEF PagedStaysQuiet, TxTimer
    <2> QED BY <2>1, <2>2, <2>3, <2>4, <2>5 DEF FlowInv
  <1>10. CASE Event
    <2>1. FlowType'
      BY <1>10, UartAssumption DEF FlowType, Event, hw, intr, count, Call
    <2>2. PagedInv'
      BY <1>10 DEF PagedInv, Event, Call
    <2>3. OutputInv'
      BY <1>10, UartAssumption DEF OutputInv, Event, Call
    <2>4. InputInv'
      BY <1>10, UartAssumption DEF InputInv, Event, hw, Idle
    <2>5. PagedStaysQuiet'
      BY <1>10 DEF PagedStaysQuiet, Event
    <2> QED BY <2>1, <2>2, <2>3, <2>4, <2>5 DEF FlowInv
  <1>11. CASE Stty
    <2>1. FlowType'
      BY <1>11, UartAssumption DEF FlowType, Stty, hw, intr, Call
    <2>2. PagedInv'
      BY <1>11 DEF PagedInv, Stty, Call
    <2>3. OutputInv'
      BY <1>11, UartAssumption DEF OutputInv, Signals, Stty, hw, intr, Idle, Call
    <2>4. InputInv'
      BY <1>11, UartAssumption DEF InputInv, Stty, hw, Idle
    <2>5. PagedStaysQuiet'
      BY <1>11 DEF PagedStaysQuiet, Stty
    <2> QED BY <2>1, <2>2, <2>3, <2>4, <2>5 DEF FlowInv
  <1>12. CASE pl011_read_mis
    <2>1. FlowType'
      BY <1>12, UartAssumption DEF FlowType, pl011_read_mis, hw, intr, tty, count
    <2>2. PagedInv'
      BY <1>12 DEF PagedInv, pl011_read_mis, tty
    <2>3. OutputInv'
      BY <1>12, UartAssumption DEF OutputInv, Signals, pl011_read_mis, hw, intr, tty
    <2>4. InputInv'
      BY <1>12, UartAssumption DEF InputInv, pl011_read_mis, hw
    <2>5. PagedStaysQuiet'
      BY <1>12 DEF PagedStaysQuiet, pl011_read_mis
    <2> QED BY <2>1, <2>2, <2>3, <2>4, <2>5 DEF FlowInv
  <1>13. CASE pl011_clear
    <2>1. FlowType'
      BY <1>13, UartAssumption DEF FlowType, pl011_clear, intr, tty, count
    <2>2. PagedInv'
      BY <1>13 DEF PagedInv, pl011_clear, tty
    <2>3. OutputInv'
      BY <1>13, UartAssumption DEF OutputInv, Signals, pl011_clear, intr, tty, Is011
    <2>4. InputInv'
      BY <1>13, UartAssumption DEF InputInv, pl011_clear
    <2>5. PagedStaysQuiet'
      BY <1>13 DEF PagedStaysQuiet, pl011_clear
    <2> QED BY <2>1, <2>2, <2>3, <2>4, <2>5 DEF FlowInv
  <1>14. CASE pl011_rx_interrupt
    <2>1. FlowType'
      <3>1. rxf \in Seq(RxChars) /\ (rxf' = rxf \/ (rxf # <<>> /\ rxf' = Tail(rxf)))
        <4>1. rxf \in Seq(RxChars)
          BY DEF FlowType
        <4>2. rxf' = rxf \/ (rxf # <<>> /\ rxf' = Tail(rxf))
          BY <1>14 DEF pl011_rx_interrupt
        <4> QED BY <4>1, <4>2
      <3>2. rxf' \in Seq(RxChars)
        BY <3>1, HeadTailProperties
      <3>3. UNCHANGED <<kind, ret, wrote, obuf, txf, im>> /\ moved' \in {moved, moved + 1}
        BY <1>14 DEF pl011_rx_interrupt, intr, count
      <3> QED BY <3>2, <3>3 DEF FlowType
    <2>2. PagedInv'
      BY <1>14 DEF PagedInv, pl011_rx_interrupt
    <2>3. OutputInv'
      BY <1>14, UartAssumption DEF OutputInv, Signals, pl011_rx_interrupt, intr, Tti
    <2>4. InputInv'
      BY <1>14, UartAssumption DEF InputInv, pl011_rx_interrupt
    <2>5. PagedStaysQuiet'
      BY <1>14 DEF PagedStaysQuiet, pl011_rx_interrupt
    <2> QED BY <2>1, <2>2, <2>3, <2>4, <2>5 DEF FlowInv
  <1>15. CASE pl011_tx_interrupt
    <2>1. FlowType'
      BY <1>15, UartAssumption DEF FlowType, pl011_tx_interrupt, hw, intr, count
    <2>2. PagedInv'
      BY <1>15 DEF PagedInv, pl011_tx_interrupt
    <2>3. OutputInv'
      BY <1>15, UartAssumption DEF OutputInv, pl011_tx_interrupt
    <2>4. InputInv'
      BY <1>15, UartAssumption DEF InputInv, pl011_tx_interrupt, hw
    <2>5. PagedStaysQuiet'
      BY <1>15 DEF PagedStaysQuiet, pl011_tx_interrupt
    <2> QED BY <2>1, <2>2, <2>3, <2>4, <2>5 DEF FlowInv
  <1>16. CASE pl011_tto
    <2>1. FlowType'
      BY <1>16, UartAssumption DEF FlowType, pl011_tto, hw, intr, tty, count
    <2>2. PagedInv'
      BY <1>16 DEF PagedInv, FlowType, pl011_tto, tty
    <2>3. OutputInv'
      BY <1>16, UartAssumption DEF OutputInv, pl011_tto, tty
    <2>4. InputInv'
      BY <1>16, UartAssumption DEF InputInv, pl011_tto, hw
    <2>5. PagedStaysQuiet'
      BY <1>16 DEF PagedStaysQuiet, pl011_tto
    <2> QED BY <2>1, <2>2, <2>3, <2>4, <2>5 DEF FlowInv
  <1>17. CASE pl011_tto_loop
    <2>1. FlowType'
      <3>1. /\ obuf \in Seq(Int) /\ txf \in Seq(Int)
            /\ \/ UNCHANGED <<obuf, txf>>
               \/ obuf # <<>> /\ obuf' = Tail(obuf) /\ txf' = Append(txf, Head(obuf))
        BY <1>17 DEF FlowType, pl011_tto_loop
      <3>2. obuf' \in Seq(Int) /\ txf' \in Seq(Int)
        <4>1. obuf # <<>> => Head(obuf) \in Int /\ Tail(obuf) \in Seq(Int)
          BY <3>1, HeadTailProperties
        <4>2. \A x \in Int : Append(txf, x) \in Seq(Int)
          BY <3>1
        <4> QED BY <3>1, <4>1, <4>2
      <3>3. UNCHANGED <<kind, ret, wrote, rxf, im>> /\ moved' \in {moved, moved + 1}
        BY <1>17 DEF pl011_tto_loop, intr, count
      <3> QED BY <3>2, <3>3 DEF FlowType
    <2>2. PagedInv'
      BY <1>17 DEF PagedInv, pl011_tto_loop
    <2>3. OutputInv'
      BY <1>17, UartAssumption, SMTT(30)
         DEF OutputInv, Signals, FlowType, Pending, pl011_tto_loop, intr, count, Is011
    <2>4. InputInv'
      BY <1>17, UartAssumption DEF InputInv, pl011_tto_loop
    <2>5. PagedStaysQuiet'
      BY <1>17 DEF PagedStaysQuiet, PagedInv, pl011_tto_loop
    <2> QED BY <2>1, <2>2, <2>3, <2>4, <2>5 DEF FlowInv
  <1>18. CASE pl011_tto_end
    <2>1. FlowType'
      BY <1>18, UartAssumption DEF FlowType, pl011_tto_end, hw, tty, count
    <2>2. PagedInv'
      BY <1>18 DEF PagedInv, FlowType, pl011_tto_end, tty
    <2>3. OutputInv'
      BY <1>18, UartAssumption DEF OutputInv, Signals, pl011_tto_end, hw, tty
    <2>4. InputInv'
      BY <1>18, UartAssumption DEF InputInv, pl011_tto_end, hw
    <2>5. PagedStaysQuiet'
      BY <1>18 DEF PagedStaysQuiet, pl011_tto_end
    <2> QED BY <2>1, <2>2, <2>3, <2>4, <2>5 DEF FlowInv
  <1>19. CASE pl011_ser_stty
    <2>1. FlowType'
      BY <1>19, UartAssumption DEF FlowType, pl011_ser_stty, hw, intr, tty, count
    <2>2. PagedInv'
      BY <1>19 DEF PagedInv, pl011_ser_stty, tty
    <2>3. OutputInv'
      BY <1>19, UartAssumption DEF OutputInv, Signals, pl011_ser_stty, hw, intr, tty
    <2>4. InputInv'
      BY <1>19, UartAssumption DEF InputInv, pl011_ser_stty, hw
    <2>5. PagedStaysQuiet'
      BY <1>19 DEF PagedStaysQuiet, pl011_ser_stty
    <2> QED BY <2>1, <2>2, <2>3, <2>4, <2>5 DEF FlowInv
  <1>20. CASE pl011_program
    <2>1. FlowType'
      BY <1>20, UartAssumption DEF FlowType, pl011_program, tty, count
    <2>2. PagedInv'
      BY <1>20 DEF PagedInv, pl011_program, tty
    <2>3. OutputInv'
      BY <1>20, UartAssumption DEF OutputInv, pl011_program, tty
    <2>4. InputInv'
      BY <1>20, UartAssumption DEF InputInv, pl011_program
    <2>5. PagedStaysQuiet'
      BY <1>20 DEF PagedStaysQuiet, pl011_program
    <2> QED BY <2>1, <2>2, <2>3, <2>4, <2>5 DEF FlowInv
  <1>21. CASE mini_read_iir
    <2>1. FlowType'
      BY <1>21, UartAssumption DEF FlowType, mini_read_iir, hw, intr, tty, count
    <2>2. PagedInv'
      BY <1>21 DEF PagedInv, mini_read_iir, tty
    <2>3. OutputInv'
      BY <1>21, UartAssumption DEF OutputInv, Signals, mini_read_iir, intr, tty, IsMini
    <2>4. InputInv'
      BY <1>21, UartAssumption DEF InputInv, mini_read_iir, IsMini
    <2>5. PagedStaysQuiet'
      BY <1>21 DEF PagedStaysQuiet, mini_read_iir
    <2> QED BY <2>1, <2>2, <2>3, <2>4, <2>5 DEF FlowInv
  <1>22. CASE mini_rx_interrupt
    <2>1. FlowType'
      <3>1. rxf \in Seq(RxChars) /\ (rxf' = rxf \/ (rxf # <<>> /\ rxf' = Tail(rxf)))
        <4>1. rxf \in Seq(RxChars)
          BY DEF FlowType
        <4>2. rxf' = rxf \/ (rxf # <<>> /\ rxf' = Tail(rxf))
          BY <1>22 DEF mini_rx_interrupt
        <4> QED BY <4>1, <4>2
      <3>2. rxf' \in Seq(RxChars)
        BY <3>1, HeadTailProperties
      <3>3. UNCHANGED <<kind, ret, wrote, obuf, txf, im>> /\ moved' \in {moved, moved + 1}
        BY <1>22 DEF mini_rx_interrupt, intr, count
      <3> QED BY <3>2, <3>3 DEF FlowType
    <2>2. PagedInv'
      BY <1>22 DEF PagedInv, mini_rx_interrupt
    <2>3. OutputInv'
      BY <1>22, UartAssumption DEF OutputInv, Signals, mini_rx_interrupt, intr, IsMini, Tti
    <2>4. InputInv'
      BY <1>22, UartAssumption DEF InputInv, mini_rx_interrupt, IsMini
    <2>5. PagedStaysQuiet'
      BY <1>22 DEF PagedStaysQuiet, mini_rx_interrupt
    <2> QED BY <2>1, <2>2, <2>3, <2>4, <2>5 DEF FlowInv
  <1>23. CASE mini_tx_interrupt
    <2>1. FlowType'
      BY <1>23, UartAssumption DEF FlowType, mini_tx_interrupt, hw, count
    <2>2. PagedInv'
      BY <1>23 DEF PagedInv, mini_tx_interrupt
    <2>3. OutputInv'
      BY <1>23, UartAssumption DEF OutputInv, mini_tx_interrupt, IsMini
    <2>4. InputInv'
      BY <1>23, UartAssumption DEF InputInv, mini_tx_interrupt, IsMini
    <2>5. PagedStaysQuiet'
      BY <1>23 DEF PagedStaysQuiet, mini_tx_interrupt
    <2> QED BY <2>1, <2>2, <2>3, <2>4, <2>5 DEF FlowInv
  <1>24. CASE mini_tto
    <2>1. FlowType'
      BY <1>24, UartAssumption DEF FlowType, mini_tto, hw, intr, tty, count
    <2>2. PagedInv'
      BY <1>24 DEF PagedInv, FlowType, mini_tto, tty
    <2>3. OutputInv'
      BY <1>24, UartAssumption DEF OutputInv, mini_tto, tty
    <2>4. InputInv'
      BY <1>24, UartAssumption DEF InputInv, mini_tto, IsMini
    <2>5. PagedStaysQuiet'
      BY <1>24 DEF PagedStaysQuiet, mini_tto
    <2> QED BY <2>1, <2>2, <2>3, <2>4, <2>5 DEF FlowInv
  <1>25. CASE mini_tto_loop
    <2>1. FlowType'
      <3>1. /\ obuf \in Seq(Int) /\ txf \in Seq(Int)
            /\ \/ UNCHANGED <<obuf, txf>>
               \/ obuf # <<>> /\ obuf' = Tail(obuf) /\ txf' = Append(txf, Head(obuf))
        BY <1>25 DEF FlowType, mini_tto_loop
      <3>2. obuf' \in Seq(Int) /\ txf' \in Seq(Int)
        <4>1. obuf # <<>> => Head(obuf) \in Int /\ Tail(obuf) \in Seq(Int)
          BY <3>1, HeadTailProperties
        <4>2. \A x \in Int : Append(txf, x) \in Seq(Int)
          BY <3>1
        <4> QED BY <3>1, <4>1, <4>2
      <3>3. UNCHANGED <<kind, ret, wrote, rxf, im>> /\ moved' \in {moved, moved + 1}
        BY <1>25 DEF mini_tto_loop, intr, count
      <3> QED BY <3>2, <3>3 DEF FlowType
    <2>2. PagedInv'
      BY <1>25 DEF PagedInv, mini_tto_loop
    <2>3. OutputInv'
      BY <1>25, UartAssumption DEF OutputInv, Signals, mini_tto_loop
    <2>4. InputInv'
      BY <1>25, UartAssumption DEF InputInv, mini_tto_loop
    <2>5. PagedStaysQuiet'
      BY <1>25 DEF PagedStaysQuiet, PagedInv, mini_tto_loop
    <2> QED BY <2>1, <2>2, <2>3, <2>4, <2>5 DEF FlowInv
  <1>26. CASE mini_tto_end
    <2>1. FlowType'
      BY <1>26, UartAssumption DEF FlowType, mini_tto_end, hw, tty, count
    <2>2. PagedInv'
      BY <1>26 DEF PagedInv, FlowType, mini_tto_end, tty
    <2>3. OutputInv'
      BY <1>26, UartAssumption DEF OutputInv, Signals, mini_tto_end, tty, IsMini
    <2>4. InputInv'
      BY <1>26, UartAssumption DEF InputInv, mini_tto_end, IsMini
    <2>5. PagedStaysQuiet'
      BY <1>26 DEF PagedStaysQuiet, mini_tto_end
    <2> QED BY <2>1, <2>2, <2>3, <2>4, <2>5 DEF FlowInv
  <1>27. CASE mini_ser_stty
    <2>1. FlowType'
      BY <1>27, UartAssumption DEF FlowType, mini_ser_stty, hw, intr, tty, count
    <2>2. PagedInv'
      BY <1>27 DEF PagedInv, mini_ser_stty, tty
    <2>3. OutputInv'
      BY <1>27, UartAssumption DEF OutputInv, Signals, mini_ser_stty, intr, tty, IsMini
    <2>4. InputInv'
      BY <1>27, UartAssumption DEF InputInv, mini_ser_stty, IsMini
    <2>5. PagedStaysQuiet'
      BY <1>27 DEF PagedStaysQuiet, mini_ser_stty
    <2> QED BY <2>1, <2>2, <2>3, <2>4, <2>5 DEF FlowInv
  <1>28. CASE mini_program
    <2>1. FlowType'
      BY <1>28, UartAssumption DEF FlowType, mini_program, tty, count
    <2>2. PagedInv'
      BY <1>28 DEF PagedInv, mini_program, tty
    <2>3. OutputInv'
      BY <1>28, UartAssumption DEF OutputInv, mini_program, tty
    <2>4. InputInv'
      BY <1>28, UartAssumption DEF InputInv, mini_program
    <2>5. PagedStaysQuiet'
      BY <1>28 DEF PagedStaysQuiet, mini_program
    <2> QED BY <2>1, <2>2, <2>3, <2>4, <2>5 DEF FlowInv
  <1>29. CASE Unmask
    <2>1. FlowType'
      BY <1>29, UartAssumption DEF FlowType, Unmask, hw, tty, count
    <2>2. PagedInv'
      BY <1>29 DEF PagedInv, Unmask, tty
    <2>3. OutputInv'
      BY <1>29, UartAssumption DEF OutputInv, Signals, Unmask, hw, tty
    <2>4. InputInv'
      BY <1>29, UartAssumption DEF InputInv, Unmask, hw
    <2>5. PagedStaysQuiet'
      BY <1>29 DEF PagedStaysQuiet, Unmask
    <2> QED BY <2>1, <2>2, <2>3, <2>4, <2>5 DEF FlowInv
  <1>30. CASE Is011 /\ EnterHandler("mis")
    <2>1. FlowType'
      BY <1>30, UartAssumption DEF FlowType, EnterHandler, hw, tty, count
    <2>2. PagedInv'
      BY <1>30 DEF PagedInv, EnterHandler, tty
    <2>3. OutputInv'
      BY <1>30, UartAssumption DEF OutputInv, Signals, EnterHandler, hw, tty, Idle
    <2>4. InputInv'
      BY <1>30, UartAssumption DEF InputInv, EnterHandler, hw, Idle
    <2>5. PagedStaysQuiet'
      BY <1>30 DEF PagedStaysQuiet, EnterHandler
    <2> QED BY <2>1, <2>2, <2>3, <2>4, <2>5 DEF FlowInv
  <1>31. CASE IsMini /\ EnterHandler("iir")
    <2>1. FlowType'
      BY <1>31, UartAssumption DEF FlowType, EnterHandler, hw, tty, count
    <2>2. PagedInv'
      BY <1>31 DEF PagedInv, EnterHandler, tty
    <2>3. OutputInv'
      BY <1>31, UartAssumption DEF OutputInv, Signals, EnterHandler, tty, IsMini, Idle
    <2>4. InputInv'
      BY <1>31, UartAssumption DEF InputInv, EnterHandler, IsMini
    <2>5. PagedStaysQuiet'
      BY <1>31 DEF PagedStaysQuiet, EnterHandler
    <2> QED BY <2>1, <2>2, <2>3, <2>4, <2>5 DEF FlowInv
  <1>u. CASE UNCHANGED vars
    BY <1>u
       DEF vars, hw, intr, tty, disp, count, FlowInv, FlowType, PagedInv, OutputInv, Signals,
           InputInv, PagedStaysQuiet
  <1> QED BY <1>1, <1>2, <1>3, <1>4, <1>5, <1>6, <1>7, <1>8, <1>9, <1>10, <1>11, <1>12,
           <1>13, <1>14, <1>15, <1>16, <1>17, <1>18, <1>19, <1>20, <1>21, <1>22, <1>23,
           <1>24, <1>25, <1>26, <1>27, <1>28, <1>29, <1>30, <1>31, <1>u
         DEF Next, Hardware, IoChar, Pl011Next, MiniNext

-----------------------------------------------------------------------------
\* The drivers start with empty buffers.
LEMMA FlowInit == Init => FlowInv
  <1>1. Init => FlowType
    BY DEF Init, Buffers, Attached, FlowType
  <1>2. Init => PagedInv /\ OutputInv /\ InputInv /\ PagedStaysQuiet
    BY DEF Init, Buffers, Attached, PagedInv, OutputInv, InputInv, PagedStaysQuiet
  <1> QED BY <1>1, <1>2 DEF FlowInv

\* Nothing is stranded in the buffers of io-char or of the UART, and suspended
\* output lets one injected character pass and no other: tto(), tx_interrupt(),
\* rx_interrupt() and ser_stty() of both drivers against a UART that goes on
\* under each of their steps.
THEOREM CharactersKeepFlowing == Spec => []CharactersFlow
  <1>1. FlowInv => CharactersFlow
    <2> SUFFICES ASSUME FlowInv PROVE CharactersFlow
      OBVIOUS
    <2>1. OutputMoves
      BY DEF FlowInv, FlowType, OutputInv, Signals, OutputMoves, Idle, Pending
    <2>2. InputMoves
      <3>1. CASE kind = "pl011"
        <4>1. "RX" \in im
          BY DEF FlowInv, FlowType
        <4>2. ("RX" \in raw => "RX" \in Pending) /\ ("RT" \in raw => "RT" \in Pending)
          BY <3>1, <4>1 DEF Pending
        <4> QED BY <3>1, <4>2 DEF FlowInv, InputInv, InputMoves, Idle
      <3>2. CASE kind = "mini"
        <4>1. rxf # <<>> => "RX" \in Pending
          BY <3>2 DEF FlowInv, FlowType, Pending
        <4> QED BY <4>1 DEF InputMoves
      <3> QED BY <3>1, <3>2 DEF FlowInv, FlowType
    <2> QED BY <2>1, <2>2 DEF FlowInv, CharactersFlow, NothingStranded
  <1> QED BY FlowInit, <1>1, FlowNext, PTL DEF Spec

-----------------------------------------------------------------------------
(* The order of the characters.                                            *)

\* What clients write is a number from 1 on, which leaves None and XC apart.
IsData(c) == c # XC /\ c # None

\* The stages, each with its place in the order: the line has the first
\* characters, and what is nearer to it was written before.
OrderInv ==
  /\ line \in Seq(Nat) /\ Len(line) <= wrote /\ sh \in Int
  /\ \A i \in 1 .. Len(line) : line[i] = i
  /\ IsData(sh) => sh > Len(line) /\ sh <= wrote
  /\ \A i \in 1 .. Len(txf) : txf[i] # XC =>
       txf[i] > Len(line) /\ txf[i] <= wrote /\ (IsData(sh) => sh < txf[i])
  /\ \A j \in 1 .. Len(txf) : \A i \in 1 .. j - 1 : txf[i] # XC /\ txf[j] # XC => txf[i] < txf[j]
  /\ \A i \in 1 .. Len(obuf) : obuf[i] # XC =>
       /\ obuf[i] > Len(line) /\ obuf[i] <= wrote /\ (IsData(sh) => sh < obuf[i])
       /\ \A j \in 1 .. Len(txf) : txf[j] # XC => txf[j] < obuf[i]
  /\ \A j \in 1 .. Len(obuf) : \A i \in 1 .. j - 1 : obuf[i] # XC /\ obuf[j] # XC => obuf[i] < obuf[j]

\* Nothing that was written is missing.
WholeInv ==
  \A c \in 1 .. wrote : \/ c <= Len(line) \/ c = sh
                        \/ \E i \in 1 .. Len(txf) : txf[i] = c
                        \/ \E i \in 1 .. Len(obuf) : obuf[i] = c

\* The FIFO is flushed with characters in it only if the line was held.
CutInv ==
  /\ "cut" \in hist => "held" \in hist
  /\ pc = "program" => txf = <<>> \/ "held" \in hist

Sound == "cut" \notin hist => OrderInv /\ WholeInv

SentInv == FlowInv /\ CutInv /\ Sound


\* All but the last place.
LEMMA NotLast == \A n \in Nat : \A j \in Int : 1 <= j /\ j <= n + 1 /\ j # n + 1 => j \in 1 .. n
  OBVIOUS

\* From the FIFO into the shift register.
LEMMA ShiftOrder ==
  ASSUME FlowType, OrderInv, WholeInv, sh = None, txf # <<>>, sh' = Head(txf), txf' = Tail(txf),
         UNCHANGED <<line, obuf, wrote>>
  PROVE  OrderInv' /\ WholeInv'
  <1>1. txf \in Seq(Int) /\ obuf \in Seq(Int) /\ Len(txf) \in Nat /\ Len(txf) > 0 /\ wrote \in Nat
    BY EmptySeq DEF FlowType
  <1>2. /\ txf' \in Seq(Int) /\ Len(txf') = Len(txf) - 1 /\ sh' = txf[1] /\ sh' \in Int
        /\ \A i \in 1 .. Len(txf') : txf'[i] = txf[i + 1]
    BY <1>1, HeadTailProperties
  <1>3. OrderInv'
    BY <1>1, <1>2, SMTT(60) DEF OrderInv, IsData, None, XC
  <1>4. ASSUME NEW c \in 1 .. wrote, NEW i \in 1 .. Len(txf), txf[i] = c
        PROVE  c = sh' \/ \E k \in 1 .. Len(txf') : txf'[k] = c
    <2>1. CASE i = 1
      BY <1>2, <1>4, <2>1
    <2>2. CASE i # 1
      <3>1. i - 1 \in 1 .. Len(txf') /\ txf'[i - 1] = txf[i]
        BY <1>1, <1>2, <2>2
      <3> QED BY <1>4, <3>1
    <2> QED BY <2>1, <2>2
  <1>5. WholeInv'
    BY <1>4 DEF WholeInv, None
  <1> QED BY <1>3, <1>5

\* From the shift register to the line: it is the turn of this character.
LEMMA TransmitOrder ==
  ASSUME FlowType, OrderInv, WholeInv, sh # None, sh' = None,
         line' = (IF sh = XC THEN line ELSE Append(line, sh)), UNCHANGED <<txf, obuf, wrote>>
  PROVE  OrderInv' /\ WholeInv'
  <1>1. CASE sh = XC
    BY <1>1 DEF OrderInv, WholeInv, IsData, None, XC
  <1>2. CASE sh # XC
    <2>1. line \in Seq(Nat) /\ Len(line) \in Nat /\ sh \in Int /\ sh > Len(line) /\ sh <= wrote /\ wrote \in Nat
      BY <1>2 DEF OrderInv, IsData, FlowType
    <2>2. sh = Len(line) + 1
      <3>1. Len(line) + 1 \in 1 .. wrote
        BY <2>1
      <3>2. Len(line) + 1 # XC /\ IsData(sh)
        BY <1>2, <2>1 DEF IsData, XC
      <3>3. ASSUME NEW i \in 1 .. Len(txf), txf[i] = Len(line) + 1 PROVE FALSE
        <4>1. sh < txf[i]
          BY <3>2, <3>3 DEF OrderInv
        <4> QED BY <2>1, <3>3, <4>1
      <3>4. ASSUME NEW i \in 1 .. Len(obuf), obuf[i] = Len(line) + 1 PROVE FALSE
        <4>1. sh < obuf[i]
          BY <3>2, <3>4 DEF OrderInv
        <4> QED BY <2>1, <3>4, <4>1
      <3> QED BY <2>1, <3>1, <3>3, <3>4 DEF WholeInv
    <2>3. /\ line' \in Seq(Nat) /\ Len(line') = Len(line) + 1
          /\ \A i \in 1 .. Len(line') : line'[i] = IF i = Len(line) + 1 THEN sh ELSE line[i]
      BY <1>2, <2>1
    <2>4. OrderInv'
      <3>1. \A i \in 1 .. Len(line') : line'[i] = i
        BY <2>1, <2>2, <2>3 DEF OrderInv
      <3>2. IsData(sh) /\ txf \in Seq(Int) /\ obuf \in Seq(Int)
        BY <1>2 DEF IsData, FlowType
      <3>3. ASSUME NEW i \in 1 .. Len(txf), txf[i] # XC PROVE txf[i] \in Int /\ txf[i] > Len(line) + 1
        <4>1. txf[i] \in Int
          BY <3>2
        <4> QED BY <2>1, <2>2, <3>2, <3>3, <4>1 DEF OrderInv
      <3>4. ASSUME NEW i \in 1 .. Len(obuf), obuf[i] # XC
            PROVE  obuf[i] \in Int /\ obuf[i] > Len(line) + 1
        <4>1. obuf[i] \in Int
          BY <3>2
        <4> QED BY <2>1, <2>2, <3>2, <3>4, <4>1 DEF OrderInv
      <3> QED BY <2>3, <3>1, <3>3, <3>4, SMTT(30) DEF OrderInv, IsData, None
    <2>5. WholeInv'
      BY <2>1, <2>2, <2>3 DEF WholeInv
    <2> QED BY <2>4, <2>5
  <1> QED BY <1>1, <1>2

\* From the buffer of io-char into the FIFO.
LEMMA MoveOrder ==
  ASSUME FlowType, OrderInv, WholeInv, obuf # <<>>, obuf' = Tail(obuf),
         txf' = Append(txf, Head(obuf)), UNCHANGED <<line, sh, wrote>>
  PROVE  OrderInv' /\ WholeInv'
  <1>1. txf \in Seq(Int) /\ obuf \in Seq(Int) /\ Len(txf) \in Nat /\ Len(obuf) \in Nat /\ Len(obuf) > 0
    BY EmptySeq DEF FlowType
  <1>2. /\ obuf' \in Seq(Int) /\ Len(obuf') = Len(obuf) - 1 /\ Head(obuf) = obuf[1] /\ obuf[1] \in Int
        /\ \A i \in 1 .. Len(obuf') : obuf'[i] = obuf[i + 1]
    BY <1>1, HeadTailProperties
  <1>3. /\ txf' \in Seq(Int) /\ Len(txf') = Len(txf) + 1
        /\ \A i \in 1 .. Len(txf') : txf'[i] = IF i = Len(txf) + 1 THEN obuf[1] ELSE txf[i]
    BY <1>1, <1>2
  <1>4. OrderInv'
    <2>1. line' \in Seq(Nat) /\ Len(line') <= wrote' /\ sh' \in Int /\ (\A i \in 1 .. Len(line') : line'[i] = i)
          /\ (IsData(sh') => sh' > Len(line') /\ sh' <= wrote')
      BY DEF OrderInv, IsData
    <2>2. ASSUME NEW i \in 1 .. Len(txf'), txf'[i] # XC
          PROVE  txf'[i] > Len(line) /\ txf'[i] <= wrote /\ (IsData(sh) => sh < txf'[i])
      BY <1>1, <1>3, <2>2 DEF OrderInv
    <2>3. ASSUME NEW j \in 1 .. Len(txf'), NEW i \in 1 .. j - 1, txf'[i] # XC, txf'[j] # XC
          PROVE  txf'[i] < txf'[j]
      <3>1. i \in 1 .. Len(txf) /\ txf'[i] = txf[i]
        BY <1>1, <1>3
      <3>2. CASE j = Len(txf) + 1
        <4>1. txf'[j] = obuf[1] /\ 1 \in 1 .. Len(obuf)
          BY <1>1, <1>3, <3>2
        <4> QED BY <2>3, <3>1, <4>1 DEF OrderInv
      <3>3. CASE j # Len(txf) + 1
        <4>1. j \in 1 .. Len(txf) /\ txf'[j] = txf[j]
          <5>1. j \in Int /\ j >= 1 /\ j <= Len(txf) + 1
            BY <1>1, <1>3
          <5>2. j \in 1 .. Len(txf)
            BY <1>1, <3>3, <5>1, NotLast
          <5> QED BY <1>1, <5>2
        <4> QED BY <2>3, <3>1, <4>1 DEF OrderInv
      <3> QED BY <3>2, <3>3
    <2>4. ASSUME NEW i \in 1 .. Len(obuf'), obuf'[i] # XC
          PROVE  /\ obuf'[i] > Len(line) /\ obuf'[i] <= wrote /\ (IsData(sh) => sh < obuf'[i])
                 /\ \A j \in 1 .. Len(txf') : txf'[j] # XC => txf'[j] < obuf'[i]
      <3>1. i + 1 \in 1 .. Len(obuf) /\ obuf'[i] = obuf[i + 1] /\ 1 \in 1 .. (i + 1) - 1
        BY <1>1, <1>2
      <3>2. obuf[1] # XC => obuf[1] < obuf[i + 1]
        BY <2>4, <3>1 DEF OrderInv
      <3>3. obuf'[i] > Len(line) /\ obuf'[i] <= wrote /\ (IsData(sh) => sh < obuf'[i])
        BY <2>4, <3>1 DEF OrderInv
      <3>4. ASSUME NEW j \in 1 .. Len(txf'), txf'[j] # XC PROVE txf'[j] < obuf'[i]
        <4>1. CASE j = Len(txf) + 1
          <5>1. txf'[j] = obuf[1]
            BY <1>1, <1>3, <4>1
          <5> QED BY <3>1, <3>2, <3>4, <5>1
        <4>2. CASE j # Len(txf) + 1
          <5>1. j \in Int /\ j >= 1 /\ j <= Len(txf) + 1
            BY <1>1, <1>3
          <5>2. j \in 1 .. Len(txf)
            BY <1>1, <4>2, <5>1, NotLast
          <5>3. txf'[j] = txf[j]
            BY <1>1, <5>2
          <5> QED BY <2>4, <3>1, <3>4, <5>2, <5>3 DEF OrderInv
        <4> QED BY <4>1, <4>2
      <3> QED BY <3>3, <3>4
    <2>5. ASSUME NEW j \in 1 .. Len(obuf'), NEW i \in 1 .. j - 1, obuf'[i] # XC, obuf'[j] # XC
          PROVE  obuf'[i] < obuf'[j]
      <3>1. /\ j + 1 \in 1 .. Len(obuf) /\ i + 1 \in 1 .. (j + 1) - 1 /\ i \in 1 .. Len(obuf')
            /\ obuf'[i] = obuf[i + 1] /\ obuf'[j] = obuf[j + 1]
        BY <1>1, <1>2
      <3> QED BY <2>5, <3>1 DEF OrderInv
    <2> QED BY <2>1, <2>2, <2>3, <2>4, <2>5 DEF OrderInv, IsData
  <1>5. ASSUME NEW c \in 1 .. wrote
        PROVE  \/ c <= Len(line) \/ c = sh
               \/ \E i \in 1 .. Len(txf') : txf'[i] = c
               \/ \E i \in 1 .. Len(obuf') : obuf'[i] = c
    <2>1. ASSUME NEW i \in 1 .. Len(txf), txf[i] = c PROVE \E k \in 1 .. Len(txf') : txf'[k] = c
      <3>1. i \in 1 .. Len(txf') /\ txf'[i] = c
        BY <1>1, <1>3, <2>1
      <3> QED BY <3>1
    <2>2. ASSUME NEW i \in 1 .. Len(obuf), obuf[i] = c, i # 1 PROVE \E k \in 1 .. Len(obuf') : obuf'[k] = c
      <3>1. i - 1 \in 1 .. Len(obuf') /\ obuf'[i - 1] = c
        BY <1>1, <1>2, <2>2
      <3> QED BY <3>1
    <2>3. ASSUME obuf[1] = c PROVE \E k \in 1 .. Len(txf') : txf'[k] = c
      <3>1. Len(txf) + 1 \in 1 .. Len(txf') /\ txf'[Len(txf) + 1] = c
        BY <1>1, <1>3, <2>3
      <3> QED BY <3>1
    <2> QED BY <2>1, <2>2, <2>3 DEF WholeInv
  <1>6. WholeInv'
    BY <1>5 DEF WholeInv
  <1> QED BY <1>4, <1>6

\* A client writes: the next number, behind all others.
LEMMA WriteOrder ==
  ASSUME FlowType, OrderInv, WholeInv, wrote' = wrote + 1, obuf' = Append(obuf, wrote + 1),
         UNCHANGED <<line, sh, txf>>
  PROVE  OrderInv' /\ WholeInv'
  <1>1. /\ txf \in Seq(Int) /\ obuf \in Seq(Int) /\ Len(obuf) \in Nat /\ wrote \in Nat
        /\ line \in Seq(Nat) /\ Len(line) \in Nat /\ Len(line) <= wrote /\ sh \in Int
    BY DEF FlowType, OrderInv
  <1>2. /\ obuf' \in Seq(Int) /\ Len(obuf') = Len(obuf) + 1
        /\ \A i \in 1 .. Len(obuf') : obuf'[i] = IF i = Len(obuf) + 1 THEN wrote + 1 ELSE obuf[i]
    BY <1>1
  <1>3. OrderInv'
    <2>1. /\ line' \in Seq(Nat) /\ Len(line') <= wrote' /\ sh' \in Int
          /\ (\A i \in 1 .. Len(line') : line'[i] = i)
          /\ (IsData(sh') => sh' > Len(line') /\ sh' <= wrote')
      BY <1>1 DEF OrderInv, IsData
    <2>2. ASSUME NEW i \in 1 .. Len(txf), txf[i] # XC
          PROVE  txf[i] > Len(line) /\ txf[i] <= wrote + 1 /\ (IsData(sh) => sh < txf[i])
      BY <1>1, <2>2 DEF OrderInv
    <2>3. \A j \in 1 .. Len(txf) : \A i \in 1 .. j - 1 : txf[i] # XC /\ txf[j] # XC => txf[i] < txf[j]
      BY DEF OrderInv
    <2>4. ASSUME NEW i \in 1 .. Len(obuf'), obuf'[i] # XC
          PROVE  /\ obuf'[i] > Len(line) /\ obuf'[i] <= wrote + 1 /\ (IsData(sh) => sh < obuf'[i])
                 /\ \A j \in 1 .. Len(txf) : txf[j] # XC => txf[j] < obuf'[i]
      <3>1. CASE i = Len(obuf) + 1
        <4>1. obuf'[i] = wrote + 1
          BY <1>2, <3>1
        <4>2. \A j \in 1 .. Len(txf) : txf[j] # XC => txf[j] \in Int /\ txf[j] <= wrote
          BY <1>1 DEF OrderInv
        <4>3. \A j \in 1 .. Len(txf) : txf[j] # XC => txf[j] < wrote + 1
          BY <1>1, <4>2
        <4>4. IsData(sh) => sh < wrote + 1
          BY <1>1 DEF OrderInv
        <4> QED BY <1>1, <4>1, <4>3, <4>4
      <3>2. CASE i # Len(obuf) + 1
        <4>1. i \in 1 .. Len(obuf) /\ obuf'[i] = obuf[i]
          <5>1. i \in Int /\ i >= 1 /\ i <= Len(obuf) + 1
            BY <1>1, <1>2
          <5>2. i \in 1 .. Len(obuf)
            BY <1>1, <3>2, <5>1, NotLast
          <5> QED BY <1>1, <5>2
        <4>2. obuf[i] \in Int
          BY <1>1, <4>1
        <4> QED BY <1>1, <2>4, <4>1, <4>2 DEF OrderInv
      <3> QED BY <3>1, <3>2
    <2>5. ASSUME NEW j \in 1 .. Len(obuf'), NEW i \in 1 .. j - 1, obuf'[i] # XC, obuf'[j] # XC
          PROVE  obuf'[i] < obuf'[j]
      <3>1. i \in 1 .. Len(obuf) /\ obuf'[i] = obuf[i] /\ obuf[i] \in Int
        BY <1>1, <1>2
      <3>2. CASE j = Len(obuf) + 1
        BY <1>1, <1>2, <2>5, <3>1, <3>2 DEF OrderInv
      <3>3. CASE j # Len(obuf) + 1
        <4>1. j \in 1 .. Len(obuf) /\ obuf'[j] = obuf[j]
          <5>1. j \in Int /\ j >= 1 /\ j <= Len(obuf) + 1
            BY <1>1, <1>2
          <5>2. j \in 1 .. Len(obuf)
            BY <1>1, <3>3, <5>1, NotLast
          <5> QED BY <1>1, <5>2
        <4> QED BY <2>5, <3>1, <4>1 DEF OrderInv
      <3> QED BY <3>2, <3>3
    <2> QED BY <2>1, <2>2, <2>3, <2>4, <2>5 DEF OrderInv, IsData
  <1>4. ASSUME NEW c \in 1 .. wrote + 1
        PROVE  \/ c <= Len(line) \/ c = sh
               \/ \E i \in 1 .. Len(txf) : txf[i] = c
               \/ \E i \in 1 .. Len(obuf') : obuf'[i] = c
    <2>1. CASE c = wrote + 1
      <3>1. Len(obuf) + 1 \in 1 .. Len(obuf') /\ obuf'[Len(obuf) + 1] = c
        BY <1>1, <1>2, <2>1
      <3> QED BY <3>1
    <2>2. CASE c # wrote + 1
      <3>1. c \in 1 .. wrote
        BY <1>1, <2>2
      <3>2. ASSUME NEW i \in 1 .. Len(obuf), obuf[i] = c PROVE \E k \in 1 .. Len(obuf') : obuf'[k] = c
        <4>1. i \in 1 .. Len(obuf') /\ obuf'[i] = c
          BY <1>1, <1>2, <3>2
        <4> QED BY <4>1
      <3> QED BY <3>1, <3>2 DEF WholeInv
    <2> QED BY <2>1, <2>2
  <1>5. WholeInv'
    BY <1>4 DEF WholeInv
  <1> QED BY <1>3, <1>5

\* A flow control character goes in front of the data and is not of it.
LEMMA InjectOrder ==
  ASSUME FlowType, OrderInv, WholeInv, obuf' = <<XC>> \o obuf, UNCHANGED <<line, sh, txf, wrote>>
  PROVE  OrderInv' /\ WholeInv'
  <1>1. obuf \in Seq(Int) /\ Len(obuf) \in Nat
    BY DEF FlowType
  <1>2. /\ Len(obuf') = Len(obuf) + 1 /\ obuf'[1] = XC
        /\ \A i \in 1 .. Len(obuf') : i # 1 => obuf'[i] = obuf[i - 1]
    <2>1. <<XC>> \in Seq(Int) /\ Len(<<XC>>) = 1 /\ <<XC>>[1] = XC
      BY DEF XC
    <2> QED BY <1>1, <2>1
  <1>3. OrderInv'
    <2>1. ASSUME NEW i \in 1 .. Len(obuf'), obuf'[i] # XC
          PROVE  /\ obuf'[i] > Len(line) /\ obuf'[i] <= wrote /\ (IsData(sh) => sh < obuf'[i])
                 /\ \A j \in 1 .. Len(txf) : txf[j] # XC => txf[j] < obuf'[i]
      <3>1. i - 1 \in 1 .. Len(obuf) /\ obuf'[i] = obuf[i - 1]
        BY <1>1, <1>2, <2>1
      <3> QED BY <2>1, <3>1 DEF OrderInv
    <2>2. ASSUME NEW j \in 1 .. Len(obuf'), NEW i \in 1 .. j - 1, obuf'[i] # XC, obuf'[j] # XC
          PROVE  obuf'[i] < obuf'[j]
      <3>1. /\ i # 1 /\ i \in 1 .. Len(obuf') /\ j - 1 \in 1 .. Len(obuf) /\ i - 1 \in 1 .. (j - 1) - 1
            /\ obuf'[i] = obuf[i - 1] /\ obuf'[j] = obuf[j - 1]
        BY <1>1, <1>2, <2>2, SMTT(60)
      <3> QED BY <2>2, <3>1 DEF OrderInv
    <2> QED BY <2>1, <2>2 DEF OrderInv, IsData
  <1>4. ASSUME NEW c, NEW i \in 1 .. Len(obuf), obuf[i] = c PROVE \E k \in 1 .. Len(obuf') : obuf'[k] = c
    <2>1. i + 1 \in 1 .. Len(obuf') /\ obuf'[i + 1] = c
      BY <1>1, <1>2, <1>4
    <2> QED BY <2>1
  <1>5. WholeInv'
    BY <1>4 DEF WholeInv
  <1> QED BY <1>3, <1>5

\* A step that leaves the characters where they are.
LEMMA QuietOrder ==
  ASSUME OrderInv, WholeInv, UNCHANGED <<line, sh, txf, obuf, wrote>>
  PROVE  OrderInv' /\ WholeInv'
  BY DEF OrderInv, WholeInv, IsData

\* Every step keeps the order.
LEMMA SentNext == SentInv /\ [Next]_vars => SentInv'
  <1> SUFFICES ASSUME SentInv, [Next]_vars PROVE CutInv' /\ Sound'
    BY FlowNext DEF SentInv
  <1>a. FlowType /\ CutInv /\ Sound
    BY DEF SentInv, FlowInv
  <1> USE <1>a
  <1>1. CASE Shift
    <2>1. CutInv'
      BY <1>1 DEF CutInv, Shift, disp
    <2>2. sh = None /\ txf # <<>> /\ sh' = Head(txf) /\ txf' = Tail(txf) /\ UNCHANGED <<line, obuf, wrote>>
      BY <1>1 DEF Shift, tty, count
    <2>3. hist' = hist
      BY <1>1 DEF Shift
    <2>4. Sound'
      BY <2>2, <2>3, ShiftOrder DEF Sound
    <2> QED BY <2>1, <2>4
  <1>2. CASE Transmit
    <2>1. CutInv'
      BY <1>2 DEF CutInv, Transmit, disp
    <2>2. /\ sh # None /\ sh' = None /\ line' = (IF sh = XC THEN line ELSE Append(line, sh))
          /\ UNCHANGED <<txf, obuf, wrote>>
      BY <1>2 DEF Transmit, tty, count
    <2>3. hist' = hist
      BY <1>2 DEF Transmit
    <2>4. Sound'
      BY <2>2, <2>3, TransmitOrder DEF Sound
    <2> QED BY <2>1, <2>4
  <1>3. CASE Cts
    <2>1. CutInv'
      BY <1>3 DEF CutInv, Cts, disp
    <2>2. UNCHANGED <<line, sh, txf, obuf, wrote>> /\ ("cut" \in hist' <=> "cut" \in hist)
      BY <1>3 DEF Cts, tty, count
    <2>3. Sound'
      BY <2>2, QuietOrder DEF Sound
    <2> QED BY <2>1, <2>3
  <1>4. CASE Receive
    <2>1. CutInv'
      BY <1>4 DEF CutInv, Receive, disp
    <2>2. UNCHANGED <<line, sh, txf, obuf, wrote>> /\ ("cut" \in hist' <=> "cut" \in hist)
      BY <1>4 DEF Receive, tty
    <2>3. Sound'
      BY <2>2, QuietOrder DEF Sound
    <2> QED BY <2>1, <2>3
  <1>5. CASE ReceiveTimeout
    <2>1. CutInv'
      BY <1>5 DEF CutInv, ReceiveTimeout, disp
    <2>2. UNCHANGED <<line, sh, txf, obuf, wrote>> /\ ("cut" \in hist' <=> "cut" \in hist)
      BY <1>5 DEF ReceiveTimeout, tty, count
    <2>3. Sound'
      BY <2>2, QuietOrder DEF Sound
    <2> QED BY <2>1, <2>3
  <1>6. CASE Interrupt
    <2>1. CutInv'
      BY <1>6 DEF CutInv, Interrupt, hw, disp
    <2>2. UNCHANGED <<line, sh, txf, obuf, wrote>> /\ ("cut" \in hist' <=> "cut" \in hist)
      BY <1>6 DEF Interrupt, hw, tty, count
    <2>3. Sound'
      BY <2>2, QuietOrder DEF Sound
    <2> QED BY <2>1, <2>3
  <1>7. CASE Write
    <2>1. CutInv'
      BY <1>7 DEF CutInv, Write, Call
    <2>2. wrote' = wrote + 1 /\ obuf' = Append(obuf, wrote + 1) /\ UNCHANGED <<line, sh, txf>>
      BY <1>7 DEF Write, hw
    <2>3. hist' = hist
      BY <1>7 DEF Write
    <2>4. Sound'
      BY <2>2, <2>3, WriteOrder DEF Sound
    <2> QED BY <2>1, <2>4
  <1>8. CASE Inject
    <2>1. CutInv'
      BY <1>8 DEF CutInv, Inject, Call
    <2>2. obuf' = <<XC>> \o obuf /\ UNCHANGED <<line, sh, txf, wrote>>
      BY <1>8 DEF Inject, hw, count
    <2>3. hist' = hist
      BY <1>8 DEF Inject
    <2>4. Sound'
      BY <2>2, <2>3, InjectOrder DEF Sound
    <2> QED BY <2>1, <2>4
  <1>9. CASE TxTimer
    <2>1. CutInv'
      BY <1>9 DEF CutInv, TxTimer, Call
    <2>2. UNCHANGED <<line, sh, txf, obuf, wrote>> /\ ("cut" \in hist' <=> "cut" \in hist)
      BY <1>9 DEF TxTimer, hw, count
    <2>3. Sound'
      BY <2>2, QuietOrder DEF Sound
    <2> QED BY <2>1, <2>3
  <1>10. CASE Event
    <2>1. CutInv'
      BY <1>10 DEF CutInv, Event, Call
    <2>2. UNCHANGED <<line, sh, txf, obuf, wrote>> /\ ("cut" \in hist' <=> "cut" \in hist)
      BY <1>10 DEF Event, hw, count
    <2>3. Sound'
      BY <2>2, QuietOrder DEF Sound
    <2> QED BY <2>1, <2>3
  <1>11. CASE Stty
    <2>1. CutInv'
      BY <1>11 DEF CutInv, Stty, Call
    <2>2. UNCHANGED <<line, sh, txf, obuf, wrote>> /\ ("cut" \in hist' <=> "cut" \in hist)
      BY <1>11 DEF Stty, hw
    <2>3. Sound'
      BY <2>2, QuietOrder DEF Sound
    <2> QED BY <2>1, <2>3
  <1>12. CASE pl011_read_mis
    <2>1. CutInv'
      BY <1>12 DEF CutInv, pl011_read_mis
    <2>2. UNCHANGED <<line, sh, txf, obuf, wrote>> /\ ("cut" \in hist' <=> "cut" \in hist)
      BY <1>12 DEF pl011_read_mis, hw, tty, count
    <2>3. Sound'
      BY <2>2, QuietOrder DEF Sound
    <2> QED BY <2>1, <2>3
  <1>13. CASE pl011_clear
    <2>1. CutInv'
      BY <1>13 DEF CutInv, pl011_clear
    <2>2. UNCHANGED <<line, sh, txf, obuf, wrote>> /\ ("cut" \in hist' <=> "cut" \in hist)
      BY <1>13 DEF pl011_clear, tty, count
    <2>3. Sound'
      BY <2>2, QuietOrder DEF Sound
    <2> QED BY <2>1, <2>3
  <1>14. CASE pl011_rx_interrupt
    <2>1. CutInv'
      BY <1>14 DEF CutInv, pl011_rx_interrupt
    <2>2. UNCHANGED <<line, sh, txf, obuf, wrote>> /\ ("cut" \in hist' <=> "cut" \in hist)
      BY <1>14 DEF pl011_rx_interrupt, intr, count
    <2>3. Sound'
      BY <2>2, QuietOrder DEF Sound
    <2> QED BY <2>1, <2>3
  <1>15. CASE pl011_tx_interrupt
    <2>1. CutInv'
      BY <1>15 DEF CutInv, pl011_tx_interrupt
    <2>2. UNCHANGED <<line, sh, txf, obuf, wrote>> /\ ("cut" \in hist' <=> "cut" \in hist)
      BY <1>15 DEF pl011_tx_interrupt, hw, count
    <2>3. Sound'
      BY <2>2, QuietOrder DEF Sound
    <2> QED BY <2>1, <2>3
  <1>16. CASE pl011_tto
    <2>1. CutInv'
      BY <1>16 DEF CutInv, FlowType, pl011_tto
    <2>2. UNCHANGED <<line, sh, txf, obuf, wrote>> /\ ("cut" \in hist' <=> "cut" \in hist)
      BY <1>16 DEF pl011_tto, hw, tty, count
    <2>3. Sound'
      BY <2>2, QuietOrder DEF Sound
    <2> QED BY <2>1, <2>3
  <1>17. CASE pl011_tto_loop
    <2>1. CutInv'
      BY <1>17 DEF CutInv, pl011_tto_loop
    <2>2. CASE UNCHANGED <<obuf, txf, hist>>
      <3>1. UNCHANGED <<line, sh, txf, obuf, wrote>>
        BY <1>17, <2>2 DEF pl011_tto_loop, intr, count
      <3> QED BY <2>1, <2>2, <3>1, QuietOrder DEF Sound
    <2>3. CASE obuf # <<>> /\ obuf' = Tail(obuf) /\ txf' = Append(txf, Head(obuf))
      <3>1. UNCHANGED <<line, sh, wrote>> /\ ("cut" \in hist' <=> "cut" \in hist)
        BY <1>17 DEF pl011_tto_loop, intr, count
      <3> QED BY <2>1, <2>3, <3>1, MoveOrder DEF Sound
    <2>4. Sound'
      BY <1>17, <2>2, <2>3 DEF pl011_tto_loop
    <2> QED BY <2>1, <2>4
  <1>18. CASE pl011_tto_end
    <2>1. CutInv'
      BY <1>18 DEF CutInv, FlowType, pl011_tto_end
    <2>2. UNCHANGED <<line, sh, txf, obuf, wrote>> /\ ("cut" \in hist' <=> "cut" \in hist)
      BY <1>18 DEF pl011_tto_end, hw, tty, count
    <2>3. Sound'
      BY <2>2, QuietOrder DEF Sound
    <2> QED BY <2>1, <2>3
  <1>19. CASE pl011_ser_stty
    <2>1. CutInv'
      BY <1>19 DEF CutInv, pl011_ser_stty, hw
    <2>2. UNCHANGED <<line, sh, txf, obuf, wrote>> /\ ("cut" \in hist' <=> "cut" \in hist)
      BY <1>19 DEF pl011_ser_stty, hw, tty, count
    <2>3. Sound'
      BY <2>2, QuietOrder DEF Sound
    <2> QED BY <2>1, <2>3
  <1>20. CASE pl011_program
    <2>1. CutInv'
      BY <1>20 DEF CutInv, pl011_program
    <2>2. ASSUME "cut" \notin hist' PROVE "cut" \notin hist /\ UNCHANGED <<line, sh, txf, obuf, wrote>>
      BY <1>20, <2>2 DEF pl011_program, tty, count
    <2>3. Sound'
      BY <2>2, QuietOrder DEF Sound
    <2> QED BY <2>1, <2>3
  <1>21. CASE mini_read_iir
    <2>1. CutInv'
      BY <1>21 DEF CutInv, mini_read_iir
    <2>2. UNCHANGED <<line, sh, txf, obuf, wrote>> /\ ("cut" \in hist' <=> "cut" \in hist)
      BY <1>21 DEF mini_read_iir, hw, tty, count
    <2>3. Sound'
      BY <2>2, QuietOrder DEF Sound
    <2> QED BY <2>1, <2>3
  <1>22. CASE mini_rx_interrupt
    <2>1. CutInv'
      BY <1>22 DEF CutInv, mini_rx_interrupt
    <2>2. UNCHANGED <<line, sh, txf, obuf, wrote>> /\ ("cut" \in hist' <=> "cut" \in hist)
      BY <1>22 DEF mini_rx_interrupt, intr, count
    <2>3. Sound'
      BY <2>2, QuietOrder DEF Sound
    <2> QED BY <2>1, <2>3
  <1>23. CASE mini_tx_interrupt
    <2>1. CutInv'
      BY <1>23 DEF CutInv, mini_tx_interrupt
    <2>2. UNCHANGED <<line, sh, txf, obuf, wrote>> /\ ("cut" \in hist' <=> "cut" \in hist)
      BY <1>23 DEF mini_tx_interrupt, hw, count
    <2>3. Sound'
      BY <2>2, QuietOrder DEF Sound
    <2> QED BY <2>1, <2>3
  <1>24. CASE mini_tto
    <2>1. CutInv'
      BY <1>24 DEF CutInv, FlowType, mini_tto
    <2>2. UNCHANGED <<line, sh, txf, obuf, wrote>> /\ ("cut" \in hist' <=> "cut" \in hist)
      BY <1>24 DEF mini_tto, hw, tty, count
    <2>3. Sound'
      BY <2>2, QuietOrder DEF Sound
    <2> QED BY <2>1, <2>3
  <1>25. CASE mini_tto_loop
    <2>1. CutInv'
      BY <1>25 DEF CutInv, mini_tto_loop
    <2>2. CASE UNCHANGED <<obuf, txf, hist>>
      <3>1. UNCHANGED <<line, sh, txf, obuf, wrote>>
        BY <1>25, <2>2 DEF mini_tto_loop, intr, count
      <3> QED BY <2>1, <2>2, <3>1, QuietOrder DEF Sound
    <2>3. CASE obuf # <<>> /\ obuf' = Tail(obuf) /\ txf' = Append(txf, Head(obuf))
      <3>1. UNCHANGED <<line, sh, wrote>> /\ ("cut" \in hist' <=> "cut" \in hist)
        BY <1>25 DEF mini_tto_loop, intr, count
      <3> QED BY <2>1, <2>3, <3>1, MoveOrder DEF Sound
    <2>4. Sound'
      BY <1>25, <2>2, <2>3 DEF mini_tto_loop
    <2> QED BY <2>1, <2>4
  <1>26. CASE mini_tto_end
    <2>1. CutInv'
      BY <1>26 DEF CutInv, FlowType, mini_tto_end
    <2>2. UNCHANGED <<line, sh, txf, obuf, wrote>> /\ ("cut" \in hist' <=> "cut" \in hist)
      BY <1>26 DEF mini_tto_end, hw, tty, count
    <2>3. Sound'
      BY <2>2, QuietOrder DEF Sound
    <2> QED BY <2>1, <2>3
  <1>27. CASE mini_ser_stty
    <2>1. CutInv'
      BY <1>27 DEF CutInv, mini_ser_stty, hw
    <2>2. UNCHANGED <<line, sh, txf, obuf, wrote>> /\ ("cut" \in hist' <=> "cut" \in hist)
      BY <1>27 DEF mini_ser_stty, hw, tty, count
    <2>3. Sound'
      BY <2>2, QuietOrder DEF Sound
    <2> QED BY <2>1, <2>3
  <1>28. CASE mini_program
    <2>1. CutInv'
      BY <1>28 DEF CutInv, mini_program
    <2>2. ASSUME "cut" \notin hist' PROVE "cut" \notin hist /\ UNCHANGED <<line, sh, txf, obuf, wrote>>
      BY <1>28, <2>2 DEF mini_program, tty, count
    <2>3. Sound'
      BY <2>2, QuietOrder DEF Sound
    <2> QED BY <2>1, <2>3
  <1>29. CASE Unmask
    <2>1. CutInv'
      BY <1>29 DEF CutInv, Unmask
    <2>2. UNCHANGED <<line, sh, txf, obuf, wrote>> /\ ("cut" \in hist' <=> "cut" \in hist)
      BY <1>29 DEF Unmask, hw, tty, count
    <2>3. Sound'
      BY <2>2, QuietOrder DEF Sound
    <2> QED BY <2>1, <2>3
  <1>30. CASE Is011 /\ EnterHandler("mis")
    <2>1. CutInv'
      BY <1>30 DEF CutInv, EnterHandler
    <2>2. UNCHANGED <<line, sh, txf, obuf, wrote>> /\ ("cut" \in hist' <=> "cut" \in hist)
      BY <1>30 DEF EnterHandler, hw, tty, count
    <2>3. Sound'
      BY <2>2, QuietOrder DEF Sound
    <2> QED BY <2>1, <2>3
  <1>31. CASE IsMini /\ EnterHandler("iir")
    <2>1. CutInv'
      BY <1>31 DEF CutInv, EnterHandler
    <2>2. UNCHANGED <<line, sh, txf, obuf, wrote>> /\ ("cut" \in hist' <=> "cut" \in hist)
      BY <1>31 DEF EnterHandler, hw, tty, count
    <2>3. Sound'
      BY <2>2, QuietOrder DEF Sound
    <2> QED BY <2>1, <2>3
  <1>u. CASE UNCHANGED vars
    <2>1. UNCHANGED <<line, sh, txf, obuf, wrote, hist, pc>>
      BY <1>u DEF vars, hw, tty, disp, count
    <2> QED BY <2>1, QuietOrder DEF CutInv, Sound
  <1> QED BY <1>1, <1>2, <1>3, <1>4, <1>5, <1>6, <1>7, <1>8, <1>9, <1>10, <1>11, <1>12,
           <1>13, <1>14, <1>15, <1>16, <1>17, <1>18, <1>19, <1>20, <1>21, <1>22, <1>23,
           <1>24, <1>25, <1>26, <1>27, <1>28, <1>29, <1>30, <1>31, <1>u
         DEF Next, Hardware, IoChar, Pl011Next, MiniNext

-----------------------------------------------------------------------------
\* When nothing waits in the buffer and the FIFO, all but what the shift
\* register has is on the line.
LEMMA DrainedLemma ==
  ASSUME FlowType, OrderInv, WholeInv
  PROVE  DrainedIsSent
  <1>1. /\ Len(line) \in Nat /\ wrote \in Nat /\ Len(line) <= wrote /\ sh \in Int
        /\ IsData(sh) => sh > Len(line) /\ sh <= wrote
    BY DEF FlowType, OrderInv
  <1>2. ASSUME obuf = <<>>, txf = <<>>, NEW c \in 1 .. wrote PROVE c <= Len(line) \/ c = sh
    <2>1. Len(txf) = 0 /\ Len(obuf) = 0
      BY <1>2
    <2> QED BY <2>1 DEF WholeInv
  <1>3. ASSUME obuf = <<>>, txf = <<>>, ~IsData(sh) PROVE Len(line) = wrote
    <2>1. \A c \in 1 .. wrote : c # sh
      BY <1>1, <1>3 DEF IsData, None, XC
    <2>2. wrote # 0 => wrote \in 1 .. wrote
      BY <1>1
    <2> QED BY <1>1, <1>2, <1>3, <2>1, <2>2
  <1>4. ASSUME obuf = <<>>, txf = <<>>, IsData(sh) PROVE Len(line) + 1 = wrote
    <2>1. Len(line) + 1 \in 1 .. wrote /\ wrote \in 1 .. wrote
      BY <1>1, <1>4
    <2>2. Len(line) + 1 = sh /\ (wrote <= Len(line) \/ wrote = sh)
      BY <1>1, <1>2, <1>4, <2>1
    <2> QED BY <1>1, <1>4, <2>2
  <1>5. ASSUME pl011_drain_check PROVE Len(line) + (IF sh \in {None, XC} THEN 0 ELSE 1) = wrote
    BY <1>1, <1>3, <1>4, <1>5 DEF pl011_drain_check, IsData
  <1>6. ASSUME mini_drain_check PROVE Len(line) = wrote
    BY <1>3, <1>6 DEF mini_drain_check, IsData
  <1> QED BY <1>5, <1>6 DEF DrainedIsSent

\* Where the elements of a concatenation are.
LEMMA ConcatPlaces ==
  ASSUME NEW a \in Seq(Int), NEW b \in Seq(Int)
  PROVE  /\ a \o b \in Seq(Int) /\ Len(a) \in Nat /\ Len(b) \in Nat /\ Len(a \o b) = Len(a) + Len(b)
         /\ \A i \in 1 .. Len(a) : i \in 1 .. Len(a \o b) /\ (a \o b)[i] = a[i]
         /\ \A i \in 1 .. Len(b) : Len(a) + i \in 1 .. Len(a \o b) /\ (a \o b)[Len(a) + i] = b[i]
         /\ \A i \in 1 .. Len(a \o b) :
              \/ i \in 1 .. Len(a) /\ (a \o b)[i] = a[i]
              \/ i - Len(a) \in 1 .. Len(b) /\ (a \o b)[i] = b[i - Len(a)]
  OBVIOUS

\* Sequences in order, the first before the second, are in order together.
LEMMA ConcatOrdered ==
  ASSUME NEW a \in Seq(Int), NEW b \in Seq(Int), Ordered(a), Ordered(b),
         \A i \in 1 .. Len(a), j \in 1 .. Len(b) : a[i] = XC \/ b[j] = XC \/ a[i] < b[j]
  PROVE  Ordered(a \o b)
  <1> DEFINE ab == a \o b
  <1>1. /\ DOMAIN ab = 1 .. Len(ab) /\ DOMAIN a = 1 .. Len(a) /\ DOMAIN b = 1 .. Len(b)
        /\ Len(a) \in Nat /\ Len(ab) \in Nat
        /\ \A i \in 1 .. Len(ab) : \/ i \in 1 .. Len(a) /\ ab[i] = a[i]
                                   \/ i - Len(a) \in 1 .. Len(b) /\ ab[i] = b[i - Len(a)]
    BY ConcatPlaces
  <1> HIDE DEF ab
  <1>2. ASSUME NEW j \in 1 .. Len(ab), NEW i \in 1 .. j - 1
        PROVE  ab[i] = XC \/ ab[j] = XC \/ ab[i] < ab[j]
    <2>1. i \in 1 .. Len(ab)
      BY <1>1
    <2>2. CASE j \in 1 .. Len(a) /\ ab[j] = a[j]
      <3>1. ab[i] = a[i]
        BY <1>1, <2>1, <2>2
      <3> QED BY <1>1, <2>2, <3>1 DEF Ordered
    <2>3. CASE j - Len(a) \in 1 .. Len(b) /\ ab[j] = b[j - Len(a)]
      <3>1. CASE i \in 1 .. Len(a) /\ ab[i] = a[i]
        BY <2>3, <3>1
      <3>2. CASE i - Len(a) \in 1 .. Len(b) /\ ab[i] = b[i - Len(a)]
        <4>1. i - Len(a) \in 1 .. (j - Len(a)) - 1
          BY <1>1, <2>3, <3>2
        <4> QED BY <1>1, <2>3, <3>2, <4>1 DEF Ordered
      <3> QED BY <1>1, <2>1, <3>1, <3>2
    <2> QED BY <1>1, <2>2, <2>3
  <1>3. Ordered(ab)
    BY <1>1, <1>2 DEF Ordered
  <1> QED BY <1>3 DEF ab

\* What is not on the line stands in order in the stages behind it.
LEMMA InOrderLemma ==
  ASSUME FlowType, OrderInv, WholeInv
  PROVE  InOrder
  <1> DEFINE shs == IF sh = None THEN <<>> ELSE <<sh>>
             fifo == shs \o txf
  <1>1. /\ line \in Seq(Nat) /\ txf \in Seq(Int) /\ obuf \in Seq(Int) /\ sh \in Int /\ wrote \in Nat
        /\ Len(line) \in Nat /\ Len(line) <= wrote
    BY DEF FlowType, OrderInv
  <1>2. /\ shs \in Seq(Int) /\ DOMAIN txf = 1 .. Len(txf) /\ DOMAIN obuf = 1 .. Len(obuf)
        /\ DOMAIN shs = 1 .. Len(shs)
        /\ \A i \in 1 .. Len(shs) : i = 1 /\ shs[i] = sh /\ sh # None
        /\ sh # None => 1 \in 1 .. Len(shs) /\ shs[1] = sh
    <2>1. DOMAIN txf = 1 .. Len(txf) /\ DOMAIN obuf = 1 .. Len(obuf)
      BY <1>1
    <2>2. CASE sh = None
      <3>1. shs = <<>> /\ shs \in Seq(Int) /\ Len(shs) = 0
        BY <2>2
      <3> QED BY <2>1, <2>2, <3>1
    <2>3. CASE sh # None
      <3>1. shs = <<sh>> /\ shs \in Seq(Int) /\ Len(shs) = 1 /\ shs[1] = sh
        BY <1>1, <2>3
      <3> QED BY <2>1, <2>3, <3>1
    <2> QED BY <2>2, <2>3
  <1> HIDE DEF shs
  <1>3. /\ fifo \in Seq(Int) /\ DOMAIN fifo = 1 .. Len(fifo)
        /\ \A i \in 1 .. Len(shs) : i \in 1 .. Len(fifo) /\ fifo[i] = shs[i]
        /\ \A i \in 1 .. Len(txf) : Len(shs) + i \in 1 .. Len(fifo) /\ fifo[Len(shs) + i] = txf[i]
        /\ \A i \in 1 .. Len(fifo) :
             \/ i \in 1 .. Len(shs) /\ fifo[i] = shs[i]
             \/ i - Len(shs) \in 1 .. Len(txf) /\ fifo[i] = txf[i - Len(shs)]
    BY <1>1, <1>2, ConcatPlaces, SMTT(30)
  <1>4. Ordered(fifo)
    <2>1. Ordered(shs)
      BY <1>2 DEF Ordered
    <2>2. Ordered(txf)
      BY <1>2 DEF Ordered, OrderInv
    <2>3. \A i \in 1 .. Len(shs), j \in 1 .. Len(txf) : shs[i] = XC \/ txf[j] = XC \/ shs[i] < txf[j]
      BY <1>2 DEF OrderInv, IsData
    <2> QED BY <1>1, <1>2, <2>1, <2>2, <2>3, ConcatOrdered
  <1> HIDE DEF fifo
  <1>5. /\ Rest = fifo \o obuf /\ DOMAIN Rest = 1 .. Len(Rest)
        /\ \A i \in 1 .. Len(fifo) : i \in 1 .. Len(Rest) /\ Rest[i] = fifo[i]
        /\ \A i \in 1 .. Len(obuf) : Len(fifo) + i \in 1 .. Len(Rest) /\ Rest[Len(fifo) + i] = obuf[i]
        /\ \A i \in 1 .. Len(Rest) :
             \/ i \in 1 .. Len(fifo) /\ Rest[i] = fifo[i]
             \/ i - Len(fifo) \in 1 .. Len(obuf) /\ Rest[i] = obuf[i - Len(fifo)]
    <2>1. Rest = fifo \o obuf
      BY DEF Rest, fifo, shs
    <2> QED BY <1>1, <1>3, <2>1, ConcatPlaces
  <1>6. Ordered(Rest)
    <2>1. Ordered(obuf)
      BY <1>2 DEF Ordered, OrderInv
    <2>2. ASSUME NEW i \in 1 .. Len(fifo), NEW j \in 1 .. Len(obuf)
          PROVE  fifo[i] = XC \/ obuf[j] = XC \/ fifo[i] < obuf[j]
      <3>1. CASE i \in 1 .. Len(shs) /\ fifo[i] = shs[i]
        BY <1>2, <3>1 DEF OrderInv, IsData
      <3>2. CASE i - Len(shs) \in 1 .. Len(txf) /\ fifo[i] = txf[i - Len(shs)]
        BY <3>2 DEF OrderInv
      <3> QED BY <1>3, <3>1, <3>2
    <2> QED BY <1>1, <1>3, <1>4, <1>5, <2>1, <2>2, ConcatOrdered
  <1>7. \A i \in 1 .. Len(Rest) : Rest[i] # XC => Rest[i] \in Len(line) + 1 .. wrote
    <2>1. sh # None /\ sh # XC => sh \in Len(line) + 1 .. wrote
      BY <1>1 DEF OrderInv, IsData
    <2>2. \A i \in 1 .. Len(txf) : txf[i] # XC => txf[i] \in Len(line) + 1 .. wrote
      BY <1>1 DEF OrderInv
    <2>3. \A i \in 1 .. Len(obuf) : obuf[i] # XC => obuf[i] \in Len(line) + 1 .. wrote
      BY <1>1 DEF OrderInv
    <2>4. \A i \in 1 .. Len(fifo) : fifo[i] # XC => fifo[i] \in Len(line) + 1 .. wrote
      BY <1>2, <1>3, <2>1, <2>2
    <2> QED BY <1>5, <2>3, <2>4
  <1>8. ASSUME NEW c \in Len(line) + 1 .. wrote
        PROVE  c # XC /\ \E i \in 1 .. Len(Rest) : Rest[i] = c
    <2>1. c \in 1 .. wrote /\ c # XC /\ c # None /\ ~(c <= Len(line))
      BY <1>1 DEF XC, None
    <2>2. CASE c = sh
      <3>1. 1 \in 1 .. Len(shs) /\ shs[1] = c
        BY <1>2, <2>1, <2>2
      <3>2. 1 \in 1 .. Len(Rest) /\ Rest[1] = c
        BY <1>3, <1>5, <3>1
      <3> QED BY <2>1, <3>2
    <2>3. ASSUME NEW i \in 1 .. Len(txf), txf[i] = c PROVE \E k \in 1 .. Len(Rest) : Rest[k] = c
      <3>1. Len(shs) + i \in 1 .. Len(Rest) /\ Rest[Len(shs) + i] = c
        BY <1>3, <1>5, <2>3
      <3> QED BY <3>1
    <2>4. ASSUME NEW i \in 1 .. Len(obuf), obuf[i] = c PROVE \E k \in 1 .. Len(Rest) : Rest[k] = c
      <3>1. Len(fifo) + i \in 1 .. Len(Rest) /\ Rest[Len(fifo) + i] = c
        BY <1>5, <2>4
      <3> QED BY <3>1
    <2> QED BY <2>1, <2>2, <2>3, <2>4 DEF WholeInv
  <1>9. {Rest[i] : i \in DOMAIN Rest} \ {XC} = Len(line) + 1 .. wrote
    <2> DEFINE all == {Rest[i] : i \in DOMAIN Rest}
               data == Len(line) + 1 .. wrote
    <2>1. \A c : c \in all <=> \E i \in 1 .. Len(Rest) : Rest[i] = c
      BY <1>5
    <2>2. \A c \in all : c # XC => c \in data
      BY <1>7, <2>1
    <2>3. \A c \in data : c # XC /\ c \in all
      BY <1>8, <2>1
    <2> HIDE DEF all, data
    <2>4. all \ {XC} = data
      BY <2>2, <2>3
    <2> QED BY <2>4 DEF all, data
  <1>10. line = [i \in 1 .. Len(line) |-> i]
    BY <1>1 DEF OrderInv
  <1> QED BY <1>6, <1>9, <1>10 DEF InOrder

\* What clients write is sent once and in order, and drain_check() says so
\* when it is: write(), tx_inject(), tto() and the timer fill the FIFO, the UART
\* empties it, and ser_stty() flushes it only when it is empty or the other side
\* holds the line.
THEOREM CharactersSentInOrder == Spec => []SentInOrder
  <1>1. Init => SentInv
    <2>1. Init => FlowInv
      BY FlowInit
    <2>2. ASSUME Init PROVE CutInv /\ OrderInv /\ WholeInv
      <3>1. /\ line = <<>> /\ sh = None /\ txf = <<>> /\ obuf = <<>> /\ wrote = 0
            /\ hist = {} /\ pc = "idle"
        BY <2>2 DEF Init, Buffers, Attached
      <3>2. OrderInv
        BY <3>1 DEF OrderInv, IsData, None
      <3> QED BY <3>1, <3>2 DEF CutInv, WholeInv
    <2> QED BY <2>1, <2>2 DEF SentInv, Sound
  <1>2. SentInv => SentInOrder
    BY DrainedLemma, InOrderLemma DEF SentInv, FlowInv, CutInv, Sound, SentInOrder
  <1> QED BY <1>1, <1>2, SentNext, PTL DEF Spec

-----------------------------------------------------------------------------
(* The divisors.                                                           *)

\* Speeds whose rounded fraction fits in the six bits of FBRD.
FractionFits(baud) == (Clock.pl011 % baud) * 64 + (baud + 1) \div 2 < 64 * baud

\* What is asked for and what is programmed are speeds of the settings.
RateInv == want \in Settings /\ \E s \in Settings : cfg.baud = s.baud

\* Only tcsetattr() and ser_stty() touch the settings.
LEMMA RateNext == RateInv /\ [Next]_vars => RateInv'
  <1> SUFFICES ASSUME RateInv, [Next]_vars PROVE RateInv'
    OBVIOUS
  <1>1. CASE Shift
    BY <1>1 DEF RateInv, Shift, tty
  <1>2. CASE Transmit
    BY <1>2 DEF RateInv, Transmit, tty
  <1>3. CASE Cts
    BY <1>3 DEF RateInv, Cts, tty
  <1>4. CASE Receive
    BY <1>4 DEF RateInv, Receive, tty
  <1>5. CASE ReceiveTimeout
    BY <1>5 DEF RateInv, ReceiveTimeout, tty
  <1>6. CASE Interrupt
    BY <1>6 DEF RateInv, Interrupt, tty
  <1>7. CASE Write
    BY <1>7 DEF RateInv, Write
  <1>8. CASE Inject
    BY <1>8 DEF RateInv, Inject
  <1>9. CASE TxTimer
    BY <1>9 DEF RateInv, TxTimer
  <1>10. CASE Event
    BY <1>10 DEF RateInv, Event
  <1>11. CASE Stty
    BY <1>11 DEF RateInv, Stty
  <1>12. CASE pl011_read_mis
    BY <1>12 DEF RateInv, pl011_read_mis, tty
  <1>13. CASE pl011_clear
    BY <1>13 DEF RateInv, pl011_clear, tty
  <1>14. CASE pl011_rx_interrupt
    BY <1>14 DEF RateInv, pl011_rx_interrupt
  <1>15. CASE pl011_tx_interrupt
    BY <1>15 DEF RateInv, pl011_tx_interrupt
  <1>16. CASE pl011_tto
    BY <1>16 DEF RateInv, pl011_tto, tty
  <1>17. CASE pl011_tto_loop
    BY <1>17 DEF RateInv, pl011_tto_loop
  <1>18. CASE pl011_tto_end
    BY <1>18 DEF RateInv, pl011_tto_end, tty
  <1>19. CASE pl011_ser_stty
    BY <1>19 DEF RateInv, pl011_ser_stty, tty
  <1>20. CASE pl011_program
    BY <1>20 DEF RateInv, pl011_program, tty
  <1>21. CASE mini_read_iir
    BY <1>21 DEF RateInv, mini_read_iir, tty
  <1>22. CASE mini_rx_interrupt
    BY <1>22 DEF RateInv, mini_rx_interrupt
  <1>23. CASE mini_tx_interrupt
    BY <1>23 DEF RateInv, mini_tx_interrupt
  <1>24. CASE mini_tto
    BY <1>24 DEF RateInv, mini_tto, tty
  <1>25. CASE mini_tto_loop
    BY <1>25 DEF RateInv, mini_tto_loop
  <1>26. CASE mini_tto_end
    BY <1>26 DEF RateInv, mini_tto_end, tty
  <1>27. CASE mini_ser_stty
    BY <1>27 DEF RateInv, mini_ser_stty, tty
  <1>28. CASE mini_program
    BY <1>28 DEF RateInv, mini_program, tty, Programmed
  <1>29. CASE Unmask
    BY <1>29 DEF RateInv, Unmask, tty
  <1>30. CASE Is011 /\ EnterHandler("mis")
    BY <1>30 DEF RateInv, EnterHandler, tty
  <1>31. CASE IsMini /\ EnterHandler("iir")
    BY <1>31 DEF RateInv, EnterHandler, tty
  <1>u. CASE UNCHANGED vars
    BY <1>u DEF vars, tty, RateInv
  <1> QED BY <1>1, <1>2, <1>3, <1>4, <1>5, <1>6, <1>7, <1>8, <1>9, <1>10, <1>11, <1>12,
           <1>13, <1>14, <1>15, <1>16, <1>17, <1>18, <1>19, <1>20, <1>21, <1>22, <1>23,
           <1>24, <1>25, <1>26, <1>27, <1>28, <1>29, <1>30, <1>31, <1>u
         DEF Next, Hardware, IoChar, Pl011Next, MiniNext

\* Quotient and remainder.
LEMMA Division ==
  ASSUME NEW c \in Nat, NEW b \in Nat \ {0}
  PROVE  /\ c \div b \in Nat /\ c % b \in 0 .. b - 1
         /\ (c \div b) * b = c - (c % b)
  <1>1. c \div b \in Nat
    OBVIOUS
  <1>2. c % b \in 0 .. b - 1
    OBVIOUS
  <1>3. (c \div b) * b = c - (c % b)
    OBVIOUS
  <1> QED BY <1>1, <1>2, <1>3

\* The divisor of the PL011 with its fraction, within half a step of a 64th.
LEMMA Pl011Near ==
  ASSUME NEW c \in Nat, NEW b \in Nat \ {0}, (c % b) * 64 + (b + 1) \div 2 < 64 * b
  PROVE  LET f == (((c % b) * 64 + (b + 1) \div 2) \div b) % 64
             got == ((c \div b) * 64 + f) * b
         IN  got - c * 64 <= b \div 2 + 1 /\ c * 64 - got <= b \div 2 + 1
  <1> DEFINE q == c \div b
             r == c % b
             h == (b + 1) \div 2
             n == r * 64 + h
             f == n \div b
  <1>1. q \in Nat /\ r \in 0 .. b - 1 /\ q * b = c - r
    BY Division
  <1>2. h \in Nat /\ h <= b \div 2 + 1 /\ b - h <= b \div 2 + 1 /\ b \div 2 \in Nat
    OBVIOUS
  <1>3. n \in Nat /\ n < 64 * b
    BY <1>1, <1>2
  <1>4. f \in Nat /\ f * b = n - (n % b) /\ n % b \in 0 .. b - 1
    BY <1>3, Division
  <1>5. f < 64
    <2> HIDE DEF f, n
    <2>1. CASE f >= 64
      <3>1. f * b >= 64 * b
        BY <1>4, <2>1
      <3> QED BY <1>3, <1>4, <3>1
    <2> QED BY <1>4, <2>1
  <1>6. f % 64 = f
    <2> HIDE DEF f
    <2> QED BY <1>4, <1>5
  <1>7. (q * 64 + f) * b = 64 * (q * b) + f * b
    <2> HIDE DEF q, f
    <2> QED BY <1>1, <1>4
  <1>8. (q * 64 + f) * b = 64 * (c - r) + (n - (n % b))
    BY <1>1, <1>4, <1>7
  <1>9. n = r * 64 + h
    OBVIOUS
  <1> DEFINE got == (q * 64 + f) * b
             m == n % b
             half == b \div 2
  <1>10. got - c * 64 <= half + 1 /\ c * 64 - got <= half + 1
    <2>1. got = 64 * (c - r) + (n - m)
      BY <1>8
    <2>2. m \in 0 .. b - 1 /\ half \in Nat /\ h <= half + 1 /\ b - h <= half + 1
      BY <1>2, <1>4
    <2>3. n = r * 64 + h /\ r \in Nat /\ h \in Nat /\ n \in Nat
      BY <1>1, <1>2, <1>3
    <2> HIDE DEF got, m, half, n, r, h
    <2> QED BY <2>1, <2>2, <2>3
  <1> QED BY <1>6, <1>10

\* The divisor of the mini UART, where its register of w values holds it.
LEMMA MiniNear ==
  ASSUME NEW c \in Nat, NEW d \in Nat \ {0}, NEW w \in Nat, c \div d \in 1 .. w
  PROVE  c - ((((c \div d) - 1) % w) + 1) * d \in 0 .. d - 1
  <1> DEFINE q == c \div d
             r == c % d
  <1>1. q \in 1 .. w /\ r \in 0 .. d - 1 /\ q * d = c - r
    BY Division
  <1>2. ((q - 1) % w) + 1 = q
    <2> HIDE DEF q
    <2>1. q - 1 \in Nat /\ q - 1 < w
      BY <1>1
    <2>2. (q - 1) % w = q - 1
      BY <2>1
    <2> QED BY <1>1, <2>2
  <1>3. c - q * d \in 0 .. d - 1
    <2> HIDE DEF q, r
    <2> QED BY <1>1
  <1> QED BY <1>2, <1>3

\* The rate is the one that was asked for, as near as the divisor can express
\* it: ser_stty() of either driver, for settings whose fraction fits.
THEOREM RateStaysRight ==
  ASSUME \A s \in Settings : s.baud \in Nat \ {0} /\ FractionFits(s.baud)
  PROVE  Spec => []RateIsRight
  <1>1. Init => RateInv
    BY DEF Init, RateInv
  <1>2. ASSUME FlowInv, RateInv PROVE RateIsRight
    <2>1. PICK b \in Nat \ {0} : cfg.baud = b /\ FractionFits(b)
      BY <1>2 DEF RateInv
    <2>2. CASE kind = "pl011"
      <3>1. Clock.pl011 \in Nat
        BY DEF Clock
      <3> QED BY <2>1, <2>2, <3>1, Pl011Near DEF RateIsRight, Ibrd, Fbrd, FractionFits
    <2>3. CASE kind = "mini"
      <3>1. Clock.mini \in Nat /\ b * 8 \in Nat \ {0} /\ BaudRange \in Nat
        BY DEF Clock, BaudRange
      <3>2. Clock.mini \div (b * 8) \in 1 .. BaudRange
              => Clock.mini - (Divd(b) + 1) * (b * 8) \in 0 .. b * 8 - 1
        BY <3>1, MiniNear DEF Divd
      <3> QED BY <2>1, <2>3, <3>2 DEF RateIsRight
    <2> QED BY <1>2, <2>2, <2>3 DEF FlowInv, FlowType
  <1> QED BY <1>1, <1>2, FlowInit, FlowNext, RateNext, PTL DEF Spec
=============================================================================
