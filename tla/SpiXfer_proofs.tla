---------------------------- MODULE SpiXfer_proofs --------------------------
(***************************************************************************)
(* Proofs about SpiXfer, for every set of lengths, every FIFO depth and    *)
(* any mixture of calls and timeouts: what a call leaves behind for the    *)
(* next one, and what EOK means.                                           *)
(***************************************************************************)
EXTENDS SpiXfer, TLAPS

PioSteps == {"start", "fill", "wait", "done_bit", "send", "recv", "unmask", "finish"}
DmaSteps == {"setup", "start_rx", "start_tx", "enable", "wait",
             "rx_complete", "tx_complete", "rx_abort", "tx_abort"}

\* Steps between a taken post and the unmasking of an interrupt.
Served == {"done_bit", "send", "recv", "unmask", "rx_complete"}

\* Where each kind of call can be, and the bits it works with: only an
\* exchange by the CPU enables the controller's interrupts, only a DMA
\* transfer has busy channels and words left for the engines.
PathInv ==
  /\ dma => pc \in DmaSteps \cup {"idle", "clear"}
  /\ ~dma => pc \in PioSteps \cup {"idle", "clear"}
  /\ inte => ~dma /\ pc \in PioSteps \ {"start"}
  /\ pc \in {"start", "setup", "start_rx", "start_tx", "enable"} => ~ta
  /\ (rxBusy \/ rxLeft > 0) => dma /\ pc \in {"start_tx", "enable", "wait", "rx_complete", "rx_abort"}
  /\ (txBusy \/ txLeft > 0) => dma /\ pc \in {"enable", "wait", "rx_complete", "tx_complete", "rx_abort", "tx_abort"}
  /\ pc # "idle" => ret = "none"

\* Every post has its masked interrupt, and one whose post has been taken is
\* not yet unmasked: the semaphore never counts beyond two.
Bit(b) == IF b THEN 1 ELSE 0

PostInv ==
  sem + (IF pc \in Served THEN 1 ELSE 0) <= Bit(masked) + Bit(rxMasked)

\* Words: those stored and those in the receive FIFO have been shifted in;
\* the pre-fill fits; the end is seen with the last word.
WordInv ==
  /\ pc \notin {"idle", "clear"} => sent >= got + rxf
  /\ pc \in {"clear", "start", "setup", "start_rx"} => got = 0
  /\ (~dma /\ pc \notin {"idle", "clear"}) => got = rcnt
  /\ pc = "start" => txf = 0
  /\ pc = "fill" => txf <= tcnt
  /\ pc \in {"clear", "start", "fill"} => rcnt = 0
  /\ (over /\ ~dma /\ pc # "idle") => pc \in {"unmask", "finish"} /\ rcnt = rn /\ ~ta
  /\ (dma /\ pc \in {"start_tx", "enable", "wait", "rx_complete", "rx_abort"}) => got + rxLeft = rn
  /\ rxLeft > 0 => got < rn

\* Until a transfer has outlasted its timeout every post belongs to the call
\* under way: that of an exchange by the CPU to its SPI interrupt, that of a
\* DMA transfer to the receive channel's last word.
OwnPostInv ==
  ~late =>
    /\ (dma \/ pc \in {"idle", "clear", "start"}) => ~masked
    /\ (~dma \/ pc \in {"idle", "clear", "setup", "start_rx", "tx_complete", "rx_abort", "tx_abort"})
         => ~rxMasked /\ ~rxInt
    /\ pc \in {"idle", "clear", "start", "finish", "setup", "start_rx", "rx_complete",
               "tx_complete", "rx_abort", "tx_abort"} => sem = 0
    /\ (~dma /\ pc \in {"fill", "wait"}) => (masked <=> sem = 1)
    /\ pc \in {"done_bit", "send", "recv", "unmask"} => masked /\ sem = 0
    /\ pc = "finish" => ~masked /\ (~over => Quiet)
    /\ (dma /\ pc \in {"start_tx", "enable", "wait"}) => (rxMasked <=> sem = 1) /\ (rxMasked => rxInt)
    /\ (dma /\ pc \in {"start_tx", "enable", "wait", "rx_complete"} /\ rxInt) => rxLeft = 0
    /\ pc = "rx_complete" => rxInt /\ rxMasked
    /\ pc = "rx_abort" => Quiet

\* What EOK says stays true after the return.
EokInv ==
  /\ (pc = "tx_complete" /\ ~late) => got = rn /\ sent >= rn
  /\ (pc = "idle" /\ ret = "EOK" /\ (dma => ~late)) => got = rn /\ sent >= rn

SpiInv == TypeOK /\ PathInv /\ PostInv /\ WordInv /\ OwnPostInv /\ EokInv

-----------------------------------------------------------------------------
\* The inductive step: every action preserves every part.
LEMMA SpiNext == SpiInv /\ [Next]_vars => SpiInv'
  <1> USE SpiAssumption DEF SpiInv
  <1>1. ASSUME SpiInv, Next
        PROVE  SpiInv'
    <2> USE <1>1
    <2>1. CASE \E op \in Ops, n \in Lengths : Call(op, n)
      <3>1. TypeOK'
        <4>1. PICK op \in Ops, n \in Lengths : Call(op, n)
          BY <2>1
        <4>2. n[1] \in Nat /\ n[2] \in Nat
          OBVIOUS
        <4>3. txLeft = 0 /\ rxLeft = 0
          BY <4>1 DEF TypeOK, PathInv, Call
        <4>4. dma' \in BOOLEAN /\ over' \in BOOLEAN
          BY <4>1 DEF Call
        <4>5. /\ pc' = "clear" /\ tn' \in Nat /\ rn' \in Nat /\ tcnt' = 0 /\ rcnt' = 0
              /\ ret' = "none" /\ sent' = 0 /\ got' = 0
              /\ UNCHANGED <<devctrl, irq, cs, fifos, chans, late>>
          BY <4>1, <4>2 DEF Call
        <4> QED BY <4>3, <4>4, <4>5 DEF TypeOK, irq, cs, fifos, chans
      <3>2. PathInv'
        BY <2>1 DEF PathInv, PioSteps, Call, cs, chans
      <3>3. PostInv'
        BY <2>1 DEF PostInv, Served, Call, irq, chans
      <3>4. WordInv'
        BY <2>1 DEF WordInv, Call
      <3>5. OwnPostInv'
        BY <2>1 DEF OwnPostInv, Call, irq, chans
      <3>6. EokInv'
        BY <2>1 DEF EokInv, Call
      <3> QED BY <3>1, <3>2, <3>3, <3>4, <3>5, <3>6
    <2>2. CASE Setcfg
      <3>1. TypeOK'
        BY <2>2 DEF TypeOK, Setcfg, driver, counts, irq, cs, fifos, chans
      <3>2. PathInv'
        BY <2>2 DEF PathInv, Setcfg, driver, cs, chans
      <3>3. PostInv'
        BY <2>2 DEF PostInv, Setcfg, driver, irq, chans
      <3>4. WordInv'
        BY <2>2 DEF WordInv, Setcfg, driver, counts, chans
      <3>5. OwnPostInv'
        BY <2>2 DEF OwnPostInv, Setcfg, driver, irq, chans
      <3>6. EokInv'
        BY <2>2 DEF EokInv, Setcfg, driver, counts
      <3> QED BY <3>1, <3>2, <3>3, <3>4, <3>5, <3>6
    <2>3. CASE Clear
      <3>1. TypeOK'
        <4>1. tn \in Nat /\ rn \in Nat /\ 0 \in 0 .. tn /\ 0 \in 0 .. rn /\ 0 \in 0 .. Cap
          BY DEF TypeOK
        <4> QED BY <2>3, <4>1 DEF TypeOK, Clear, At, counts, irq, chans
      <3>2. PathInv'
        BY <2>3 DEF PathInv, PioSteps, DmaSteps, Clear, At, chans
      <3>3. PostInv'
        BY <2>3 DEF PostInv, Served, Clear, At, irq, chans
      <3>4. WordInv'
        BY <2>3 DEF WordInv, TypeOK, Clear, At, counts, chans
      <3>5. OwnPostInv'
        BY <2>3 DEF OwnPostInv, Clear, At, irq, chans
      <3>6. EokInv'
        BY <2>3 DEF EokInv, Clear, At
      <3> QED BY <3>1, <3>2, <3>3, <3>4, <3>5, <3>6
    <2>4. CASE StartPio
      <3>1. TypeOK'
        BY <2>4 DEF TypeOK, StartPio, At, counts, irq, fifos, chans
      <3>2. PathInv'
        BY <2>4 DEF PathInv, PioSteps, DmaSteps, StartPio, At, chans
      <3>3. PostInv'
        BY <2>4 DEF PostInv, Served, StartPio, At, irq, chans
      <3>4. WordInv'
        BY <2>4 DEF WordInv, TypeOK, StartPio, At, counts, fifos, chans
      <3>5. OwnPostInv'
        BY <2>4 DEF OwnPostInv, StartPio, At, irq, chans
      <3>6. EokInv'
        BY <2>4 DEF EokInv, StartPio, At
      <3> QED BY <3>1, <3>2, <3>3, <3>4, <3>5, <3>6
    <2>5. CASE Fill
      <3>1. TypeOK'
        BY <2>5 DEF TypeOK, WordInv, Fill, At, irq, cs, chans
      <3>2. PathInv'
        BY <2>5 DEF PathInv, PioSteps, DmaSteps, Fill, At, chans
      <3>3. PostInv'
        BY <2>5 DEF PostInv, Served, Fill, At, irq, chans
      <3>4. WordInv'
        BY <2>5 DEF WordInv, TypeOK, PathInv, DmaSteps, Fill, At, chans
      <3>5. OwnPostInv'
        BY <2>5 DEF OwnPostInv, PathInv, DmaSteps, Fill, At, irq, chans
      <3>6. EokInv'
        BY <2>5 DEF EokInv, Fill, At
      <3> QED BY <3>1, <3>2, <3>3, <3>4, <3>5, <3>6
    <2>6. CASE SetupDma
      <3>1. TypeOK'
        BY <2>6 DEF TypeOK, SetupDma, At, counts, irq, cs, fifos, chans
      <3>2. PathInv'
        BY <2>6 DEF PathInv, PioSteps, DmaSteps, SetupDma, At, cs, chans
      <3>3. PostInv'
        BY <2>6 DEF PostInv, Served, SetupDma, At, irq, chans
      <3>4. WordInv'
        BY <2>6 DEF WordInv, SetupDma, At, counts, fifos, chans
      <3>5. OwnPostInv'
        BY <2>6 DEF OwnPostInv, PathInv, SetupDma, At, irq, chans
      <3>6. EokInv'
        BY <2>6 DEF EokInv, SetupDma, At
      <3> QED BY <3>1, <3>2, <3>3, <3>4, <3>5, <3>6
    <2>7. CASE StartRx
      <3>1. TypeOK'
        BY <2>7 DEF TypeOK, StartRx, At, counts, irq, cs, fifos
      <3>2. PathInv'
        BY <2>7 DEF PathInv, PioSteps, DmaSteps, StartRx, At, cs
      <3>3. PostInv'
        BY <2>7 DEF PostInv, Served, StartRx, At, irq
      <3>4. WordInv'
        BY <2>7 DEF WordInv, TypeOK, StartRx, At, counts, fifos
      <3>5. OwnPostInv'
        BY <2>7 DEF OwnPostInv, StartRx, At, irq
      <3>6. EokInv'
        BY <2>7 DEF EokInv, StartRx, At
      <3> QED BY <3>1, <3>2, <3>3, <3>4, <3>5, <3>6
    <2>8. CASE StartTx
      <3>1. TypeOK'
        BY <2>8 DEF TypeOK, StartTx, At, counts, irq, cs, fifos
      <3>2. PathInv'
        BY <2>8 DEF PathInv, PioSteps, DmaSteps, StartTx, At, cs
      <3>3. PostInv'
        BY <2>8 DEF PostInv, Served, StartTx, At, irq
      <3>4. WordInv'
        BY <2>8 DEF WordInv, StartTx, At, counts, fifos
      <3>5. OwnPostInv'
        BY <2>8 DEF OwnPostInv, StartTx, At, irq
      <3>6. EokInv'
        BY <2>8 DEF EokInv, StartTx, At
      <3> QED BY <3>1, <3>2, <3>3, <3>4, <3>5, <3>6
    <2>9. CASE EnableDma
      <3>1. TypeOK'
        BY <2>9 DEF TypeOK, EnableDma, At, counts, irq, fifos, chans
      <3>2. PathInv'
        BY <2>9 DEF PathInv, PioSteps, DmaSteps, EnableDma, At
      <3>3. PostInv'
        BY <2>9 DEF PostInv, Served, EnableDma, At, irq, chans
      <3>4. WordInv'
        BY <2>9 DEF WordInv, EnableDma, At, counts, fifos, chans
      <3>5. OwnPostInv'
        BY <2>9 DEF OwnPostInv, PathInv, PioSteps, EnableDma, At, irq, chans
      <3>6. EokInv'
        BY <2>9 DEF EokInv, EnableDma, At
      <3> QED BY <3>1, <3>2, <3>3, <3>4, <3>5, <3>6
    <2>10. CASE Wake
      <3>1. TypeOK'
        BY <2>10 DEF TypeOK, Wake, At, counts, cs, fifos, chans
      <3>2. PathInv'
        BY <2>10 DEF PathInv, PioSteps, DmaSteps, Wake, At, cs, chans
      <3>3. PostInv'
        BY <2>10 DEF PostInv, Served, TypeOK, Wake, At, chans
      <3>4. WordInv'
        BY <2>10 DEF WordInv, Wake, At, counts, fifos, chans
      <3>5. OwnPostInv'
        BY <2>10 DEF OwnPostInv, TypeOK, PostInv, Bit, Wake, At, chans
      <3>6. EokInv'
        BY <2>10 DEF EokInv, Wake, At
      <3> QED BY <3>1, <3>2, <3>3, <3>4, <3>5, <3>6
    <2>11. CASE DoneBit
      <3>1. TypeOK'
        BY <2>11 DEF TypeOK, DoneBit, At, counts, irq, cs, fifos, chans
      <3>2. PathInv'
        BY <2>11 DEF PathInv, PioSteps, DmaSteps, DoneBit, At, chans
      <3>3. PostInv'
        BY <2>11 DEF PostInv, Served, DoneBit, At, irq, chans
      <3>4. WordInv'
        BY <2>11 DEF WordInv, DoneBit, At, counts, fifos, chans
      <3>5. OwnPostInv'
        BY <2>11 DEF OwnPostInv, DoneBit, At, irq, chans
      <3>6. EokInv'
        BY <2>11 DEF EokInv, DoneBit, At
      <3> QED BY <3>1, <3>2, <3>3, <3>4, <3>5, <3>6
    <2>12. CASE Send
      <3>1. TypeOK'
        BY <2>12 DEF TypeOK, Send, At, irq, cs, chans
      <3>2. PathInv'
        BY <2>12 DEF PathInv, PioSteps, DmaSteps, Send, At, chans
      <3>3. PostInv'
        BY <2>12 DEF PostInv, Served, Send, At, irq, chans
      <3>4. WordInv'
        BY <2>12 DEF WordInv, Send, At, chans
      <3>5. OwnPostInv'
        BY <2>12 DEF OwnPostInv, Send, At, irq, chans
      <3>6. EokInv'
        BY <2>12 DEF EokInv, Send, At
      <3> QED BY <3>1, <3>2, <3>3, <3>4, <3>5, <3>6
    <2>13. CASE Recv
      <3>1. TypeOK'
        BY <2>13 DEF TypeOK, PostInv, Bit, PathInv, Served, Recv, irq, chans
      <3>2. PathInv'
        BY <2>13 DEF PathInv, PioSteps, DmaSteps, Recv, chans
      <3>3. PostInv'
        BY <2>13 DEF PostInv, Served, Recv, irq, chans
      <3>4. WordInv'
        BY <2>13 DEF WordInv, TypeOK, PathInv, Recv, chans
      <3>5. OwnPostInv'
        BY <2>13 DEF OwnPostInv, Recv, irq, chans
      <3>6. EokInv'
        BY <2>13 DEF EokInv, Recv
      <3> QED BY <3>1, <3>2, <3>3, <3>4, <3>5, <3>6
    <2>14. CASE Unmask
      <3>1. TypeOK'
        BY <2>14 DEF TypeOK, Unmask, At, counts, cs, fifos, chans
      <3>2. PathInv'
        BY <2>14 DEF PathInv, PioSteps, DmaSteps, Unmask, At, chans
      <3>3. PostInv'
        BY <2>14 DEF PostInv, Bit, Served, TypeOK, Unmask, At, chans
      <3>4. WordInv'
        BY <2>14 DEF WordInv, PathInv, DmaSteps, Unmask, At, counts, cs, fifos, chans
      <3>5. OwnPostInv'
        BY <2>14 DEF OwnPostInv, Unmask, At, chans
      <3>6. EokInv'
        BY <2>14 DEF EokInv, Unmask, At
      <3> QED BY <3>1, <3>2, <3>3, <3>4, <3>5, <3>6
    <2>15. CASE Finish
      <3>1. TypeOK'
        BY <2>15 DEF TypeOK, Finish, counts, irq, fifos, chans
      <3>2. PathInv'
        BY <2>15 DEF PathInv, Finish, chans
      <3>3. PostInv'
        BY <2>15 DEF PostInv, Served, Finish, irq, chans
      <3>4. WordInv'
        BY <2>15 DEF WordInv, Finish, counts, chans
      <3>5. OwnPostInv'
        BY <2>15 DEF OwnPostInv, PathInv, DmaSteps, Finish, irq, chans
      <3>6. EokInv'
        BY <2>15 DEF EokInv, TypeOK, PathInv, DmaSteps, WordInv, Finish, counts
      <3> QED BY <3>1, <3>2, <3>3, <3>4, <3>5, <3>6
    <2>16. CASE RxComplete
      <3>1. TypeOK'
        <4>1. tn \in Nat /\ rn \in Nat /\ 0 \in 0 .. tn /\ 0 \in 0 .. rn /\ 0 \in 0 .. Cap
          BY DEF TypeOK
        <4> QED BY <2>16, <4>1 DEF TypeOK, RxComplete, At, counts, irq, cs, fifos
      <3>2. PathInv'
        BY <2>16 DEF PathInv, PioSteps, DmaSteps, RxComplete, At, cs
      <3>3. PostInv'
        BY <2>16 DEF PostInv, Bit, Served, TypeOK, RxComplete, At, irq
      <3>4. WordInv'
        BY <2>16 DEF WordInv, RxComplete, At, counts, fifos
      <3>5. OwnPostInv'
        BY <2>16 DEF OwnPostInv, RxComplete, At, irq
      <3>6. EokInv'
        BY <2>16 DEF EokInv, TypeOK, WordInv, OwnPostInv, RxComplete, At, counts
      <3> QED BY <3>1, <3>2, <3>3, <3>4, <3>5, <3>6
    <2>17. CASE TxComplete
      <3>1. TypeOK'
        <4>1. tn \in Nat /\ rn \in Nat /\ 0 \in 0 .. tn /\ 0 \in 0 .. rn /\ 0 \in 0 .. Cap
          BY DEF TypeOK
        <4> QED BY <2>17, <4>1 DEF TypeOK, TxComplete, counts, irq, cs, fifos
      <3>2. PathInv'
        BY <2>17 DEF PathInv, PioSteps, TxComplete, cs
      <3>3. PostInv'
        BY <2>17 DEF PostInv, Served, TxComplete, irq
      <3>4. WordInv'
        BY <2>17 DEF WordInv, TxComplete, counts
      <3>5. OwnPostInv'
        BY <2>17 DEF OwnPostInv, PathInv, PioSteps, TxComplete, irq
      <3>6. EokInv'
        BY <2>17 DEF EokInv, PathInv, PioSteps, TxComplete, counts
      <3> QED BY <3>1, <3>2, <3>3, <3>4, <3>5, <3>6
    <2>18. CASE Timeout
      <3>1. TypeOK'
        BY <2>18 DEF TypeOK, Timeout, At, counts, irq, cs, fifos, chans
      <3>2. PathInv'
        BY <2>18 DEF PathInv, PioSteps, DmaSteps, Timeout, At, cs, chans
      <3>3. PostInv'
        BY <2>18 DEF PostInv, Served, Timeout, At, irq, chans
      <3>4. WordInv'
        BY <2>18 DEF WordInv, Timeout, At, counts, fifos, chans
      <3>5. OwnPostInv'
        BY <2>18 DEF OwnPostInv, Quiet, Line, TypeOK, Timeout, At, irq, cs, fifos, chans
      <3>6. EokInv'
        BY <2>18 DEF EokInv, Timeout, At
      <3> QED BY <3>1, <3>2, <3>3, <3>4, <3>5, <3>6
    <2>19. CASE RxAbort
      <3>1. TypeOK'
        <4>1. tn \in Nat /\ rn \in Nat /\ 0 \in 0 .. tn /\ 0 \in 0 .. rn /\ 0 \in 0 .. Cap
          BY DEF TypeOK
        <4> QED BY <2>19, <4>1, ZenonT(60) DEF TypeOK, RxAbort, At, counts, irq, cs, fifos
      <3>2. PathInv'
        BY <2>19 DEF PathInv, PioSteps, DmaSteps, RxAbort, At, cs
      <3>3. PostInv'
        BY <2>19 DEF PostInv, Served, RxAbort, At, irq
      <3>4. WordInv'
        BY <2>19 DEF WordInv, RxAbort, At, counts, fifos
      <3>5. OwnPostInv'
        BY <2>19 DEF OwnPostInv, RxAbort, At, irq
      <3>6. EokInv'
        BY <2>19 DEF EokInv, RxAbort, At
      <3> QED BY <3>1, <3>2, <3>3, <3>4, <3>5, <3>6
    <2>20. CASE TxAbort
      <3>1. TypeOK'
        <4>1. tn \in Nat /\ rn \in Nat /\ 0 \in 0 .. tn /\ 0 \in 0 .. rn /\ 0 \in 0 .. Cap
          BY DEF TypeOK
        <4> QED BY <2>20, <4>1 DEF TypeOK, TxAbort, counts, irq, cs, fifos
      <3>2. PathInv'
        BY <2>20 DEF PathInv, PioSteps, TxAbort, cs
      <3>3. PostInv'
        BY <2>20 DEF PostInv, Served, TxAbort, irq
      <3>4. WordInv'
        BY <2>20 DEF WordInv, TxAbort, counts
      <3>5. OwnPostInv'
        BY <2>20 DEF OwnPostInv, PathInv, PioSteps, TxAbort, irq
      <3>6. EokInv'
        BY <2>20 DEF EokInv, TxAbort
      <3> QED BY <3>1, <3>2, <3>3, <3>4, <3>5, <3>6
    <2>21. CASE Shift
      <3>1. TypeOK'
        BY <2>21 DEF TypeOK, Shift, driver, counts, irq, cs, chans
      <3>2. PathInv'
        BY <2>21 DEF PathInv, Shift, driver, cs, chans
      <3>3. PostInv'
        BY <2>21 DEF PostInv, Shift, driver, irq, chans
      <3>4. WordInv'
        BY <2>21 DEF WordInv, TypeOK, Shift, driver, counts, chans
      <3>5. OwnPostInv'
        BY <2>21 DEF OwnPostInv, Quiet, Shift, driver, irq, chans
      <3>6. EokInv'
        BY <2>21 DEF EokInv, TypeOK, Shift, driver, counts
      <3> QED BY <3>1, <3>2, <3>3, <3>4, <3>5, <3>6
    <2>22. CASE TxEngine
      <3>1. TypeOK'
        BY <2>22 DEF TypeOK, TxEngine, driver, counts, irq, cs
      <3>2. PathInv'
        BY <2>22 DEF PathInv, TxEngine, driver, cs
      <3>3. PostInv'
        BY <2>22 DEF PostInv, TxEngine, driver, irq
      <3>4. WordInv'
        BY <2>22 DEF WordInv, PathInv, TxEngine, driver, counts
      <3>5. OwnPostInv'
        BY <2>22 DEF OwnPostInv, Quiet, TxEngine, driver, irq
      <3>6. EokInv'
        BY <2>22 DEF EokInv, TxEngine, driver, counts
      <3> QED BY <3>1, <3>2, <3>3, <3>4, <3>5, <3>6
    <2>23. CASE RxEngine
      <3>1. TypeOK'
        BY <2>23 DEF TypeOK, RxEngine, driver, irq, cs
      <3>2. PathInv'
        BY <2>23 DEF PathInv, RxEngine, driver, cs
      <3>3. PostInv'
        BY <2>23 DEF PostInv, RxEngine, driver, irq
      <3>4. WordInv'
        BY <2>23 DEF WordInv, TypeOK, PathInv, RxEngine, driver
      <3>5. OwnPostInv'
        BY <2>23 DEF OwnPostInv, Quiet, TypeOK, PathInv, RxEngine, driver, irq
      <3>6. EokInv'
        BY <2>23 DEF EokInv, PathInv, RxEngine, driver
      <3> QED BY <3>1, <3>2, <3>3, <3>4, <3>5, <3>6
    <2>24. CASE SpiInterrupt
      <3>1. TypeOK'
        BY <2>24 DEF TypeOK, PostInv, Bit, SpiInterrupt, driver, counts, cs, fifos, chans
      <3>2. PathInv'
        BY <2>24 DEF PathInv, SpiInterrupt, driver, cs, chans
      <3>3. PostInv'
        BY <2>24 DEF PostInv, Bit, TypeOK, SpiInterrupt, driver, chans
      <3>4. WordInv'
        BY <2>24 DEF WordInv, SpiInterrupt, driver, counts, cs, fifos, chans
      <3>5. OwnPostInv'
        BY <2>24
           DEF OwnPostInv, Quiet, Line, TypeOK, PathInv, PioSteps, PostInv, Bit, WordInv,
               SpiInterrupt, driver, chans
      <3>6. EokInv'
        BY <2>24 DEF EokInv, SpiInterrupt, driver, counts
      <3> QED BY <3>1, <3>2, <3>3, <3>4, <3>5, <3>6
    <2>25. CASE DmaInterrupt
      <3>1. TypeOK'
        BY <2>25 DEF TypeOK, PostInv, Bit, DmaInterrupt, driver, counts, cs, fifos
      <3>2. PathInv'
        BY <2>25 DEF PathInv, DmaInterrupt, driver, cs
      <3>3. PostInv'
        BY <2>25 DEF PostInv, Bit, TypeOK, DmaInterrupt, driver
      <3>4. WordInv'
        BY <2>25 DEF WordInv, DmaInterrupt, driver, counts, cs, fifos
      <3>5. OwnPostInv'
        BY <2>25 DEF OwnPostInv, TypeOK, PathInv, DmaSteps, PostInv, Bit, DmaInterrupt, driver
      <3>6. EokInv'
        BY <2>25 DEF EokInv, DmaInterrupt, driver, counts
      <3> QED BY <3>1, <3>2, <3>3, <3>4, <3>5, <3>6
    <2> QED BY <2>1, <2>2, <2>3, <2>4, <2>5, <2>6, <2>7, <2>8, <2>9, <2>10, <2>11, <2>12,
               <2>13, <2>14, <2>15, <2>16, <2>17, <2>18, <2>19, <2>20, <2>21, <2>22, <2>23,
               <2>24, <2>25
               DEF Next, DriverStep, Hardware
  <1>2. ASSUME SpiInv, UNCHANGED vars
        PROVE  SpiInv'
    BY <1>2
       DEF vars, driver, counts, irq, cs, fifos, chans, TypeOK, PathInv, PostInv, WordInv,
           OwnPostInv, Quiet, Line, EokInv
  <1> QED BY <1>1, <1>2

LEMMA SpiInit == Init => SpiInv
  <1> SUFFICES ASSUME Init
               PROVE  SpiInv
    OBVIOUS
  <1>1. TypeOK
    <2>1. {dma, over, devctrl, masked, ta, inte, dmaen, rxBusy, txBusy, rxInt, rxMasked}
            \subseteq BOOLEAN
      BY DEF Init
    <2>2. 0 \in 0 .. Cap /\ 0 \in 0 .. 0 /\ 0 \in 0 .. 2
      BY SpiAssumption
    <2>3. /\ {tn, rn, sent, got} \subseteq Nat /\ tcnt \in 0 .. tn /\ rcnt \in 0 .. rn
          /\ sem \in 0 .. 2 /\ txf \in 0 .. Cap /\ rxf \in 0 .. Cap
          /\ txLeft \in 0 .. tn /\ rxLeft \in 0 .. rn
      BY <2>2 DEF Init
    <2> QED BY <2>1, <2>3 DEF Init, TypeOK
  <1>2. PathInv
    BY DEF Init, PathInv, DmaSteps
  <1>3. PostInv /\ WordInv
    BY DEF Init, PostInv, Bit, Served, WordInv
  <1>4. OwnPostInv /\ EokInv
    BY DEF Init, OwnPostInv, EokInv
  <1> QED BY <1>1, <1>2, <1>3, <1>4 DEF SpiInv

\* EOK is only returned for the words of this very call, by an exchange of
\* the CPU at any time and by a DMA transfer until some transfer has outlasted
\* its timeout (bcm2711spi_wait, process_interrupts), for all lengths, also
\* unequal ones, and all FIFO depths.
THEOREM OkIsHonest == Spec => []OkWithoutStalePost
  <1>1. SpiInv => OkWithoutStalePost
    BY DEF SpiInv, PathInv, EokInv, OkWithoutStalePost, OkMeansExchanged
  <1> QED BY <1>1, SpiInit, SpiNext, PTL DEF Spec

\* A call that is given its time leaves no post, no raised and no masked
\* interrupt to the next one, and every call frees both channels, for all
\* lengths and FIFO depths (bcm2711spi_wait: InterruptUnmask, xfer_complete,
\* xfer_abort).
THEOREM CallsStayApart == Spec => []CallsLeaveNothing
  <1>1. SpiInv => CallsLeaveNothing
    BY DEF SpiInv, PathInv, OwnPostInv, CallsLeaveNothing, NothingLeftBehind, ChannelsFree
  <1> QED BY <1>1, SpiInit, SpiNext, PTL DEF Spec
=============================================================================
