------------------------------- MODULE SpiXfer -------------------------------
(***************************************************************************)
(* One transfer after another on the BCM2711 SPI master                    *)
(* (src/hardware/spi/bcm2711): bcm2711spi_xfer() with interrupts,          *)
(* bcm2711spi_dmaxfer() with two channels of the DMA library, and the wait *)
(* both share.  The SPI interrupt and the receive channel's interrupt post *)
(* the same counting semaphore, and nobody ever drains it.                 *)
(*                                                                         *)
(* io-spi calls one function at a time.  Words are counted, not kept.  The *)
(* DMA channels are what DmaChannel says of attach flags ON_COMPLETE and a *)
(* single fragment.  A refused dmaxfer (alignment) changes nothing that    *)
(* the next call does not set again, and is left out.                      *)
(***************************************************************************)
EXTENDS Naturals

CONSTANTS
  Lengths,      \* pairs <<tnbytes, rnbytes>>, after "Decide the transaction type"
  Cap,          \* depth of each FIFO
  FifoLen,      \* BCM2711_SPI_FIFOLEN: most words of the pre-fill
  Ops,          \* "pio" and "dma" calls the client makes
  Late          \* a transfer may outlast the timeout

ASSUME SpiAssumption ==
  /\ Lengths \subseteq (Nat \ {0}) \X (Nat \ {0})
  /\ Cap \in Nat \ {0} /\ FifoLen \in 1 .. Cap
  /\ Ops \subseteq {"pio", "dma"} /\ Late \in BOOLEAN

VARIABLES
  pc,              \* where the client is in the driver
  dma,             \* spi->dma_active
  tn, rn,          \* spi->tnbytes, spi->rnbytes
  tcnt, rcnt,      \* spi->tcnt, spi->rcnt of a transfer without DMA
  over,            \* process_interrupts() returned 0
  devctrl,         \* DMAEN is in spi_dev->devctrl
  sem,             \* bus->sem
  masked,          \* the SPI interrupt is masked
  ta, inte, dmaen, \* TA, INTD with INTR, and DMAEN of the CS register
  txf, rxf,        \* words in the two FIFOs
  rxBusy, txBusy,  \* DMACH_BUSY of the two channels
  rxLeft, txLeft,  \* words their engines have still to move
  rxInt, rxMasked, \* the receive channel's CS.INT, its interrupt is masked
  sent,            \* history: words of this call shifted on the bus
  got,             \* history: words of this call stored in the caller's buffer
  ret,             \* history: what the last call returned, "none" during a call
  late             \* history: a timeout has expired with an event on its way

driver  == <<pc, dma, tn, rn, over, ret>>
counts  == <<tcnt, rcnt, got>>
irq     == <<sem, masked>>
cs      == <<ta, inte, dmaen>>
fifos   == <<txf, rxf>>
chans   == <<rxBusy, txBusy, rxLeft, txLeft, rxInt, rxMasked>>
vars    == <<driver, counts, devctrl, irq, cs, fifos, chans, sent, late>>

TypeOK ==
  /\ pc \in {"idle", "clear", "start", "fill", "setup", "start_rx", "start_tx", "enable",
             "wait", "done_bit", "send", "recv", "unmask", "finish",
             "rx_complete", "tx_complete", "rx_abort", "tx_abort"}
  /\ {dma, over, devctrl, masked, ta, inte, dmaen, rxBusy, txBusy, rxInt, rxMasked}
       \subseteq BOOLEAN
  /\ {tn, rn, sent, got} \subseteq Nat /\ tcnt \in 0 .. tn /\ rcnt \in 0 .. rn
  /\ sem \in 0 .. 2 /\ txf \in 0 .. Cap /\ rxf \in 0 .. Cap
  /\ txLeft \in 0 .. tn /\ rxLeft \in 0 .. rn
  /\ ret \in {"none", "EOK", "ETIMEDOUT", "EIO"} /\ late \in BOOLEAN

Init ==
  /\ pc = "idle" /\ dma = TRUE /\ tn = 0 /\ rn = 0 /\ tcnt = 0 /\ rcnt = 0
  /\ over = FALSE /\ devctrl = FALSE /\ sem = 0 /\ masked = FALSE
  /\ ta = FALSE /\ inte = FALSE /\ dmaen = FALSE /\ txf = 0 /\ rxf = 0
  /\ rxBusy = FALSE /\ txBusy = FALSE /\ rxLeft = 0 /\ txLeft = 0
  /\ rxInt = FALSE /\ rxMasked = FALSE /\ sent = 0 /\ got = 0
  /\ ret = "none" /\ late = FALSE

-----------------------------------------------------------------------------
At(step, next) == pc = step /\ pc' = next /\ UNCHANGED <<dma, tn, rn, over, ret>>

\* io-spi calls bcm2711spi_xfer() or bcm2711spi_dmaxfer(): the counters are
\* reset, ...
Call(op, n) ==
  /\ pc = "idle" /\ pc' = "clear"
  /\ dma' = (op = "dma") /\ tn' = n[1] /\ rn' = n[2]
  /\ tcnt' = 0 /\ rcnt' = 0 /\ over' = FALSE /\ ret' = "none" /\ sent' = 0 /\ got' = 0
  /\ UNCHANGED <<devctrl, irq, cs, fifos, chans, late>>

\* bcm2711spi_setcfg() computes devctrl from the configuration.
Setcfg ==
  /\ pc = "idle" /\ devctrl
  /\ devctrl' = FALSE
  /\ UNCHANGED <<driver, counts, irq, cs, fifos, chans, sent, late>>

\* ... CS is cleared, and the FIFOs with it, ...
Clear ==
  /\ At("clear", IF dma THEN "setup" ELSE "start")
  /\ ta' = FALSE /\ inte' = FALSE /\ dmaen' = FALSE /\ txf' = 0 /\ rxf' = 0
  /\ UNCHANGED <<counts, devctrl, irq, chans, sent, late>>

\* ... an exchange without DMA starts with interrupts, ...
StartPio ==
  /\ At("start", "fill")
  /\ ta' = TRUE /\ inte' = TRUE /\ dmaen' = devctrl
  /\ UNCHANGED <<counts, devctrl, irq, fifos, chans, sent, late>>

\* ... and the FIFO is pre-filled word by word.
Fill ==
  /\ IF tcnt < tn /\ tcnt < FifoLen
       THEN At("fill", "fill") /\ txf' = txf + 1 /\ tcnt' = tcnt + 1
       ELSE At("fill", "wait") /\ UNCHANGED <<txf, tcnt>>
  /\ UNCHANGED <<rcnt, got, devctrl, irq, cs, rxf, chans, sent, late>>

-----------------------------------------------------------------------------
\* With DMA both channels are set up; EBUSY sends the caller away, ...
SetupDma ==
  /\ pc = "setup"
  /\ IF rxBusy \/ txBusy
       THEN pc' = "idle" /\ ret' = "EIO" /\ UNCHANGED <<dma, tn, rn, over>>
       ELSE At("setup", "start_rx")
  /\ UNCHANGED <<counts, devctrl, irq, cs, fifos, chans, sent, late>>

\* ... started, the receive channel first, ...
StartRx ==
  /\ At("start_rx", "start_tx")
  /\ rxBusy' = TRUE /\ rxLeft' = rn
  /\ UNCHANGED <<counts, devctrl, irq, cs, fifos, txBusy, txLeft, rxInt, rxMasked, sent, late>>

StartTx ==
  /\ At("start_tx", "enable")
  /\ txBusy' = TRUE /\ txLeft' = tn
  /\ UNCHANGED <<counts, devctrl, irq, cs, fifos, rxBusy, rxLeft, rxInt, rxMasked, sent, late>>

\* ... and the controller is enabled; the bits stay in devctrl.
EnableDma ==
  /\ At("enable", "wait")
  /\ devctrl' = TRUE
  /\ ta' = TRUE /\ inte' = FALSE /\ dmaen' = TRUE
  /\ UNCHANGED <<counts, irq, fifos, chans, sent, late>>

-----------------------------------------------------------------------------
\* bcm2711spi_wait(): a post of the semaphore is taken for the event of the
\* transfer under way, ...
Wake ==
  /\ sem > 0
  /\ sem' = sem - 1
  /\ At("wait", IF dma THEN "rx_complete" ELSE "done_bit")
  /\ UNCHANGED <<counts, devctrl, masked, cs, fifos, chans, sent, late>>

Done == ta /\ txf = 0

\* process_interrupts(): nothing is done unless CS.DONE is set; ...
DoneBit ==
  /\ At("done_bit", IF Done THEN "send" ELSE "unmask")
  /\ UNCHANGED <<counts, devctrl, irq, cs, fifos, chans, sent, late>>

\* Faulty variant: the transmit FIFO is not checked for space.
SendBlind ==
  /\ IF tcnt < tn
       THEN At("send", "send") /\ txf' = txf + 1 /\ tcnt' = tcnt + 1
       ELSE At("send", "recv") /\ UNCHANGED <<txf, tcnt>>
  /\ UNCHANGED <<rcnt, got, devctrl, irq, cs, rxf, chans, sent, late>>

\* ... the transmit FIFO is filled up, ...
Send ==
  /\ IF tcnt < tn /\ txf < Cap
       THEN At("send", "send") /\ txf' = txf + 1 /\ tcnt' = tcnt + 1
       ELSE At("send", "recv") /\ UNCHANGED <<txf, tcnt>>
  /\ UNCHANGED <<rcnt, got, devctrl, irq, cs, rxf, chans, sent, late>>

\* Faulty variant: one word is missing at the end.
RecvOffByOne ==
  /\ pc = "recv"
  /\ IF rxf > 0 /\ rcnt < rn
       THEN /\ rxf' = rxf - 1 /\ rcnt' = rcnt + 1 /\ got' = got + 1
            /\ UNCHANGED <<pc, over, ta>>
       ELSE /\ pc' = "unmask" /\ over' = (rcnt + 1 >= rn) /\ ta' = (ta /\ ~over')
            /\ UNCHANGED <<rxf, rcnt, got>>
  /\ UNCHANGED <<dma, tn, rn, ret, tcnt, devctrl, irq, inte, dmaen, txf, chans, sent, late>>

\* Faulty variant: one word too many is waited for.
RecvOneMore ==
  /\ pc = "recv"
  /\ IF rxf > 0 /\ rcnt < rn
       THEN /\ rxf' = rxf - 1 /\ rcnt' = rcnt + 1 /\ got' = got + 1
            /\ UNCHANGED <<pc, over, ta>>
       ELSE /\ pc' = "unmask" /\ over' = (rcnt > rn) /\ ta' = (ta /\ ~over')
            /\ UNCHANGED <<rxf, rcnt, got>>
  /\ UNCHANGED <<dma, tn, rn, ret, tcnt, devctrl, irq, inte, dmaen, txf, chans, sent, late>>

\* ... the receive FIFO is read, and with the last word TA is cleared.
Recv ==
  /\ pc = "recv"
  /\ IF rxf > 0 /\ rcnt < rn
       THEN /\ rxf' = rxf - 1 /\ rcnt' = rcnt + 1 /\ got' = got + 1
            /\ UNCHANGED <<pc, over, ta>>
       ELSE /\ pc' = "unmask" /\ over' = (rcnt >= rn) /\ ta' = (ta /\ ~over')
            /\ UNCHANGED <<rxf, rcnt, got>>
  /\ UNCHANGED <<dma, tn, rn, ret, tcnt, devctrl, irq, inte, dmaen, txf, chans, sent, late>>

\* InterruptUnmask(), and the next round or the end.
Unmask ==
  /\ At("unmask", IF over THEN "finish" ELSE "wait")
  /\ masked' = FALSE
  /\ UNCHANGED <<counts, devctrl, sem, cs, fifos, chans, sent, late>>

\* bcm2711spi_xfer() switches the controller off and returns.
Finish ==
  /\ pc = "finish" /\ pc' = "idle"
  /\ ret' = IF over THEN "EOK" ELSE "ETIMEDOUT"
  /\ ta' = FALSE /\ inte' = FALSE
  /\ UNCHANGED <<dma, tn, rn, over, counts, devctrl, irq, dmaen, fifos, chans, sent, late>>

-----------------------------------------------------------------------------
\* Faulty variant: xfer_complete() without InterruptUnmask().
RxCompleteMasked ==
  /\ At("rx_complete", "tx_complete")
  /\ rxBusy' = FALSE /\ rxLeft' = 0 /\ rxInt' = FALSE
  /\ UNCHANGED <<counts, devctrl, irq, cs, fifos, txBusy, txLeft, rxMasked, sent, late>>

\* ... xfer_complete() of the receive channel: its interrupt is acknowledged
\* and unmasked and its engine reset, ...
RxComplete ==
  /\ At("rx_complete", "tx_complete")
  /\ rxBusy' = FALSE /\ rxLeft' = 0 /\ rxInt' = FALSE /\ rxMasked' = FALSE
  /\ UNCHANGED <<counts, devctrl, irq, cs, fifos, txBusy, txLeft, sent, late>>

\* ... then of the transmit channel; either may report a DMA error.
TxComplete ==
  /\ pc = "tx_complete" /\ pc' = "idle"
  /\ ret' \in {"EOK", "EIO"}
  /\ txBusy' = FALSE /\ txLeft' = 0
  /\ UNCHANGED <<dma, tn, rn, over, counts, devctrl, irq, cs, fifos,
                 rxBusy, rxLeft, rxInt, rxMasked, sent, late>>

\* Nothing that would post the semaphore can happen any more.
Line == inte /\ ta /\ (txf = 0 \/ 4 * rxf >= 3 * Cap)

Quiet ==
  /\ sem = 0 /\ ~(Line /\ ~masked) /\ ~(rxInt /\ ~rxMasked)
  /\ ~(ta /\ txf > 0 /\ rxf < Cap)
  /\ ~(ta /\ dmaen /\ ((txLeft > 0 /\ txf < Cap) \/ (rxLeft > 0 /\ rxf > 0)))

\* sem_timedwait_monotonic() gives up: with DMA both channels are aborted.
Timeout ==
  /\ sem = 0 /\ (Late \/ Quiet)
  /\ At("wait", IF dma THEN "rx_abort" ELSE "finish")
  /\ late' = (late \/ ~Quiet)
  /\ UNCHANGED <<counts, devctrl, irq, cs, fifos, chans, sent>>

\* xfer_abort() resets an engine that has not finished, and its interrupt
\* with it; that of one that has finished stays up.
RxAbort ==
  /\ At("rx_abort", "tx_abort")
  /\ rxBusy' = FALSE /\ rxLeft' = 0
  /\ rxInt' = (rxInt /\ rxLeft = 0)
  /\ UNCHANGED <<counts, devctrl, irq, cs, fifos, txBusy, txLeft, rxMasked, sent, late>>

\* Faulty variant: only the receive channel is aborted.
TxAbortForgotten ==
  /\ pc = "tx_abort" /\ pc' = "idle"
  /\ ret' = "ETIMEDOUT"
  /\ UNCHANGED <<dma, tn, rn, over, counts, devctrl, irq, cs, fifos, chans, sent, late>>

TxAbort ==
  /\ pc = "tx_abort" /\ pc' = "idle"
  /\ ret' = "ETIMEDOUT"
  /\ txBusy' = FALSE /\ txLeft' = 0
  /\ UNCHANGED <<dma, tn, rn, over, counts, devctrl, irq, cs, fifos,
                 rxBusy, rxLeft, rxInt, rxMasked, sent, late>>

-----------------------------------------------------------------------------
\* The controller shifts a word out and one in; it stops at a full receive
\* FIFO.
Shift ==
  /\ ta /\ txf > 0 /\ rxf < Cap
  /\ txf' = txf - 1 /\ rxf' = rxf + 1 /\ sent' = sent + 1
  /\ UNCHANGED <<driver, counts, devctrl, irq, cs, chans, late>>

\* The transmit engine feeds the FIFO ...
TxEngine ==
  /\ ta /\ dmaen /\ txLeft > 0 /\ txf < Cap
  /\ txLeft' = txLeft - 1 /\ txf' = txf + 1
  /\ UNCHANGED <<driver, counts, devctrl, irq, cs, rxf, rxBusy, txBusy, rxLeft,
                 rxInt, rxMasked, sent, late>>

\* ... and the receive engine empties the other one; it raises its interrupt
\* with the last word.
RxEngine ==
  /\ ta /\ dmaen /\ rxLeft > 0 /\ rxf > 0
  /\ rxLeft' = rxLeft - 1 /\ rxf' = rxf - 1
  /\ rxInt' = (rxInt \/ rxLeft = 1) /\ got' = got + 1
  /\ UNCHANGED <<driver, tcnt, rcnt, devctrl, irq, cs, txf, rxBusy, txBusy, txLeft,
                 rxMasked, sent, late>>

\* InterruptAttachEvent(): the kernel masks the line and posts the semaphore,
\* for DONE and RXR of the controller ...
SpiInterrupt ==
  /\ Line /\ ~masked
  /\ masked' = TRUE /\ sem' = sem + 1
  /\ UNCHANGED <<driver, counts, devctrl, cs, fifos, chans, sent, late>>

\* ... and for the receive channel.
DmaInterrupt ==
  /\ rxInt /\ ~rxMasked
  /\ rxMasked' = TRUE /\ sem' = sem + 1
  /\ UNCHANGED <<driver, counts, devctrl, masked, cs, fifos, rxBusy, txBusy,
                 rxLeft, txLeft, rxInt, sent, late>>

-----------------------------------------------------------------------------
DriverStep ==
  \/ Clear \/ StartPio \/ Fill \/ SetupDma \/ StartRx \/ StartTx \/ EnableDma
  \/ Wake \/ DoneBit \/ Send \/ Recv \/ Unmask \/ Finish
  \/ RxComplete \/ TxComplete \/ RxAbort \/ TxAbort

Hardware == Shift \/ TxEngine \/ RxEngine

Next ==
  \/ \E op \in Ops, n \in Lengths : Call(op, n)
  \/ Setcfg \/ DriverStep \/ Timeout \/ Hardware \/ SpiInterrupt \/ DmaInterrupt

\* The caller's thread runs on, a wait for what never comes times out, and
\* the hardware and its interrupts make progress.
Fairness ==
  /\ WF_vars(DriverStep) /\ WF_vars(Quiet /\ Timeout)
  /\ WF_vars(Shift) /\ WF_vars(TxEngine) /\ WF_vars(RxEngine)
  /\ WF_vars(SpiInterrupt) /\ WF_vars(DmaInterrupt)

Spec == Init /\ [][Next]_vars
FairSpec == Spec /\ Fairness

-----------------------------------------------------------------------------
(* Properties                                                              *)

\* EOK means that the words of this very call went over the bus and every
\* word asked for was received, whatever events earlier transfers, timeouts
\* and the other kind of transfer left behind (bcm2711spi_wait, where a post
\* with dma_active set is logged as "DMA xfer is done", wait.c:54).
OkMeansExchanged ==
  ret = "EOK" => (sent >= rn /\ got = rn)

\* The same for an exchange by the CPU, which looks at DONE and counts its
\* words, at any time, and for a DMA transfer until some transfer has
\* outlasted its timeout (process_interrupts, bcm2711spi_wait).
OkWithoutStalePost ==
  (dma => ~late) => OkMeansExchanged

\* A call that is given its time leaves nothing behind that the next one would
\* take for its own event, and no interrupt that stays masked
\* (bcm2711spi_wait: InterruptUnmask, xfer_complete).
NothingLeftBehind ==
  (pc = "idle" /\ ~late) => (sem = 0 /\ ~masked /\ ~rxInt /\ ~rxMasked)

\* Both channels are free when a call returns, after a timeout too, so that
\* setup_xfer() of the next one is not refused (bcm2711spi_wait: xfer_complete
\* and xfer_abort of both).
ChannelsFree == pc = "idle" => (~rxBusy /\ ~txBusy)

\* Every call returns, and exchanges of equal lengths succeed as long as each
\* is given its time: the interrupt loop moves every word, with DONE as its
\* only progress signal (process_interrupts, sem_timedwait_monotonic; DMA
\* errors apart).
XferSucceeds ==
  (pc # "idle") ~> (pc = "idle" /\ (late \/ ret \in {"EOK", "EIO"}))

\* Calls do not disturb each other: the semaphore, the interrupts and the
\* channels are as the next call needs them.
CallsLeaveNothing == TypeOK /\ NothingLeftBehind /\ ChannelsFree

-----------------------------------------------------------------------------
(* The lengths of the run                                                  *)

\* Reads, writes and exchanges of one length: a single word, one that the
\* pre-fill covers, and one that needs several rounds of the loop.
Equal == {<<n, n>> : n \in {1, 2, 9}}
=============================================================================
