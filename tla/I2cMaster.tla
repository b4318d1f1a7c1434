----------------------------- MODULE I2cMaster ------------------------------
(***************************************************************************)
(* One transaction after another on the BCM2711 I2C master                 *)
(* (src/hardware/i2c/bcm2711): bcm2711_send() and bcm2711_recv() on the    *)
(* client's thread, bcm2711_wait_thread() on the interrupt thread, and the *)
(* controller with its FIFO.  The two threads share the fields of dev; the *)
(* mutex guards only txrx_status and the condition variable.               *)
(*                                                                         *)
(* Bytes are counted, not kept.  The early returns of a zero length and of *)
(* a bad slave address change nothing and are left out.                    *)
(***************************************************************************)
EXTENDS Naturals

CONSTANTS
  MaxLen,       \* bound: bytes of one transaction
  Cap,          \* depth of the FIFO, 16 in the controller
  Wirings,      \* the interrupt line may be the controller's "own" or "shared"
                \* with other controllers
  Late          \* a transaction may outlast the timeout

ASSUME I2cAssumption ==
  /\ MaxLen \in Nat \ {0} /\ Cap \in Nat \ {0}
  /\ Wirings \subseteq {"own", "shared"} /\ Late \in BOOLEAN

VARIABLES
  cpc,       \* where the client is in bcm2711_send() / bcm2711_recv()
  dir, len,  \* which of the two it called, and its len argument
  tot, cur,  \* dev->tot_len, dev->cur_len
  txrx,      \* dev->txrx
  woken,     \* the condition variable was signalled during the wait
  answer,    \* dev->txrx_status
  ret,       \* history: what the last call returned, "none" during a call
  ipc,       \* where the interrupt thread is
  st,        \* dev->status
  out,       \* the status the interrupt thread is about to report
  inte,      \* INTR, INTT, INTD in the control register
  active,    \* a transfer is under way on the bus
  left,      \* bytes it has still to move
  fifo,      \* bytes in the FIFO
  done, err, \* DONE and ERR in the status register
  ended,     \* history: how the transfer of the last call ended on the bus
  wiring,    \* which interrupt line the board has
  missed,    \* history: in this call the signal came before the client waited
  late       \* history: a timeout has expired with the transaction under way

client == <<cpc, dir, len, ret>>
shared == <<tot, cur, txrx, woken, answer>>
ist    == <<ipc, st, out>>
bus    == <<active, left, fifo, done, err, ended>>
hist   == <<wiring, missed, late>>
vars   == <<client, shared, ist, inte, bus, hist>>

Flags == {"ERR", "DONE", "RXR", "RXD", "TXW", "TXD"}

TypeOK ==
  /\ cpc \in {"idle", "disable", "reset", "setup", "push", "start", "enable", "lock", "wait"}
  /\ dir \in {"tx", "rx"} /\ len \in 0 .. MaxLen /\ txrx \in {"idle", "tx", "rx"}
  /\ tot \in 0 .. MaxLen /\ cur \in 0 .. tot
  /\ woken \in BOOLEAN /\ answer \in {"none", "DONE", "NACK"}
  /\ ret \in {"none", "DONE", "NACK", "ABORT"}
  /\ ipc \in {"wait", "look", "status", "disable", "read", "drain", "push", "idle", "signal"}
  /\ st \subseteq Flags /\ out \in {"none", "DONE", "NACK"}
  /\ inte \subseteq {"R", "T", "D"} /\ active \in BOOLEAN
  /\ left \in 0 .. MaxLen /\ fifo \in 0 .. Cap
  /\ done \in BOOLEAN /\ err \in BOOLEAN /\ ended \in {"no", "done", "err"}
  /\ wiring \in Wirings /\ missed \in BOOLEAN /\ late \in BOOLEAN

Init ==
  /\ cpc = "idle" /\ dir = "tx" /\ len = 0 /\ tot = 0 /\ cur = 0 /\ txrx = "idle"
  /\ woken = FALSE /\ answer = "none" /\ ret = "none"
  /\ ipc = "wait" /\ st = {} /\ out = "none"
  /\ inte = {} /\ active = FALSE /\ left = 0 /\ fifo = 0
  /\ done = FALSE /\ err = FALSE /\ ended = "no"
  /\ wiring \in Wirings /\ missed = FALSE /\ late = FALSE

-----------------------------------------------------------------------------
\* The status register as the code reads it: the FIFO needs writing at a
\* quarter and reading at three quarters.  CLKT is outside of STATREG_MASK.
Status ==
  {f \in Flags :
     \/ f = "ERR" /\ err
     \/ f = "DONE" /\ done
     \/ f = "RXD" /\ fifo > 0
     \/ f = "TXD" /\ fifo < Cap
     \/ f = "RXR" /\ active /\ 4 * fifo >= 3 * Cap
     \/ f = "TXW" /\ active /\ 4 * fifo <= Cap}

\* The interrupt line; it is level triggered.
Line ==
  \/ "D" \in inte /\ done
  \/ "R" \in inte /\ "RXR" \in Status
  \/ "T" \in inte /\ "TXW" \in Status

-----------------------------------------------------------------------------
ClientAt(step, next) == cpc = step /\ cpc' = next /\ UNCHANGED <<dir, len, ret>>

\* bcm2711_send() or bcm2711_recv() is called ...
Call(d, n) ==
  /\ cpc = "idle" /\ cpc' = "disable"
  /\ dir' = d /\ len' = n /\ ret' = "none" /\ missed' = FALSE
  /\ UNCHANGED <<shared, ist, inte, bus, wiring, late>>

\* ... i2c_reset() disables the interrupts, ...
ResetDisable ==
  /\ ClientAt("disable", "reset")
  /\ inte' = {}
  /\ UNCHANGED <<shared, ist, bus, hist>>

\* ... clears the FIFO and the status, ...
ResetClear ==
  /\ ClientAt("reset", "setup")
  /\ fifo' = 0 /\ done' = FALSE /\ err' = FALSE /\ active' = FALSE /\ left' = 0
  /\ UNCHANGED <<shared, ist, inte, ended, hist>>

\* Faulty variant: dev->cur_len is left from the last transaction.
SetupKeepsCur ==
  /\ ClientAt("setup", IF dir = "tx" THEN "push" ELSE "start")
  /\ tot' = len /\ txrx' = dir /\ st' = {}
  /\ UNCHANGED <<cur, woken, answer, ipc, out, inte, bus, hist>>

\* ... the transaction is described to the interrupt thread, ...
Setup ==
  /\ ClientAt("setup", IF dir = "tx" THEN "push" ELSE "start")
  /\ tot' = len /\ cur' = 0 /\ txrx' = dir /\ st' = {}
  /\ UNCHANGED <<woken, answer, ipc, out, inte, bus, hist>>

\* ... push_data() fills the FIFO before a write starts, ...
Push ==
  /\ ClientAt("push", "start")
  /\ cur' = IF tot < Cap - fifo THEN tot ELSE Cap - fifo
  /\ fifo' = fifo + cur'
  /\ st' = IF cur' < tot THEN Status \ {"TXD"} ELSE Status
  /\ UNCHANGED <<tot, txrx, woken, answer, ipc, out, inte, active, left, done, err, ended, hist>>

\* ... the transfer starts, ...
Start ==
  /\ ClientAt("start", "enable")
  /\ active' = TRUE /\ left' = tot /\ ended' = "no"
  /\ fifo' = IF dir = "rx" THEN 0 ELSE fifo
  /\ UNCHANGED <<shared, ist, inte, done, err, hist>>

\* ... the interrupts are enabled, and bcm2711_wait_complete() ...
Enable ==
  /\ ClientAt("enable", "lock")
  /\ inte' = inte \cup {"D", IF dir = "rx" THEN "R" ELSE "T"}
  /\ UNCHANGED <<shared, ist, bus, hist>>

\* ... waits on the condition variable, without looking whether the
\* transaction is over already.
Wait ==
  /\ ClientAt("lock", "wait")
  /\ woken' = FALSE
  /\ UNCHANGED <<tot, cur, txrx, answer, ist, inte, bus, hist>>

\* The wait returns with the status the interrupt thread has left, or ...
Wake ==
  /\ cpc = "wait" /\ woken
  /\ cpc' = "idle" /\ ret' = answer
  /\ UNCHANGED <<dir, len, shared, ist, inte, bus, hist>>

\* Nobody is going to signal the client any more.
NoSignalComing == ended # "no" /\ txrx = "idle" /\ ipc # "signal"

\* Faulty variant: after a timeout the client waits again.
TimeoutWaitsAgain ==
  /\ ClientAt("wait", "lock") /\ ~woken
  /\ Late \/ NoSignalComing
  /\ UNCHANGED <<shared, ist, inte, bus, hist>>

\* ... with I2C_STATUS_ABORT when the time is over.  The transaction and its
\* interrupts are left as they are.
Timeout ==
  /\ cpc = "wait" /\ ~woken
  /\ Late \/ NoSignalComing
  /\ cpc' = "idle" /\ ret' = "ABORT"
  /\ late' = (late \/ ~NoSignalComing)
  /\ UNCHANGED <<dir, len, shared, ist, inte, bus, wiring, missed>>

-----------------------------------------------------------------------------
\* The controller moves a byte; a transfer with an empty or a full FIFO
\* waits for the interrupt thread.
Byte ==
  /\ active /\ left > 0
  /\ \/ dir = "tx" /\ fifo > 0 /\ fifo' = fifo - 1
     \/ dir = "rx" /\ fifo < Cap /\ fifo' = fifo + 1
  /\ left' = left - 1
  /\ IF left = 1
       THEN active' = FALSE /\ done' = TRUE /\ ended' = "done"
       ELSE UNCHANGED <<active, done, ended>>
  /\ UNCHANGED <<client, shared, ist, inte, err, hist>>

\* The slave does not acknowledge: the transfer ends.
Nack ==
  /\ active
  /\ active' = FALSE /\ done' = TRUE /\ err' = TRUE /\ ended' = "err"
  /\ UNCHANGED <<client, shared, ist, inte, left, fifo, hist>>

-----------------------------------------------------------------------------
IstAt(step, next) == ipc = step /\ ipc' = next

\* InterruptWait() returns for this controller or for another one, ...
Interrupt ==
  /\ Line \/ wiring = "shared"
  /\ IstAt("wait", "look")
  /\ UNCHANGED <<client, shared, st, out, inte, bus, hist>>

\* ... an idle controller is skipped, ...
IstLook ==
  /\ IstAt("look", IF txrx = "idle" THEN "wait" ELSE "status")
  /\ UNCHANGED <<client, shared, st, out, inte, bus, hist>>

\* ... and the status decides: an error, the end, a FIFO to serve, nothing.
IstStatus ==
  /\ ipc = "status"
  /\ st' = Status
  /\ \/ "ERR" \in Status /\ ipc' = "disable" /\ out' = "NACK"
     \/ "ERR" \notin Status /\ "DONE" \in Status /\ ipc' = "disable" /\ out' = "DONE"
     \/ /\ Status \cap {"ERR", "DONE"} = {}
        /\ ipc' = IF txrx = "rx" /\ {"RXR", "RXD"} \subseteq Status THEN "read"
                  ELSE IF txrx = "tx" /\ {"TXW", "TXD"} \subseteq Status THEN "push"
                  ELSE "wait"
        /\ UNCHANGED out
  /\ UNCHANGED <<client, shared, inte, bus, hist>>

\* Faulty variant: the interrupts stay enabled at the end.
IstDisableForgotten ==
  /\ IstAt("disable", IF out = "DONE" THEN "drain" ELSE "idle")
  /\ UNCHANGED <<client, shared, st, out, inte, bus, hist>>

\* Faulty variant: what is left in the FIFO is not read.
IstDisableDry ==
  /\ IstAt("disable", "idle")
  /\ inte' = {}
  /\ UNCHANGED <<client, shared, st, out, bus, hist>>

\* Faulty variant: the client is signalled before the data is read.
IstDisableSignals ==
  /\ IstAt("disable", IF out = "DONE" THEN "drain" ELSE "idle")
  /\ inte' = {} /\ answer' = out /\ woken' = (woken \/ cpc = "wait")
  /\ UNCHANGED <<client, tot, cur, txrx, st, out, bus, hist>>

\* The end of a transaction: no more interrupts; after a success the rest of
\* the data is read.
IstDisable ==
  /\ IstAt("disable", IF out = "DONE" THEN "drain" ELSE "idle")
  /\ inte' = {}
  /\ UNCHANGED <<client, shared, st, out, bus, hist>>

\* read_data(), a byte at a time, by the status read after the last byte.
IstRead ==
  /\ ipc \in {"read", "drain"}
  /\ IF cur < tot /\ "RXD" \in st
       THEN /\ cur' = cur + 1 /\ fifo' = IF fifo > 0 THEN fifo - 1 ELSE 0
            /\ st' = IF fifo > 1 THEN Status ELSE Status \ {"RXD"}
            /\ UNCHANGED ipc
       ELSE /\ ipc' = IF ipc = "read" THEN "wait" ELSE "idle"
            /\ UNCHANGED <<cur, fifo, st>>
  /\ UNCHANGED <<client, tot, txrx, woken, answer, out, inte, active, left, done, err, ended, hist>>

\* push_data(), a byte at a time.
IstPush ==
  /\ ipc = "push"
  /\ st' = IF cur < tot THEN Status ELSE st
  /\ IF cur < tot /\ fifo < Cap
       THEN cur' = cur + 1 /\ fifo' = fifo + 1 /\ UNCHANGED ipc
       ELSE ipc' = "wait" /\ UNCHANGED <<cur, fifo>>
  /\ UNCHANGED <<client, tot, txrx, woken, answer, out, inte, active, left, done, err, ended, hist>>

IstIdle ==
  /\ IstAt("idle", "signal")
  /\ txrx' = "idle"
  /\ UNCHANGED <<client, tot, cur, woken, answer, st, out, inte, bus, hist>>

\* Faulty variant: the status is left and nobody is told.
IstSignalForgotten ==
  /\ IstAt("signal", "wait")
  /\ answer' = out
  /\ UNCHANGED <<client, tot, cur, txrx, woken, st, out, inte, bus, hist>>

\* Under the mutex: the status is left and the condition variable signalled;
\* a client that does not wait yet misses the signal.
IstSignal ==
  /\ IstAt("signal", "wait")
  /\ answer' = out
  /\ woken' = (woken \/ cpc = "wait")
  /\ missed' = (missed \/ cpc # "wait")
  /\ UNCHANGED <<client, tot, cur, txrx, st, out, inte, bus, wiring, late>>

-----------------------------------------------------------------------------
ClientStep ==
  \/ ResetDisable \/ ResetClear \/ Setup \/ Push \/ Start \/ Enable \/ Wait
  \/ Wake \/ Timeout

IstStep ==
  \/ IstLook \/ IstStatus \/ IstDisable \/ IstRead \/ IstPush \/ IstIdle \/ IstSignal

Next ==
  \/ \E d \in {"tx", "rx"}, n \in 1 .. MaxLen : Call(d, n)
  \/ ClientStep \/ IstStep \/ Interrupt \/ Byte \/ Nack

\* Both threads run on, a raised line wakes the interrupt thread, and the bus
\* makes progress.
Fairness ==
  /\ WF_vars(ClientStep) /\ WF_vars(IstStep)
  /\ WF_vars(Line /\ Interrupt) /\ WF_vars(Byte)

Spec == Init /\ [][Next]_vars
FairSpec == Spec /\ Fairness

-----------------------------------------------------------------------------
(* Properties                                                              *)

\* What a call returns is about its own transfer: DONE means that this
\* transfer ended on the bus and every byte went through dev->buf, NACK that
\* this one was refused, as long as no transaction outlasts its timeout
\* (bcm2711_wait_complete, bcm2711_wait_thread).
ResultIsOwn ==
  ~late => /\ ret = "DONE" => (ended = "done" /\ cur = tot)
           /\ ret = "NACK" => ended = "err"

\* The interrupt thread touches the caller's buffer only during the call: the
\* buffer is the caller's again when bcm2711_recv() or bcm2711_send() returns,
\* unless a transaction outlasts its timeout (read_data, push_data against
\* bcm2711_wait_complete).
BufferOwned == (~late /\ ipc \in {"read", "drain", "push"}) => cpc # "idle"

\* Between calls a controller with a line of its own is quiet: no interrupt
\* is left enabled that nobody would serve (disable_interrupt; an idle
\* controller is skipped).
QuietBetweenCalls ==
  (cpc = "idle" /\ txrx = "idle" /\ ~late /\ wiring = "own") => inte = {}

\* wait.c:53: the timeout is five times what the transaction takes.  When that
\* is enough, the one thing that still makes a call return I2C_STATUS_ABORT is
\* a signal that came before the client waited: the wait has no predicate.
AbortMeansMissed == (ret = "ABORT" /\ ~late) => missed

\* Every call returns, late transactions and foreign interrupts
\* notwithstanding (pthread_cond_timedwait in bcm2711_wait_complete).
CallReturns == (cpc # "idle") ~> (cpc = "idle")

\* A call has its own transfer and its own buffer and leaves the controller
\* quiet, as long as no transaction outlasts its timeout.
CallIsOwn == TypeOK /\ ResultIsOwn /\ BufferOwned /\ QuietBetweenCalls /\ AbortMeansMissed
=============================================================================
