--------------------------- MODULE I2cMaster_proofs -------------------------
(***************************************************************************)
(* Proofs about I2cMaster, for every length of a transaction, every FIFO   *)
(* depth and either wiring of the interrupt: what a call returns is about  *)
(* its own transfer.  The two threads share dev without a lock; the        *)
(* invariant says which of them may touch what, and when.                  *)
(***************************************************************************)
EXTENDS I2cMaster, TLAPS

\* Before the transaction is described to the interrupt thread, before the
\* transfer starts, and from then to the end of the call.
Before  == {"idle", "disable", "reset", "setup"}
Ready   == {"push", "start"}
Started == {"enable", "lock", "wait"}

\* The interrupt thread has seen the end of a transfer and not yet told.
Ending == {"disable", "drain", "idle", "signal"}

\* Where the interrupt thread can be: it passes an idle controller by, finds
\* nothing to do before the start, and sees the end only when there is one.
TurnInv ==
  /\ cpc \in Before => txrx = "idle" /\ ipc \in {"wait", "look"} /\ ~active
  /\ cpc \in Ready => txrx = dir /\ ipc \in {"wait", "look", "status"} /\ ~active
  /\ cpc \in Started =>
       /\ txrx = "idle" => ended # "no" /\ ipc \in {"signal", "wait", "look"}
       /\ txrx # "idle" => txrx = dir /\ ipc # "signal"
  /\ ipc = "read" => txrx = "rx"
  /\ ipc = "push" => txrx = "tx"

\* How the transfer stands on the bus, and what the interrupt thread reports.
EndInv ==
  /\ cpc \in {"setup", "push", "start"} => ~done /\ ~err
  /\ cpc \in Started =>
       /\ ended = "no" => active /\ ~done /\ ~err /\ left > 0 /\ ipc \notin Ending
       /\ ended = "done" => ~active /\ done /\ ~err /\ left = 0
       /\ ended = "err" => ~active /\ done /\ err
  /\ ipc \in Ending => out = IF ended = "done" THEN "DONE" ELSE "NACK"
  /\ ipc = "drain" => ended = "done"

\* Bytes: each is in the buffer, in the FIFO or still to be moved, so that a
\* transfer that has ended and whose FIFO has been read is complete.
ByteInv ==
  /\ cpc = "setup" => fifo = 0
  /\ cpc = "push" => dir = "tx" /\ fifo = 0 /\ cur = 0
  /\ cpc = "start" => IF dir = "tx" THEN fifo = cur ELSE cur = 0
  /\ cpc \in Ready => tot = len
  /\ cpc \notin {"idle"} => len > 0
  /\ (cpc \in Started /\ dir = "tx") => cur + left = tot + fifo
  /\ (cpc \in Started /\ dir = "rx") => cur + fifo + left = tot
  /\ (ipc = "read" /\ "RXD" \in st) => fifo > 0
  /\ (ipc \in {"disable", "drain"} /\ ended = "done") => ("RXD" \in st <=> fifo > 0)
  /\ (ipc \in {"idle", "signal"} /\ ended = "done") => cur = tot
  /\ (cpc \in Started /\ txrx = "idle" /\ ended = "done") => cur = tot

\* The signal: a client that waits has it, or it came too early.
SignalInv ==
  /\ cpc # "idle" => ret = "none"
  /\ (cpc \in Started /\ txrx = "idle" /\ ipc # "signal") => missed \/ (cpc = "wait" /\ woken)
  /\ (cpc = "wait" /\ woken) =>
       /\ txrx = "idle" /\ ipc # "signal"
       /\ answer = IF ended = "done" THEN "DONE" ELSE "NACK"

\* A line of its own is raised only for a transaction that is under way.
OwnLineInv ==
  wiring = "own" =>
    /\ cpc \in Before \cup Ready \cup {"enable"} => ipc = "wait" /\ inte = {}
    /\ cpc = "enable" => txrx # "idle"
    /\ txrx = "idle" => ipc \in {"wait", "signal"}
    /\ txrx = "idle" \/ ipc \in {"drain", "idle", "signal"} => inte = {}

I2cInv ==
  /\ TypeOK
  /\ ~late => /\ TurnInv /\ EndInv /\ ByteInv /\ SignalInv /\ OwnLineInv
              /\ ResultIsOwn /\ AbortMeansMissed

-----------------------------------------------------------------------------
\* The inductive step: every action of either thread and of the controller
\* preserves every part.
LEMMA I2cNext == I2cInv /\ [Next]_vars => I2cInv'
  <1> USE DEF I2cInv
  <1>1. ASSUME I2cInv, Next
        PROVE  I2cInv'
    <2> USE <1>1
    <2>1. CASE \E d \in {"tx", "rx"}, n \in 1 .. MaxLen : Call(d, n)
      <3>1. TypeOK'
        <4>1. /\ cpc' \in {"idle", "disable", "reset", "setup", "push", "start", "enable", "lock", "wait"}
              /\ dir' \in {"tx", "rx"} /\ txrx' \in {"idle", "tx", "rx"}
              /\ answer' \in {"none", "DONE", "NACK"} /\ ret' \in {"none", "DONE", "NACK", "ABORT"}
              /\ out' \in {"none", "DONE", "NACK"} /\ ended' \in {"no", "done", "err"}
              /\ ipc' \in {"wait", "look", "status", "disable", "read", "drain", "push", "idle", "signal"}
          BY <2>1 DEF TypeOK, Call, shared, ist, bus
        <4>2. /\ woken' \in BOOLEAN /\ active' \in BOOLEAN /\ done' \in BOOLEAN /\ err' \in BOOLEAN
              /\ missed' \in BOOLEAN /\ late' \in BOOLEAN
          BY <2>1 DEF TypeOK, Call, shared, bus
        <4>3. /\ len' \in 0 .. MaxLen /\ tot' \in 0 .. MaxLen /\ cur' \in 0 .. tot'
              /\ left' \in 0 .. MaxLen /\ fifo' \in 0 .. Cap
          BY <2>1, I2cAssumption DEF TypeOK, Call, shared, bus
        <4>4. st' \subseteq Flags /\ inte' \subseteq {"R", "T", "D"} /\ wiring' \in Wirings
          BY <2>1 DEF TypeOK, Call, ist
        <4> QED BY <4>1, <4>2, <4>3, <4>4 DEF TypeOK
      <3>2. (~late => TurnInv)'
        BY <2>1 DEF TurnInv, Before, Ready, Started, Call, shared, ist, bus
      <3>3. (~late => EndInv)'
        BY <2>1 DEF EndInv, Started, Call, ist, bus
      <3>4. (~late => ByteInv)'
        BY <2>1, I2cAssumption DEF ByteInv, Ready, Started, Call, shared, ist, bus
      <3>5. (~late => SignalInv)'
        BY <2>1 DEF SignalInv, Started, Call
      <3>6. (~late => OwnLineInv)'
        BY <2>1 DEF OwnLineInv, Before, Call, ist
      <3>7. (~late => ResultIsOwn /\ AbortMeansMissed)'
        BY <2>1 DEF ResultIsOwn, AbortMeansMissed, Call
      <3> QED BY <3>1, <3>2, <3>3, <3>4, <3>5, <3>6, <3>7
    <2>2. CASE ResetDisable
      <3>1. TypeOK'
        BY <2>2, I2cAssumption DEF TypeOK, ResetDisable, ClientAt, shared, ist, bus, hist
      <3>2. (~late => TurnInv)'
        BY <2>2
           DEF TurnInv, Before, Ready, Started, ResetDisable, ClientAt, shared, ist, bus, hist
      <3>3. (~late => EndInv)'
        BY <2>2 DEF EndInv, Started, ResetDisable, ClientAt, ist, bus, hist
      <3>4. (~late => ByteInv)'
        BY <2>2, I2cAssumption
           DEF ByteInv, Ready, Started, ResetDisable, ClientAt, shared, ist, bus, hist
      <3>5. (~late => SignalInv)'
        BY <2>2 DEF SignalInv, Started, ResetDisable, ClientAt, hist
      <3>6. (~late => OwnLineInv)'
        BY <2>2 DEF OwnLineInv, Before, ResetDisable, ClientAt, ist, hist
      <3>7. (~late => ResultIsOwn /\ AbortMeansMissed)'
        BY <2>2 DEF ResultIsOwn, AbortMeansMissed, ResetDisable, ClientAt, shared, bus, hist
      <3> QED BY <3>1, <3>2, <3>3, <3>4, <3>5, <3>6, <3>7
    <2>3. CASE ResetClear
      <3>1. TypeOK'
        <4>1. /\ cpc' \in {"idle", "disable", "reset", "setup", "push", "start", "enable", "lock", "wait"}
              /\ dir' \in {"tx", "rx"} /\ txrx' \in {"idle", "tx", "rx"}
              /\ answer' \in {"none", "DONE", "NACK"} /\ ret' \in {"none", "DONE", "NACK", "ABORT"}
              /\ out' \in {"none", "DONE", "NACK"} /\ ended' \in {"no", "done", "err"}
              /\ ipc' \in {"wait", "look", "status", "disable", "read", "drain", "push", "idle", "signal"}
          BY <2>3 DEF TypeOK, ResetClear, ClientAt, shared, ist
        <4>2. /\ woken' \in BOOLEAN /\ active' \in BOOLEAN /\ done' \in BOOLEAN /\ err' \in BOOLEAN
              /\ missed' \in BOOLEAN /\ late' \in BOOLEAN
          BY <2>3 DEF TypeOK, ResetClear, shared, hist
        <4>3. /\ len' \in 0 .. MaxLen /\ tot' \in 0 .. MaxLen /\ cur' \in 0 .. tot'
              /\ left' \in 0 .. MaxLen /\ fifo' \in 0 .. Cap
          BY <2>3, I2cAssumption DEF TypeOK, ResetClear, ClientAt, shared
        <4>4. st' \subseteq Flags /\ inte' \subseteq {"R", "T", "D"} /\ wiring' \in Wirings
          BY <2>3 DEF TypeOK, ResetClear, ist, hist
        <4> QED BY <4>1, <4>2, <4>3, <4>4 DEF TypeOK
      <3>2. (~late => TurnInv)'
        BY <2>3 DEF TurnInv, Before, Ready, Started, ResetClear, ClientAt, shared, ist, hist
      <3>3. (~late => EndInv)'
        BY <2>3 DEF EndInv, Started, ResetClear, ClientAt, ist, hist
      <3>4. (~late => ByteInv)'
        BY <2>3, I2cAssumption
           DEF ByteInv, TurnInv, Before, Ready, Started, ResetClear, ClientAt, ist, hist
      <3>5. (~late => SignalInv)'
        BY <2>3 DEF SignalInv, Started, ResetClear, ClientAt, hist
      <3>6. (~late => OwnLineInv)'
        BY <2>3 DEF OwnLineInv, Before, ResetClear, ClientAt, ist, hist
      <3>7. (~late => ResultIsOwn /\ AbortMeansMissed)'
        BY <2>3 DEF ResultIsOwn, AbortMeansMissed, ResetClear, ClientAt, shared, hist
      <3> QED BY <3>1, <3>2, <3>3, <3>4, <3>5, <3>6, <3>7
    <2>4. CASE Setup
      <3>1. TypeOK'
        BY <2>4, I2cAssumption DEF TypeOK, Setup, ClientAt, bus, hist
      <3>2. (~late => TurnInv)'
        BY <2>4 DEF TurnInv, Before, Started, Setup, ClientAt, bus, hist
      <3>3. (~late => EndInv)'
        BY <2>4 DEF EndInv, Started, Setup, ClientAt, bus, hist
      <3>4. (~late => ByteInv)'
        BY <2>4, I2cAssumption
           DEF ByteInv, TurnInv, Before, Started, Setup, ClientAt, bus, hist
      <3>5. (~late => SignalInv)'
        BY <2>4 DEF SignalInv, Started, Setup, ClientAt, hist
      <3>6. (~late => OwnLineInv)'
        BY <2>4 DEF OwnLineInv, Before, Setup, ClientAt, hist
      <3>7. (~late => ResultIsOwn /\ AbortMeansMissed)'
        BY <2>4 DEF ResultIsOwn, AbortMeansMissed, SignalInv, Setup, ClientAt, hist
      <3> QED BY <3>1, <3>2, <3>3, <3>4, <3>5, <3>6, <3>7
    <2>5. CASE Push
      <3>1. TypeOK'
        BY <2>5, I2cAssumption DEF TypeOK, Status, Push, ClientAt, hist
      <3>2. (~late => TurnInv)'
        BY <2>5 DEF TurnInv, Before, Ready, Started, Push, ClientAt, hist
      <3>3. (~late => EndInv)'
        BY <2>5 DEF EndInv, Started, Push, ClientAt, hist
      <3>4. (~late => ByteInv)'
        BY <2>5, I2cAssumption
           DEF ByteInv, TurnInv, TypeOK, Ready, Started, Push, ClientAt, hist
      <3>5. (~late => SignalInv)'
        BY <2>5 DEF SignalInv, Started, Push, ClientAt, hist
      <3>6. (~late => OwnLineInv)'
        BY <2>5 DEF OwnLineInv, Ready, Push, ClientAt, hist
      <3>7. (~late => ResultIsOwn /\ AbortMeansMissed)'
        BY <2>5 DEF ResultIsOwn, AbortMeansMissed, ByteInv, Ready, Push, ClientAt, hist
      <3> QED BY <3>1, <3>2, <3>3, <3>4, <3>5, <3>6, <3>7
    <2>6. CASE Start
      <3>1. TypeOK'
        BY <2>6, I2cAssumption DEF TypeOK, Start, ClientAt, shared, ist, hist
      <3>2. (~late => TurnInv)'
        BY <2>6 DEF TurnInv, TypeOK, Before, Ready, Start, ClientAt, shared, ist, hist
      <3>3. (~late => EndInv)'
        BY <2>6 DEF EndInv, TurnInv, ByteInv, Ready, Ending, Start, ClientAt, ist, hist
      <3>4. (~late => ByteInv)'
        BY <2>6, I2cAssumption
           DEF ByteInv, TurnInv, TypeOK, Ready, Start, ClientAt, shared, ist, hist
      <3>5. (~late => SignalInv)'
        BY <2>6 DEF SignalInv, TurnInv, TypeOK, Ready, Start, ClientAt, shared, hist
      <3>6. (~late => OwnLineInv)'
        BY <2>6 DEF OwnLineInv, TurnInv, TypeOK, Ready, Start, ClientAt, shared, ist, hist
      <3>7. (~late => ResultIsOwn /\ AbortMeansMissed)'
        BY <2>6 DEF ResultIsOwn, AbortMeansMissed, SignalInv, Start, ClientAt, hist
      <3> QED BY <3>1, <3>2, <3>3, <3>4, <3>5, <3>6, <3>7
    <2>7. CASE Enable
      <3>1. TypeOK'
        BY <2>7, I2cAssumption DEF TypeOK, Enable, ClientAt, shared, ist, bus, hist
      <3>2. (~late => TurnInv)'
        BY <2>7 DEF TurnInv, Before, Ready, Started, Enable, ClientAt, shared, ist, bus, hist
      <3>3. (~late => EndInv)'
        BY <2>7 DEF EndInv, Started, Enable, ClientAt, ist, bus, hist
      <3>4. (~late => ByteInv)'
        BY <2>7, I2cAssumption
           DEF ByteInv, Ready, Started, Enable, ClientAt, shared, ist, bus, hist
      <3>5. (~late => SignalInv)'
        BY <2>7 DEF SignalInv, Started, Enable, ClientAt, shared, ist, hist
      <3>6. (~late => OwnLineInv)'
        BY <2>7 DEF OwnLineInv, Before, Ready, Enable, ClientAt, shared, ist, hist
      <3>7. (~late => ResultIsOwn /\ AbortMeansMissed)'
        BY <2>7 DEF ResultIsOwn, AbortMeansMissed, Enable, ClientAt, shared, bus, hist
      <3> QED BY <3>1, <3>2, <3>3, <3>4, <3>5, <3>6, <3>7
    <2>8. CASE Wait
      <3>1. TypeOK'
        <4>1. /\ cpc' \in {"idle", "disable", "reset", "setup", "push", "start", "enable", "lock", "wait"}
              /\ dir' \in {"tx", "rx"} /\ txrx' \in {"idle", "tx", "rx"}
              /\ answer' \in {"none", "DONE", "NACK"} /\ ret' \in {"none", "DONE", "NACK", "ABORT"}
              /\ out' \in {"none", "DONE", "NACK"} /\ ended' \in {"no", "done", "err"}
              /\ ipc' \in {"wait", "look", "status", "disable", "read", "drain", "push", "idle", "signal"}
          BY <2>8 DEF TypeOK, Wait, ClientAt, ist, bus
        <4>2. /\ woken' \in BOOLEAN /\ active' \in BOOLEAN /\ done' \in BOOLEAN /\ err' \in BOOLEAN
              /\ missed' \in BOOLEAN /\ late' \in BOOLEAN
          BY <2>8 DEF TypeOK, Wait, bus, hist
        <4>3. /\ len' \in 0 .. MaxLen /\ tot' \in 0 .. MaxLen /\ cur' \in 0 .. tot'
              /\ left' \in 0 .. MaxLen /\ fifo' \in 0 .. Cap
          BY <2>8, I2cAssumption DEF TypeOK, Wait, ClientAt, bus
        <4>4. st' \subseteq Flags /\ inte' \subseteq {"R", "T", "D"} /\ wiring' \in Wirings
          BY <2>8 DEF TypeOK, Wait, ist, hist
        <4> QED BY <4>1, <4>2, <4>3, <4>4 DEF TypeOK
      <3>2. (~late => TurnInv)'
        BY <2>8 DEF TurnInv, Before, Ready, Started, Wait, ClientAt, ist, bus, hist
      <3>3. (~late => EndInv)'
        BY <2>8 DEF EndInv, Started, Wait, ClientAt, ist, bus, hist
      <3>4. (~late => ByteInv)'
        BY <2>8, I2cAssumption DEF ByteInv, Ready, Started, Wait, ClientAt, ist, bus, hist
      <3>5. (~late => SignalInv)'
        BY <2>8 DEF SignalInv, Started, Wait, ClientAt, ist, hist
      <3>6. (~late => OwnLineInv)'
        BY <2>8 DEF OwnLineInv, Before, Ready, Wait, ClientAt, ist, hist
      <3>7. (~late => ResultIsOwn /\ AbortMeansMissed)'
        BY <2>8 DEF ResultIsOwn, AbortMeansMissed, Wait, ClientAt, bus, hist
      <3> QED BY <3>1, <3>2, <3>3, <3>4, <3>5, <3>6, <3>7
    <2>9. CASE Wake
      <3>1. TypeOK'
        BY <2>9, I2cAssumption DEF TypeOK, Wake, shared, ist, bus, hist
      <3>2. (~late => TurnInv)'
        BY <2>9
           DEF TurnInv, EndInv, SignalInv, TypeOK, Ready, Started, Wake, shared, ist, bus,
               hist
      <3>3. (~late => EndInv)'
        BY <2>9 DEF EndInv, Started, Wake, ist, bus, hist
      <3>4. (~late => ByteInv)'
        BY <2>9, I2cAssumption DEF ByteInv, Ready, Started, Wake, shared, ist, bus, hist
      <3>5. (~late => SignalInv)'
        BY <2>9 DEF SignalInv, Started, Wake
      <3>6. (~late => OwnLineInv)'
        BY <2>9 DEF OwnLineInv, SignalInv, Wake, ist, hist
      <3>7. (~late => ResultIsOwn /\ AbortMeansMissed)'
        BY <2>9
           DEF ResultIsOwn, AbortMeansMissed, SignalInv, TurnInv, ByteInv, TypeOK, Started,
               Wake, shared, bus, hist
      <3> QED BY <3>1, <3>2, <3>3, <3>4, <3>5, <3>6, <3>7
    <2>10. CASE Timeout
      <3>1. TypeOK'
        BY <2>10, I2cAssumption DEF TypeOK, Timeout, shared, ist, bus
      <3>2. (~late => TurnInv)'
        BY <2>10
           DEF TurnInv, EndInv, TypeOK, Ready, Started, Timeout, NoSignalComing, shared, ist,
               bus
      <3>3. (~late => EndInv)'
        BY <2>10 DEF EndInv, Started, Timeout, ist, bus
      <3>4. (~late => ByteInv)'
        BY <2>10, I2cAssumption DEF ByteInv, Ready, Started, Timeout, shared, ist, bus
      <3>5. (~late => SignalInv)'
        BY <2>10 DEF SignalInv, Started, Timeout
      <3>6. (~late => OwnLineInv)'
        BY <2>10 DEF OwnLineInv, Timeout, NoSignalComing, ist
      <3>7. (~late => ResultIsOwn /\ AbortMeansMissed)'
        BY <2>10
           DEF ResultIsOwn, AbortMeansMissed, SignalInv, Started, Timeout, NoSignalComing
      <3> QED BY <3>1, <3>2, <3>3, <3>4, <3>5, <3>6, <3>7
    <2>11. CASE Interrupt
      <3>1. TypeOK'
        BY <2>11, I2cAssumption DEF TypeOK, Interrupt, IstAt, client, shared, bus, hist
      <3>2. (~late => TurnInv)'
        BY <2>11 DEF TurnInv, Interrupt, IstAt, client, shared, bus, hist
      <3>3. (~late => EndInv)'
        BY <2>11 DEF EndInv, Ending, Interrupt, IstAt, client, bus, hist
      <3>4. (~late => ByteInv)'
        BY <2>11, I2cAssumption DEF ByteInv, Interrupt, IstAt, client, shared, bus, hist
      <3>5. (~late => SignalInv)'
        BY <2>11 DEF SignalInv, Interrupt, IstAt, client, shared, bus, hist
      <3>6. (~late => OwnLineInv)'
        BY <2>11 DEF OwnLineInv, Line, Interrupt, IstAt, client, shared, hist
      <3>7. (~late => ResultIsOwn /\ AbortMeansMissed)'
        BY <2>11 DEF ResultIsOwn, AbortMeansMissed, Interrupt, client, shared, bus, hist
      <3> QED BY <3>1, <3>2, <3>3, <3>4, <3>5, <3>6, <3>7
    <2>12. CASE IstLook
      <3>1. TypeOK'
        BY <2>12, I2cAssumption DEF TypeOK, IstLook, IstAt, client, shared, bus, hist
      <3>2. (~late => TurnInv)'
        BY <2>12 DEF TurnInv, IstLook, IstAt, client, shared, bus, hist
      <3>3. (~late => EndInv)'
        BY <2>12 DEF EndInv, Ending, IstLook, IstAt, client, bus, hist
      <3>4. (~late => ByteInv)'
        BY <2>12, I2cAssumption DEF ByteInv, IstLook, IstAt, client, shared, bus, hist
      <3>5. (~late => SignalInv)'
        BY <2>12 DEF SignalInv, IstLook, IstAt, client, shared, bus, hist
      <3>6. (~late => OwnLineInv)'
        BY <2>12 DEF OwnLineInv, IstLook, IstAt, client, shared, hist
      <3>7. (~late => ResultIsOwn /\ AbortMeansMissed)'
        BY <2>12 DEF ResultIsOwn, AbortMeansMissed, IstLook, client, shared, bus, hist
      <3> QED BY <3>1, <3>2, <3>3, <3>4, <3>5, <3>6, <3>7
    <2>13. CASE IstStatus
      <3>1. TypeOK'
        BY <2>13, I2cAssumption DEF TypeOK, Status, IstStatus, client, shared, bus, hist
      <3>2. (~late => TurnInv)'
        BY <2>13 DEF TurnInv, EndInv, Status, Ready, IstStatus, client, shared, bus, hist
      <3>3. (~late => EndInv)'
        BY <2>13
           DEF EndInv, TurnInv, Status, Flags, TypeOK, Before, Started, Ending, IstStatus,
               client, bus, hist
      <3>4. (~late => ByteInv)'
        BY <2>13, I2cAssumption
           DEF ByteInv, Status, Flags, IstStatus, client, shared, bus, hist
      <3>5. (~late => SignalInv)'
        BY <2>13 DEF SignalInv, IstStatus, client, shared, bus, hist
      <3>6. (~late => OwnLineInv)'
        BY <2>13 DEF OwnLineInv, IstStatus, client, shared, hist
      <3>7. (~late => ResultIsOwn /\ AbortMeansMissed)'
        BY <2>13 DEF ResultIsOwn, AbortMeansMissed, IstStatus, client, shared, bus, hist
      <3> QED BY <3>1, <3>2, <3>3, <3>4, <3>5, <3>6, <3>7
    <2>14. CASE IstDisable
      <3>1. TypeOK'
        BY <2>14, I2cAssumption DEF TypeOK, IstDisable, IstAt, client, shared, bus, hist
      <3>2. (~late => TurnInv)'
        BY <2>14 DEF TurnInv, IstDisable, IstAt, client, shared, hist
      <3>3. (~late => EndInv)'
        BY <2>14 DEF EndInv, Ending, IstDisable, IstAt, client, bus, hist
      <3>4. (~late => ByteInv)'
        BY <2>14, I2cAssumption
           DEF ByteInv, EndInv, Ending, IstDisable, IstAt, client, shared, bus, hist
      <3>5. (~late => SignalInv)'
        BY <2>14 DEF SignalInv, IstDisable, IstAt, client, shared, bus, hist
      <3>6. (~late => OwnLineInv)'
        BY <2>14 DEF OwnLineInv, IstDisable, IstAt, client, shared, hist
      <3>7. (~late => ResultIsOwn /\ AbortMeansMissed)'
        BY <2>14 DEF ResultIsOwn, AbortMeansMissed, IstDisable, client, shared, bus, hist
      <3> QED BY <3>1, <3>2, <3>3, <3>4, <3>5, <3>6, <3>7
    <2>15. CASE IstRead
      <3>1. TypeOK'
        <4>1. /\ cpc' \in {"idle", "disable", "reset", "setup", "push", "start", "enable", "lock", "wait"}
              /\ dir' \in {"tx", "rx"} /\ txrx' \in {"idle", "tx", "rx"}
              /\ answer' \in {"none", "DONE", "NACK"} /\ ret' \in {"none", "DONE", "NACK", "ABORT"}
              /\ out' \in {"none", "DONE", "NACK"} /\ ended' \in {"no", "done", "err"}
              /\ ipc' \in {"wait", "look", "status", "disable", "read", "drain", "push", "idle", "signal"}
          BY <2>15 DEF TypeOK, IstRead, client
        <4>2. /\ woken' \in BOOLEAN /\ active' \in BOOLEAN /\ done' \in BOOLEAN /\ err' \in BOOLEAN
              /\ missed' \in BOOLEAN /\ late' \in BOOLEAN
          BY <2>15 DEF TypeOK, IstRead, hist
        <4>3. /\ len' \in 0 .. MaxLen /\ tot' \in 0 .. MaxLen /\ cur' \in 0 .. tot'
              /\ left' \in 0 .. MaxLen /\ fifo' \in 0 .. Cap
          BY <2>15, I2cAssumption DEF TypeOK, IstRead, client
        <4>4. st' \subseteq Flags /\ inte' \subseteq {"R", "T", "D"} /\ wiring' \in Wirings
          BY <2>15 DEF TypeOK, Status, IstRead, hist
        <4> QED BY <4>1, <4>2, <4>3, <4>4 DEF TypeOK
      <3>2. (~late => TurnInv)'
        BY <2>15 DEF TurnInv, IstRead, client, hist
      <3>3. (~late => EndInv)'
        BY <2>15 DEF EndInv, Ending, IstRead, client, hist
      <3>4. (~late => ByteInv)'
        BY <2>15, I2cAssumption
           DEF ByteInv, TurnInv, EndInv, Status, TypeOK, Before, Ready, Started, IstRead,
               client, hist
      <3>5. (~late => SignalInv)'
        BY <2>15 DEF SignalInv, IstRead, client, hist
      <3>6. (~late => OwnLineInv)'
        BY <2>15 DEF OwnLineInv, IstRead, client, hist
      <3>7. (~late => ResultIsOwn /\ AbortMeansMissed)'
        BY <2>15 DEF ResultIsOwn, AbortMeansMissed, TypeOK, IstRead, client, hist
      <3> QED BY <3>1, <3>2, <3>3, <3>4, <3>5, <3>6, <3>7
    <2>16. CASE IstPush
      <3>1. TypeOK'
        <4>1. /\ cpc' \in {"idle", "disable", "reset", "setup", "push", "start", "enable", "lock", "wait"}
              /\ dir' \in {"tx", "rx"} /\ txrx' \in {"idle", "tx", "rx"}
              /\ answer' \in {"none", "DONE", "NACK"} /\ ret' \in {"none", "DONE", "NACK", "ABORT"}
              /\ out' \in {"none", "DONE", "NACK"} /\ ended' \in {"no", "done", "err"}
              /\ ipc' \in {"wait", "look", "status", "disable", "read", "drain", "push", "idle", "signal"}
          BY <2>16 DEF TypeOK, IstPush, client
        <4>2. /\ woken' \in BOOLEAN /\ active' \in BOOLEAN /\ done' \in BOOLEAN /\ err' \in BOOLEAN
              /\ missed' \in BOOLEAN /\ late' \in BOOLEAN
          BY <2>16 DEF TypeOK, IstPush, hist
        <4>3. /\ len' \in 0 .. MaxLen /\ tot' \in 0 .. MaxLen /\ cur' \in 0 .. tot'
              /\ left' \in 0 .. MaxLen /\ fifo' \in 0 .. Cap
          BY <2>16, I2cAssumption DEF TypeOK, IstPush, client
        <4>4. st' \subseteq Flags /\ inte' \subseteq {"R", "T", "D"} /\ wiring' \in Wirings
          BY <2>16 DEF TypeOK, Status, IstPush, hist
        <4> QED BY <4>1, <4>2, <4>3, <4>4 DEF TypeOK
      <3>2. (~late => TurnInv)'
        BY <2>16 DEF TurnInv, IstPush, client, hist
      <3>3. (~late => EndInv)'
        BY <2>16 DEF EndInv, Ending, IstPush, client, hist
      <3>4. (~late => ByteInv)'
        BY <2>16, I2cAssumption
           DEF ByteInv, TurnInv, TypeOK, Before, Ready, IstPush, client, hist
      <3>5. (~late => SignalInv)'
        BY <2>16 DEF SignalInv, IstPush, client, hist
      <3>6. (~late => OwnLineInv)'
        BY <2>16 DEF OwnLineInv, IstPush, client, hist
      <3>7. (~late => ResultIsOwn /\ AbortMeansMissed)'
        BY <2>16 DEF ResultIsOwn, AbortMeansMissed, TypeOK, IstPush, client, hist
      <3> QED BY <3>1, <3>2, <3>3, <3>4, <3>5, <3>6, <3>7
    <2>17. CASE IstIdle
      <3>1. TypeOK'
        BY <2>17, I2cAssumption DEF TypeOK, IstIdle, IstAt, client, bus, hist
      <3>2. (~late => TurnInv)'
        BY <2>17 DEF TurnInv, EndInv, Ending, IstIdle, IstAt, client, bus, hist
      <3>3. (~late => EndInv)'
        BY <2>17 DEF EndInv, Ending, IstIdle, IstAt, client, bus, hist
      <3>4. (~late => ByteInv)'
        BY <2>17, I2cAssumption DEF ByteInv, IstIdle, IstAt, client, bus, hist
      <3>5. (~late => SignalInv)'
        BY <2>17 DEF SignalInv, TurnInv, Started, IstIdle, IstAt, client, hist
      <3>6. (~late => OwnLineInv)'
        BY <2>17 DEF OwnLineInv, IstIdle, IstAt, client, hist
      <3>7. (~late => ResultIsOwn /\ AbortMeansMissed)'
        BY <2>17 DEF ResultIsOwn, AbortMeansMissed, IstIdle, client, bus, hist
      <3> QED BY <3>1, <3>2, <3>3, <3>4, <3>5, <3>6, <3>7
    <2>18. CASE IstSignal
      <3>1. TypeOK'
        BY <2>18, I2cAssumption DEF TypeOK, IstSignal, IstAt, client, bus
      <3>2. (~late => TurnInv)'
        BY <2>18 DEF TurnInv, IstSignal, IstAt, client, bus
      <3>3. (~late => EndInv)'
        BY <2>18 DEF EndInv, Ending, IstSignal, IstAt, client, bus
      <3>4. (~late => ByteInv)'
        BY <2>18, I2cAssumption DEF ByteInv, IstSignal, IstAt, client, bus
      <3>5. (~late => SignalInv)'
        BY <2>18
           DEF SignalInv, TurnInv, EndInv, Started, Ending, IstSignal, IstAt, client, bus
      <3>6. (~late => OwnLineInv)'
        BY <2>18 DEF OwnLineInv, IstSignal, IstAt, client
      <3>7. (~late => ResultIsOwn /\ AbortMeansMissed)'
        BY <2>18 DEF ResultIsOwn, AbortMeansMissed, IstSignal, client, bus
      <3> QED BY <3>1, <3>2, <3>3, <3>4, <3>5, <3>6, <3>7
    <2>19. CASE Byte
      <3>1. TypeOK'
        <4>1. /\ cpc' \in {"idle", "disable", "reset", "setup", "push", "start", "enable", "lock", "wait"}
              /\ dir' \in {"tx", "rx"} /\ txrx' \in {"idle", "tx", "rx"}
              /\ answer' \in {"none", "DONE", "NACK"} /\ ret' \in {"none", "DONE", "NACK", "ABORT"}
              /\ out' \in {"none", "DONE", "NACK"} /\ ended' \in {"no", "done", "err"}
              /\ ipc' \in {"wait", "look", "status", "disable", "read", "drain", "push", "idle", "signal"}
          <5>1. ended' = "done" \/ UNCHANGED ended
            BY <2>19 DEF Byte
          <5>2. UNCHANGED <<client, shared, ist, hist>>
            BY <2>19 DEF Byte
          <5> QED BY <5>1, <5>2 DEF TypeOK, client, shared, ist
        <4>2. /\ woken' \in BOOLEAN /\ active' \in BOOLEAN /\ done' \in BOOLEAN /\ err' \in BOOLEAN
              /\ missed' \in BOOLEAN /\ late' \in BOOLEAN
          BY <2>19 DEF TypeOK, Byte, shared, hist
        <4>3. /\ len' \in 0 .. MaxLen /\ tot' \in 0 .. MaxLen /\ cur' \in 0 .. tot'
              /\ left' \in 0 .. MaxLen /\ fifo' \in 0 .. Cap
          BY <2>19, I2cAssumption DEF TypeOK, Byte, client, shared
        <4>4. st' \subseteq Flags /\ inte' \subseteq {"R", "T", "D"} /\ wiring' \in Wirings
          BY <2>19 DEF TypeOK, Byte, ist, hist
        <4> QED BY <4>1, <4>2, <4>3, <4>4 DEF TypeOK
      <3>2. (~late => TurnInv)'
        BY <2>19 DEF TurnInv, Byte, client, shared, ist, hist
      <3>3. (~late => EndInv)'
        <4>1. CASE left = 1
          BY <2>19, <4>1
             DEF EndInv, TurnInv, TypeOK, Before, Ready, Started, Byte, client, ist, hist
        <4>2. CASE left # 1
          BY <2>19, <4>2 DEF EndInv, TypeOK, Byte, client, ist, hist
        <4> QED BY <4>1, <4>2
      <3>4. (~late => ByteInv)'
        BY <2>19, I2cAssumption
           DEF ByteInv, TurnInv, EndInv, TypeOK, Before, Ready, Started, Ending, Byte, client,
               shared, ist, hist
      <3>5. (~late => SignalInv)'
        BY <2>19 DEF SignalInv, TurnInv, EndInv, TypeOK, Started, Byte, client, shared, hist
      <3>6. (~late => OwnLineInv)'
        BY <2>19 DEF OwnLineInv, Byte, client, shared, ist, hist
      <3>7. (~late => ResultIsOwn /\ AbortMeansMissed)'
        BY <2>19
           DEF ResultIsOwn, AbortMeansMissed, SignalInv, TurnInv, Before, Byte, client, hist
      <3> QED BY <3>1, <3>2, <3>3, <3>4, <3>5, <3>6, <3>7
    <2>20. CASE Nack
      <3>1. TypeOK'
        <4>1. /\ cpc' \in {"idle", "disable", "reset", "setup", "push", "start", "enable", "lock", "wait"}
              /\ dir' \in {"tx", "rx"} /\ txrx' \in {"idle", "tx", "rx"}
              /\ answer' \in {"none", "DONE", "NACK"} /\ ret' \in {"none", "DONE", "NACK", "ABORT"}
              /\ out' \in {"none", "DONE", "NACK"} /\ ended' \in {"no", "done", "err"}
              /\ ipc' \in {"wait", "look", "status", "disable", "read", "drain", "push", "idle", "signal"}
          BY <2>20 DEF TypeOK, Nack, client, shared, ist
        <4>2. /\ woken' \in BOOLEAN /\ active' \in BOOLEAN /\ done' \in BOOLEAN /\ err' \in BOOLEAN
              /\ missed' \in BOOLEAN /\ late' \in BOOLEAN
          BY <2>20 DEF TypeOK, Nack, shared, hist
        <4>3. /\ len' \in 0 .. MaxLen /\ tot' \in 0 .. MaxLen /\ cur' \in 0 .. tot'
              /\ left' \in 0 .. MaxLen /\ fifo' \in 0 .. Cap
          BY <2>20, I2cAssumption DEF TypeOK, Nack, client, shared
        <4>4. st' \subseteq Flags /\ inte' \subseteq {"R", "T", "D"} /\ wiring' \in Wirings
          BY <2>20 DEF TypeOK, Nack, ist, hist
        <4> QED BY <4>1, <4>2, <4>3, <4>4 DEF TypeOK
      <3>2. (~late => TurnInv)'
        BY <2>20 DEF TurnInv, Nack, client, shared, ist, hist
      <3>3. (~late => EndInv)'
        BY <2>20 DEF EndInv, TurnInv, TypeOK, Before, Ready, Started, Nack, client, ist, hist
      <3>4. (~late => ByteInv)'
        BY <2>20, I2cAssumption DEF ByteInv, Nack, client, shared, ist, hist
      <3>5. (~late => SignalInv)'
        BY <2>20 DEF SignalInv, EndInv, Started, Nack, client, shared, ist, hist
      <3>6. (~late => OwnLineInv)'
        BY <2>20 DEF OwnLineInv, Nack, client, shared, ist, hist
      <3>7. (~late => ResultIsOwn /\ AbortMeansMissed)'
        BY <2>20
           DEF ResultIsOwn, AbortMeansMissed, SignalInv, TurnInv, Before, Nack, client, hist
      <3> QED BY <3>1, <3>2, <3>3, <3>4, <3>5, <3>6, <3>7
    <2> QED BY <2>1, <2>2, <2>3, <2>4, <2>5, <2>6, <2>7, <2>8, <2>9, <2>10, <2>11, <2>12,
               <2>13, <2>14, <2>15, <2>16, <2>17, <2>18, <2>19, <2>20
               DEF Next, ClientStep, IstStep
  <1>2. ASSUME I2cInv, UNCHANGED vars
        PROVE  I2cInv'
    BY <1>2
       DEF vars, client, shared, ist, bus, hist, TypeOK, TurnInv, EndInv, ByteInv, SignalInv,
           OwnLineInv, ResultIsOwn, AbortMeansMissed
  <1> QED BY <1>1, <1>2

LEMMA I2cInit == Init => I2cInv
  <1> SUFFICES ASSUME Init
               PROVE  I2cInv
    OBVIOUS
  <1>1. TypeOK
    <2>1. {woken, active, done, err, missed, late} \subseteq BOOLEAN
      BY DEF Init
    <2>2. /\ {len, tot, left} \subseteq 0 .. MaxLen /\ cur \in 0 .. tot /\ fifo \in 0 .. Cap
          /\ st \subseteq Flags /\ inte \subseteq {"R", "T", "D"} /\ wiring \in Wirings
      BY I2cAssumption DEF Init
    <2> QED BY <2>1, <2>2 DEF Init, TypeOK
  <1>2. TurnInv /\ EndInv /\ ByteInv
    BY DEF Init, TurnInv, EndInv, ByteInv, Ready, Started, Ending
  <1>3. SignalInv /\ OwnLineInv /\ ResultIsOwn /\ AbortMeansMissed
    BY DEF Init, SignalInv, OwnLineInv, ResultIsOwn, AbortMeansMissed, Started
  <1> QED BY <1>1, <1>2, <1>3 DEF I2cInv

\* A call of bcm2711_send() or bcm2711_recv() has its own transfer, its own
\* buffer and its own result, and leaves the controller quiet, as long as no
\* transaction outlasts its timeout, for every length, FIFO depth and wiring:
\* the one false answer is the ABORT of a signal that came before the wait
\* (bcm2711_wait_complete, bcm2711_wait_thread).
THEOREM CallStaysOwn == Spec => []CallIsOwn
  <1>1. I2cInv => CallIsOwn
    <2> SUFFICES ASSUME I2cInv
                 PROVE  CallIsOwn
      OBVIOUS
    <2>1. BufferOwned
      BY DEF I2cInv, BufferOwned, TurnInv, Before
    <2>2. QuietBetweenCalls
      BY DEF I2cInv, QuietBetweenCalls, OwnLineInv
    <2>3. ResultIsOwn /\ AbortMeansMissed
      BY DEF I2cInv, ResultIsOwn, AbortMeansMissed
    <2> QED BY <2>1, <2>2, <2>3 DEF I2cInv, CallIsOwn
  <1> QED BY <1>1, I2cInit, I2cNext, PTL DEF Spec
=============================================================================
