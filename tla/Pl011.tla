-------------------------------- MODULE Pl011 --------------------------------
(***************************************************************************)
(* devc/serpl011 (built without USE_DMA).                                  *)
(***************************************************************************)
EXTENDS Uart

Is011 == kind = "pl011"

\* ser_stty(): the divisor, and what FBRD (6 bits) keeps of its fraction
Ibrd(baud) == Clock.pl011 \div baud
\* Faulty variant: the fraction is cut off, not rounded.
FbrdCut(baud) == (((Clock.pl011 % baud) * 64) \div baud) % 64
Fbrd(baud) == ((((Clock.pl011 % baud) * 64) + ((baud + 1) \div 2)) \div baud) % 64

\* tto(): paged output lets only an injected character pass.
pl011_tto ==
  /\ Is011 /\ pc = "tto"
  /\ pc' = IF paged /\ ~override THEN ret ELSE "loop"
  /\ UNCHANGED <<kind, hw, intr, tty, ret, mis, moved, count, cfg, hist>>

\* Faulty variant: an injected character opens the way for those behind it.
LoopOn ==
  /\ Is011 /\ pc = "loop"
  /\ IF Len(txf) < Cap /\ obuf # <<>> /\ moved < Burst
       THEN /\ obuf' = Tail(obuf) /\ txf' = Append(txf, Head(obuf))
            /\ tmr' = TRUE /\ moved' = moved + 1 /\ override' = FALSE
            /\ UNCHANGED pc
            /\ hist' = IF paged /\ Head(obuf) # XC THEN hist \cup {"leaked"} ELSE hist
       ELSE pc' = "enable" /\ UNCHANGED <<obuf, txf, tmr, override, moved, hist>>
  /\ UNCHANGED <<kind, sh, line, rxf, rt, raw, cts, intr, paged, event, want, ret, mis, count, cfg>>

\* The loop of tto(): a character into the FIFO, while it has room.
pl011_tto_loop ==
  /\ Is011 /\ pc = "loop"
  /\ IF Len(txf) < Cap /\ obuf # <<>> /\ moved < Burst
       THEN /\ obuf' = Tail(obuf) /\ txf' = Append(txf, Head(obuf))
            /\ tmr' = TRUE /\ moved' = moved + 1
            /\ override' = FALSE
            /\ pc' = IF override THEN "enable" ELSE pc
            /\ hist' = IF paged /\ Head(obuf) # XC THEN hist \cup {"leaked"} ELSE hist
       ELSE pc' = "enable" /\ UNCHANGED <<obuf, txf, tmr, override, moved, hist>>
  /\ UNCHANGED <<kind, sh, line, rxf, rt, raw, cts, intr, paged, event, want, ret, mis, count, cfg>>

\* The end of tto(): TXIM is on while something is left.
pl011_tto_end ==
  /\ Is011 /\ pc = "enable"
  /\ im' = IF obuf # <<>> THEN im \cup {"TX"} ELSE im \ {"TX"}
  /\ pc' = ret /\ moved' = 0 /\ hist' = hist \ {"restarted"}
  /\ UNCHANGED <<kind, hw, masked, pulse, tty, ret, mis, count, cfg>>

\* do_interrupt(): MIS is read ...
pl011_read_mis ==
  /\ Is011 /\ pc = "mis"
  /\ mis' = Pending /\ pc' = "icr"
  /\ UNCHANGED <<kind, hw, intr, tty, ret, moved, count, cfg, hist>>

\* Faulty variant: everything is cleared, also what came up since.
ClearAll ==
  /\ Is011 /\ pc = "icr"
  /\ raw' = {}
  /\ pc' = IF mis \cap {"RX", "RT"} # {} THEN "rx" ELSE IF "TX" \in mis THEN "tx" ELSE "unmask"
  /\ UNCHANGED <<kind, txf, sh, line, rxf, rt, cts, intr, tty, ret, mis, moved, count, cfg, hist>>

\* ... and cleared, before the FIFO is looked at.
pl011_clear ==
  /\ Is011 /\ pc = "icr"
  /\ raw' = raw \ mis
  /\ pc' = IF mis \cap {"RX", "RT"} # {} THEN "rx" ELSE IF "TX" \in mis THEN "tx" ELSE "unmask"
  /\ UNCHANGED <<kind, txf, sh, line, rxf, rt, cts, intr, tty, ret, mis, moved, count, cfg, hist>>

\* rx_interrupt(): a character, until the FIFO is empty.  Reading below the
\* trigger level and emptying the FIFO clear their interrupts.
pl011_rx_interrupt ==
  /\ Is011 /\ pc = "rx"
  /\ IF rxf = <<>>
       THEN /\ pc' = IF "TX" \in mis THEN "tx" ELSE "unmask"
            /\ UNCHANGED <<rxf, rt, raw, paged, event>>
       ELSE /\ Tti(Head(rxf))
            /\ rxf' = Tail(rxf)
            /\ raw' = raw \ ((IF Len(rxf) <= Trigger THEN {"RX"} ELSE {})
                               \cup (IF Len(rxf) = 1 THEN {"RT"} ELSE {}))
            /\ rt' = (rt /\ Len(rxf) > 1)
            /\ UNCHANGED pc
  /\ UNCHANGED <<kind, txf, sh, line, cts, intr, obuf, override, tmr, want, ret, mis, moved, count, cfg, hist>>

\* tx_interrupt(): the timer is stopped, then tto(TTO_DATA).
pl011_tx_interrupt ==
  /\ Is011 /\ pc = "tx"
  /\ tmr' = FALSE
  /\ pc' = "tto" /\ ret' = "unmask" /\ moved' = 0
  /\ UNCHANGED <<kind, hw, intr, obuf, paged, override, event, want, mis, count, cfg, hist>>

\* Faulty variant: nobody waits for the transmitter.
SttyAtOnce ==
  /\ Is011 /\ pc = "stty"
  /\ pc' = IF cfg = want THEN "idle" ELSE "program"
  /\ UNCHANGED <<kind, hw, intr, tty, ret, mis, moved, count, cfg, hist>>

\* ser_stty(): nothing to do, or the transmitter must come to rest.  A line
\* that is held does not, and the loop gives up.
pl011_ser_stty ==
  /\ Is011 /\ pc = "stty"
  /\ \/ cfg = want /\ pc' = "idle" /\ UNCHANGED hist
     \/ cfg # want /\ txf = <<>> /\ sh = None /\ pc' = "program" /\ UNCHANGED hist
     \/ cfg # want /\ cfg.flow /\ ~cts /\ pc' = "program" /\ hist' = hist \cup {"held"}
  /\ UNCHANGED <<kind, hw, intr, tty, ret, mis, moved, count, cfg>>

\* The UART is stopped, its FIFOs flushed, every interrupt cleared; only the
\* receive interrupts are enabled again.
pl011_program ==
  /\ Is011 /\ pc = "program"
  /\ cfg' = want /\ pc' = "idle"
  /\ txf' = <<>> /\ rxf' = <<>> /\ rt' = FALSE /\ raw' = {}
  /\ im' = {"RX"}
  /\ hist' = hist \cup (IF txf # <<>> THEN {"cut"} ELSE {})
                  \cup (IF obuf # <<>> THEN {"restarted"} ELSE {})
  /\ UNCHANGED <<kind, sh, line, cts, masked, pulse, tty, ret, mis, moved, count>>

\* drain_check(): the FIFO is empty; the shift register is not asked.
pl011_drain_check == obuf = <<>> /\ txf = <<>>

Pl011Next ==
  \/ Is011 /\ EnterHandler("mis")
  \/ pl011_read_mis \/ pl011_clear \/ pl011_rx_interrupt \/ pl011_tx_interrupt
  \/ pl011_tto \/ pl011_tto_loop \/ pl011_tto_end
  \/ pl011_ser_stty \/ pl011_program
=============================================================================
