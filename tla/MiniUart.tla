------------------------------ MODULE MiniUart ------------------------------
(***************************************************************************)
(* devc/serminiuart.                                                       *)
(***************************************************************************)
EXTENDS Uart

IsMini == kind = "mini"

\* ser_stty(): the divisor; AUX_MU_BAUD_REG has 16 bits
BaudRange == 65536
Divd(baud) == ((Clock.mini \div (baud * 8)) - 1) % BaudRange

\* tto(): paged output lets only an injected character pass.
mini_tto ==
  /\ IsMini /\ pc = "tto"
  /\ pc' = IF paged /\ ~override THEN ret ELSE "loop"
  /\ UNCHANGED <<kind, hw, intr, tty, ret, mis, moved, count, cfg, hist>>

\* The loop of tto()
mini_tto_loop ==
  /\ IsMini /\ pc = "loop"
  /\ IF Len(txf) < Cap /\ obuf # <<>>
       THEN /\ obuf' = Tail(obuf) /\ txf' = Append(txf, Head(obuf))
            /\ tmr' = TRUE
            /\ override' = FALSE
            /\ pc' = IF override THEN "enable" ELSE pc
            /\ hist' = IF paged /\ Head(obuf) # XC THEN hist \cup {"leaked"} ELSE hist
       ELSE pc' = "enable" /\ UNCHANGED <<obuf, txf, tmr, override, hist>>
  /\ UNCHANGED <<kind, sh, line, rxf, rt, raw, cts, intr, paged, event, want, ret, mis, moved, count, cfg>>

\* The end of tto(): TXEN is set, never cleared here.
mini_tto_end ==
  /\ IsMini /\ pc = "enable"
  /\ im' = IF ~paged /\ obuf # <<>> THEN im \cup {"TX"} ELSE im
  /\ pc' = ret /\ moved' = 0 /\ hist' = hist \ {"restarted"}
  /\ UNCHANGED <<kind, hw, masked, pulse, tty, ret, mis, count, cfg>>

\* do_interrupt(): the identification names one interrupt, receive first.
mini_read_iir ==
  /\ IsMini /\ pc = "iir"
  /\ mis' = IF "RX" \in Pending THEN {"RX"} ELSE Pending
  /\ pc' = CASE "RX" \in Pending -> "rx" [] Pending = {"TX"} -> "tx" [] OTHER -> "unmask"
  /\ moved' = 0
  /\ UNCHANGED <<kind, hw, intr, tty, ret, count, cfg, hist>>

\* rx_interrupt(): at most a FIFO full of characters
mini_rx_interrupt ==
  /\ IsMini /\ pc = "rx"
  /\ IF rxf = <<>> \/ moved = Cap
       THEN pc' = "unmask" /\ UNCHANGED <<rxf, paged, event, moved>>
       ELSE Tti(Head(rxf)) /\ rxf' = Tail(rxf) /\ moved' = moved + 1 /\ UNCHANGED pc
  /\ UNCHANGED <<kind, txf, sh, line, rt, raw, cts, intr, obuf, override, tmr, want, ret, mis, count, cfg, hist>>

\* Faulty variant: the interrupt is switched off and nobody is told.
TxNoEvent ==
  /\ IsMini /\ pc = "tx"
  /\ im' = im \ {"TX"} /\ tmr' = FALSE
  /\ pc' = "unmask"
  /\ UNCHANGED <<kind, hw, masked, pulse, obuf, paged, override, event, want, ret, mis, moved, count, cfg, hist>>

\* tx_interrupt(): off with TXEN; io-char is asked to call tto().
mini_tx_interrupt ==
  /\ IsMini /\ pc = "tx"
  /\ IF "TX" \in im THEN im' = im \ {"TX"} /\ tmr' = FALSE /\ event' = TRUE
                    ELSE UNCHANGED <<im, tmr, event>>
  /\ pc' = "unmask"
  /\ UNCHANGED <<kind, hw, masked, pulse, obuf, paged, override, want, ret, mis, moved, count, cfg, hist>>

\* What ser_stty() programs: flow control bits are added to the register's.
Programmed == [baud |-> want.baud, flow |-> want.flow \/ cfg.flow]

\* ser_stty(): nothing to do, or wait until everything is sent, or give up.
mini_ser_stty ==
  /\ IsMini /\ pc = "stty"
  /\ \/ cfg = Programmed /\ pc' = "idle" /\ UNCHANGED hist
     \/ cfg # Programmed /\ txf = <<>> /\ sh = None /\ pc' = "program" /\ UNCHANGED hist
     \/ cfg # Programmed /\ cfg.flow /\ ~cts /\ pc' = "program" /\ hist' = hist \cup {"held"}
  /\ UNCHANGED <<kind, hw, intr, tty, ret, mis, moved, count, cfg>>

\* Both interrupts off, the line programmed, the FIFOs cleared, receive on.
mini_program ==
  /\ IsMini /\ pc = "program"
  /\ cfg' = Programmed /\ pc' = "idle"
  /\ txf' = <<>> /\ rxf' = <<>>
  /\ im' = {"RX"}
  /\ hist' = hist \cup (IF txf # <<>> THEN {"cut"} ELSE {})
                  \cup (IF obuf # <<>> THEN {"restarted"} ELSE {})
  /\ UNCHANGED <<kind, sh, line, rt, raw, cts, masked, pulse, tty, ret, mis, moved, count>>

\* drain_check(): LSR_TXIDLE covers FIFO and shift register.
mini_drain_check == obuf = <<>> /\ txf = <<>> /\ sh = None

MiniNext ==
  \/ IsMini /\ EnterHandler("iir")
  \/ mini_read_iir \/ mini_rx_interrupt \/ mini_tx_interrupt
  \/ mini_tto \/ mini_tto_loop \/ mini_tto_end
  \/ mini_ser_stty \/ mini_program
=============================================================================
