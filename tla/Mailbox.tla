------------------------------ MODULE Mailbox ------------------------------
(***************************************************************************)
(* The mailbox to the VideoCore: two FIFOs of words, each the address of a *)
(* buffer and a channel.  The mailbox utility (support/bcm2711/mbox.c) and *)
(* the SD driver (bs.c) use it, each with a buffer of its own, without     *)
(* knowing of each other; startup (mbox.c) uses it alone, with one buffer  *)
(* for all messages.                                                       *)
(*                                                                         *)
(* mb.to and mb.from are the FIFOs, mb.vc the message the VideoCore works  *)
(* on.  c[x] is a user of the mailbox: the step it has come to, the number *)
(* of its message, its buffer (the message it holds, its code, and the     *)
(* message the answer in it belongs to), the answer taken, and whether it  *)
(* has given up a message.                                                 *)
(***************************************************************************)
EXTENDS Naturals, Sequences

CONSTANTS
    Tools,        \* processes of the mailbox utility
    Drivers,      \* threads of the SD driver that read the regulator's state
    Depth,        \* words a FIFO holds
    MaxMsgs,      \* bound: messages of a user
    MaxOther      \* bound: words on other channels

MboxUsers == Tools \cup Drivers
NoMail == [to |-> << >>, from |-> << >>, vc |-> << >>, others |-> 0]
Caller == [at |-> "idle", n |-> 0, buf |-> [req |-> 0, code |-> "none", ans |-> 0], got |-> 0, gaveup |-> FALSE]

Full(q) == Len(q) >= Depth

\* the message is put together in the buffer
Fill(x) ==
    [x EXCEPT !.at = "space", !.n = @ + 1, !.buf = [req |-> x.n + 1, code |-> "request", ans |-> 0], !.got = 0]

(***************************************************************************)
(* mbox_msg() and mbox_send_msg_gpio_state(): the register is read, then   *)
(* the word is written (a full FIFO loses it) or read (an empty FIFO gives *)
(* any word).                                                              *)
(***************************************************************************)
Send(mb, u, x) ==
    [mb EXCEPT !.to = IF Full(@) THEN @ ELSE Append(@, [user |-> u, n |-> x.n])]

\* the words a read may find, and what remains
Pop(mb) ==
    IF mb.from = << >> THEN {[w |-> w, mb |-> mb] : w \in {"ours", "other"}}
    ELSE {[w |-> Head(mb.from), mb |-> [mb EXCEPT !.from = Tail(@)]]}

\* Faulty variant: the code in the buffer is not looked at.
TakeUnchecked(x) == [x EXCEPT !.at = "ok", !.got = x.buf.ans]

\* the answer is taken if the buffer says that it is one; if the message has
\* not been worked on yet, it is given up
TakeAnswer(x) ==
    CASE x.buf.code = "ok" -> [x EXCEPT !.at = "ok", !.got = x.buf.ans]
      [] x.buf.code = "failed" -> [x EXCEPT !.at = "error"]
      [] OTHER -> [x EXCEPT !.at = "error", !.gaveup = TRUE]

(***************************************************************************)
(* The VideoCore reads the message out of the buffer, and later writes the *)
(* answer into it.  (The SD driver unmaps its buffer after each message.)  *)
(***************************************************************************)
VcTake(mb, c) ==
    LET w == Head(mb.to)
    IN  [mb EXCEPT !.to = Tail(@), !.vc = <<[user |-> w.user, n |-> w.n, req |-> c[w.user].buf.req]>>]
VcAnswer(mb, c, code) ==
    LET w == mb.vc[1]
        mapped == w.user \in Tools \/ w.n = c[w.user].n
    IN  IF mapped THEN [c EXCEPT ![w.user].buf.code = code, ![w.user].buf.ans = w.req] ELSE c

(***************************************************************************)
(* startup's messages: the buffer is filled for the tag (MSG_INIT), what   *)
(* the body is not set to stays, and the answer is taken out of it without *)
(* a look at the code.  says is what the VideoCore answers to a tag: the   *)
(* body, or nothing if it refuses the message.                             *)
(***************************************************************************)
MSG_INIT(buf, body) == [k \in DOMAIN buf |-> IF k \in DOMAIN body THEN body[k] ELSE buf[k]]
mbox_send_message(buf, says) == IF says = << >> THEN buf ELSE MSG_INIT(buf, says)

mbox_get_clock_rate(buf, says) == mbox_send_message(MSG_INIT(buf, <<3>>), says)
mbox_get_vc_memory(buf, says) == mbox_send_message(MSG_INIT(buf, << >>), says)
mbox_get_board_revision(buf, says) == mbox_send_message(MSG_INIT(buf, << >>), says)
mbox_get_board_mac_address(buf, says) == mbox_send_message(MSG_INIT(buf, << >>), says)
mbox_get_board_serial(buf, says) == mbox_send_message(MSG_INIT(buf, << >>), says)
=============================================================================
