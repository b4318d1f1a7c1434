--------------------------- MODULE System_proofs ----------------------------
(***************************************************************************)
(* Proofs about System: the mailbox that startup and the tools share, the  *)
(* images that survive a reboot, and the pins that the table of startup    *)
(* and the commands of the gpio utility set.                               *)
(***************************************************************************)
EXTENDS System, WellFoundedInduction, SequenceTheorems, FiniteSetTheorems, TLAPS

(***************************************************************************)
(* The mailbox.                                                            *)
(***************************************************************************)

\* what a mailbox caller keeps, the words in the mailbox, and the one the VideoCore has
BufferType == [req : Nat, code : {"none", "request", "ok", "failed"}, ans : Nat]
CallerPlaces == {"idle", "space", "send", "sent", "wait", "read", "ok", "error"}
CallerType == [at : CallerPlaces, n : Nat, buf : BufferType, got : Nat, gaveup : BOOLEAN]
WordType == [user : MboxUsers, n : Nat]
TakenType == [user : MboxUsers, n : Nat, req : Nat]
MailType ==
    /\ mc \in [MboxUsers -> CallerType]
    /\ mb \in [to : Seq(WordType), from : Seq({"ours", "other"}), vc : Seq(TakenType), others : Nat]

\* the utility has not given up a message, or it is the SD driver
Tracks(x) == x \notin Tools \/ ~mc[x].gaveup
\* the buffer holds the caller's own question, and once answered the answer to
\* it, unless the caller gave up a message that is answered later
BufferInv ==
    \A x \in MboxUsers :
        /\ mc[x].buf.req = mc[x].n
        /\ (Tracks(x) /\ mc[x].buf.code # "request") => mc[x].buf.ans = mc[x].n
        /\ (Tracks(x) /\ mc[x].at = "ok") => mc[x].got = mc[x].n
\* a word never asks for more than its caller has asked
LagInv ==
    /\ \A i \in 1..Len(mb.to) : mb.to[i].n <= mc[mb.to[i].user].n
    /\ mb.vc # << >> => mb.vc[1].n <= mb.vc[1].req /\ mb.vc[1].req <= mc[mb.vc[1].user].n
\* the caller waits for the answer to what it asked last
Pending(x) == mc[x].at \in {"sent", "wait", "read"} /\ mc[x].buf.code = "request"
\* a caller that never gave up has one word at most between the mailbox and the
\* VideoCore, and none when it fills its buffer anew
OneWordInv ==
    \A x \in Tools : ~mc[x].gaveup =>
        /\ mc[x].at \in {"space", "send"} => mc[x].buf.code = "request"
        /\ \A i \in 1..Len(mb.to) : mb.to[i].user = x =>
             Pending(x) /\ \A j \in 1..Len(mb.to) : mb.to[j].user = x => i = j
        /\ (mb.vc # << >> /\ mb.vc[1].user = x) =>
             Pending(x) /\ mb.vc[1].req = mc[x].n /\ \A i \in 1..Len(mb.to) : mb.to[i].user # x
MailInv == MailType /\ BufferInv /\ LagInv /\ OneWordInv

\* the fields of a mailbox and its callers at power-on
LEMMA NoMailYet ==
    /\ Caller \in CallerType
    /\ Caller.n = 0 /\ Caller.at = "idle" /\ Caller.buf.req = 0 /\ Caller.buf.ans = 0
    /\ NoMail \in [to : Seq(WordType), from : Seq({"ours", "other"}), vc : Seq(TakenType), others : Nat]
    /\ Len(NoMail.to) = 0 /\ NoMail.vc = << >>
  <1> DEFINE b0 == [req |-> 0, code |-> "none", ans |-> 0]
  <1>1. b0 \in BufferType /\ b0.req = 0 /\ b0.ans = 0 BY DEF BufferType
  <1> HIDE DEF b0
  <1>2. /\ [at |-> "idle", n |-> 0, buf |-> b0, got |-> 0, gaveup |-> FALSE] \in CallerType
        /\ [at |-> "idle", n |-> 0, buf |-> b0, got |-> 0, gaveup |-> FALSE].buf = b0
        /\ [at |-> "idle", n |-> 0, buf |-> b0, got |-> 0, gaveup |-> FALSE].n = 0
        /\ [at |-> "idle", n |-> 0, buf |-> b0, got |-> 0, gaveup |-> FALSE].at = "idle"
    BY <1>1 DEF CallerType, CallerPlaces
  <1>3. Caller \in CallerType /\ Caller.buf = b0 /\ Caller.n = 0 /\ Caller.at = "idle"
    BY <1>2 DEF Caller, b0
  <1>4. /\ NoMail \in [to : Seq(WordType), from : Seq({"ours", "other"}), vc : Seq(TakenType), others : Nat]
        /\ Len(NoMail.to) = 0 /\ NoMail.vc = << >>
    BY EmptySeq DEF NoMail
  <1> QED BY <1>1, <1>3, <1>4

\* at power-on
LEMMA MailInit == SysInit => MailInv
  <1> SUFFICES ASSUME SysInit PROVE MailInv OBVIOUS
  <1>1. mb = NoMail /\ mc = [x \in MboxUsers |-> Caller] BY DEF SysInit
  <1>2. MailType BY <1>1, NoMailYet DEF MailType
  <1>3. \A x \in MboxUsers : mc[x] = Caller BY <1>1
  <1>4. BufferInv BY <1>3, NoMailYet DEF BufferInv
  <1>5. LagInv /\ OneWordInv BY <1>1, <1>3, NoMailYet DEF LagInv, OneWordInv, MboxUsers
  <1> QED BY <1>2, <1>4, <1>5 DEF MailInv

\* what a step does to the caller x, the others standing still
LEMMA CallerStep ==
    ASSUME MailType, NEW x \in MboxUsers, NEW r \in CallerType, mc' = [mc EXCEPT ![x] = r]
    PROVE  /\ mc' \in [MboxUsers -> CallerType] /\ mc'[x] = r
           /\ \A y \in MboxUsers : y # x => mc'[y] = mc[y]
  BY DEF MailType

\* the words on their way are words, the one the VideoCore has taken too
LEMMA WordsTyped ==
    ASSUME MailType
    PROVE  /\ \A i \in 1..Len(mb.to) : mb.to[i] \in WordType
           /\ mb.vc # << >> => mb.vc[1] \in TakenType
  BY DEF MailType

\* a caller fills its buffer: its former answer is gone
LEMMA FillMail == ASSUME MailInv, NEW x \in MboxUsers, mbox_fill(x) PROVE MailInv'
  <1> DEFINE r == Fill(mc[x])
  <1>0. mc[x] \in CallerType /\ MailType BY DEF MailInv, MailType
  <1>1. /\ r \in CallerType /\ r.at = "space" /\ r.n = mc[x].n + 1
        /\ r.buf.req = mc[x].n + 1 /\ r.buf.code = "request"
        /\ r.gaveup = mc[x].gaveup
    <2> DEFINE b1 == [req |-> mc[x].n + 1, code |-> "request", ans |-> 0]
    <2>1. mc[x].n + 1 \in Nat BY <1>0 DEF CallerType
    <2>2. b1 \in BufferType /\ b1.req = mc[x].n + 1 /\ b1.code = "request" BY <2>1 DEF BufferType
    <2>3. r = [mc[x] EXCEPT !.at = "space", !.n = mc[x].n + 1, !.buf = b1, !.got = 0]
      BY <1>0 DEF Fill, CallerType
    <2> HIDE DEF b1, r
    <2> QED BY <1>0, <2>1, <2>2, <2>3 DEF CallerType, CallerPlaces
  <1>2. mc' = [mc EXCEPT ![x] = r] /\ mb' = mb /\ mc[x].at \in {"idle", "ok", "error"}
    BY DEF mbox_fill
  <1> HIDE DEF r
  <1>3. /\ mc' \in [MboxUsers -> CallerType] /\ mc'[x] = r
        /\ \A y \in MboxUsers : y # x => mc'[y] = mc[y]
    BY <1>0, <1>1, <1>2, CallerStep
  <1>4. MailType' BY <1>0, <1>2, <1>3 DEF MailType
  <1>5. BufferInv' BY <1>1, <1>3 DEF MailInv, BufferInv, Tracks
  <1>6. LagInv'
    <2>1. mc[x].n <= r.n BY <1>0, <1>1 DEF CallerType
    <2>2. \A y \in MboxUsers : mc[y].n \in Nat /\ mc'[y].n \in Nat /\ mc[y].n <= mc'[y].n
      <3> SUFFICES ASSUME NEW y \in MboxUsers PROVE mc[y].n \in Nat /\ mc'[y].n \in Nat /\ mc[y].n <= mc'[y].n
        OBVIOUS
      <3>1. mc[y] \in CallerType /\ mc'[y] \in CallerType BY <1>0, <1>4 DEF MailType
      <3>2. mc[y].n \in Nat /\ mc'[y].n \in Nat BY <3>1 DEF CallerType
      <3> QED BY <1>3, <2>1, <3>2
    <2>5. \A i \in 1..Len(mb.to) : mb.to[i].n <= mc'[mb.to[i].user].n
      BY <1>0, <2>2, WordsTyped DEF MailInv, LagInv, WordType
    <2>6. mb.vc # << >> => mb.vc[1].n <= mb.vc[1].req /\ mb.vc[1].req <= mc'[mb.vc[1].user].n
      BY <1>0, <2>2, WordsTyped DEF MailInv, LagInv, TakenType
    <2> QED BY <2>5, <2>6, <1>2 DEF LagInv
  <1>7. OneWordInv'
    BY <1>1, <1>2, <1>3 DEF MailInv, OneWordInv, Pending, MboxUsers
  <1> QED BY <1>4, <1>5, <1>6, <1>7 DEF MailInv

\* a step that leaves the message and the words on their way alone
LEMMA CallerMoves ==
    ASSUME MailInv, NEW x \in MboxUsers, NEW r \in CallerType, mc' = [mc EXCEPT ![x] = r],
           mb' \in [to : Seq(WordType), from : Seq({"ours", "other"}), vc : Seq(TakenType), others : Nat],
           mb'.to = mb.to, mb'.vc = mb.vc,
           r.n = mc[x].n, r.buf = mc[x].buf, mc[x].gaveup => r.gaveup,
           (x \notin Tools \/ ~r.gaveup) /\ r.at = "ok" => r.got = r.n,
           ~r.gaveup /\ r.at \in {"space", "send"} => mc[x].at \in {"space", "send"},
           ~r.gaveup /\ Pending(x) => r.at \in {"sent", "wait", "read"}
    PROVE  MailInv'
  <1>0. MailType /\ BufferInv /\ LagInv /\ OneWordInv BY DEF MailInv
  <1>1. /\ mc' \in [MboxUsers -> CallerType] /\ mc'[x] = r
        /\ \A y \in MboxUsers : y # x => mc'[y] = mc[y]
    BY <1>0, CallerStep
  <1>2. MailType' BY <1>1 DEF MailType
  <1>3. BufferInv' BY <1>0, <1>1 DEF BufferInv, Tracks
  <1>4. LagInv'
    <2>1. \A y \in MboxUsers : mc'[y].n = mc[y].n BY <1>1
    <2> QED BY <1>0, <2>1, WordsTyped DEF LagInv, WordType, TakenType
  <1>5. OneWordInv' BY <1>0, <1>1 DEF OneWordInv, Pending, MboxUsers
  <1> QED BY <1>2, <1>3, <1>4, <1>5 DEF MailInv

\* a caller finds space in the mailbox, or gives up
LEMMA SpaceMail == ASSUME MailInv, NEW x \in MboxUsers, mbox_space(x) PROVE MailInv'
  <1>0. mc[x] \in CallerType /\ MailType BY DEF MailInv, MailType
  <1>1. mc[x].at = "space" /\ mb' = mb BY DEF mbox_space, User, GivesUp
  <1>2. CASE mc' = [mc EXCEPT ![x].at = "send"]
    <2> DEFINE r == [mc[x] EXCEPT !.at = "send"]
    <2>1. r \in CallerType /\ r.n = mc[x].n /\ r.buf = mc[x].buf /\ r.gaveup = mc[x].gaveup /\ r.at = "send"
      BY <1>0 DEF CallerType, CallerPlaces
    <2>2. mc' = [mc EXCEPT ![x] = r] BY <1>2
    <2> HIDE DEF r
    <2> QED BY <1>0, <1>1, <2>1, <2>2, CallerMoves DEF MailType, Pending
  <1>3. CASE GivesUp(x)
    <2> DEFINE r == [mc[x] EXCEPT !.at = "error", !.gaveup = TRUE]
    <2>1. r \in CallerType /\ r.n = mc[x].n /\ r.buf = mc[x].buf /\ r.gaveup = TRUE /\ r.at = "error"
      BY <1>0 DEF CallerType, CallerPlaces
    <2>2. mc' = [mc EXCEPT ![x] = r] BY <1>0, <1>3 DEF GivesUp, MailType
    <2> HIDE DEF r
    <2> QED BY <1>0, <1>1, <2>1, <2>2, CallerMoves DEF MailType, Pending
  <1> QED BY <1>2, <1>3 DEF mbox_space

\* the word is written
LEMMA SentMail == ASSUME MailInv, NEW x \in MboxUsers, mbox_sent(x) PROVE MailInv'
  <1>0. mc[x] \in CallerType /\ MailType BY DEF MailInv, MailType
  <1> DEFINE r == [mc[x] EXCEPT !.at = "wait"]
  <1>1. r \in CallerType /\ r.n = mc[x].n /\ r.buf = mc[x].buf /\ r.gaveup = mc[x].gaveup /\ r.at = "wait"
    BY <1>0 DEF CallerType, CallerPlaces
  <1>2. mc' = [mc EXCEPT ![x] = r] /\ mb' = mb BY DEF mbox_sent
  <1> HIDE DEF r
  <1> QED BY <1>0, <1>1, <1>2, CallerMoves DEF MailType

\* a caller waits for a word to come back, or gives up
LEMMA WaitMail == ASSUME MailInv, NEW x \in MboxUsers, mbox_wait(x) PROVE MailInv'
  <1>0. mc[x] \in CallerType /\ MailType BY DEF MailInv, MailType
  <1>1. mb' = mb BY DEF mbox_wait, GivesUp
  <1>2. CASE mc' = [mc EXCEPT ![x].at = "read"]
    <2> DEFINE r == [mc[x] EXCEPT !.at = "read"]
    <2>1. r \in CallerType /\ r.n = mc[x].n /\ r.buf = mc[x].buf /\ r.gaveup = mc[x].gaveup /\ r.at = "read"
      BY <1>0 DEF CallerType, CallerPlaces
    <2>2. mc' = [mc EXCEPT ![x] = r] BY <1>2
    <2> HIDE DEF r
    <2> QED BY <1>0, <1>1, <2>1, <2>2, CallerMoves DEF MailType
  <1>3. CASE GivesUp(x)
    <2> DEFINE r == [mc[x] EXCEPT !.at = "error", !.gaveup = TRUE]
    <2>1. r \in CallerType /\ r.n = mc[x].n /\ r.buf = mc[x].buf /\ r.gaveup = TRUE /\ r.at = "error"
      BY <1>0 DEF CallerType, CallerPlaces
    <2>2. mc' = [mc EXCEPT ![x] = r] BY <1>0, <1>3 DEF GivesUp, MailType
    <2> HIDE DEF r
    <2> QED BY <1>0, <1>1, <2>1, <2>2, CallerMoves DEF MailType
  <1> QED BY <1>2, <1>3 DEF mbox_wait

\* a caller takes the word and looks at its buffer, whoever the word was for
LEMMA ReadMail == ASSUME MailInv, NEW x \in MboxUsers, mbox_read(x) PROVE MailInv'
  <1>0. mc[x] \in CallerType /\ MailType /\ BufferInv BY DEF MailInv, MailType
  <1>1. PICK p \in Pop(mb) :
          /\ mb' = p.mb
          /\ mc' = [mc EXCEPT ![x] = IF p.w = "ours" THEN TakeAnswer(@) ELSE [@ EXCEPT !.at = "wait"]]
    BY DEF mbox_read
  <1>2. /\ mb' \in [to : Seq(WordType), from : Seq({"ours", "other"}), vc : Seq(TakenType), others : Nat]
        /\ mb'.to = mb.to /\ mb'.vc = mb.vc
    <2>1. CASE mb.from = << >> BY <1>0, <1>1, <2>1 DEF Pop, MailType
    <2>2. CASE mb.from # << >>
      <3>1. mb' = [mb EXCEPT !.from = Tail(@)] BY <1>1, <2>2 DEF Pop
      <3>2. Tail(mb.from) \in Seq({"ours", "other"}) BY <1>0, <2>2, HeadTailProperties DEF MailType
      <3> QED BY <1>0, <3>1, <3>2 DEF MailType
    <2> QED BY <2>1, <2>2
  <1> DEFINE r == IF p.w = "ours" THEN TakeAnswer(mc[x]) ELSE [mc[x] EXCEPT !.at = "wait"]
  <1>3. mc' = [mc EXCEPT ![x] = r] BY <1>0, <1>1 DEF MailType
  <1>4. mc[x].buf \in BufferType /\ mc[x].at = "read" BY <1>0 DEF CallerType, mbox_read, User
  <1>5. CASE p.w = "ours" /\ mc[x].buf.code = "ok"
    <2>1. r = [mc[x] EXCEPT !.at = "ok", !.got = mc[x].buf.ans] BY <1>5 DEF TakeAnswer
    <2>2. r \in CallerType /\ r.n = mc[x].n /\ r.buf = mc[x].buf /\ r.gaveup = mc[x].gaveup /\ r.at = "ok"
          /\ r.got = mc[x].buf.ans
      BY <1>0, <1>4, <2>1 DEF CallerType, CallerPlaces, BufferType
    <2>3. x \notin Tools \/ ~mc[x].gaveup => mc[x].buf.ans = mc[x].n
      BY <1>0, <1>5 DEF BufferInv, Tracks
    <2> HIDE DEF r
    <2> QED BY <1>2, <1>3, <1>5, <2>2, <2>3, CallerMoves DEF Pending
  <1>6. CASE p.w = "ours" /\ mc[x].buf.code = "failed"
    <2>1. r = [mc[x] EXCEPT !.at = "error"] BY <1>6 DEF TakeAnswer
    <2>2. r \in CallerType /\ r.n = mc[x].n /\ r.buf = mc[x].buf /\ r.gaveup = mc[x].gaveup /\ r.at = "error"
      BY <1>0, <2>1 DEF CallerType, CallerPlaces
    <2> HIDE DEF r
    <2> QED BY <1>2, <1>3, <1>6, <2>2, CallerMoves DEF Pending
  <1>7. CASE p.w = "ours" /\ mc[x].buf.code \notin {"ok", "failed"}
    <2>1. r = [mc[x] EXCEPT !.at = "error", !.gaveup = TRUE] BY <1>7 DEF TakeAnswer
    <2>2. r \in CallerType /\ r.n = mc[x].n /\ r.buf = mc[x].buf /\ r.gaveup = TRUE /\ r.at = "error"
      BY <1>0, <2>1 DEF CallerType, CallerPlaces
    <2> HIDE DEF r
    <2> QED BY <1>2, <1>3, <2>2, CallerMoves
  <1>8. CASE p.w # "ours"
    <2>1. r \in CallerType /\ r.n = mc[x].n /\ r.buf = mc[x].buf /\ r.gaveup = mc[x].gaveup /\ r.at = "wait"
      BY <1>0, <1>8 DEF CallerType, CallerPlaces
    <2> HIDE DEF r
    <2> QED BY <1>2, <1>3, <2>1, CallerMoves
  <1> QED BY <1>5, <1>6, <1>7, <1>8

\* a caller puts the address of its buffer into the mailbox
LEMMA SendMail == ASSUME MailInv, NEW x \in MboxUsers, mbox_send(x) PROVE MailInv'
  <1>0. mc[x] \in CallerType /\ MailType /\ BufferInv /\ LagInv /\ OneWordInv BY DEF MailInv, MailType
  <1> DEFINE r == [mc[x] EXCEPT !.at = IF x \in Tools THEN "sent" ELSE "wait"]
             w == [user |-> x, n |-> mc[x].n]
  <1>1. /\ r \in CallerType /\ r.n = mc[x].n /\ r.buf = mc[x].buf /\ r.gaveup = mc[x].gaveup
        /\ r.at \in {"sent", "wait"}
    BY <1>0 DEF CallerType, CallerPlaces
  <1>2. mc' = [mc EXCEPT ![x] = r] /\ mc[x].at = "send" BY DEF mbox_send, User
  <1>3. w \in WordType /\ w.user = x /\ w.n = mc[x].n BY <1>0 DEF WordType, CallerType
  <1>4. CASE Full(mb.to)
    <2>1. mb' = mb BY <1>0, <1>4 DEF mbox_send, Send, MailType
    <2> HIDE DEF r
    <2> QED BY <1>0, <1>1, <1>2, <2>1, CallerMoves DEF MailType, Pending
  <1>5. CASE ~Full(mb.to)
    <2>1. mb' = [mb EXCEPT !.to = Append(@, w)] BY <1>5 DEF mbox_send, Send
    <2>2. mb' \in [to : Seq(WordType), from : Seq({"ours", "other"}), vc : Seq(TakenType), others : Nat]
          /\ mb'.to = Append(mb.to, w) /\ mb'.vc = mb.vc
      <3>1. Append(mb.to, w) \in Seq(WordType) BY <1>0, <1>3 DEF MailType
      <3> HIDE DEF w
      <3> QED BY <1>0, <2>1, <3>1 DEF MailType
    <2> DEFINE l == Len(mb.to)
    <2>3. l \in Nat /\ Len(mb'.to) = l + 1 /\ mb'.to[l + 1] = w /\ \A i \in 1..l : mb'.to[i] = mb.to[i]
      BY <1>0, <1>3, <2>2 DEF MailType
    <2> HIDE DEF r, w, l
    <2>4. /\ mc' \in [MboxUsers -> CallerType] /\ mc'[x] = r
          /\ \A y \in MboxUsers : y # x => mc'[y] = mc[y]
      BY <1>0, <1>1, <1>2, CallerStep
    <2>5. MailType' BY <2>2, <2>4 DEF MailType
    <2>6. BufferInv' BY <1>0, <1>1, <2>4 DEF BufferInv, Tracks
    <2>7. \A y \in MboxUsers : mc'[y].n = mc[y].n /\ mc[y].n \in Nat
      BY <1>0, <1>1, <2>4 DEF MailType, CallerType
    <2>8. \A i \in 1..l : mb.to[i] \in WordType BY <1>0, WordsTyped DEF l
    <2>9. LagInv'
      <3>1. \A i \in 1..l + 1 : mb'.to[i].n <= mc'[mb'.to[i].user].n
        <4>1. \A i \in 1..l : mb.to[i].n <= mc[mb.to[i].user].n BY <1>0 DEF LagInv, l
        <4>2. \A i \in 1..l : mb'.to[i].n <= mc'[mb'.to[i].user].n
          BY <2>3, <2>7, <2>8, <4>1 DEF WordType
        <4>3. mb'.to[l + 1].n <= mc'[mb'.to[l + 1].user].n BY <1>3, <2>3, <2>7
        <4> QED BY <2>3, <4>2, <4>3
      <3>2. mb.vc # << >> => mb.vc[1].n <= mb.vc[1].req /\ mb.vc[1].req <= mc'[mb.vc[1].user].n
        BY <1>0, <2>7, WordsTyped DEF LagInv, TakenType
      <3> QED BY <2>2, <2>3, <3>1, <3>2 DEF LagInv
    <2>10. OneWordInv'
      <3> SUFFICES ASSUME NEW y \in Tools, ~mc'[y].gaveup
                   PROVE  /\ mc'[y].at \in {"space", "send"} => mc'[y].buf.code = "request"
                          /\ \A i \in 1..l + 1 : mb'.to[i].user = y =>
                               Pending(y)' /\ \A j \in 1..l + 1 : mb'.to[j].user = y => i = j
                          /\ (mb'.vc # << >> /\ mb'.vc[1].user = y) =>
                               Pending(y)' /\ mb'.vc[1].req = mc'[y].n /\ \A i \in 1..l + 1 : mb'.to[i].user # y
        BY <2>3 DEF OneWordInv
      <3>1. ~mc[y].gaveup /\ y \in MboxUsers BY <1>1, <2>4 DEF MboxUsers
      <3>2. CASE y = x
        <4>1. ~Pending(x) BY <1>2 DEF Pending
        <4>2. \A i \in 1..l : mb'.to[i].user # x BY <1>0, <2>3, <3>1, <3>2, <4>1 DEF OneWordInv, l
        <4>3. ~(mb.vc # << >> /\ mb.vc[1].user = x) BY <1>0, <3>1, <3>2, <4>1 DEF OneWordInv
        <4>4. mc[x].buf.code = "request"
          BY <1>0, <1>2, <3>1, <3>2 DEF OneWordInv
        <4> QED BY <1>1, <2>2, <2>3, <2>4, <3>2, <4>2, <4>3, <4>4 DEF Pending
      <3>3. CASE y # x
        <4>1. mc'[y] = mc[y] /\ (Pending(y)' <=> Pending(y)) BY <2>4, <3>1, <3>3 DEF Pending
        <4>2. mb'.to[l + 1].user # y BY <1>3, <2>3, <3>3
        <4>3. /\ mc[y].at \in {"space", "send"} => mc[y].buf.code = "request"
              /\ \A i \in 1..l : mb.to[i].user = y =>
                   Pending(y) /\ \A j \in 1..l : mb.to[j].user = y => i = j
              /\ (mb.vc # << >> /\ mb.vc[1].user = y) =>
                   Pending(y) /\ mb.vc[1].req = mc[y].n /\ \A i \in 1..l : mb.to[i].user # y
          BY <1>0, <3>1 DEF OneWordInv, l
        <4> QED BY <2>2, <2>3, <4>1, <4>2, <4>3
      <3> QED BY <3>2, <3>3
    <2> QED BY <2>5, <2>6, <2>9, <2>10 DEF MailInv
  <1> QED BY <1>4, <1>5

\* the VideoCore takes a word, and reads the buffer as it is now
LEMMA TakeMail == ASSUME MailInv, VcTakes PROVE MailInv'
  <1>0. MailType /\ BufferInv /\ LagInv /\ OneWordInv BY DEF MailInv
  <1> DEFINE w == Head(mb.to)
             t == [user |-> w.user, n |-> w.n, req |-> mc[w.user].buf.req]
  <1>1. mb.to # << >> /\ mb.vc = << >> /\ mc' = mc /\ mb' = [mb EXCEPT !.to = Tail(@), !.vc = <<t>>]
    BY DEF VcTakes, VcTake
  <1>2. w = mb.to[1] /\ w \in WordType /\ Tail(mb.to) \in Seq(WordType) /\ Len(mb.to) \in Nat \ {0}
        /\ Len(Tail(mb.to)) = Len(mb.to) - 1 /\ \A i \in 1..Len(mb.to) - 1 : Tail(mb.to)[i] = mb.to[i + 1]
    BY <1>0, <1>1, HeadTailProperties DEF MailType
  <1>3. mc[w.user] \in CallerType BY <1>0, <1>2 DEF MailType, WordType
  <1>4. t \in TakenType /\ t.user = w.user /\ t.n = w.n /\ t.req = mc[w.user].n
    <2>1. mc[w.user].buf.req = mc[w.user].n BY <1>0, <1>2 DEF BufferInv, WordType
    <2> HIDE DEF w
    <2> QED BY <1>2, <1>3, <2>1 DEF TakenType, WordType, CallerType
  <1> HIDE DEF w, t
  <1>5. <<t>> \in Seq(TakenType) /\ <<t>>[1] = t /\ <<t>> # << >> BY <1>4
  <1>6. mb' \in [to : Seq(WordType), from : Seq({"ours", "other"}), vc : Seq(TakenType), others : Nat]
        /\ mb'.to = Tail(mb.to) /\ mb'.vc = <<t>>
    BY <1>0, <1>1, <1>2, <1>5 DEF MailType
  <1>7. MailType' BY <1>0, <1>1, <1>6 DEF MailType
  <1>8. BufferInv' BY <1>0, <1>1 DEF BufferInv, Tracks
  <1>9. LagInv'
    <2>1. \A i \in 1..Len(mb.to) - 1 : mb.to[i + 1].n <= mc[mb.to[i + 1].user].n
      BY <1>0, <1>2 DEF LagInv
    <2>2. \A i \in 1..Len(mb'.to) : mb'.to[i].n <= mc'[mb'.to[i].user].n BY <1>1, <1>2, <1>6, <2>1
    <2>3. mc[w.user].n \in Nat BY <1>3 DEF CallerType
    <2>4. w.n <= mc[w.user].n BY <1>0, <1>2 DEF LagInv
    <2>5. mb'.vc[1].n <= mb'.vc[1].req /\ mb'.vc[1].req <= mc'[mb'.vc[1].user].n
      BY <1>1, <1>4, <1>5, <1>6, <2>3, <2>4
    <2> QED BY <2>2, <2>5 DEF LagInv
  <1>10. OneWordInv'
    <2> SUFFICES ASSUME NEW y \in Tools, ~mc[y].gaveup
                 PROVE  /\ mc[y].at \in {"space", "send"} => mc[y].buf.code = "request"
                        /\ \A i \in 1..Len(mb.to) - 1 : mb'.to[i].user = y =>
                             Pending(y) /\ \A j \in 1..Len(mb.to) - 1 : mb'.to[j].user = y => i = j
                        /\ t.user = y => /\ Pending(y) /\ t.req = mc[y].n
                                         /\ \A i \in 1..Len(mb.to) - 1 : mb'.to[i].user # y
      BY <1>1, <1>2, <1>5, <1>6 DEF OneWordInv, Pending
    <2>1. /\ mc[y].at \in {"space", "send"} => mc[y].buf.code = "request"
          /\ \A i \in 1..Len(mb.to) : mb.to[i].user = y =>
               Pending(y) /\ \A j \in 1..Len(mb.to) : mb.to[j].user = y => i = j
      BY <1>0 DEF OneWordInv
    <2>2. \A i \in 1..Len(mb.to) - 1 : mb'.to[i] = mb.to[i + 1] /\ i + 1 \in 1..Len(mb.to) /\ i + 1 # 1
      BY <1>2, <1>6
    <2>3. 1 \in 1..Len(mb.to) /\ mb.to[1] = w BY <1>2
    <2>4. t.user = y => Pending(y) /\ t.req = mc[y].n /\ \A i \in 1..Len(mb.to) - 1 : mb'.to[i].user # y
      BY <1>4, <2>1, <2>2, <2>3
    <2>5. \A i \in 1..Len(mb.to) - 1 : mb'.to[i].user = y =>
             Pending(y) /\ \A j \in 1..Len(mb.to) - 1 : mb'.to[j].user = y => i = j
      BY <2>1, <2>2
    <2> QED BY <2>1, <2>4, <2>5
  <1> QED BY <1>7, <1>8, <1>9, <1>10 DEF MailInv

\* the VideoCore has something to say on another channel
LEMMA OtherMail == ASSUME MailInv, VcOther PROVE MailInv'
  <1>0. MailType /\ BufferInv /\ LagInv /\ OneWordInv BY DEF MailInv
  <1>1. mc' = mc /\ mb' = [mb EXCEPT !.others = @ + 1, !.from = Append(@, "other")] BY DEF VcOther
  <1>2. Append(mb.from, "other") \in Seq({"ours", "other"}) /\ mb.others + 1 \in Nat BY <1>0 DEF MailType
  <1>3. MailType' /\ mb'.to = mb.to /\ mb'.vc = mb.vc BY <1>0, <1>1, <1>2 DEF MailType
  <1> QED BY <1>0, <1>1, <1>3 DEF MailInv, BufferInv, LagInv, OneWordInv, Tracks, Pending

\* the VideoCore answers into the buffer, its caller waiting or not
LEMMA AnswerMail == ASSUME MailInv, VcAnswers PROVE MailInv'
  <1>0. MailType /\ BufferInv /\ LagInv /\ OneWordInv BY DEF MailInv
  <1>1. mb.vc # << >> /\ mb' = [mb EXCEPT !.vc = << >>, !.from = Append(@, "ours")] BY DEF VcAnswers
  <1>2. PICK code \in {"ok", "failed"} : mc' = VcAnswer(mb, mc, code) BY DEF VcAnswers
  <1> DEFINE w == mb.vc[1]
             x == w.user
             r == [mc[x] EXCEPT !.buf.code = code, !.buf.ans = w.req]
  <1>3. w \in TakenType /\ x \in MboxUsers /\ w.n <= w.req /\ w.req <= mc[x].n
        /\ w.n \in Nat /\ w.req \in Nat /\ mc[x] \in CallerType /\ mc[x].n \in Nat /\ mc[x].buf \in BufferType
    BY <1>0, <1>1, WordsTyped DEF LagInv, TakenType, MailType, CallerType
  <1>4. Append(mb.from, "ours") \in Seq({"ours", "other"}) /\ << >> \in Seq(TakenType) BY <1>0 DEF MailType
  <1>5. mb' \in [to : Seq(WordType), from : Seq({"ours", "other"}), vc : Seq(TakenType), others : Nat]
        /\ mb'.to = mb.to /\ mb'.vc = << >>
    BY <1>0, <1>1, <1>4 DEF MailType
  <1> HIDE DEF w
  <1>6. CASE mc' = mc
    <2>1. MailType' BY <1>0, <1>5, <1>6 DEF MailType
    <2> QED BY <1>0, <1>5, <1>6, <2>1 DEF MailInv, BufferInv, LagInv, OneWordInv, Tracks, Pending
  <1>7. CASE mc' # mc
    <2>1. (x \in Tools \/ w.n = mc[x].n) /\ mc' = [mc EXCEPT ![x].buf.code = code, ![x].buf.ans = w.req]
      BY <1>2, <1>7 DEF VcAnswer, w
    <2>2. mc' = [mc EXCEPT ![x] = r] BY <1>0, <1>3, <2>1 DEF MailType
    <2>3. r.buf = [req |-> mc[x].buf.req, code |-> code, ans |-> w.req]
      BY <1>3 DEF BufferType, CallerType
    <2>4. r.buf \in BufferType /\ r.buf.req = mc[x].buf.req /\ r.buf.code = code /\ r.buf.ans = w.req
      BY <1>2, <1>3, <2>3 DEF BufferType
    <2>5. r \in CallerType /\ r.n = mc[x].n /\ r.at = mc[x].at /\ r.gaveup = mc[x].gaveup /\ r.got = mc[x].got
      BY <1>3, <2>4 DEF CallerType
    <2> HIDE DEF x, r
    <2>6. /\ mc' \in [MboxUsers -> CallerType] /\ mc'[x] = r
          /\ \A y \in MboxUsers : y # x => mc'[y] = mc[y]
      BY <1>0, <1>3, <2>2, <2>5, CallerStep
    <2>7. MailType' BY <1>5, <2>6 DEF MailType
    <2>8. Tracks(x) => w.req = mc[x].n
      <3>1. w.n = mc[x].n => w.req = mc[x].n BY <1>3 DEF x
      <3>2. x \in Tools /\ ~mc[x].gaveup => w.req = mc[x].n BY <1>0, <1>1 DEF OneWordInv, x, w
      <3> QED BY <2>1, <3>1, <3>2 DEF Tracks
    <2>9. BufferInv' BY <1>0, <2>4, <2>5, <2>6, <2>8 DEF BufferInv, Tracks
    <2>10. LagInv'
      <3>1. \A y \in MboxUsers : mc'[y].n = mc[y].n BY <2>5, <2>6
      <3> QED BY <1>0, <1>5, <3>1, WordsTyped DEF LagInv, WordType
    <2>11. OneWordInv'
      <3> SUFFICES ASSUME NEW y \in Tools, ~mc'[y].gaveup
                   PROVE  /\ mc'[y].at \in {"space", "send"} => mc'[y].buf.code = "request"
                          /\ \A i \in 1..Len(mb.to) : mb.to[i].user = y =>
                               Pending(y)' /\ \A j \in 1..Len(mb.to) : mb.to[j].user = y => i = j
        BY <1>5 DEF OneWordInv
      <3>1. ~mc[y].gaveup /\ y \in MboxUsers BY <2>5, <2>6 DEF MboxUsers
      <3>2. CASE y = x
        <4>1. Pending(x) /\ \A i \in 1..Len(mb.to) : mb.to[i].user # x
          BY <1>0, <1>1, <3>1, <3>2 DEF OneWordInv, x, w
        <4> QED BY <2>5, <2>6, <3>2, <4>1 DEF Pending
      <3>3. CASE y # x
        <4>1. mc'[y] = mc[y] BY <2>6, <3>1, <3>3
        <4> QED BY <1>0, <3>1, <4>1 DEF OneWordInv, Pending
      <3> QED BY <3>2, <3>3
    <2> QED BY <2>7, <2>9, <2>10, <2>11 DEF MailInv
  <1> QED BY <1>6, <1>7

\* no other step of the board touches the mailbox
LEMMA MailStep == MailInv /\ [SysNext]_<<vars, tools>> => MailInv'
  <1> SUFFICES ASSUME MailInv, [SysNext]_<<vars, tools>> PROVE MailInv' OBVIOUS
  <1>1. CASE mc' = mc /\ mb' = mb
    BY <1>1 DEF MailInv, MailType, BufferInv, LagInv, OneWordInv, Tracks, Pending
  <1>2. CASE mb' = NoMail /\ mc' = [x \in MboxUsers |-> Caller]
    <2>1. MailType' BY <1>2, NoMailYet DEF MailType
    <2>2. \A x \in MboxUsers : mc'[x] = Caller BY <1>2
    <2>3. BufferInv' BY <2>2, NoMailYet DEF BufferInv
    <2>4. LagInv' /\ OneWordInv' BY <1>2, <2>2, NoMailYet DEF LagInv, OneWordInv, MboxUsers
    <2> QED BY <2>1, <2>3, <2>4 DEF MailInv
  <1>3. CASE \E x \in MboxUsers :
               mbox_fill(x) \/ mbox_space(x) \/ mbox_send(x) \/ mbox_sent(x) \/ mbox_wait(x) \/ mbox_read(x)
    BY <1>3, FillMail, SpaceMail, SendMail, SentMail, WaitMail, ReadMail
  <1>4. CASE VcTakes \/ VcAnswers \/ VcOther BY <1>4, TakeMail, AnswerMail, OtherMail
  <1>5. UNCHANGED <<vars, tools>> => mc' = mc /\ mb' = mb BY DEF tools
  <1>6. BootMain \/ Boot \/ Handover \/ Tick \/ KickStart \/ Kick \/ Rest => mc' = mc /\ mb' = mb
    BY DEF BootMain, Boot, Handover, Tick, KickStart, Kick, Rest, tools
  <1>7. ASSUME NEW i \in GpioUsers, GpioStart(i) \/ GpioStep(i) PROVE mc' = mc /\ mb' = mb
    BY <1>7 DEF GpioStart, GpioStep
  <1>8. PowerCut => mb' = NoMail /\ mc' = [x \in MboxUsers |-> Caller] BY DEF PowerCut
  <1> QED BY <1>1, <1>2, <1>3, <1>4, <1>5, <1>6, <1>7, <1>8 DEF SysNext

\* AnswerIsOwn for any number of exchanges: what a caller of the mailbox takes
\* for its answer is the answer to what it asked, unless it had given up an
\* earlier message.
THEOREM AnswerStaysOwn == SysSpec => []AnswerIsOwn
  <1>1. MailInv => AnswerIsOwn BY DEF MailInv, BufferInv, Tracks, AnswerIsOwn
  <1> QED BY <1>1, MailInit, MailStep, PTL DEF SysSpec

(***************************************************************************)
(* The images in memory.                                                   *)
(***************************************************************************)
\* what the images hold from boot to boot
Writable == [b.writable -> BOOLEAN]
KeptFields == {"ifs", "ro", "data", "sig", "sum", "saved", "ifs2", "sum2"}
\* the executables in memory are as stored, or it may be known that they are not
AsStored ==
    \/ Pristine(nv)
    \/ b.restore /\ ~b.cksum /\ (nv.ro = "damaged" \/ \E x \in b.writable : x[2] # 1)
KeptType ==
    /\ nv = [k \in KeptFields |-> nv[k]] /\ nv.data \in Writable /\ nv.sum \in BOOLEAN
    /\ nv.ro \in {"good", "partial", "damaged"}
\* a checksum is only kept of an image that was copied whole
KeptInv ==
    /\ KeptType
    /\ nv.sum => b.restore /\ nv.saved = rifs_readelf /\ nv.ro # "partial"
    /\ pc \in {"ifs", "copy", "ifs2", "load"} => ~nv.sum
    /\ pc \in {"ifs2", "load"} => AsStored /\ nv.ro # "partial"

\* a board that has never been powered is as stored
LEMMA KeptInit == SysInit => KeptInv
  <1> SUFFICES ASSUME SysInit PROVE KeptInv OBVIOUS
  <1>1. nv = Cold /\ pc = "_main" BY DEF SysInit, Init
  <1>2. /\ Cold = [k \in KeptFields |-> Cold[k]] /\ Cold.data \in Writable
        /\ Cold.sum = FALSE /\ Cold.ro = "damaged"
    BY DEF Cold, KeptFields, Writable
  <1> QED BY <1>1, <1>2 DEF KeptInv, KeptType

\* steps that leave what survives alone, and come to no place where it matters
LEMMA KeptUnchanged ==
    ASSUME KeptInv, b' = b, nv' = nv, pc' \notin {"ifs", "copy", "ifs2", "load"} \/ pc' = pc
    PROVE  KeptInv'
  BY DEF KeptInv, KeptType, KeptFields, Writable, AsStored, Pristine, rifs_readelf

\* restore_image(): what the program changed is brought back, or refused
LEMMA KeptRestore == ASSUME KeptInv, restore_image PROVE KeptInv'
  <1> DEFINE n == PutBack(nv)
  <1>0. KeptType BY DEF KeptInv
  <1>1. b' = b /\ pc' = (IF rifs_restore_ifs(nv) THEN "ifs2" ELSE "ifs")
        /\ nv' = IF b.restore THEN rifs_init(n) ELSE nv
    BY DEF restore_image, Step
  <1>2. /\ n = [k \in KeptFields |-> n[k]] /\ n.ro = nv.ro /\ n.data \in Writable
        /\ Restorable(nv) => \A x \in b.writable : n.data[x] = (nv.data[x] \/ x \in nv.saved)
    BY <1>0 DEF PutBack, KeptType, KeptFields, Writable
  <1> HIDE DEF n
  <1>3. CASE b.restore
    <2>1. nv' = [n EXCEPT !.sig = TRUE, !.sum = FALSE, !.saved = {}] BY <1>1, <1>3 DEF rifs_init
    <2>2. nv' = [k \in KeptFields |-> nv'[k]] /\ nv'.data = n.data /\ nv'.ro = n.ro /\ nv'.sum = FALSE
      BY <1>2, <2>1 DEF KeptFields
    <2>3. rifs_restore_ifs(nv) => AsStored' /\ nv'.ro # "partial"
      <3> SUFFICES ASSUME rifs_restore_ifs(nv) PROVE AsStored' /\ nv'.ro # "partial" OBVIOUS
      <3>1. Restorable(nv) /\ (b.cksum => Pristine(n)) BY DEF rifs_restore_ifs, n
      <3>2. nv.saved = rifs_readelf /\ nv.ro # "partial" BY <3>1 DEF KeptInv, Restorable
      <3>3. CASE b.cksum BY <1>1, <1>2, <2>2, <3>1, <3>2, <3>3 DEF AsStored, Pristine
      <3>4. CASE ~b.cksum
        <4>1. ASSUME nv.ro = "good", \A x \in b.writable : x[2] = 1 PROVE Pristine(nv')
          <5>1. \A x \in b.writable : n.data[x] = TRUE
            BY <1>2, <3>1, <3>2, <4>1 DEF rifs_readelf
          <5> QED BY <1>2, <2>2, <4>1, <5>1 DEF Pristine, Writable
        <4>2. nv.ro \in {"good", "damaged"} BY <1>0, <3>2 DEF KeptType
        <4> QED BY <1>1, <1>2, <1>3, <2>2, <3>2, <3>4, <4>1, <4>2 DEF AsStored
      <3> QED BY <3>3, <3>4
    <2> QED BY <1>1, <1>2, <2>2, <2>3 DEF KeptInv, KeptType, Writable
  <1>4. CASE ~b.restore
    <2>1. nv' = nv /\ pc' = "ifs" BY <1>1, <1>4 DEF rifs_restore_ifs
    <2> QED BY <1>1, <1>4, <2>1 DEF KeptInv, KeptType, Writable, rifs_readelf
  <1> QED BY <1>3, <1>4

\* the image is copied, and the second one placed
LEMMA KeptLoad ==
    ASSUME KeptInv, begin_load \/ end_load \/ place_ifs2 \/ load_bootstraps
    PROVE  KeptInv'
  <1>0. KeptType BY DEF KeptInv
  <1>1. b' = b BY DEF begin_load, end_load, place_ifs2, load_bootstraps, Step
  <1>2. CASE begin_load
    <2>1. /\ pc = "ifs" /\ pc' = "copy"
          /\ nv' = [nv EXCEPT !.ifs = TRUE, !.ro = "partial", !.data = [x \in DOMAIN @ |-> FALSE]]
      BY <1>2 DEF begin_load, Step, load_ifs_begin
    <2>2. /\ nv' = [k \in KeptFields |-> nv'[k]] /\ nv'.ro = "partial" /\ nv'.sum = nv.sum
          /\ nv'.data = [x \in DOMAIN nv.data |-> FALSE]
      BY <1>0, <2>1 DEF KeptType, KeptFields
    <2>3. nv'.data \in Writable BY <1>0, <2>2 DEF KeptType, Writable
    <2> QED BY <1>0, <1>1, <2>1, <2>2, <2>3 DEF KeptInv, KeptType, Writable
  <1>3. CASE end_load
    <2>1. pc = "copy" /\ pc' = "ifs2" /\ nv' = [nv EXCEPT !.ro = "good", !.data = [x \in DOMAIN @ |-> TRUE]]
      BY <1>3 DEF end_load, Step, load_ifs_end
    <2>2. /\ nv' = [k \in KeptFields |-> nv'[k]] /\ nv'.ro = "good" /\ nv'.sum = nv.sum
          /\ nv'.data = [x \in DOMAIN nv.data |-> TRUE]
      BY <1>0, <2>1 DEF KeptType, KeptFields
    <2>3. nv'.data \in Writable /\ Pristine(nv)' BY <1>0, <2>2 DEF KeptType, Writable, Pristine
    <2> QED BY <1>0, <1>1, <2>1, <2>2, <2>3 DEF KeptInv, KeptType, Writable, AsStored
  <1>4. CASE place_ifs2
    <2>1. pc = "ifs2" /\ pc' = "load" /\ nv' = [nv EXCEPT !.ifs2 = b.ifs2 # 0, !.sum2 = b.ifs2keep]
      BY <1>4 DEF place_ifs2, Step
    <2>2. /\ nv' = [k \in KeptFields |-> nv'[k]] /\ nv'.ro = nv.ro /\ nv'.sum = nv.sum
          /\ nv'.data = nv.data
      BY <1>0, <2>1 DEF KeptType, KeptFields
    <2>3. AsStored => AsStored' BY <1>1, <2>2 DEF AsStored, Pristine
    <2> QED BY <1>0, <1>1, <2>1, <2>2, <2>3 DEF KeptInv, KeptType, Writable
  <1>5. CASE load_bootstraps
    <2>1. /\ pc = "load" /\ pc' = "extra"
          /\ nv' = IF b.restore THEN [nv EXCEPT !.sum = TRUE, !.saved = rifs_readelf] ELSE nv
      BY <1>5 DEF load_bootstraps, Step, rifs_set_cksum
    <2>2. CASE b.restore
      <3>1. /\ nv' = [k \in KeptFields |-> nv'[k]] /\ nv'.ro = nv.ro /\ nv'.sum = TRUE
            /\ nv'.data = nv.data /\ nv'.saved = rifs_readelf
        BY <1>0, <2>1, <2>2 DEF KeptType, KeptFields
      <3> QED BY <1>0, <1>1, <2>1, <2>2, <3>1 DEF KeptInv, KeptType, Writable, rifs_readelf
    <2>3. CASE ~b.restore
      BY <1>0, <1>1, <2>1, <2>3 DEF KeptInv, KeptType, Writable, rifs_readelf
    <2> QED BY <2>2, <2>3
  <1> QED BY <1>2, <1>3, <1>4, <1>5

\* the program writes its data, and the power fails, in RAM that is kept or not
LEMMA KeptPower == ASSUME KeptInv, Running \/ PowerCycle PROVE KeptInv'
  <1>0. KeptType BY DEF KeptInv
  <1>1. CASE Running
    <2>1. PICK x \in DOMAIN nv.data : nv' = [nv EXCEPT !.data[x] = FALSE] BY <1>1 DEF Running
    <2>2. b' = b /\ pc' = "kernel" /\ pc = "kernel" BY <1>1 DEF Running
    <2>3. nv' = [nv EXCEPT !.data = [nv.data EXCEPT ![x] = FALSE]] BY <2>1
    <2>4. [nv.data EXCEPT ![x] = FALSE] \in Writable BY <1>0, <2>1 DEF KeptType, Writable
    <2>5. /\ nv' = [k \in KeptFields |-> nv'[k]] /\ nv'.ro = nv.ro /\ nv'.sum = nv.sum
          /\ nv'.saved = nv.saved /\ nv'.data \in Writable
      BY <1>0, <2>3, <2>4 DEF KeptType, KeptFields
    <2> QED BY <1>0, <2>2, <2>5 DEF KeptInv, KeptType, Writable, rifs_readelf
  <1>2. CASE PowerCycle
    <2>1. b' = b /\ pc' = "_main" /\ nv' \in {nv, [nv EXCEPT !.ro = "damaged"], [nv EXCEPT !.ifs = FALSE], Cold}
      BY <1>2 DEF PowerCycle
    <2>2. CASE nv' \in {nv, [nv EXCEPT !.ro = "damaged"], [nv EXCEPT !.ifs = FALSE]}
      <3>1. /\ nv' = [k \in KeptFields |-> nv'[k]] /\ nv'.ro \in {nv.ro, "damaged"} /\ nv'.sum = nv.sum
            /\ nv'.saved = nv.saved /\ nv'.data = nv.data
        BY <1>0, <2>2 DEF KeptType, KeptFields
      <3> QED BY <1>0, <2>1, <3>1 DEF KeptInv, KeptType, Writable, rifs_readelf
    <2>3. CASE nv' = Cold
      <3>1. /\ Cold = [k \in KeptFields |-> Cold[k]] /\ Cold.data \in Writable
            /\ Cold.sum = FALSE /\ Cold.ro = "damaged"
        BY DEF Cold, KeptFields, Writable
      <3> QED BY <2>1, <2>3, <3>1 DEF KeptInv, KeptType, Writable
    <2> QED BY <2>1, <2>2, <2>3
  <1> QED BY <1>1, <1>2

\* the other steps of startup leave the images alone
LEMMA KeptStep == KeptInv /\ [SysNext]_<<vars, tools>> => KeptInv'
  <1> SUFFICES ASSUME KeptInv, [SysNext]_<<vars, tools>> PROVE KeptInv' OBVIOUS
  <1>1. CASE _main \/ main \/ bcm2711_init_raminfo \/ alloc_image \/ init_smp \/ map_startup \/ init_intrinfo
    <2>1. b' = b /\ nv' = nv /\ pc' \notin {"ifs", "copy", "ifs2", "load"}
      BY <1>1 DEF _main, main, bcm2711_init_raminfo, alloc_image, init_smp, map_startup, init_intrinfo, Step
    <2> QED BY <2>1, KeptUnchanged
  <1>2. CASE init_info \/ memory_options \/ announce_sysram \/ alloc_syspage_memory
    <2>1. b' = b /\ nv' = nv /\ pc' \notin {"ifs", "copy", "ifs2", "load"}
      BY <1>2 DEF init_info, memory_options, announce_sysram, alloc_syspage_memory, Step
    <2> QED BY <2>1, KeptUnchanged
  <1>3. CASE restore_image BY <1>3, KeptRestore
  <1>4. CASE begin_load \/ end_load \/ place_ifs2 \/ load_bootstraps BY <1>4, KeptLoad
  <1>5. CASE Running \/ PowerCycle BY <1>5, KeptPower
  <1>6. CASE Handover
    <2>1. b' = b /\ nv' = nv /\ pc' = "tools" BY <1>6 DEF Handover
    <2> QED BY <2>1, KeptUnchanged
  <1>7. CASE UNCHANGED vars
    <2>1. b' = b /\ nv' = nv /\ pc' = pc BY <1>7 DEF vars
    <2> QED BY <2>1, KeptUnchanged
  <1>8. BootMain => main BY DEF BootMain
  <1>9. Boot => \/ _main \/ bcm2711_init_raminfo \/ alloc_image \/ init_smp \/ map_startup
                \/ init_intrinfo \/ init_info \/ restore_image \/ begin_load \/ end_load
                \/ place_ifs2 \/ load_bootstraps \/ memory_options \/ announce_sysram
                \/ alloc_syspage_memory \/ Running
    BY DEF Boot
  <1>10. PowerCut => PowerCycle BY DEF PowerCut
  <1>11. \A i \in GpioUsers : GpioStart(i) \/ GpioStep(i) => UNCHANGED vars BY DEF GpioStart, GpioStep
  <1>12. \A x \in MboxUsers :
            mbox_fill(x) \/ mbox_space(x) \/ mbox_send(x) \/ mbox_sent(x) \/ mbox_wait(x) \/ mbox_read(x)
               => UNCHANGED vars
    BY DEF mbox_fill, mbox_space, mbox_send, mbox_sent, mbox_wait, mbox_read, MailOnly
  <1>13. VcTakes \/ VcAnswers \/ VcOther => UNCHANGED vars BY DEF VcTakes, VcAnswers, VcOther, MailOnly
  <1>14. Tick \/ KickStart \/ Kick \/ Rest \/ UNCHANGED <<vars, tools>> => UNCHANGED vars
    BY DEF Tick, KickStart, Kick, Rest
  <1> QED BY <1>1, <1>2, <1>3, <1>4, <1>5, <1>6, <1>7, <1>8, <1>9, <1>10, <1>11, <1>12, <1>13, <1>14 DEF SysNext

\* StartsPristine for every board, whatever is writable and however often the
\* power fails: the programs the kernel is given are as they were stored, unless
\* the image is restored without checksums and the memory was changed.
THEOREM ExecutablesStartPristine == SysSpec => []StartsPristine
  <1>1. KeptInv => StartsPristine BY DEF KeptInv, AsStored, StartsPristine
  <1> QED BY <1>1, KeptInit, KeptStep, PTL DEF SysSpec

(***************************************************************************)
(* Folds over a sequence, as FoldLeft of SequencesExt defines them: its    *)
(* recursion over sets of indices has a solution, and an invariant of one  *)
(* step holds of the result.                                               *)
(***************************************************************************)
\* a set of numbers has a smallest, and it is the one CHOOSE gives
LEMMA Smallest == ASSUME NEW S \in SUBSET Nat, S # {} PROVE \E m \in S : \A k \in S : m <= k
  <1>1. IsWellFoundedOn(OpToRel(<,Nat), Nat) BY NatLessThanWellFounded
  <1>2. PICK m \in S : \A y \in S : ~(<<y, m>> \in OpToRel(<, Nat)) BY <1>1, WFMin
  <1>3. \A y \in S : ~(y < m) BY <1>2 DEF OpToRel
  <1> QED BY <1>3

\* induction, for a set of numbers
LEMMA AllNumbers == ASSUME NEW S \in SUBSET Nat, 0 \in S, \A n \in S : n + 1 \in S PROVE S = Nat
  <1> SUFFICES ASSUME Nat \ S # {} PROVE FALSE OBVIOUS
  <1>1. PICK m \in Nat \ S : \A k \in Nat \ S : m <= k BY Smallest
  <1>2. m # 0 /\ m - 1 \in Nat BY <1>1
  <1>3. m - 1 \in S BY <1>1, <1>2
  <1>4. m - 1 + 1 \in S BY <1>3
  <1> QED BY <1>1, <1>2, <1>4

\* Max, as the fold uses it
LEMMA GreatestIs ==
    ASSUME NEW n \in Nat, NEW d \in SUBSET (1..n), NEW m \in d, \A k \in d : k <= m
    PROVE  Max(d) = m
  <1>1. \A x \in d : (\A y \in d : x >= y) => x = m OBVIOUS
  <1>2. \A y \in d : m >= y OBVIOUS
  <1> QED BY <1>1, <1>2 DEF Max

\* a set of indices has a greatest
LEMMA Greatest ==
    ASSUME NEW n \in Nat, NEW d \in SUBSET (1..n), d # {}
    PROVE  Max(d) \in d /\ \A k \in d : k <= Max(d)
  <1> DEFINE back == {n - k : k \in d}
  <1>1. back \in SUBSET Nat OBVIOUS
  <1>2. back # {} OBVIOUS
  <1>3. PICK m \in back : \A k \in back : m <= k
    <2> HIDE DEF back
    <2> QED BY <1>1, <1>2, Smallest
  <1>4. PICK x \in d : m = n - x OBVIOUS
  <1>5. \A y \in d : y <= x
    <2> TAKE y \in d
    <2>1. n - y \in back OBVIOUS
    <2>2. m <= n - y BY <1>3, <2>1
    <2> QED BY <1>4, <2>2
  <1>6. Max(d) = x BY <1>5, GreatestIs
  <1> QED BY <1>5, <1>6

\* the recursion of FoldLeft over a sequence of length n
Unfolds(iter, base, F, n) ==
    iter = [d \in SUBSET (1..n) |-> IF d = {} THEN base ELSE F[Max(d)][iter[d \ {Max(d)}]]]

\* the recursion has a solution, by induction on n
LEMMA FoldDefined ==
    ASSUME NEW T, NEW base \in T, NEW N \in Nat, NEW F \in [1..N -> [T -> T]]
    PROVE  \E iter \in [SUBSET (1..N) -> T] : Unfolds(iter, base, F, N)
  <1> DEFINE Has(n) == \E iter \in [SUBSET (1..n) -> T] : Unfolds(iter, base, F, n)
             S == {n \in Nat : n <= N => Has(n)}
  <1> HIDE DEF Has
  <1>1. 0 \in S
    <2> DEFINE it == [d \in SUBSET (1..0) |-> base]
    <2>1. \A d \in SUBSET (1..0) : d = {} OBVIOUS
    <2>2. it \in [SUBSET (1..0) -> T] OBVIOUS
    <2>3. it = [d \in SUBSET (1..0) |-> IF d = {} THEN base ELSE F[Max(d)][it[d \ {Max(d)}]]] BY <2>1
    <2> HIDE DEF it
    <2> QED BY <2>2, <2>3 DEF Unfolds, Has
  <1>2. ASSUME NEW n \in S PROVE n + 1 \in S
    <2> SUFFICES ASSUME n + 1 <= N PROVE Has(n + 1)
      OBVIOUS
    <2> n \in Nat /\ n <= N OBVIOUS
    <2>1. PICK j \in [SUBSET (1..n) -> T] : Unfolds(j, base, F, n)
      <3>1. Has(n) OBVIOUS
      <3> QED BY <3>1 DEF Has
    <2> HIDE DEF S
    <2> DEFINE m == n + 1
               it == [d \in SUBSET (1..m) |-> IF m \in d THEN F[m][j[d \ {m}]] ELSE j[d]]
    <2>2. \A d \in SUBSET (1..m) : d \ {m} \in SUBSET (1..n) /\ (m \notin d => d \in SUBSET (1..n))
      OBVIOUS
    <2>m. m \in Nat /\ m \in 1..N OBVIOUS
    <2>0. \A d \in SUBSET (1..m) : m \in d => Max(d) = m
      <3> TAKE d \in SUBSET (1..m)
      <3> HAVE m \in d
      <3>1. \A k \in d : k <= m BY <2>m
      <3> HIDE DEF m
      <3> QED BY <2>m, <3>1, GreatestIs
    <2>8. \A d \in SUBSET (1..n) : d # {} => j[d] = F[Max(d)][j[d \ {Max(d)}]]
      BY <2>1 DEF Unfolds
    <2>9. j[{}] = base BY <2>1 DEF Unfolds
    <2> HIDE DEF m
    <2>3. ASSUME NEW d \in SUBSET (1..m) PROVE it[d] \in T
      <3>1. CASE m \in d
        <4>1. j[d \ {m}] \in T BY <2>2
        <4>2. F[m] \in [T -> T] BY <2>m
        <4>3. it[d] = F[m][j[d \ {m}]] BY <3>1
        <4> QED BY <4>1, <4>2, <4>3
      <3>2. CASE m \notin d BY <2>2, <3>2
      <3> QED BY <3>1, <3>2
    <2>4. it \in [SUBSET (1..m) -> T] BY <2>3
    <2>5. ASSUME NEW d \in SUBSET (1..m)
          PROVE  it[d] = IF d = {} THEN base ELSE F[Max(d)][it[d \ {Max(d)}]]
      <3>1. CASE m \in d
        <4>1. Max(d) = m BY <3>1, <2>0
        <4>3. d \ {m} \in SUBSET (1..m) /\ m \notin d \ {m} OBVIOUS
        <4>2. it[d \ {m}] = j[d \ {m}] BY <4>3
        <4>4. it[d] = F[m][j[d \ {m}]] BY <3>1
        <4> QED BY <3>1, <4>1, <4>2, <4>4
      <3>2. CASE m \notin d /\ d # {}
        <4>1. d \in SUBSET (1..n) BY <2>2, <3>2
        <4>2. j[d] = F[Max(d)][j[d \ {Max(d)}]] BY <2>8, <3>2, <4>1
        <4>3. m \notin d \ {Max(d)} /\ d \ {Max(d)} \in SUBSET (1..m) BY <3>2
        <4>4. it[d] = j[d] BY <3>2
        <4>5. it[d \ {Max(d)}] = j[d \ {Max(d)}] BY <4>3
        <4> QED BY <3>2, <4>2, <4>4, <4>5
      <3>3. CASE d = {}
        <4>1. it[d] = j[d] BY <3>3
        <4> QED BY <2>9, <3>3, <4>1
      <3> QED BY <3>1, <3>2, <3>3
    <2>6. it = [d \in SUBSET (1..m) |-> it[d]] OBVIOUS
    <2> HIDE DEF it
    <2>7. it = [d \in SUBSET (1..m) |-> IF d = {} THEN base ELSE F[Max(d)][it[d \ {Max(d)}]]]
      BY <2>5, <2>6
    <2> QED BY <2>4, <2>7 DEF Unfolds, m, Has
  <1> HIDE DEF S
  <1>3. S = Nat
    <2>1. S \in SUBSET Nat BY DEF S
    <2> QED BY <1>1, <1>2, <2>1, AllNumbers
  <1>4. Has(N) BY <1>3 DEF S
  <1> QED BY <1>4 DEF Has

\* an invariant I[k] of the results after k elements
LEMMA Chain ==
    ASSUME NEW N \in Nat, NEW h, NEW I, h[0] \in I[0],
           \A k \in 1..N : h[k - 1] \in I[k - 1] => h[k] \in I[k]
    PROVE  h[N] \in I[N]
  <1> DEFINE S == {n \in Nat : n <= N => h[n] \in I[n]}
  <1>1. 0 \in S OBVIOUS
  <1>2. ASSUME NEW n \in S PROVE n + 1 \in S
    <2> SUFFICES ASSUME n + 1 <= N PROVE h[n + 1] \in I[n + 1] OBVIOUS
    <2>1. n + 1 \in 1..N /\ (n + 1) - 1 = n OBVIOUS
    <2>2. h[n] \in I[n] OBVIOUS
    <2> QED BY <2>1, <2>2
  <1>3. S \in SUBSET Nat OBVIOUS
  <1> HIDE DEF S
  <1>4. S = Nat BY <1>1, <1>2, <1>3, AllNumbers
  <1>5. N \in S BY <1>4
  <1> QED BY <1>5 DEF S

\* the equation of FoldLeft, along the elements of the sequence
LEMMA FoldChain ==
    ASSUME NEW N \in Nat, NEW k \in 1..N
    PROVE  Max(1..k) = k /\ (1..k) \ {k} = 1..(k - 1) /\ 1..k \in SUBSET (1..N) /\ 1..k # {}
  <1>1. Max(1..k) = k
    <2>1. 1..k \in SUBSET (1..k) /\ k \in 1..k /\ k \in Nat /\ \A j \in 1..k : j <= k OBVIOUS
    <2> QED BY <2>1, GreatestIs
  <1> QED BY <1>1

(***************************************************************************)
(* The pins: what startup makes of the table.                              *)
(***************************************************************************)
\* the rows of the table, the pins, and pins where the rows R have been set on top of g0
Rows == [pin : GpioPins, fsel : 0..7, pull : 0..2, lvl : 0..1]
PinsType == [fsel : [GpioPins -> 0..7], pull : [GpioPins -> 0..2], out : [GpioPins -> 0..1]]
Applied(g, g0, R) ==
    \A p \in GpioPins :
        /\ \A x \in R : x.pin = p =>
             /\ g.fsel[p] = x.fsel /\ g.pull[p] = x.pull
             /\ g.out[p] = IF x.fsel = FUNC_OP THEN x.lvl ELSE g0.out[p]
        /\ (\A x \in R : x.pin # p) =>
             g.fsel[p] = g0.fsel[p] /\ g.pull[p] = g0.pull[p] /\ g.out[p] = g0.out[p]

\* r is g with the pin of row x set
PinSet(r, g, x) ==
    \A p \in GpioPins :
        IF p = x.pin
        THEN /\ r.fsel[p] = x.fsel /\ r.pull[p] = x.pull
             /\ r.out[p] = IF x.fsel = FUNC_OP THEN x.lvl ELSE g.out[p]
        ELSE r.fsel[p] = g.fsel[p] /\ r.pull[p] = g.pull[p] /\ r.out[p] = g.out[p]

\* startup sets the pin of a row, and no other: the register keeps its other fields
LEMMA SetPinIs ==
    ASSUME NEW g \in PinsType, NEW x \in Rows
    PROVE  SetPin(g, x) \in PinsType /\ PinSet(SetPin(g, x), g, x)
  <1> DEFINE fs == [q \in GpioPins |-> IF q = x.pin THEN x.fsel ELSE g.fsel[q]]
             pu == [q \in GpioPins |-> IF q = x.pin THEN x.pull ELSE g.pull[q]]
             ou == [q \in GpioPins |-> IF q = x.pin THEN x.lvl ELSE g.out[q]]
  <1>0. x.pin \in GpioPins /\ x.fsel \in 0..7 /\ x.pull \in 0..2 /\ x.lvl \in 0..1 BY DEF Rows
  <1>t. /\ g.fsel \in [GpioPins -> 0..7] /\ g.pull \in [GpioPins -> 0..2] /\ g.out \in [GpioPins -> 0..1]
        /\ g = [fsel |-> g.fsel, pull |-> g.pull, out |-> g.out]
    BY DEF PinsType
  <1>1. bcm2711_set_gpio_fsel(g, x.pin, x.fsel) = [fsel |-> fs, pull |-> g.pull, out |-> g.out]
    <2>1. Put(g.fsel, FselReg(x.pin), Fields(g.fsel, FselReg(x.pin)), x.pin, x.fsel) = fs
      BY <1>t DEF Put, Fields
    <2> HIDE DEF fs
    <2>2. [[fsel |-> g.fsel, pull |-> g.pull, out |-> g.out] EXCEPT !.fsel = fs]
            = [fsel |-> fs, pull |-> g.pull, out |-> g.out]
      OBVIOUS
    <2>3. [g EXCEPT !.fsel = fs] = [fsel |-> fs, pull |-> g.pull, out |-> g.out]
      BY <1>t, <2>2, Zenon
    <2> QED BY <2>1, <2>3 DEF bcm2711_set_gpio_fsel
  <1> DEFINE g1 == [fsel |-> fs, pull |-> g.pull, out |-> g.out]
  <1>2. bcm2711_gpio_set_pull(g1, x.pin, x.pull) = [fsel |-> fs, pull |-> pu, out |-> g.out]
    <2>1. Put(g.pull, PullReg(x.pin), Fields(g.pull, PullReg(x.pin)), x.pin, x.pull) = pu
      BY <1>t DEF Put, Fields
    <2> HIDE DEF fs, pu
    <2> QED BY <1>0, <2>1 DEF bcm2711_gpio_set_pull
  <1> DEFINE g2 == [fsel |-> fs, pull |-> pu, out |-> g.out]
  <1>3. bcm2711_set_gpio_level(g2, x.pin, x.lvl) = [fsel |-> fs, pull |-> pu, out |-> ou]
    <2>1. [g.out EXCEPT ![x.pin] = x.lvl] = ou BY <1>t
    <2> HIDE DEF fs, pu, ou
    <2>2. [g2 EXCEPT !.out = ou] = [fsel |-> fs, pull |-> pu, out |-> ou] OBVIOUS
    <2>3. g2.out = g.out OBVIOUS
    <2>4. bcm2711_set_gpio_level(g2, x.pin, x.lvl) = [g2 EXCEPT !.out = [g2.out EXCEPT ![x.pin] = x.lvl]]
      BY DEF bcm2711_set_gpio_level
    <2> HIDE DEF g2
    <2> QED BY <2>1, <2>2, <2>3, <2>4
  <1> DEFINE r == [fsel |-> fs, pull |-> pu, out |-> IF x.fsel = FUNC_OP THEN ou ELSE g.out]
  <1>4. SetPin(g, x) = r
    <2> HIDE DEF fs, pu, ou
    <2> QED BY <1>1, <1>2, <1>3 DEF SetPin
  <1>5. fs \in [GpioPins -> 0..7] /\ pu \in [GpioPins -> 0..2] /\ ou \in [GpioPins -> 0..1]
    BY <1>0, <1>t
  <1>6. r \in PinsType
    <2> HIDE DEF fs, pu, ou
    <2> QED BY <1>5, <1>t DEF PinsType
  <1>7. \A p \in GpioPins :
            /\ fs[p] = IF p = x.pin THEN x.fsel ELSE g.fsel[p]
            /\ pu[p] = IF p = x.pin THEN x.pull ELSE g.pull[p]
            /\ ou[p] = IF p = x.pin THEN x.lvl ELSE g.out[p]
    OBVIOUS
  <1>8. r.fsel = fs /\ r.pull = pu /\ r.out = IF x.fsel = FUNC_OP THEN ou ELSE g.out
    OBVIOUS
  <1> HIDE DEF fs, pu, ou, r, g1, g2
  <1>9. PinSet(r, g, x) BY <1>7, <1>8 DEF PinSet
  <1> QED BY <1>4, <1>6, <1>9

\* a row after the rows R: no later row undoes an earlier one
LEMMA AppliedStep ==
    ASSUME NEW g \in PinsType, NEW g0, NEW R \in SUBSET TableRows, NEW x \in TableRows, x \in Rows,
           Applied(g, g0, R)
    PROVE  SetPin(g, x) \in PinsType /\ Applied(SetPin(g, x), g0, R \cup {x})
  <1> DEFINE r == SetPin(g, x)
  <1>1. r \in PinsType BY SetPinIs
  <1>2. PinSet(r, g, x) BY SetPinIs
  <1> HIDE DEF r
  <1>3. \A y \in R \cup {x} : y.pin = x.pin => y = x BY PinsAssumption
  <1>4. ASSUME NEW p \in GpioPins
        PROVE  /\ \A y \in R \cup {x} : y.pin = p =>
                    /\ r.fsel[p] = y.fsel /\ r.pull[p] = y.pull
                    /\ r.out[p] = IF y.fsel = FUNC_OP THEN y.lvl ELSE g0.out[p]
               /\ (\A y \in R \cup {x} : y.pin # p) =>
                    r.fsel[p] = g0.fsel[p] /\ r.pull[p] = g0.pull[p] /\ r.out[p] = g0.out[p]
    <2>1. CASE p = x.pin
      <3>1. x.fsel # FUNC_OP => g.out[p] = g0.out[p]
        <4>1. CASE x \in R BY <2>1, <4>1 DEF Applied
        <4>2. CASE x \notin R
          <5>1. \A y \in R : y.pin # p BY <1>3, <2>1, <4>2
          <5> QED BY <5>1 DEF Applied
        <4> QED BY <4>1, <4>2
      <3>2. \A y \in R \cup {x} : y.pin = p => y = x BY <1>3, <2>1
      <3> QED BY <1>2, <2>1, <3>1, <3>2 DEF PinSet
    <2>2. CASE p # x.pin
      <3>1. \A y \in R \cup {x} : y.pin = p => y \in R BY <2>2
      <3> QED BY <1>2, <2>2, <3>1 DEF Applied, PinSet
    <2> QED BY <2>1, <2>2
  <1>5. Applied(r, g0, R \cup {x}) BY <1>4 DEF Applied
  <1> QED BY <1>1, <1>5 DEF r
\* the fold of module_pinmux() spelt out, as TLC evaluates it
LEMMA PinmuxFold ==
    ASSUME NEW g, NEW seq
    PROVE  module_pinmux(g, seq) =
             (CHOOSE iter : iter = [d \in SUBSET DOMAIN seq |->
                 IF d = {} THEN g ELSE SetPin(iter[d \ {Max(d)}], seq[Max(d)])])[DOMAIN seq]
  BY DEF module_pinmux, FoldLeft, MapThenFoldSet

\* the rows of a module
LEMMA PinmuxSets ==
    ASSUME NEW g \in PinsType, NEW g0, NEW R \in SUBSET TableRows, NEW seq \in Seq(Rows),
           ToSet(seq) \subseteq TableRows, Applied(g, g0, R)
    PROVE  module_pinmux(g, seq) \in PinsType /\ Applied(module_pinmux(g, seq), g0, R \cup ToSet(seq))
  <1> DEFINE N == Len(seq)
             F == [i \in 1..N |-> [t \in PinsType |-> SetPin(t, seq[i])]]
             Raw(c) == c = [d \in SUBSET DOMAIN seq |->
                              IF d = {} THEN g ELSE SetPin(c[d \ {Max(d)}], seq[Max(d)])]
             c == CHOOSE iter : Raw(iter)
  <1>1. DOMAIN seq = 1..N /\ N \in Nat /\ \A i \in 1..N : seq[i] \in Rows /\ seq[i] \in TableRows
    BY DEF ToSet
  <1>2. \A i \in 1..N : F[i] = [t \in PinsType |-> SetPin(t, seq[i])] OBVIOUS
  <1>3. F \in [1..N -> [PinsType -> PinsType]]
    <2>1. \A i \in 1..N : F[i] \in [PinsType -> PinsType] BY <1>1, SetPinIs
    <2> QED BY <2>1
  <1>4. \E iter : Raw(iter)
    <2> HIDE DEF F, N
    <2>1. PICK it \in [SUBSET (1..N) -> PinsType] : Unfolds(it, g, F, N) BY <1>1, <1>3, FoldDefined
    <2>2. ASSUME NEW d \in SUBSET (1..N)
          PROVE  it[d] = IF d = {} THEN g ELSE SetPin(it[d \ {Max(d)}], seq[Max(d)])
      <3>1. it[d] = IF d = {} THEN g ELSE F[Max(d)][it[d \ {Max(d)}]] BY <2>1 DEF Unfolds
      <3>2. d # {} => Max(d) \in 1..N BY <1>1, Greatest
      <3>3. d \ {Max(d)} \in SUBSET (1..N) OBVIOUS
      <3>4. it[d \ {Max(d)}] \in PinsType BY <3>3
      <3>5. ASSUME d # {} PROVE F[Max(d)][it[d \ {Max(d)}]] = SetPin(it[d \ {Max(d)}], seq[Max(d)])
        <4> DEFINE i == Max(d)
                   u == it[d \ {Max(d)}]
        <4>1. i \in 1..N /\ u \in PinsType BY <3>2, <3>4, <3>5
        <4> HIDE DEF i, u
        <4> QED BY <1>2, <4>1 DEF i, u
      <3> QED BY <3>1, <3>5
    <2>3. it = [d \in SUBSET (1..N) |-> it[d]] OBVIOUS
    <2>4. it = [d \in SUBSET (1..N) |-> IF d = {} THEN g ELSE SetPin(it[d \ {Max(d)}], seq[Max(d)])]
      BY <2>2, <2>3
    <2>5. Raw(it) BY <1>1, <2>4
    <2> QED BY <2>5
  <1>5. Raw(c) BY <1>4
  <1>6. module_pinmux(g, seq) = c[1..N] BY <1>1, PinmuxFold
  <1> HIDE DEF c, F, N
  <1>7. c[{}] = g
    <2>1. {} \in SUBSET DOMAIN seq OBVIOUS
    <2> QED BY <1>5, <2>1
  <1>8. \A k \in 1..N : c[1..k] = SetPin(c[1..(k - 1)], seq[k])
    <2> TAKE k \in 1..N
    <2>1. Max(1..k) = k /\ (1..k) \ {k} = 1..(k - 1) /\ 1..k \in SUBSET (1..N) /\ 1..k # {} BY <1>1, FoldChain
    <2>2. 1..k \in SUBSET DOMAIN seq BY <1>1, <2>1
    <2>3. \A d \in SUBSET DOMAIN seq : d # {} => c[d] = SetPin(c[d \ {Max(d)}], seq[Max(d)]) BY <1>5
    <2>4. c[1..k] = SetPin(c[(1..k) \ {Max(1..k)}], seq[Max(1..k)]) BY <2>1, <2>2, <2>3
    <2> QED BY <2>1, <2>4
  <1> HIDE DEF Raw
  <1> DEFINE h == [k \in 0..N |-> c[1..k]]
             I == [k \in 0..N |-> {t \in PinsType : Applied(t, g0, R \cup {seq[i] : i \in 1..k})}]
  <1>9. h[0] \in I[0]
    <2>1. 1..0 = {} /\ R \cup {seq[i] : i \in 1..0} = R OBVIOUS
    <2>2. g \in {t \in PinsType : Applied(t, g0, R \cup {seq[i] : i \in 1..0})} BY <2>1
    <2>3. 0 \in 0..N BY <1>1
    <2>4. h[0] = g BY <1>7, <2>1, <2>3
    <2> QED BY <2>2, <2>3, <2>4
  <1>10. ASSUME NEW k \in 1..N, h[k - 1] \in I[k - 1] PROVE h[k] \in I[k]
    <2>0. k \in Nat /\ k \in 0..N /\ k - 1 \in 0..N BY <1>1
    <2> DEFINE t == c[1..(k - 1)]
               Q == R \cup {seq[i] : i \in 1..(k - 1)}
    <2>1. t \in PinsType /\ Applied(t, g0, Q) BY <1>10, <2>0
    <2>2. Q \in SUBSET TableRows
      <3>1. \A i \in 1..(k - 1) : i \in 1..N BY <1>1
      <3> QED BY <1>1, <3>1
    <2>3. SetPin(t, seq[k]) \in PinsType /\ Applied(SetPin(t, seq[k]), g0, Q \cup {seq[k]})
      <3> HIDE DEF t, Q
      <3> QED BY <1>1, <2>1, <2>2, AppliedStep
    <2>4. Q \cup {seq[k]} = R \cup {seq[i] : i \in 1..k}
      <3>1. 1..k = (1..(k - 1)) \cup {k} BY <2>0
      <3> QED BY <3>1
    <2>5. h[k] = SetPin(t, seq[k]) BY <1>8, <2>0
    <2> QED BY <2>0, <2>3, <2>4, <2>5
  <1>11. h[N] \in I[N]
    <2> HIDE DEF h, I
    <2> QED BY <1>1, <1>9, <1>10, Chain
  <1>12. {seq[i] : i \in 1..N} = ToSet(seq) BY <1>1 DEF ToSet
  <1>13. h[N] = c[1..N] BY <1>1
  <1>14. I[N] = {t \in PinsType : Applied(t, g0, R \cup {seq[i] : i \in 1..N})} BY <1>1
  <1> HIDE DEF h, I
  <1> QED BY <1>6, <1>11, <1>12, <1>13, <1>14

\* the pins stay pins
LEMMA PinmuxKeeps == ASSUME NEW g \in PinsType, NEW seq \in Seq(Rows), ToSet(seq) \subseteq TableRows
    PROVE module_pinmux(g, seq) \in PinsType
  <1>1. Applied(g, g, {}) BY DEF Applied
  <1> QED BY <1>1, PinmuxSets

\* before the first row
LEMMA NothingApplied == ASSUME NEW g PROVE Applied(g, g, {})
  BY DEF Applied

\* the fold of init_board() spelt out
LEMMA BoardFold ==
    ASSUME NEW g
    PROVE  init_board(g) =
             (CHOOSE iter : iter = [d \in SUBSET DOMAIN PinTable |->
                 IF d = {} THEN g ELSE module_pinmux(iter[d \ {Max(d)}], PinTable[Max(d)])])[DOMAIN PinTable]
  BY DEF init_board, FoldLeft, MapThenFoldSet

\* the rows of every module of the board
LEMMA BoardSets ==
    ASSUME NEW g \in PinsType
    PROVE  init_board(g) \in PinsType /\ Applied(init_board(g), g, TableRows)
  <1> DEFINE N == Len(PinTable)
             F == [i \in 1..N |-> [t \in PinsType |-> module_pinmux(t, PinTable[i])]]
             Raw(c) == c = [d \in SUBSET DOMAIN PinTable |->
                              IF d = {} THEN g ELSE module_pinmux(c[d \ {Max(d)}], PinTable[Max(d)])]
             c == CHOOSE iter : Raw(iter)
  <1>1. /\ DOMAIN PinTable = 1..N /\ N \in Nat
        /\ \A i \in 1..N : PinTable[i] \in Seq(Rows) /\ ToSet(PinTable[i]) \subseteq TableRows
    BY PinsAssumption DEF TableRows, Rows
  <1>2. \A i \in 1..N : F[i] = [t \in PinsType |-> module_pinmux(t, PinTable[i])] OBVIOUS
  <1>3. F \in [1..N -> [PinsType -> PinsType]]
    <2>1. \A i \in 1..N : F[i] \in [PinsType -> PinsType] BY <1>1, PinmuxKeeps
    <2> QED BY <2>1
  <1>4. \E iter : Raw(iter)
    <2> HIDE DEF F, N
    <2>1. PICK it \in [SUBSET (1..N) -> PinsType] : Unfolds(it, g, F, N) BY <1>1, <1>3, FoldDefined
    <2>2. ASSUME NEW d \in SUBSET (1..N)
          PROVE  it[d] = IF d = {} THEN g ELSE module_pinmux(it[d \ {Max(d)}], PinTable[Max(d)])
      <3>1. it[d] = IF d = {} THEN g ELSE F[Max(d)][it[d \ {Max(d)}]] BY <2>1 DEF Unfolds
      <3>2. d # {} => Max(d) \in 1..N BY <1>1, Greatest
      <3>3. d \ {Max(d)} \in SUBSET (1..N) OBVIOUS
      <3>4. it[d \ {Max(d)}] \in PinsType BY <3>3
      <3>5. ASSUME d # {} PROVE F[Max(d)][it[d \ {Max(d)}]] = module_pinmux(it[d \ {Max(d)}], PinTable[Max(d)])
        <4> DEFINE i == Max(d)
                   u == it[d \ {Max(d)}]
        <4>1. i \in 1..N /\ u \in PinsType BY <3>2, <3>4, <3>5
        <4> HIDE DEF i, u
        <4> QED BY <1>2, <4>1 DEF i, u
      <3> QED BY <3>1, <3>5
    <2>3. it = [d \in SUBSET (1..N) |-> it[d]] OBVIOUS
    <2>4. it = [d \in SUBSET (1..N) |-> IF d = {} THEN g ELSE module_pinmux(it[d \ {Max(d)}], PinTable[Max(d)])]
      BY <2>2, <2>3
    <2>5. Raw(it) BY <1>1, <2>4
    <2> QED BY <2>5
  <1>5. Raw(c) BY <1>4
  <1>6. init_board(g) = c[1..N] BY <1>1, BoardFold
  <1> HIDE DEF c, F, N
  <1>7. c[{}] = g
    <2>1. {} \in SUBSET DOMAIN PinTable OBVIOUS
    <2> QED BY <1>5, <2>1
  <1>8. \A k \in 1..N : c[1..k] = module_pinmux(c[1..(k - 1)], PinTable[k])
    <2> TAKE k \in 1..N
    <2>1. Max(1..k) = k /\ (1..k) \ {k} = 1..(k - 1) /\ 1..k \in SUBSET (1..N) /\ 1..k # {} BY <1>1, FoldChain
    <2>2. 1..k \in SUBSET DOMAIN PinTable BY <1>1, <2>1
    <2>3. \A d \in SUBSET DOMAIN PinTable  :
            d # {} => c[d] = module_pinmux(c[d \ {Max(d)}], PinTable[Max(d)])
      BY <1>5
    <2>4. c[1..k] = module_pinmux(c[(1..k) \ {Max(1..k)}], PinTable[Max(1..k)]) BY <2>1, <2>2, <2>3
    <2> QED BY <2>1, <2>4
  <1> HIDE DEF Raw
  <1> DEFINE h == [k \in 0..N |-> c[1..k]]
             I == [k \in 0..N |-> {t \in PinsType : Applied(t, g, UNION {ToSet(PinTable[i]) : i \in 1..k})}]
  <1>9. h[0] \in I[0]
    <2>1. 1..0 = {} /\ UNION {ToSet(PinTable[i]) : i \in 1..0} = {} OBVIOUS
    <2>2. g \in {t \in PinsType : Applied(t, g, UNION {ToSet(PinTable[i]) : i \in 1..0})}
      BY <2>1, NothingApplied
    <2>3. 0 \in 0..N BY <1>1
    <2>4. h[0] = g BY <1>7, <2>1, <2>3
    <2> QED BY <2>2, <2>3, <2>4
  <1>10. ASSUME NEW k \in 1..N, h[k - 1] \in I[k - 1] PROVE h[k] \in I[k]
    <2>0. k \in Nat /\ k \in 0..N /\ k - 1 \in 0..N BY <1>1
    <2> DEFINE t == c[1..(k - 1)]
               Q == UNION {ToSet(PinTable[i]) : i \in 1..(k - 1)}
    <2>1. t \in PinsType /\ Applied(t, g, Q) BY <1>10, <2>0
    <2>2. Q \in SUBSET TableRows
      <3>1. \A i \in 1..(k - 1) : i \in 1..N BY <1>1
      <3> QED BY <1>1, <3>1
    <2>3. /\ module_pinmux(t, PinTable[k]) \in PinsType
          /\ Applied(module_pinmux(t, PinTable[k]), g, Q \cup ToSet(PinTable[k]))
      <3> HIDE DEF t, Q
      <3> QED BY <1>1, <2>1, <2>2, PinmuxSets
    <2>4. Q \cup ToSet(PinTable[k]) = UNION {ToSet(PinTable[i]) : i \in 1..k}
      <3>1. 1..k = (1..(k - 1)) \cup {k} BY <2>0
      <3> QED BY <3>1
    <2>5. h[k] = module_pinmux(t, PinTable[k]) BY <1>8, <2>0
    <2> QED BY <2>0, <2>3, <2>4, <2>5
  <1>11. h[N] \in I[N]
    <2> HIDE DEF h, I
    <2> QED BY <1>1, <1>9, <1>10, Chain
  <1>12. UNION {ToSet(PinTable[i]) : i \in 1..N} = TableRows BY <1>1 DEF TableRows
  <1>13. h[N] = c[1..N] BY <1>1
  <1>14. I[N] = {t \in PinsType : Applied(t, g, UNION {ToSet(PinTable[i]) : i \in 1..N})} BY <1>1
  <1> HIDE DEF h, I
  <1> QED BY <1>6, <1>11, <1>12, <1>13, <1>14

\* init_board() leaves every pin as the table says, the others as the firmware left them
LEMMA BoardAsTable == init_board(FirmwarePins) = AsTable(FirmwarePins) /\ AsTable(FirmwarePins) \in PinsType
  <1> DEFINE g0 == FirmwarePins
             row(p) == CHOOSE x \in TableRows : x.pin = p
             named == {x.pin : x \in TableRows}
             fs == [p \in GpioPins |-> IF p \in named THEN row(p).fsel ELSE g0.fsel[p]]
             pu == [p \in GpioPins |-> IF p \in named THEN row(p).pull ELSE g0.pull[p]]
             ou == [p \in GpioPins |-> IF p \in named /\ row(p).fsel = FUNC_OP THEN row(p).lvl ELSE g0.out[p]]
             r == init_board(g0)
  <1>1. g0 \in PinsType
    <2>1. /\ [p \in GpioPins |-> FUNC_IP] \in [GpioPins -> 0..7] /\ [p \in GpioPins |-> 2] \in [GpioPins -> 0..2]
          /\ [p \in GpioPins |-> 0] \in [GpioPins -> 0..1]
      BY DEF FUNC_IP
    <2> QED BY <2>1 DEF FirmwarePins, PinsType
  <1>2. r \in PinsType /\ Applied(r, g0, TableRows) BY <1>1, BoardSets
  <1>3. AsTable(g0) = [fsel |-> fs, pull |-> pu, out |-> ou] BY DEF AsTable
  <1>4. \A p \in named : row(p) \in TableRows /\ row(p).pin = p OBVIOUS
  <1>5. \A p \in GpioPins : p \notin named => \A x \in TableRows : x.pin # p OBVIOUS
  <1> HIDE DEF row, named, r, g0
  <1>6. ASSUME NEW p \in GpioPins PROVE fs[p] = r.fsel[p] /\ pu[p] = r.pull[p] /\ ou[p] = r.out[p]
    <2>1. CASE p \in named BY <1>2, <1>4, <2>1 DEF Applied
    <2>2. CASE p \notin named BY <1>2, <1>5, <2>2 DEF Applied
    <2> QED BY <2>1, <2>2
  <1>7. /\ r.fsel = [p \in GpioPins |-> r.fsel[p]] /\ r.pull = [p \in GpioPins |-> r.pull[p]]
        /\ r.out = [p \in GpioPins |-> r.out[p]] /\ r = [fsel |-> r.fsel, pull |-> r.pull, out |-> r.out]
    BY <1>2 DEF PinsType
  <1>8. fs = r.fsel /\ pu = r.pull /\ ou = r.out BY <1>6, <1>7
  <1> HIDE DEF fs, pu, ou
  <1> QED BY <1>2, <1>3, <1>7, <1>8 DEF g0, r

(***************************************************************************)
(* The pins: one command of the utility.                                   *)
(***************************************************************************)
\* the function pin p has when the command f has got to it, and why f stops there
Func(g, f, p) == IF f.fsel = UNSET THEN g.fsel[p] ELSE f.fsel
Bad(g, f, p) == f.drive # UNSET /\ Func(g, f, p) # FUNC_OP
\* the command gets to pin p, and past its function
Reaches(g, f, p) == \A q \in f.pins : Bad(g, f, q) => p <= q
Passes(g, f, p) == \A q \in f.pins : Bad(g, f, q) => p < q
Agree(g, w, p) == g.fsel[p] = w.fsel[p] /\ g.pull[p] = w.pull[p] /\ g.out[p] = w.out[p]
\* w is, at pin p, what f is to make of g
Wanted(g, w, f, p) ==
    /\ w.fsel[p] = IF Reaches(g, f, p) THEN Func(g, f, p) ELSE g.fsel[p]
    /\ w.pull[p] = IF Passes(g, f, p) /\ f.pull # UNSET THEN PullBits(f.pull) ELSE g.pull[p]
    /\ w.out[p] = IF Passes(g, f, p) /\ f.drive # UNSET THEN f.drive ELSE g.out[p]

\* Min, for the pins of a command
LEMMA LeastPin ==
    ASSUME NEW d \in SUBSET GpioPins, d # {}
    PROVE  Min(d) \in d /\ \A p \in d : Min(d) <= p
  <1>1. d \in SUBSET Nat BY PinsAssumption DEF GpioPins
  <1>2. PICK m \in d : \A k \in d : m <= k BY <1>1, Smallest
  <1> QED BY <1>2 DEF Min

\* the pulls of the command line are pulls of the register
LEMMA PullBitsTyped == \A v \in 0..2 : PullBits(v) \in 0..2
  <1> TAKE v \in 0..2
  <1>1. v = 0 \/ v = 1 \/ v = 2 OBVIOUS
  <1> QED BY <1>1 DEF PullBits

\* AsAsked, pin by pin
LEMMA AskedIs ==
    ASSUME NEW g \in PinsType, NEW f \in Commands, GPIO_MAX \notin f.pins
    PROVE  /\ AsAsked(g, f) \in PinsType
           /\ \A p \in f.pins : Wanted(g, AsAsked(g, f), f, p)
           /\ \A p \in GpioPins \ f.pins : Agree(g, AsAsked(g, f), p)
  <1> DEFINE func(p) == IF f.fsel = UNSET THEN g.fsel[p] ELSE f.fsel
             bad == {p \in f.pins : f.drive # UNSET /\ func(p) # FUNC_OP}
             stop == IF bad = {} THEN GPIO_MAX + 1 ELSE Min(bad)
             all(p) == p \in f.pins /\ p < stop
             fs == [p \in GpioPins |-> IF all(p) \/ p \in f.pins \cap {stop} THEN func(p) ELSE g.fsel[p]]
             pu == [p \in GpioPins |-> IF all(p) /\ f.pull # UNSET THEN PullBits(f.pull) ELSE g.pull[p]]
             ou == [p \in GpioPins |-> IF all(p) /\ f.drive # UNSET THEN f.drive ELSE g.out[p]]
             w == [fsel |-> fs, pull |-> pu, out |-> ou]
  <1>1. AsAsked(g, f) = w BY DEF AsAsked
  <1>2. /\ f.pins \in SUBSET GpioPins /\ f.fsel \in {UNSET} \cup 0..7 /\ f.drive \in {UNSET, 0, 1}
        /\ f.pull \in {UNSET} \cup 0..2
    BY DEF Commands
  <1>g. g.fsel \in [GpioPins -> 0..7] /\ g.pull \in [GpioPins -> 0..2] /\ g.out \in [GpioPins -> 0..1]
    BY DEF PinsType
  <1>f. \A p \in GpioPins : func(p) \in 0..7 BY <1>2, <1>g
  <1>3. \A p \in GpioPins : func(p) = Func(g, f, p) BY DEF Func
  <1>4. \A p \in f.pins : p \in bad <=> Bad(g, f, p) BY <1>2, <1>3 DEF Bad
  <1>b. bad \in SUBSET GpioPins BY <1>2
  <1> HIDE DEF func, bad
  <1>5. ASSUME NEW p \in f.pins
        PROVE  /\ (all(p) <=> Passes(g, f, p))
               /\ (all(p) \/ p \in f.pins \cap {stop}) <=> Reaches(g, f, p)
    <2>0. p \in Int /\ p <= GPIO_MAX /\ GPIO_MAX \in Nat BY <1>2, PinsAssumption DEF GpioPins
    <2>1. CASE bad = {}
      <3>1. \A q \in f.pins : ~Bad(g, f, q) BY <1>4, <2>1
      <3>2. all(p) BY <2>0, <2>1
      <3> QED BY <3>1, <3>2 DEF Passes, Reaches
    <2>2. CASE bad # {}
      <3>1. stop \in bad /\ \A q \in bad : stop <= q BY <1>b, <2>2, LeastPin
      <3>2. bad \subseteq f.pins BY DEF bad
      <3>3. \A q \in f.pins : q \in Int BY <1>2, PinsAssumption DEF GpioPins
      <3> HIDE DEF stop
      <3>4. Passes(g, f, p) <=> p < stop BY <1>4, <2>0, <3>1, <3>2, <3>3 DEF Passes
      <3>5. Reaches(g, f, p) <=> p <= stop BY <1>4, <2>0, <3>1, <3>2, <3>3 DEF Reaches
      <3>6. p <= stop <=> (p < stop \/ p = stop) BY <2>0, <3>1, <3>2, <3>3
      <3> QED BY <3>4, <3>5, <3>6
    <2> QED BY <2>1, <2>2
  <1>6. \A p \in GpioPins : p \notin f.pins => ~all(p) /\ p \notin f.pins \cap {stop} OBVIOUS
  <1>7. \A p \in GpioPins :
          /\ fs[p] = IF all(p) \/ p \in f.pins \cap {stop} THEN func(p) ELSE g.fsel[p]
          /\ pu[p] = IF all(p) /\ f.pull # UNSET THEN PullBits(f.pull) ELSE g.pull[p]
          /\ ou[p] = IF all(p) /\ f.drive # UNSET THEN f.drive ELSE g.out[p]
    OBVIOUS
  <1>8. fs \in [GpioPins -> 0..7] BY <1>f, <1>g
  <1>9. pu \in [GpioPins -> 0..2]
    <2>1. f.pull # UNSET => PullBits(f.pull) \in 0..2 BY <1>2, PullBitsTyped
    <2> QED BY <2>1, <1>g
  <1>10. ou \in [GpioPins -> 0..1]
    <2>1. f.drive # UNSET => f.drive \in 0..1 BY <1>2
    <2> QED BY <2>1, <1>g
  <1> HIDE DEF all, stop
  <1>11. w \in PinsType
    <2> HIDE DEF fs, pu, ou
    <2> QED BY <1>8, <1>9, <1>10 DEF PinsType
  <1>12. w.fsel = fs /\ w.pull = pu /\ w.out = ou OBVIOUS
  <1> HIDE DEF w, fs, pu, ou
  <1>13. \A p \in f.pins : Wanted(g, w, f, p)
    BY <1>2, <1>3, <1>5, <1>7, <1>12 DEF Wanted
  <1>14. \A p \in GpioPins \ f.pins : Agree(g, w, p)
    BY <1>6, <1>7, <1>12 DEF Agree
  <1> QED BY <1>1, <1>11, <1>13, <1>14

InHand == {"fsel", "wfsel", "drive", "pull", "wpull"}
\* the command u, under way on g, is to make w of it
Under(g, w, u) ==
    /\ DOMAIN u = {"at", "f", "pin", "val"} /\ u.at \in InHand
    /\ u.f \in Commands /\ GPIO_MAX \notin u.f.pins /\ u.pin \in u.f.pins
    /\ \A p \in u.f.pins : Wanted(g, w, u.f, p)
    /\ \A p \in u.f.pins : p < u.pin => Agree(g, w, p)
    /\ Reaches(g, u.f, u.pin)
    /\ u.at \in {"drive", "pull", "wpull"} => g.fsel[u.pin] = w.fsel[u.pin]
    /\ u.at \in {"pull", "wpull"} => Passes(g, u.f, u.pin) /\ g.out[u.pin] = w.out[u.pin]
    /\ u.at = "wfsel" => u.f.fsel # UNSET /\ u.val = Fields(g.fsel, FselReg(u.pin))
    /\ u.at = "wpull" => u.f.pull # UNSET /\ u.val = Fields(g.pull, PullReg(u.pin))

\* what is asked of a command only depends on its own pins
LEMMA AskedLocal ==
    ASSUME NEW g, NEW h, NEW w, NEW v, NEW f, NEW p \in f.pins,
           \A q \in f.pins : Agree(g, h, q), \A q \in f.pins : Agree(w, v, q)
    PROVE  /\ Reaches(g, f, p) <=> Reaches(h, f, p)
           /\ Passes(g, f, p) <=> Passes(h, f, p)
           /\ Wanted(g, w, f, p) <=> Wanted(h, v, f, p)
  <1>1. \A q \in f.pins : Func(g, f, q) = Func(h, f, q) BY DEF Func, Agree
  <1>2. \A q \in f.pins : Bad(g, f, q) <=> Bad(h, f, q) BY <1>1 DEF Bad
  <1>3. Reaches(g, f, p) <=> Reaches(h, f, p) BY <1>2 DEF Reaches
  <1>4. Passes(g, f, p) <=> Passes(h, f, p) BY <1>2 DEF Passes
  <1> QED BY <1>1, <1>3, <1>4 DEF Wanted, Agree

\* a register write that only changes the field of pin p
Replaced(y, V, x, p, v) == y \in [GpioPins -> V] /\ y[p] = v /\ \A q \in GpioPins : q # p => y[q] = x[q]

\* a read and a write of a register with nothing in between change one field
LEMMA PutOwn ==
    ASSUME NEW V, NEW x \in [GpioPins -> V], NEW p \in GpioPins, NEW reg, NEW v \in V
    PROVE  Replaced(Put(x, reg, Fields(x, reg), p, v), V, x, p, v)
  BY DEF Put, Fields, Replaced

\* the command reaches its next pin, or its end
LEMMA NextPinIs ==
    ASSUME NEW g, NEW w, NEW u, Under(g, w, u), u.at \in {"pull", "wpull"}, Agree(g, w, u.pin)
    PROVE  \/ Under(g, w, NextPin(u)) /\ NextPin(u).f = u.f
           \/ NextPin(u).at = "done" /\ \A p \in u.f.pins : Agree(g, w, p)
  <1>1. u.f.pins \in SUBSET GpioPins /\ \A p \in u.f.pins : p \in Int
    BY PinsAssumption DEF Under, Commands, GpioPins
  <1>2. \A p \in u.f.pins : p <= u.pin => Agree(g, w, p)
    BY <1>1 DEF Under
  <1> DEFINE more == {p \in u.f.pins : p > u.pin}
  <1>d. DOMAIN u = {"at", "f", "pin", "val"} /\ u.pin \in u.f.pins BY DEF Under
  <1>3. CASE more = {}
    <2>1. NextPin(u) = [u EXCEPT !.at = "done"] BY <1>3 DEF NextPin
    <2>2. NextPin(u).at = "done" BY <1>d, <2>1
    <2>3. \A p \in u.f.pins : p <= u.pin BY <1>1, <1>3, <1>d
    <2> QED BY <1>2, <2>2, <2>3
  <1>4. CASE more # {}
    <2> DEFINE m == Min(more)
               n == NextPin(u)
    <2>1. m \in more /\ \A p \in more : m <= p BY <1>1, <1>4, LeastPin
    <2>2. n = [u EXCEPT !.at = "fsel", !.pin = m] BY <1>4 DEF NextPin
    <2> HIDE DEF m, n
    <2>3. n.at = "fsel" /\ n.pin = m /\ n.f = u.f /\ DOMAIN n = {"at", "f", "pin", "val"}
      BY <1>d, <2>2
    <2>4. m \in u.f.pins /\ u.pin < m BY <2>1
    <2>5. \A p \in u.f.pins : p < m => p <= u.pin
      <3>1. \A p \in u.f.pins : p > u.pin => m <= p BY <2>1
      <3> QED BY <1>1, <1>d, <2>4, <3>1
    <2>6. Reaches(g, u.f, m)
      <3>1. \A q \in u.f.pins : Bad(g, u.f, q) => u.pin < q BY DEF Under, Passes
      <3>2. \A q \in u.f.pins : Bad(g, u.f, q) => q \in more BY <1>1, <3>1
      <3> QED BY <2>1, <3>2 DEF Reaches
    <2>7. Under(g, w, n)
      BY <1>2, <2>3, <2>4, <2>5, <2>6 DEF Under, InHand
    <2> QED BY <2>3, <2>7 DEF n
  <1> QED BY <1>3, <1>4

\* a step of the command: it goes on, or it has done what it was to do
Goes(g, w, u, r) ==
    /\ r.gp \in PinsType
    /\ \A p \in GpioPins : p # u.pin => Agree(g, r.gp, p)
    /\ r.gp.fsel # g.fsel => u.f.fsel # UNSET
    /\ r.gp.pull # g.pull => u.f.pull # UNSET
    /\ \/ Under(r.gp, w, r.u) /\ r.u.f = u.f
       \/ r.u.at \in {"done", "failed"} /\ \A p \in u.f.pins : Agree(r.gp, w, p)

\* each of the five steps of a command, on registers that nobody else has written since its read
LEMMA CommandStep ==
    ASSUME NEW g \in PinsType, NEW w \in PinsType, NEW u, Under(g, w, u)
    PROVE  Goes(g, w, u, gpio_set(g, u))
  <1> DEFINE r == gpio_set(g, u)
             f == u.f
             p == u.pin
  <1>1. /\ f.pins \in SUBSET GpioPins /\ f.fsel \in {UNSET} \cup 0..7 /\ f.drive \in {UNSET, 0, 1}
        /\ f.pull \in {UNSET} \cup 0..2 /\ p \in GpioPins /\ p \in f.pins
    BY DEF Under, Commands
  <1>2. \A q \in GpioPins : q \in Int BY PinsAssumption DEF GpioPins
  <1>g. /\ g.fsel \in [GpioPins -> 0..7] /\ g.pull \in [GpioPins -> 0..2] /\ g.out \in [GpioPins -> 0..1]
        /\ g = [fsel |-> g.fsel, pull |-> g.pull, out |-> g.out]
    BY DEF PinsType
  <1>d. DOMAIN u = {"at", "f", "pin", "val"} BY DEF Under
  <1>s. \A q \in GpioPins : Agree(g, g, q) BY DEF Agree
  <1>a. Wanted(g, w, f, p) /\ Reaches(g, f, p) BY DEF Under
  <1>3. CASE u.at = "fsel"
    <2>1. r = [gp |-> g, u |-> ReadFsel(g, u)] BY <1>3 DEF gpio_set
    <2>2. r.gp = g /\ r.u = ReadFsel(g, u) BY <2>1
    <2> DEFINE n == ReadFsel(g, u)
    <2>3. CASE f.fsel = UNSET
      <3>1. n = [u EXCEPT !.at = "drive"] BY <2>3 DEF ReadFsel
      <3>2. n.at = "drive" /\ n.f = f /\ n.pin = p /\ DOMAIN n = DOMAIN u BY <1>d, <3>1
      <3>3. g.fsel[p] = w.fsel[p] BY <1>a, <2>3 DEF Wanted, Func
      <3> HIDE DEF n
      <3>4. Under(g, w, n) BY <3>2, <3>3 DEF Under, InHand
      <3> QED BY <1>s, <2>2, <3>2, <3>4 DEF Goes, n
    <2>4. CASE f.fsel # UNSET
      <3> DEFINE v == Fields(g.fsel, FselReg(p))
      <3>1. n = [u EXCEPT !.at = "wfsel", !.val = v] BY <2>4 DEF ReadFsel
      <3> HIDE DEF v
      <3>2. n.at = "wfsel" /\ n.f = f /\ n.pin = p /\ n.val = v /\ DOMAIN n = DOMAIN u BY <1>d, <3>1
      <3> HIDE DEF n
      <3>4. Under(g, w, n) BY <2>4, <3>2 DEF Under, InHand, v
      <3> QED BY <1>s, <2>2, <3>2, <3>4 DEF Goes, n
    <2> QED BY <2>3, <2>4
  <1>4. CASE u.at = "wfsel"
    <2> DEFINE x == Put(g.fsel, FselReg(p), Fields(g.fsel, FselReg(p)), p, f.fsel)
               h == [g EXCEPT !.fsel = x]
               n == [u EXCEPT !.at = "drive"]
    <2>1. f.fsel # UNSET /\ u.val = Fields(g.fsel, FselReg(p)) BY <1>4 DEF Under
    <2>2. f.fsel \in 0..7 BY <1>1, <2>1
    <2>3. x \in [GpioPins -> 0..7] /\ x[p] = f.fsel /\ \A q \in GpioPins : q # p => x[q] = g.fsel[q]
      <3>1. Replaced(x, 0..7, g.fsel, p, f.fsel) BY <1>1, <1>g, <2>2, PutOwn, Zenon
      <3> QED BY <3>1 DEF Replaced
    <2>4. r = [gp |-> h, u |-> n] BY <1>4, <2>1 DEF gpio_set, set_gpio_fsel
    <2> HIDE DEF x
    <2>5. h.fsel = x /\ h.pull = g.pull /\ h.out = g.out /\ h = [fsel |-> x, pull |-> g.pull, out |-> g.out]
      <3>1. [[fsel |-> g.fsel, pull |-> g.pull, out |-> g.out] EXCEPT !.fsel = x]
              = [fsel |-> x, pull |-> g.pull, out |-> g.out] OBVIOUS
      <3>2. h = [fsel |-> x, pull |-> g.pull, out |-> g.out] BY <1>g, <3>1, Zenon
      <3> HIDE DEF h
      <3> QED BY <3>2
    <2>6. n.at = "drive" /\ n.f = f /\ n.pin = p /\ DOMAIN n = DOMAIN u BY <1>d
    <2>7. r.gp = h /\ r.u = n BY <2>4
    <2> HIDE DEF r, h, n
    <2>8. h \in PinsType BY <1>g, <2>3, <2>5 DEF PinsType
    <2>9. \A q \in GpioPins : q # p => Agree(g, h, q) BY <2>3, <2>5 DEF Agree
    <2>10. \A q \in f.pins : Func(h, f, q) = Func(g, f, q) BY <2>1 DEF Func
    <2>11. \A q \in f.pins : Bad(h, f, q) <=> Bad(g, f, q) BY <2>10 DEF Bad
    <2>12. \A q \in f.pins : (Reaches(h, f, q) <=> Reaches(g, f, q)) /\ (Passes(h, f, q) <=> Passes(g, f, q))
      BY <2>11 DEF Reaches, Passes
    <2>13. w.fsel[p] = f.fsel BY <1>a, <2>1 DEF Wanted, Func
    <2>14. Wanted(h, w, f, p)
      BY <1>a, <2>1, <2>3, <2>5, <2>10, <2>12, <1>1 DEF Wanted, Func
    <2>15. \A q \in f.pins : Wanted(h, w, f, q)
      <3>1. \A q \in f.pins : q # p => (Wanted(g, w, f, q) /\ Agree(g, h, q)) BY <1>1, <2>9 DEF Under
      <3>2. \A q \in f.pins : q # p => Wanted(h, w, f, q)
        BY <2>10, <2>12, <3>1 DEF Wanted, Agree
      <3> QED BY <2>14, <3>2
    <2>16. \A q \in f.pins : q < p => Agree(h, w, q)
      <3>1. \A q \in f.pins : q < p => (q # p /\ Agree(g, w, q)) BY <1>1, <1>2 DEF Under
      <3> QED BY <1>1, <2>9, <3>1 DEF Agree
    <2>17. Under(h, w, n)
      BY <1>a, <1>d, <2>3, <2>5, <2>6, <2>12, <2>13, <2>15, <2>16, <1>1 DEF Under, InHand
    <2> QED BY <2>1, <2>5, <2>6, <2>7, <2>8, <2>9, <2>17 DEF Goes, r
  <1>5. CASE u.at = "drive"
    <2>0. g.fsel[p] = Func(g, f, p)
      <3>1. w.fsel[p] = Func(g, f, p) BY <1>a DEF Wanted
      <3>2. g.fsel[p] = w.fsel[p] BY <1>5 DEF Under
      <3> QED BY <3>1, <3>2
    <2>1. CASE ~Drives(g, u)
      <3> DEFINE n == [u EXCEPT !.at = "failed"]
      <3>1. r = [gp |-> g, u |-> n] BY <1>5, <2>1 DEF gpio_set
      <3>2. r.gp = g /\ r.u = n /\ n.at = "failed" BY <1>d, <3>1
      <3> HIDE DEF r, n
      <3>3. Bad(g, f, p) BY <2>0, <2>1 DEF Bad, Drives
      <3>4. ASSUME NEW q \in f.pins PROVE Agree(g, w, q)
        <4>1. CASE q < p BY <4>1 DEF Under
        <4>2. CASE q = p
          <5>1. ~Passes(g, f, p) BY <1>1, <1>2, <3>3 DEF Passes
          <5>2. g.fsel[p] = w.fsel[p] BY <1>5 DEF Under
          <5> QED BY <1>a, <4>2, <5>1, <5>2 DEF Wanted, Agree
        <4>3. CASE p < q
          <5>1. ~Reaches(g, f, q) BY <1>1, <1>2, <3>3, <4>3 DEF Reaches
          <5>2. ~Passes(g, f, q) BY <1>1, <1>2, <3>3, <4>3 DEF Passes
          <5>3. Wanted(g, w, f, q) BY DEF Under
          <5> QED BY <5>1, <5>2, <5>3 DEF Wanted, Agree
        <4> QED BY <1>1, <1>2, <4>1, <4>2, <4>3
      <3> QED BY <1>s, <3>2, <3>4 DEF Goes, r
    <2>2. CASE Drives(g, u)
      <3> DEFINE h == set_gpio_value(g, u)
                 n == [u EXCEPT !.at = "pull"]
      <3>1. r.gp = h /\ r.u = n BY <1>5, <2>2 DEF gpio_set
      <3>2. n.at = "pull" /\ n.f = f /\ n.pin = p /\ DOMAIN n = DOMAIN u BY <1>d
      <3> DEFINE x == IF f.drive = UNSET THEN g.out ELSE [g.out EXCEPT ![p] = f.drive]
      <3>3. x \in [GpioPins -> 0..1] /\ \A q \in GpioPins : q # p => x[q] = g.out[q]
        <4>1. f.drive # UNSET => f.drive \in 0..1 BY <1>1
        <4> QED BY <1>1, <1>g, <4>1
      <3>4. x[p] = IF f.drive = UNSET THEN g.out[p] ELSE f.drive BY <1>1, <1>g
      <3>5. h = [fsel |-> g.fsel, pull |-> g.pull, out |-> x]
        <4> DEFINE y == [g.out EXCEPT ![p] = f.drive]
        <4>1. f.drive # UNSET => h = [g EXCEPT !.out = y] BY DEF set_gpio_value
        <4> HIDE DEF y
        <4>2. [[fsel |-> g.fsel, pull |-> g.pull, out |-> g.out] EXCEPT !.out = y]
                = [fsel |-> g.fsel, pull |-> g.pull, out |-> y] OBVIOUS
        <4>3. [g EXCEPT !.out = y] = [fsel |-> g.fsel, pull |-> g.pull, out |-> y] BY <1>g, <4>2, Zenon
        <4>4. f.drive # UNSET => x = y BY DEF y
        <4>5. f.drive = UNSET => (h = g /\ x = g.out) BY DEF set_gpio_value
        <4> HIDE DEF h, x
        <4> QED BY <1>g, <4>1, <4>3, <4>4, <4>5
      <3>6. h.fsel = g.fsel /\ h.pull = g.pull /\ h.out = x BY <3>5
      <3> HIDE DEF x, h, n, r
      <3>7. h \in PinsType BY <1>g, <3>3, <3>5 DEF PinsType
      <3>8. \A q \in GpioPins : q # p => Agree(g, h, q) BY <3>3, <3>6 DEF Agree
      <3>9. \A q \in f.pins : Func(h, f, q) = Func(g, f, q) BY <3>6 DEF Func
      <3>10. \A q \in f.pins : Bad(h, f, q) <=> Bad(g, f, q) BY <3>9 DEF Bad
      <3>11. \A q \in f.pins : (Reaches(h, f, q) <=> Reaches(g, f, q)) /\ (Passes(h, f, q) <=> Passes(g, f, q))
        BY <3>10 DEF Reaches, Passes
      <3>12. ~Bad(g, f, p) BY <2>0, <2>2 DEF Bad, Drives
      <3>13. Passes(g, f, p)
        <4>1. \A q \in f.pins : Bad(g, f, q) => p <= q /\ p # q BY <1>a, <3>12 DEF Reaches
        <4> QED BY <1>1, <1>2, <4>1 DEF Passes
      <3>14. w.out[p] = x[p] BY <1>a, <3>4, <3>13 DEF Wanted
      <3>15. Wanted(h, w, f, p) BY <1>1, <1>a, <3>4, <3>6, <3>9, <3>11, <3>13 DEF Wanted
      <3>16. \A q \in f.pins : Wanted(h, w, f, q)
        <4>1. \A q \in f.pins : q # p => (Wanted(g, w, f, q) /\ Agree(g, h, q)) BY <1>1, <3>8 DEF Under
        <4>2. \A q \in f.pins : q # p => Wanted(h, w, f, q) BY <3>9, <3>11, <4>1 DEF Wanted, Agree
        <4> QED BY <3>15, <4>2
      <3>17. \A q \in f.pins : q < p => Agree(h, w, q)
        <4>1. \A q \in f.pins : q < p => (q # p /\ Agree(g, w, q)) BY <1>1, <1>2 DEF Under
        <4> QED BY <1>1, <3>8, <4>1 DEF Agree
      <3>18. Under(h, w, n)
        BY <1>a, <1>5, <3>2, <3>6, <3>11, <3>13, <3>14, <3>16, <3>17, <1>1 DEF Under, InHand
      <3> QED BY <3>1, <3>2, <3>6, <3>7, <3>8, <3>18 DEF Goes, r
    <2> QED BY <2>1, <2>2
  <1>6. CASE u.at = "pull"
    <2>1. r = [gp |-> g, u |-> ReadPull(g, u)] BY <1>6 DEF gpio_set
    <2>2. r.gp = g /\ r.u = ReadPull(g, u) BY <2>1
    <2>3. CASE f.pull = UNSET
      <3>1. ReadPull(g, u) = NextPin(u) BY <2>3 DEF ReadPull
      <3>2. Agree(g, w, p)
        <4>1. g.fsel[p] = w.fsel[p] /\ g.out[p] = w.out[p] BY <1>6 DEF Under
        <4> QED BY <1>a, <2>3, <4>1 DEF Wanted, Agree
      <3>3. \/ Under(g, w, NextPin(u)) /\ NextPin(u).f = f
            \/ NextPin(u).at = "done" /\ \A q \in f.pins : Agree(g, w, q)
        BY <1>6, <3>2, NextPinIs
      <3> HIDE DEF r
      <3> QED BY <1>s, <2>2, <3>1, <3>3 DEF Goes, r
    <2>4. CASE f.pull # UNSET
      <3> DEFINE v == Fields(g.pull, PullReg(p))
                 n == ReadPull(g, u)
      <3>1. n = [u EXCEPT !.at = "wpull", !.val = v] BY <2>4 DEF ReadPull
      <3> HIDE DEF v
      <3>2. n.at = "wpull" /\ n.f = f /\ n.pin = p /\ n.val = v /\ DOMAIN n = DOMAIN u BY <1>d, <3>1
      <3> HIDE DEF n
      <3>4. Under(g, w, n) BY <1>6, <2>4, <3>2 DEF Under, InHand, v
      <3> QED BY <1>s, <2>2, <3>2, <3>4 DEF Goes, n
    <2> QED BY <2>3, <2>4
  <1>7. CASE u.at = "wpull"
    <2> DEFINE bits == PullBits(f.pull)
               x == Put(g.pull, PullReg(p), Fields(g.pull, PullReg(p)), p, bits)
               h == [g EXCEPT !.pull = x]
               m == [u EXCEPT !.at = "pull"]
    <2>1. f.pull # UNSET /\ u.val = Fields(g.pull, PullReg(p)) BY <1>7 DEF Under
    <2>2. bits \in 0..2 BY <1>1, <2>1, PullBitsTyped
    <2>3. x \in [GpioPins -> 0..2] /\ x[p] = bits /\ \A q \in GpioPins : q # p => x[q] = g.pull[q]
      <3> HIDE DEF bits
      <3>1. Replaced(x, 0..2, g.pull, p, bits) BY <1>1, <1>g, <2>2, PutOwn, Zenon
      <3> QED BY <3>1 DEF Replaced
    <2>4. r = [gp |-> h, u |-> NextPin(u)] BY <1>7, <2>1 DEF gpio_set, gpio_set_pull
    <2> HIDE DEF x, bits
    <2>5. h.pull = x /\ h.fsel = g.fsel /\ h.out = g.out /\ h = [fsel |-> g.fsel, pull |-> x, out |-> g.out]
      <3>1. [[fsel |-> g.fsel, pull |-> g.pull, out |-> g.out] EXCEPT !.pull = x]
              = [fsel |-> g.fsel, pull |-> x, out |-> g.out] OBVIOUS
      <3>2. h = [fsel |-> g.fsel, pull |-> x, out |-> g.out] BY <1>g, <3>1, Zenon
      <3> HIDE DEF h
      <3> QED BY <3>2
    <2>6. r.gp = h /\ r.u = NextPin(u) BY <2>4
    <2> HIDE DEF r, h
    <2>7. h \in PinsType BY <1>g, <2>3, <2>5 DEF PinsType
    <2>8. \A q \in GpioPins : q # p => Agree(g, h, q) BY <2>3, <2>5 DEF Agree
    <2>9. \A q \in f.pins : Func(h, f, q) = Func(g, f, q) BY <2>5 DEF Func
    <2>10. \A q \in f.pins : Bad(h, f, q) <=> Bad(g, f, q) BY <2>9 DEF Bad
    <2>11. \A q \in f.pins : (Reaches(h, f, q) <=> Reaches(g, f, q)) /\ (Passes(h, f, q) <=> Passes(g, f, q))
      BY <2>10 DEF Reaches, Passes
    <2>12. Passes(g, f, p) /\ g.fsel[p] = w.fsel[p] /\ g.out[p] = w.out[p] BY <1>7 DEF Under
    <2>13. w.pull[p] = bits BY <1>a, <2>1, <2>12 DEF Wanted, bits
    <2>14. Wanted(h, w, f, p)
      BY <1>1, <1>a, <2>1, <2>3, <2>5, <2>9, <2>11, <2>12, <2>13 DEF Wanted, bits
    <2>15. \A q \in f.pins : Wanted(h, w, f, q)
      <3>1. \A q \in f.pins : q # p => (Wanted(g, w, f, q) /\ Agree(g, h, q)) BY <1>1, <2>8 DEF Under
      <3>2. \A q \in f.pins : q # p => Wanted(h, w, f, q) BY <2>9, <2>11, <3>1 DEF Wanted, Agree
      <3> QED BY <2>14, <3>2
    <2>16. \A q \in f.pins : q < p => Agree(h, w, q)
      <3>1. \A q \in f.pins : q < p => (q # p /\ Agree(g, w, q)) BY <1>1, <1>2 DEF Under
      <3> QED BY <1>1, <2>8, <3>1 DEF Agree
    <2>17. Agree(h, w, p) BY <2>3, <2>5, <2>12, <2>13 DEF Agree
    \* as if it had gone from "pull" on
    <2>18. m.at = "pull" /\ m.f = f /\ m.pin = p /\ DOMAIN m = DOMAIN u BY <1>d
    <2>19. NextPin(u) = NextPin(m)
      <3>1. \A k : [u EXCEPT !.at = "fsel", !.pin = k] = [m EXCEPT !.at = "fsel", !.pin = k] BY <1>d
      <3>2. [u EXCEPT !.at = "done"] = [m EXCEPT !.at = "done"] BY <1>d
      <3> HIDE DEF m
      <3> QED BY <2>18, <3>1, <3>2 DEF NextPin
    <2> HIDE DEF m
    <2>20. Under(h, w, m)
      BY <1>a, <1>7, <2>5, <2>11, <2>12, <2>15, <2>16, <2>18, <1>1 DEF Under, InHand
    <2>21. \/ Under(h, w, NextPin(m)) /\ NextPin(m).f = f
           \/ NextPin(m).at = "done" /\ \A q \in f.pins : Agree(h, w, q)
      BY <2>17, <2>18, <2>20, NextPinIs
    <2> QED BY <2>1, <2>5, <2>6, <2>7, <2>8, <2>19, <2>21 DEF Goes, r
  <1>8. u.at \in InHand BY DEF Under
  <1> QED BY <1>3, <1>4, <1>5, <1>6, <1>7, <1>8 DEF InHand

(***************************************************************************)
(* The pins: commands side by side.                                        *)
(***************************************************************************)
\* a command under way
Busy(i) == gu[i].at \in InHand
\* Unless two commands shared a register: a command under way has its own pins
\* between what they were and what it is to make of them, no two of them share
\* a register, and every other pin is as it should be.
PinsInv ==
    /\ crossed \in BOOLEAN
    /\ crossed \/
         /\ gp \in PinsType /\ want \in PinsType
         /\ gu = [i \in GpioUsers |-> gu[i]]
         /\ pc \in {"_main", "main"} => gp = FirmwarePins /\ want = FirmwarePins
         /\ pc # "tools" => \A i \in GpioUsers : gu[i].at = "none"
         /\ \A i \in GpioUsers : Busy(i) => Under(gp, want, gu[i])
         /\ \A i, j \in GpioUsers : (Busy(i) /\ Busy(j) /\ i # j) => ~Conflict(gu[i].f, gu[j].f)
         /\ \A p \in GpioPins : (\A i \in GpioUsers : Busy(i) => p \notin gu[i].f.pins) => Agree(gp, want, p)

\* the firmware leaves pins
LEMMA FirmwareTyped == FirmwarePins \in PinsType
  <1>1. /\ [p \in GpioPins |-> FUNC_IP] \in [GpioPins -> 0..7] /\ [p \in GpioPins |-> 2] \in [GpioPins -> 0..2]
        /\ [p \in GpioPins |-> 0] \in [GpioPins -> 0..1]
    BY DEF FUNC_IP
  <1> QED BY <1>1 DEF FirmwarePins, PinsType

\* the pins when the power comes
LEMMA PinsAtFirst ==
    (/\ gp = FirmwarePins /\ want = FirmwarePins /\ crossed = FALSE
     /\ gu = [i \in GpioUsers |-> [at |-> "none"]]) => PinsInv
  <1> SUFFICES ASSUME gp = FirmwarePins, want = FirmwarePins, crossed = FALSE,
                      gu = [i \in GpioUsers |-> [at |-> "none"]]
               PROVE  PinsInv
    OBVIOUS
  <1>1. \A i \in GpioUsers : gu[i].at = "none" /\ ~Busy(i)
    <2>1. \A i \in GpioUsers : gu[i] = [at |-> "none"] OBVIOUS
    <2>2. [at |-> "none"].at = "none" OBVIOUS
    <2> QED BY <2>1, <2>2 DEF Busy, InHand
  <1>2. gu = [i \in GpioUsers |-> gu[i]] OBVIOUS
  <1> QED BY <1>1, <1>2, FirmwareTyped DEF PinsInv, Agree

\* at power-on
LEMMA PinsInit == SysInit => PinsInv
  BY PinsAtFirst DEF SysInit

\* a step that leaves the pins alone, and is not the start of the tools
LEMMA PinsKept ==
    ASSUME PinsInv, gp' = gp, want' = want, crossed' = crossed, gu' = gu,
           pc' = pc \/ (pc # "tools" /\ (pc' \in {"_main", "main"} => pc \in {"_main", "main"}))
    PROVE  PinsInv'
  BY DEF PinsInv, Busy

\* what another command does to its pin does not touch a command under way
LEMMA UnderOther ==
    ASSUME NEW g \in PinsType, NEW h \in PinsType, NEW w, NEW v, NEW u, Under(g, w, u),
           \A p \in u.f.pins : Agree(g, h, p), \A p \in u.f.pins : Agree(w, v, p),
           u.at = "wfsel" => \A p \in FselReg(u.pin) : g.fsel[p] = h.fsel[p],
           u.at = "wpull" => \A p \in PullReg(u.pin) : g.pull[p] = h.pull[p]
    PROVE  Under(h, v, u)
  <1>1. \A p \in u.f.pins : /\ Reaches(g, u.f, p) <=> Reaches(h, u.f, p)
                            /\ Passes(g, u.f, p) <=> Passes(h, u.f, p)
                            /\ Wanted(g, w, u.f, p) <=> Wanted(h, v, u.f, p)
    BY AskedLocal
  <1>2. \A p \in u.f.pins : Agree(g, w, p) <=> Agree(h, v, p) BY DEF Agree
  <1>3. u.pin \in u.f.pins BY DEF Under
  <1>4. g.fsel[u.pin] = w.fsel[u.pin] <=> h.fsel[u.pin] = v.fsel[u.pin] BY <1>3 DEF Agree
  <1>5. g.out[u.pin] = w.out[u.pin] <=> h.out[u.pin] = v.out[u.pin] BY <1>3 DEF Agree
  <1>6. u.at = "wfsel" => Fields(g.fsel, FselReg(u.pin)) = Fields(h.fsel, FselReg(u.pin)) BY DEF Fields
  <1>7. u.at = "wpull" => Fields(g.pull, PullReg(u.pin)) = Fields(h.pull, PullReg(u.pin)) BY DEF Fields
  <1> QED BY <1>1, <1>2, <1>3, <1>4, <1>5, <1>6, <1>7 DEF Under

\* two pins share a register, or their registers have no pin in common
LEMMA SameReg ==
    ASSUME NEW p \in GpioPins, NEW q \in GpioPins
    PROVE  /\ q \in FselReg(p) => FselReg(q) = FselReg(p)
           /\ q \in PullReg(p) => PullReg(q) = PullReg(p)
  BY DEF FselReg, PullReg

\* commands with no register in common do not change what the other has read
LEMMA Apart ==
    ASSUME NEW e \in Commands, NEW f \in Commands, ~Conflict(e, f), NEW p \in e.pins, NEW q \in f.pins
    PROVE  /\ e.pins \cap f.pins = {}
           /\ (e.fsel # UNSET /\ f.fsel # UNSET) => q \notin FselReg(p)
           /\ (e.pull # UNSET /\ f.pull # UNSET) => q \notin PullReg(p)
  <1>1. Regs(e) \cap Regs(f) = {} /\ e.pins \cap f.pins = {} BY DEF Conflict
  <1>2. p \in GpioPins /\ q \in GpioPins BY DEF Commands
  <1>3. ASSUME e.fsel # UNSET, f.fsel # UNSET PROVE q \notin FselReg(p)
    <2>1. <<"fsel", FselReg(p)>> \in Regs(e) BY <1>3 DEF Regs
    <2>2. <<"fsel", FselReg(q)>> \in Regs(f) BY <1>3 DEF Regs
    <2>3. FselReg(p) # FselReg(q) BY <1>1, <2>1, <2>2
    <2> QED BY <1>2, <2>3, SameReg
  <1>4. ASSUME e.pull # UNSET, f.pull # UNSET PROVE q \notin PullReg(p)
    <2>1. <<"pull", PullReg(p)>> \in Regs(e) BY <1>4 DEF Regs
    <2>2. <<"pull", PullReg(q)>> \in Regs(f) BY <1>4 DEF Regs
    <2>3. PullReg(p) # PullReg(q) BY <1>1, <2>1, <2>2
    <2> QED BY <1>2, <2>3, SameReg
  <1> QED BY <1>1, <1>3, <1>4

\* a step of one command: it does what it is to do, and the others still have what they read
LEMMA PinsStep == ASSUME PinsInv, NEW i \in GpioUsers, GpioStep(i) PROVE PinsInv'
  <1> DEFINE u == gu[i]
             r == gpio_set(gp, u)
  <1>1. /\ gp' = r.gp /\ gu' = [gu EXCEPT ![i] = r.u] /\ want' = want /\ crossed' = crossed /\ pc' = pc
        /\ u.at \in InHand /\ pc = "tools"
    BY DEF GpioStep, Up, vars, InHand
  <1>2. crossed \in BOOLEAN BY DEF PinsInv
  <1> SUFFICES ASSUME ~crossed PROVE PinsInv' BY <1>1, <1>2 DEF PinsInv
  <1>3. /\ gp \in PinsType /\ want \in PinsType /\ gu = [k \in GpioUsers |-> gu[k]]
        /\ \A k \in GpioUsers : Busy(k) => Under(gp, want, gu[k])
        /\ \A k, j \in GpioUsers : (Busy(k) /\ Busy(j) /\ k # j) => ~Conflict(gu[k].f, gu[j].f)
        /\ \A p \in GpioPins : (\A k \in GpioUsers : Busy(k) => p \notin gu[k].f.pins) => Agree(gp, want, p)
    BY DEF PinsInv
  <1>4. Busy(i) /\ Under(gp, want, u) BY <1>1, <1>3 DEF Busy
  <1>5. Goes(gp, want, u, r) BY <1>3, <1>4, CommandStep
  <1> HIDE DEF r
  <1>6. gu' = [k \in GpioUsers |-> gu'[k]] /\ gu'[i] = r.u /\ \A j \in GpioUsers : j # i => gu'[j] = gu[j]
    <2>1. gu' = [k \in GpioUsers |-> IF k = i THEN r.u ELSE gu[k]] BY <1>1, <1>3
    <2> QED BY <2>1
  <1>7. gp' \in PinsType /\ \A p \in GpioPins : p # u.pin => Agree(gp, gp', p)
    BY <1>1, <1>5 DEF Goes
  <1>8. u.f \in Commands /\ u.pin \in u.f.pins /\ u.f.pins \subseteq GpioPins BY <1>4 DEF Under, Commands
  <1>9. ASSUME NEW j \in GpioUsers, j # i, Busy(j) PROVE Under(gp', want', gu[j])
    <2> DEFINE e == gu[j]
    <2>1. Under(gp, want, e) BY <1>3, <1>9
    <2>2. e.f \in Commands /\ e.pin \in e.f.pins /\ e.f.pins \subseteq GpioPins BY <2>1 DEF Under, Commands
    <2>3. ~Conflict(e.f, u.f) BY <1>3, <1>4, <1>9
    <2>4. /\ e.f.pins \cap u.f.pins = {}
          /\ (e.f.fsel # UNSET /\ u.f.fsel # UNSET) => u.pin \notin FselReg(e.pin)
          /\ (e.f.pull # UNSET /\ u.f.pull # UNSET) => u.pin \notin PullReg(e.pin)
      BY <1>8, <2>2, <2>3, Apart
    <2>5. \A p \in e.f.pins : Agree(gp, gp', p) BY <1>7, <1>8, <2>2, <2>4
    <2>6. \A p \in e.f.pins : Agree(want, want', p) BY <1>1 DEF Agree
    <2>7. ASSUME e.at = "wfsel", NEW p \in FselReg(e.pin) PROVE gp.fsel[p] = gp'.fsel[p]
      <3>1. p \in GpioPins BY DEF FselReg
      <3>2. CASE p # u.pin BY <1>7, <3>1, <3>2 DEF Agree
      <3>3. CASE p = u.pin
        <4>1. e.f.fsel # UNSET BY <2>1, <2>7 DEF Under
        <4>2. gp'.fsel # gp.fsel => u.f.fsel # UNSET BY <1>1, <1>5 DEF Goes
        <4> QED BY <2>4, <2>7, <3>3, <4>1, <4>2
      <3> QED BY <3>2, <3>3
    <2>8. ASSUME e.at = "wpull", NEW p \in PullReg(e.pin) PROVE gp.pull[p] = gp'.pull[p]
      <3>1. p \in GpioPins BY DEF PullReg
      <3>2. CASE p # u.pin BY <1>7, <3>1, <3>2 DEF Agree
      <3>3. CASE p = u.pin
        <4>1. e.f.pull # UNSET BY <2>1, <2>8 DEF Under
        <4>2. gp'.pull # gp.pull => u.f.pull # UNSET BY <1>1, <1>5 DEF Goes
        <4> QED BY <2>4, <2>8, <3>3, <4>1, <4>2
      <3> QED BY <3>2, <3>3
    <2> HIDE DEF e
    <2>9. Under(gp', want', e) BY <1>3, <1>7, <2>1, <2>5, <2>6, <2>7, <2>8, UnderOther
    <2> QED BY <2>9 DEF e
  <1>10. \/ Under(gp', want', r.u) /\ r.u.f = u.f
         \/ r.u.at \in {"done", "failed"} /\ \A p \in u.f.pins : Agree(gp', want', p)
    BY <1>1, <1>5 DEF Goes
  <1>11. \A k \in GpioUsers : Busy(k)' => Under(gp', want', gu'[k])
    <2> TAKE k \in GpioUsers
    <2>1. CASE k = i BY <1>6, <1>10, <2>1 DEF Busy, InHand
    <2>2. CASE k # i BY <1>6, <1>9, <2>2 DEF Busy
    <2> QED BY <2>1, <2>2
  <1>12. \A k \in GpioUsers : Busy(k)' => Busy(k) /\ gu'[k].f = gu[k].f
    <2> TAKE k \in GpioUsers
    <2>1. CASE k = i BY <1>4, <1>6, <1>10, <2>1 DEF Busy, InHand
    <2>2. CASE k # i BY <1>6, <2>2 DEF Busy
    <2> QED BY <2>1, <2>2
  <1>13. \A k, j \in GpioUsers : (Busy(k)' /\ Busy(j)' /\ k # j) => ~Conflict(gu'[k].f, gu'[j].f)
    BY <1>3, <1>12
  <1>14. ASSUME NEW p \in GpioPins, \A k \in GpioUsers : Busy(k)' => p \notin gu'[k].f.pins
         PROVE  Agree(gp', want', p)
    <2>1. CASE p \in u.f.pins
      <3>1. ~(Under(gp', want', r.u) /\ r.u.f = u.f) BY <1>6, <1>14, <2>1 DEF Under, Busy
      <3> QED BY <1>10, <2>1, <3>1
    <2>2. CASE p \notin u.f.pins
      <3>1. \A k \in GpioUsers : Busy(k) => p \notin gu[k].f.pins
        <4> TAKE k \in GpioUsers
        <4>1. CASE k = i BY <2>2, <4>1
        <4>2. CASE k # i BY <1>6, <1>14, <4>2 DEF Busy
        <4> QED BY <4>1, <4>2
      <3>2. Agree(gp, want, p) BY <1>3, <3>1
      <3>3. Agree(gp, gp', p) BY <1>7, <1>8, <2>2
      <3> QED BY <1>1, <3>2, <3>3 DEF Agree
    <2> QED BY <2>1, <2>2
  <1> QED BY <1>1, <1>2, <1>3, <1>6, <1>7, <1>11, <1>13, <1>14 DEF PinsInv

\* a command starts, on pins and registers no command under way uses
LEMMA PinsStart == ASSUME PinsInv, NEW i \in GpioUsers, GpioStart(i) PROVE PinsInv'
  <1>1. PICK f \in GpioCmds :
          /\ gu' = [gu EXCEPT ![i] = gpio_main(f)]
          /\ want' = AsAsked(want, f)
          /\ crossed' = (crossed \/ \E j \in GpioUsers : gu[j].at \notin {"none", "refused", "done", "failed"}
                                                         /\ Conflict(f, gu[j].f))
    BY DEF GpioStart
  <1>2. gp' = gp /\ pc' = pc /\ pc = "tools" /\ gu[i].at = "none" BY DEF GpioStart, Up, vars
  <1>3. crossed \in BOOLEAN /\ crossed' \in BOOLEAN BY <1>1 DEF PinsInv
  <1> SUFFICES ASSUME ~crossed' PROVE PinsInv' BY <1>3 DEF PinsInv
  <1>4. ~crossed /\ \A j \in GpioUsers : Busy(j) => ~Conflict(f, gu[j].f) BY <1>1, <1>3 DEF Busy, InHand
  <1>5. /\ gp \in PinsType /\ want \in PinsType /\ gu = [k \in GpioUsers |-> gu[k]]
        /\ \A k \in GpioUsers : Busy(k) => Under(gp, want, gu[k])
        /\ \A k, j \in GpioUsers : (Busy(k) /\ Busy(j) /\ k # j) => ~Conflict(gu[k].f, gu[j].f)
        /\ \A p \in GpioPins : (\A k \in GpioUsers : Busy(k) => p \notin gu[k].f.pins) => Agree(gp, want, p)
    BY <1>4 DEF PinsInv
  <1>6. f \in Commands BY CommandsAssumption
  <1>7. f.pins \in SUBSET GpioPins /\ f.pins # {} BY <1>6 DEF Commands
  <1> DEFINE m == gpio_main(f)
  <1>8. gu' = [k \in GpioUsers |-> gu'[k]] /\ gu'[i] = m /\ \A j \in GpioUsers : j # i => gu'[j] = gu[j]
    <2> HIDE DEF m
    <2>1. gu' = [k \in GpioUsers |-> IF k = i THEN m ELSE gu[k]] BY <1>1, <1>5 DEF m
    <2> QED BY <2>1
  <1>9. ~Busy(i) BY <1>2 DEF Busy, InHand
  <1>10. CASE GPIO_MAX \in f.pins
    <2>1. want' = want BY <1>1, <1>10 DEF AsAsked
    <2>2. m.at = "refused"
      <3>1. \E p \in f.pins : p >= GPIO_MAX BY <1>10, PinsAssumption
      <3> QED BY <3>1 DEF gpio_main
    <2>3. \A k \in GpioUsers : Busy(k)' <=> Busy(k)
      <3> TAKE k \in GpioUsers
      <3>1. CASE k = i BY <1>8, <1>9, <2>2, <3>1 DEF Busy, InHand
      <3>2. CASE k # i BY <1>8, <3>2 DEF Busy
      <3> QED BY <3>1, <3>2
    <2>4. \A k \in GpioUsers : Busy(k) => gu'[k] = gu[k] BY <1>8, <1>9
    <2> QED BY <1>2, <1>3, <1>5, <1>8, <2>1, <2>3, <2>4 DEF PinsInv
  <1>11. CASE GPIO_MAX \notin f.pins
    <2>1. \A p \in f.pins : ~(p >= GPIO_MAX) BY <1>7, <1>11, PinsAssumption DEF GpioPins
    <2>2. m = [at |-> "fsel", f |-> f, pin |-> Min(f.pins), val |-> << >>] BY <2>1 DEF gpio_main
    <2>3. m.at = "fsel" /\ m.f = f /\ m.pin = Min(f.pins) /\ DOMAIN m = {"at", "f", "pin", "val"} BY <2>2
    <2> HIDE DEF m
    <2>4. Min(f.pins) \in f.pins /\ \A p \in f.pins : Min(f.pins) <= p BY <1>7, LeastPin
    <2>5. /\ want' \in PinsType
          /\ \A p \in f.pins : Wanted(want, want', f, p)
          /\ \A p \in GpioPins \ f.pins : Agree(want, want', p)
      BY <1>1, <1>5, <1>6, <1>11, AskedIs
    <2>6. ASSUME NEW k \in GpioUsers, Busy(k) PROVE f.pins \cap gu[k].f.pins = {}
      BY <1>4, <2>6 DEF Conflict
    <2>7. \A p \in f.pins : Agree(want, gp, p)
      <3>1. \A p \in f.pins : Agree(gp, want, p) BY <1>5, <1>7, <2>6
      <3> QED BY <3>1 DEF Agree
    <2>8. \A p \in f.pins : Wanted(gp, want', f, p)
      <3>1. \A p \in f.pins : Agree(want', want', p) BY DEF Agree
      <3> QED BY <2>5, <2>7, <3>1, AskedLocal
    <2>9. Under(gp, want', m)
      <3>1. \A p \in f.pins : ~(p < Min(f.pins)) BY <1>7, <2>4, PinsAssumption DEF GpioPins
      <3>2. Reaches(gp, f, Min(f.pins)) BY <2>4 DEF Reaches
      <3> QED BY <1>6, <1>11, <2>3, <2>4, <2>8, <3>1, <3>2 DEF Under, InHand
    <2>10. ASSUME NEW k \in GpioUsers, Busy(k) PROVE Under(gp, want', gu[k])
      <3> DEFINE e == gu[k]
      <3>1. Under(gp, want, e) BY <1>5, <2>10
      <3>2. e.f.pins \subseteq GpioPins BY <3>1 DEF Under, Commands
      <3>3. \A p \in e.f.pins : Agree(want, want', p) BY <2>5, <2>6, <2>10, <3>2
      <3>4. \A p \in e.f.pins : Agree(gp, gp, p) BY DEF Agree
      <3> HIDE DEF e
      <3>5. Under(gp, want', e) BY <1>5, <3>1, <3>3, <3>4, UnderOther
      <3> QED BY <3>5 DEF e
    <2>11. \A k \in GpioUsers : Busy(k)' <=> Busy(k) \/ k = i
      <3> TAKE k \in GpioUsers
      <3>1. CASE k = i BY <1>8, <2>3, <3>1 DEF Busy, InHand
      <3>2. CASE k # i BY <1>8, <3>2 DEF Busy
      <3> QED BY <3>1, <3>2
    <2>12. \A k \in GpioUsers : Busy(k)' => Under(gp, want', gu'[k])
      <3> TAKE k \in GpioUsers
      <3>1. CASE k = i BY <1>8, <2>9, <3>1
      <3>2. CASE k # i BY <1>8, <2>10, <2>11, <3>2
      <3> QED BY <3>1, <3>2
    <2>13. \A k, j \in GpioUsers : (Busy(k)' /\ Busy(j)' /\ k # j) => ~Conflict(gu'[k].f, gu'[j].f)
      <3> TAKE k \in GpioUsers, j \in GpioUsers
      <3>0. Conflict(f, gu[j].f) <=> Conflict(gu[j].f, f) BY DEF Conflict
      <3>1. Conflict(f, gu[k].f) <=> Conflict(gu[k].f, f) BY DEF Conflict
      <3>2. CASE k = i BY <1>4, <1>8, <2>3, <2>11, <3>2
      <3>3. CASE j = i BY <1>4, <1>8, <2>3, <2>11, <3>1, <3>3
      <3>4. CASE k # i /\ j # i BY <1>5, <1>8, <2>11, <3>4
      <3> QED BY <3>2, <3>3, <3>4
    <2>14. ASSUME NEW p \in GpioPins, \A k \in GpioUsers : Busy(k)' => p \notin gu'[k].f.pins
           PROVE  Agree(gp, want', p)
      <3>1. p \notin f.pins BY <1>8, <2>3, <2>11, <2>14
      <3>2. \A k \in GpioUsers : Busy(k) => p \notin gu[k].f.pins BY <1>8, <1>9, <2>11, <2>14
      <3>3. Agree(gp, want, p) BY <1>5, <3>2
      <3>4. Agree(want, want', p) BY <2>5, <3>1
      <3> QED BY <3>3, <3>4 DEF Agree
    <2> QED BY <1>2, <1>3, <1>5, <1>8, <2>5, <2>12, <2>13, <2>14 DEF PinsInv
  <1> QED BY <1>10, <1>11

\* startup sets the pins of the table
LEMMA PinsBoot == ASSUME PinsInv, BootMain PROVE PinsInv'
  <1>1. /\ pc = "main" /\ pc' = "raminfo" /\ gp' = init_board(gp) /\ want' = AsTable(gp)
        /\ gu' = gu /\ crossed' = crossed
    BY DEF BootMain, main, Step
  <1>2. crossed \in BOOLEAN BY DEF PinsInv
  <1> SUFFICES ASSUME ~crossed PROVE PinsInv' BY <1>1, <1>2 DEF PinsInv
  <1>3. gp = FirmwarePins /\ gu = [k \in GpioUsers |-> gu[k]] /\ \A i \in GpioUsers : gu[i].at = "none"
    BY <1>1 DEF PinsInv
  <1>4. gp' = want' /\ want' \in PinsType BY <1>1, <1>3, BoardAsTable
  <1>5. \A i \in GpioUsers : ~Busy(i)' BY <1>1, <1>3 DEF Busy, InHand
  <1>6. \A p \in GpioPins : Agree(gp', want', p) BY <1>4 DEF Agree
  <1> QED BY <1>1, <1>2, <1>3, <1>4, <1>5, <1>6 DEF PinsInv

\* the mailbox, the watchdog and the rest of startup leave the pins alone
LEMMA PinsNext == PinsInv /\ [SysNext]_<<vars, tools>> => PinsInv'
  <1> SUFFICES ASSUME PinsInv, [SysNext]_<<vars, tools>> PROVE PinsInv' OBVIOUS
  <1>1. CASE BootMain BY <1>1, PinsBoot
  <1>2. CASE Boot
    <2>1. gp' = gp /\ want' = want /\ crossed' = crossed /\ gu' = gu BY <1>2 DEF Boot, tools
    <2>2. CASE _main \/ bcm2711_init_raminfo \/ alloc_image \/ init_smp \/ map_startup \/ init_intrinfo
               \/ init_info \/ restore_image
      <3>1. pc # "tools" /\ (pc' \in {"_main", "main"} => pc \in {"_main", "main"})
        BY <2>2 DEF _main, bcm2711_init_raminfo, alloc_image, init_smp, map_startup, init_intrinfo, init_info,
                    restore_image, Step
      <3> QED BY <2>1, <3>1, PinsKept
    <2>3. CASE begin_load \/ end_load \/ place_ifs2 \/ load_bootstraps \/ memory_options \/ announce_sysram
               \/ alloc_syspage_memory \/ Running
      <3>1. pc # "tools" /\ (pc' \in {"_main", "main"} => pc \in {"_main", "main"})
        BY <2>3 DEF begin_load, end_load, place_ifs2, load_bootstraps, memory_options, announce_sysram,
                    alloc_syspage_memory, Running, Step
      <3> QED BY <2>1, <3>1, PinsKept
    <2> QED BY <1>2, <2>2, <2>3 DEF Boot
  <1>3. CASE PowerCut
    <2>1. gp' = FirmwarePins /\ want' = FirmwarePins /\ crossed' = FALSE
          /\ gu' = [i \in GpioUsers |-> [at |-> "none"]]
      BY <1>3 DEF PowerCut
    <2>2. \A i \in GpioUsers : gu'[i].at = "none" /\ ~Busy(i)'
      <3>1. \A i \in GpioUsers : gu'[i] = [at |-> "none"] BY <2>1
      <3>2. [at |-> "none"].at = "none" OBVIOUS
      <3> QED BY <3>1, <3>2 DEF Busy, InHand
    <2>3. gu' = [i \in GpioUsers |-> gu'[i]] BY <2>1
    <2> QED BY <2>1, <2>2, <2>3, FirmwareTyped DEF PinsInv, Agree
  <1>4. CASE Handover
    <2>1. gp' = gp /\ want' = want /\ crossed' = crossed /\ gu' = gu /\ pc = "kernel" /\ pc' = "tools"
      BY <1>4 DEF Handover, tools
    <2> QED BY <2>1, PinsKept
  <1>5. ASSUME NEW i \in GpioUsers, GpioStart(i) \/ GpioStep(i) PROVE PinsInv' BY <1>5, PinsStart, PinsStep
  <1>6. ASSUME NEW x \in MboxUsers,
               mbox_fill(x) \/ mbox_space(x) \/ mbox_send(x) \/ mbox_sent(x) \/ mbox_wait(x) \/ mbox_read(x)
        PROVE  PinsInv'
    <2>1. gp' = gp /\ want' = want /\ crossed' = crossed /\ gu' = gu /\ pc' = pc
      BY <1>6 DEF mbox_fill, mbox_space, mbox_send, mbox_sent, mbox_wait, mbox_read, MailOnly, vars
    <2> QED BY <2>1, PinsKept
  <1>7. CASE VcTakes \/ VcAnswers \/ VcOther
    <2>1. gp' = gp /\ want' = want /\ crossed' = crossed /\ gu' = gu /\ pc' = pc
      BY <1>7 DEF VcTakes, VcAnswers, VcOther, MailOnly, vars
    <2> QED BY <2>1, PinsKept
  <1>8. CASE Tick \/ KickStart \/ Kick \/ Rest \/ UNCHANGED <<vars, tools>>
    <2>1. gp' = gp /\ want' = want /\ crossed' = crossed /\ gu' = gu /\ pc' = pc
      BY <1>8 DEF Tick, KickStart, Kick, Rest, vars, tools
    <2> QED BY <2>1, PinsKept
  <1> QED BY <1>1, <1>2, <1>3, <1>4, <1>5, <1>6, <1>7, <1>8 DEF SysNext

\* PinsAsAsked for every board, table and set of commands: once the commands
\* given have ended, every pin is as the last word about it says, from the
\* table or a command, unless two of them shared a register.
THEOREM PinsStayAsAsked == SysSpec => []PinsAsAsked
  <1>1. PinsInv => PinsAsAsked
    <2> SUFFICES ASSUME PinsInv, ~crossed,
                        \A i \in GpioUsers : gu[i].at \in {"none", "refused", "done", "failed"}
                 PROVE  gp = want
      BY DEF PinsAsAsked
    <2>1. gp \in PinsType /\ want \in PinsType BY DEF PinsInv
    <2>2. \A i \in GpioUsers : ~Busy(i) BY DEF Busy, InHand
    <2>3. \A p \in GpioPins : Agree(gp, want, p) BY <2>2 DEF PinsInv
    <2>4. /\ gp.fsel \in [GpioPins -> 0..7] /\ gp.pull \in [GpioPins -> 0..2] /\ gp.out \in [GpioPins -> 0..1]
          /\ gp = [fsel |-> gp.fsel, pull |-> gp.pull, out |-> gp.out]
      BY <2>1 DEF PinsType
    <2>5. /\ want.fsel \in [GpioPins -> 0..7] /\ want.pull \in [GpioPins -> 0..2] /\ want.out \in [GpioPins -> 0..1]
          /\ want = [fsel |-> want.fsel, pull |-> want.pull, out |-> want.out]
      BY <2>1 DEF PinsType
    <2>6. gp.fsel = want.fsel BY <2>3, <2>4, <2>5 DEF Agree
    <2>7. gp.pull = want.pull BY <2>3, <2>4, <2>5 DEF Agree
    <2>8. gp.out = want.out BY <2>3, <2>4, <2>5 DEF Agree
    <2> QED BY <2>4, <2>5, <2>6, <2>7, <2>8
  <1> QED BY <1>1, PinsInit, PinsNext, PTL DEF SysSpec
=============================================================================
