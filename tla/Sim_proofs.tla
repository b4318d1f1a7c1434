------------------------------ MODULE Sim_proofs -----------------------------
(***************************************************************************)
(* Proofs about the CAM SIM module (Sim, SimIo, SimPower, SimAssd), for    *)
(* every set of cards, of clients and of options, every feature of the     *)
(* controller and any number of faults: data that was written is not lost  *)
(* unnoticed, a request goes where it was sent, and no request is left in  *)
(* the queue with the driver thread asleep.                                *)
(*                                                                         *)
(* The calls of the model are sets of outcomes <<record, status>>.  A lemma *)
(* about a call says of each of its outcomes what became of the invariant: *)
(* Easy for a step within a request, Good for a request, Done for what     *)
(* every request does.  The invariant of the record is Base with the part  *)
(* on the partition, the security system and the background operations;    *)
(* it is stated for a card that is awake (Intact), in the middle of a      *)
(* request (Midway), just reset (Fresh) and awake or asleep (Parked).      *)
(***************************************************************************)
EXTENDS Sim, TLAPS

------------------------------------------------------------------------------

\* The record of the module, and what a proof says of a change to it.

\* The fields of the record that Attached() builds.
Keys == {"use", "card", "faults", "dtype", "caps", "hpm", "pactive", "wce", "tune", "cpart", "cacheOn",
         "cached", "hist", "cbk", "bkRun", "csec", "eflags", "asec", "nlba", "pm", "timer", "drvr", "bk",
         "inprog", "ticks", "wp", "locked", "cmd23", "frozen"}

\* The record has these fields, and the card is in a power state.
Typed(t) == DOMAIN t = Keys /\ t.hpm \in {"IDLE", "ACTIVE", "SLEEP"}

\* t and u differ in the fields K at most.
But(t, u, K) == \A k \in Keys \ K : u[k] = t[k]

\* A card that is in is not asleep.
Up(t) == t.card => t.hpm # "SLEEP"

\* Fields that no part of the invariant looks at.
Loose == {"faults", "hpm", "tune", "cbk", "bk", "ticks", "timer", "locked", "cmd23", "frozen"}

\* Nothing happened but to these fields, and nothing fell asleep.
Same(t, u) == Typed(t) /\ Typed(u) /\ (Up(t) => Up(u)) /\ But(t, u, Loose)

\* A note goes into the history and nowhere else.
LEMMA NoteIs ==
    ASSUME NEW t, Typed(t), NEW p, NEW tag
    PROVE  /\ Typed(Note(t, p, tag)) /\ But(t, Note(t, p, tag), {"hist"})
           /\ Note(t, p, tag).hist = IF p THEN t.hist \cup {tag} ELSE t.hist
  BY DEF Note, Typed, But, Keys

\* A fault that happened is counted and no more.
LEMMA SpendIs ==
    ASSUME NEW t, Typed(t)
    PROVE  Typed(Spend(t)) /\ But(t, Spend(t), {"faults"})
  BY DEF Spend, Typed, But, Keys

\* Two such changes are one.
LEMMA SameTrans == ASSUME NEW t, NEW u, NEW v, Same(t, u), Same(u, v) PROVE Same(t, v)
  BY DEF Same, But

\* No change is such a change.
LEMMA SameSelf == ASSUME NEW t, Typed(t) PROVE Same(t, t)
  BY DEF Same, But

\* The host wakes an idle card before a command and that never fails: the
\* drivers only ask for it when the card does not sleep.
LEMMA Wake ==
    ASSUME NEW t, Typed(t), Up(t), t.card, NEW o \in _sdio_pwrmgnt(t, "ACTIVE")
    PROVE  o[2] = "EOK" /\ Same(t, o[1]) /\ o[1].card
  <1>1. t.hpm \in {"IDLE", "ACTIVE"} BY DEF Typed, Up
  <1>2. CASE ~HcPm \/ t.hpm = "ACTIVE"
    <2>1. o = <<t, "EOK">> BY <1>2 DEF _sdio_pwrmgnt, Ret
    <2> QED BY <2>1, SameSelf
  <1>3. CASE HcPm /\ t.hpm = "IDLE"
    <2> DEFINE u == [t EXCEPT !.hpm = "ACTIVE"]
    <2>1. o = <<u, "EOK">> BY <1>3 DEF _sdio_pwrmgnt, Ret
    <2>2. Typed(u) /\ But(t, u, {"hpm"}) /\ u.hpm = "ACTIVE" BY DEF Typed, But, Keys
    <2> HIDE DEF u
    <2>3. Same(t, u) /\ u.card BY <2>2 DEF Same, But, Loose, Up, Keys
    <2> QED BY <2>1, <2>3
  <1> QED BY <1>1, <1>2, <1>3

\* Command c was carried out by the card and its answer got lost.
Lost(a, c) == <<Note(Spend(CardDoes(a, c)), CardDoes(a, c) # a, "ghost"), "ETIMEDOUT">>

\* What a command that did nothing returns.
Failing == {"ETIMEDOUT", "EIO", "ENXIO"}

\* sdio_send_cmd() of a card that is awake: nothing happened, or the card did
\* what it was asked to and was heard, or it did and was not.
LEMMA Send ==
    ASSUME NEW t, Typed(t), Up(t), NEW c, NEW o \in sdio_send_cmd(t, c)
    PROVE  \/ Same(t, o[1]) /\ o[2] \in Failing /\ (o[2] = "ENXIO" <=> ~t.card)
           \/ t.card /\ \E a : Same(t, a) /\ (o = <<CardDoes(a, c), "EOK">> \/ o = Lost(a, c))
  <1>1. CASE ~t.card
    <2>1. o = <<t, "ENXIO">> BY <1>1 DEF sdio_send_cmd, _sdio_synchronize, Ret
    <2> QED BY <1>1, <2>1, SameSelf DEF Failing
  <1>2. CASE t.card
    <2>1. PICK w \in _sdio_pwrmgnt(t, "ACTIVE") :
            IF w[2] = "EOK"
            THEN o \in Ret(CardDoes(w[1], c), "EOK")
                         \cup (IF w[1].faults = 0 THEN {}
                               ELSE Ret(Spend(w[1]), "ETIMEDOUT") \cup Ret(Spend(w[1]), "EIO")
                                      \cup Ret(Note(Spend(CardDoes(w[1], c)), CardDoes(w[1], c) # w[1], "ghost"), "ETIMEDOUT"))
            ELSE o = w
      BY <1>2 DEF sdio_send_cmd, _sdio_synchronize, OnOk
    <2> DEFINE a == w[1]
    <2>2. w[2] = "EOK" /\ Same(t, a) BY <1>2, <2>1, Wake
    <2>3. \/ o = <<CardDoes(a, c), "EOK">> \/ o = Lost(a, c)
          \/ o = <<Spend(a), "ETIMEDOUT">> \/ o = <<Spend(a), "EIO">>
      BY <2>1, <2>2 DEF Ret, Lost
    <2>4. Same(t, Spend(a))
      <3>1. Typed(Spend(a)) /\ But(a, Spend(a), {"faults"}) BY <2>2, SpendIs DEF Same
      <3> HIDE DEF a
      <3>2. Same(a, Spend(a)) BY <2>2, <3>1 DEF Same, But, Loose, Up, Keys
      <3> QED BY <2>2, <3>2, SameTrans
    <2> HIDE DEF a
    <2> QED BY <1>2, <2>2, <2>3, <2>4 DEF Failing
  <1> QED BY <1>1, <1>2

\* A command that asks nothing of the card changes nothing that counts.
LEMMA SendPlain ==
    ASSUME NEW t, Typed(t), Up(t), NEW o \in sdio_send_cmd(t, Plain)
    PROVE  Same(t, o[1]) /\ (o[2] = "EOK" => t.card) /\ o[2] \in Failing \cup {"EOK"}
  <1>1. CASE Same(t, o[1]) /\ o[2] \in Failing /\ (o[2] = "ENXIO" <=> ~t.card) BY <1>1 DEF Failing
  <1>2. CASE t.card /\ \E a : Same(t, a) /\ (o = <<CardDoes(a, Plain), "EOK">> \/ o = Lost(a, Plain))
    <2>1. PICK a : Same(t, a) /\ (o = <<CardDoes(a, Plain), "EOK">> \/ o = Lost(a, Plain)) BY <1>2
    <2>2. CardDoes(a, Plain) = a BY DEF CardDoes, Plain, Command
    <2>3. Lost(a, Plain) = <<Spend(a), "ETIMEDOUT">> BY <2>2 DEF Lost, Note
    <2>4. Typed(Spend(a)) /\ But(a, Spend(a), {"faults"}) BY <2>1, SpendIs DEF Same
    <2>5. Same(a, Spend(a)) BY <2>1, <2>4 DEF Same, But, Loose, Up, Keys
    <2>6. Same(t, Spend(a)) BY <2>1, <2>5, SameTrans
    <2> QED BY <1>2, <2>1, <2>2, <2>3, <2>6 DEF Failing
  <1> QED BY <1>1, <1>2, Send

------------------------------------------------------------------------------

\* The invariant.

\* A command was carried out whose answer got lost: the host may be wrong about
\* what the card does.
Ghost(t) == "ghost" \in t.hist

\* The card holds data in a cache that the module knows to be on and knows to be
\* dirty.
CacheInv(t) == Ghost(t) \/
    /\ t.cached => t.cacheOn /\ Flag(t, "VCACHE_DIRTY")
    /\ t.cacheOn => t.wce /\ Flag(t, "CACHE") /\ "CACHE" \in t.caps

\* Data was lost only where the partition was marked for it or the loss could
\* not be known: DataIsSafe.
LossInv(t) == "lost" \in t.hist => User \in t.wp \/ Ghost(t) \/ "unmarked" \in t.hist

\* The three ways in which a request misses its target have a cause on record.
TagInv(t) ==
    /\ "stray" \in t.hist => "unsure" \in t.hist
    /\ "misdirected" \in t.hist => "doubt" \in t.hist
    /\ "overlap" \in t.hist => Ghost(t) \/ "forgotten" \in t.hist

\* Nothing of a card that is gone goes on.
Off(t) == t.card \/ (~t.cached /\ ~t.cacheOn /\ ~t.bkRun /\ t.cpart = t.pactive)

\* A security system is named of an ASSD card only.
Sound(t) == t.asec # "none" => "ASSD" \in t.caps

\* A background operation of a card in use is on the books.
BkInv(t) == Ghost(t) \/ "forgotten" \in t.hist \/ ((t.bkRun /\ t.drvr = "RUN") => t.inprog /\ Flag(t, "BKOPS"))

\* Between requests the card is switched to the partition that the module
\* believes it is.
PartInv(t) == "unsure" \in t.hist \/ (t.dtype = "MMC" => t.cpart = t.pactive)

\* The security system that is selected is the one the module believes, or will
\* be selected again before it is used.
SecInv(t) == t.asec = "none" \/ t.csec = t.asec \/ Flag(t, "ASSD_INIT") \/ "doubt" \in t.hist

\* The part that holds at every moment, asleep or awake.
Base(t) == Typed(t) /\ CacheInv(t) /\ LossInv(t) /\ TagInv(t) /\ Off(t) /\ Sound(t)

\* In the middle of a request: all but the partition.
Midway(t) == Base(t) /\ Up(t) /\ SecInv(t) /\ BkInv(t)

\* Between requests, when the card is awake.
Intact(t) == Midway(t) /\ PartInv(t)

\* A write finds the cache marked dirty if it is on.
DirtyOk(t) == t.cacheOn => Flag(t, "VCACHE_DIRTY") \/ Ghost(t)

\* What no command of a request takes back.
Held(t, u) == /\ u.dtype = t.dtype /\ u.caps = t.caps /\ t.hist \subseteq u.hist /\ u.drvr = t.drvr
              /\ Flag(t, "PRESENT") => Flag(u, "PRESENT")

\* The mark stays as well: it is taken back by a flush only.
Kept(t, u) == Held(t, u) /\ (DirtyOk(t) => DirtyOk(u))

\* A transfer to partition p goes there.
OnTarget(t, p) == "unsure" \in t.hist \/ (t.dtype = "MMC" => t.cpart = p)

\* No background operation is in the way of a transfer.
Calm(t) == Ghost(t) \/ "forgotten" \in t.hist \/ ~(t.bkRun /\ t.drvr = "RUN")

\* A step of a request after which the rest of the request may go on as if it
\* had not been taken.
Easy(t, u) == /\ Midway(u) /\ Kept(t, u) /\ (PartInv(t) => PartInv(u)) /\ (Calm(t) => Calm(u))
              /\ \A p : OnTarget(t, p) => OnTarget(u, p)

\* Two easy steps are one.
LEMMA EasyTrans == ASSUME NEW t, NEW u, NEW v, Easy(t, u), Easy(u, v) PROVE Easy(t, v)
  BY DEF Easy, Kept, Held

\* Changes to the loose fields keep the part that always holds, ...
LEMMA SameBase == ASSUME NEW t, NEW u, Base(t), Same(t, u) PROVE Base(u)
  <1>1. /\ u.hist = t.hist /\ u.cached = t.cached /\ u.cacheOn = t.cacheOn /\ u.eflags = t.eflags
        /\ u.wce = t.wce /\ u.caps = t.caps /\ u.wp = t.wp /\ u.card = t.card /\ u.bkRun = t.bkRun
        /\ u.cpart = t.cpart /\ u.pactive = t.pactive /\ u.asec = t.asec /\ Typed(u)
    BY DEF Same, But, Keys, Loose
  <1> QED BY <1>1 DEF Base, CacheInv, LossInv, TagInv, Off, Sound, Ghost, Flag

\* ... and are easy steps.
LEMMA SameG ==
    ASSUME NEW t, NEW u, Midway(t), Same(t, u)
    PROVE  Easy(t, u)
  <1>1. /\ u.hist = t.hist /\ u.eflags = t.eflags /\ u.caps = t.caps /\ u.bkRun = t.bkRun /\ u.drvr = t.drvr
        /\ u.inprog = t.inprog /\ u.cpart = t.cpart /\ u.pactive = t.pactive /\ u.asec = t.asec
        /\ u.csec = t.csec /\ u.dtype = t.dtype /\ u.cacheOn = t.cacheOn /\ Typed(u) /\ Up(u)
    BY DEF Midway, Same, But, Keys, Loose
  <1>2. Base(u) BY SameBase DEF Midway
  <1> QED BY <1>1, <1>2 DEF Easy, Midway, PartInv, SecInv, BkInv, Kept, Held, DirtyOk, Ghost, Flag, Calm, OnTarget

\* What a command of the card leaves alone, whatever the command.
LEMMA CardDoesIs ==
    ASSUME NEW a, Typed(a), NEW c
    PROVE  LET d == CardDoes(a, c) IN
           Typed(d) /\ But(a, d, {"cpart", "cacheOn", "cached", "hist", "bkRun", "cbk", "csec"})
  <1> DEFINE d == CardDoes(a, c)
             K == {"cpart", "cacheOn", "cached", "hist", "bkRun", "cbk", "csec"}
  <1>1. CASE c.cmd \in {"PARTITION", "CACHE_ON", "CACHE_OFF", "FLUSH", "BKOPS", "HPI", "SELECT"}
    BY <1>1 DEF CardDoes, Typed, But, Keys
  <1>2. CASE c.cmd \in {"READ", "WRITE"}
    <2> DEFINE m == Note(a, a.dtype = "MMC" /\ a.cpart # c.arg, "stray")
               n == Note(m, a.bkRun /\ a.drvr = "RUN", "overlap")
    <2>1. d = [n EXCEPT !.cached = @ \/ (c.cmd = "WRITE" /\ a.cacheOn)] BY <1>2 DEF CardDoes
    <2>2. Typed(m) /\ But(a, m, {"hist"}) BY NoteIs
    <2> HIDE DEF m
    <2>3. Typed(n) /\ But(m, n, {"hist"}) BY <2>2, NoteIs
    <2> HIDE DEF n, d
    <2> QED BY <2>1, <2>2, <2>3 DEF Typed, But, Keys, d
  <1>3. CASE c.cmd \in {"ERASE", "SECURE"}
    <2>1. \/ d = Note(a, a.dtype = "MMC" /\ a.cpart # c.arg, "stray")
          \/ d = Note(a, a.asec # "none" /\ a.csec # a.asec, "misdirected")
      BY <1>3 DEF CardDoes
    <2>2. \A p \in BOOLEAN : \A tag : Typed(Note(a, p, tag)) /\ But(a, Note(a, p, tag), {"hist"})
      BY NoteIs
    <2>3. Typed(d) /\ But(a, d, {"hist"}) BY <2>1, <2>2
    <2> HIDE DEF d
    <2> QED BY <2>3 DEF But, d
  <1>4. CASE c.cmd \notin {"PARTITION", "CACHE_ON", "CACHE_OFF", "FLUSH", "BKOPS", "HPI", "SELECT",
                           "READ", "WRITE", "ERASE", "SECURE"}
    BY <1>4 DEF CardDoes, But
  <1> QED BY <1>1, <1>2, <1>3, <1>4

\* A command was carried out and answered, or not answered, or did nothing.
Did(t, u, d, rc) ==
    \/ Same(t, u) /\ rc \in Failing /\ (rc = "ENXIO" <=> ~t.card)
    \/ /\ t.card /\ Typed(u) /\ Typed(d)
       /\ But(t, d, Loose \cup {"cpart", "cacheOn", "cached", "hist", "bkRun", "csec"}) /\ (Up(t) => Up(u))
       /\ \/ rc = "EOK" /\ u = d
          \/ rc = "ETIMEDOUT" /\ But(d, u, {"faults", "hist"}) /\ u.hist = d.hist \cup {"ghost"}

\* sdio_send_cmd() returns in one of these ways.
LEMMA SendDoes ==
    ASSUME NEW t, Typed(t), Up(t), NEW c, NEW o \in sdio_send_cmd(t, c)
    PROVE  \E a : Typed(a) /\ But(t, a, Loose) /\ Did(t, o[1], CardDoes(a, c), o[2])
  <1>1. CASE Same(t, o[1]) /\ o[2] \in Failing /\ (o[2] = "ENXIO" <=> ~t.card) BY <1>1 DEF Did, But
  <1>2. CASE t.card /\ \E a : Same(t, a) /\ (o = <<CardDoes(a, c), "EOK">> \/ o = Lost(a, c))
    <2>1. PICK a : Same(t, a) /\ (o = <<CardDoes(a, c), "EOK">> \/ o = Lost(a, c)) BY <1>2
    <2> DEFINE d == CardDoes(a, c)
    <2>2. Typed(d) /\ But(a, d, {"cpart", "cacheOn", "cached", "hist", "bkRun", "cbk", "csec"})
      BY <2>1, CardDoesIs DEF Same
    <2> HIDE DEF d
    <2>3. But(t, d, Loose \cup {"cpart", "cacheOn", "cached", "hist", "bkRun", "csec"})
      BY <2>1, <2>2 DEF Same, But, Loose
    <2>4. d.card = a.card /\ d.hpm = a.hpm /\ Up(a) BY <1>2, <2>1, <2>2 DEF Same, But, Keys
    <2>5. CASE o = <<d, "EOK">> BY <1>2, <2>1, <2>2, <2>3, <2>4, <2>5 DEF Did, Up, Same, d
    <2>6. CASE o = <<Note(Spend(d), d # a, "ghost"), "ETIMEDOUT">>
      <3>1. Typed(Spend(d)) /\ But(d, Spend(d), {"faults"}) BY <2>2, SpendIs
      <3> DEFINE u == Note(Spend(d), d # a, "ghost")
      <3>0. Spend(d).hist = d.hist BY <3>1 DEF But, Keys
      <3>2. /\ Typed(u) /\ But(Spend(d), u, {"hist"})
            /\ u.hist = IF d # a THEN Spend(d).hist \cup {"ghost"} ELSE Spend(d).hist
        <4>1. \A p \in BOOLEAN : LET w == Note(Spend(d), p, "ghost") IN
                /\ Typed(w) /\ But(Spend(d), w, {"hist"})
                /\ w.hist = IF p THEN Spend(d).hist \cup {"ghost"} ELSE Spend(d).hist
          BY <3>1, NoteIs
        <4> QED BY <4>1, (d # a) \in BOOLEAN
      <3> HIDE DEF u
      <3>3. But(d, u, {"faults", "hist"}) /\ u.card = d.card /\ u.hpm = d.hpm BY <3>1, <3>2 DEF But, Keys
      <3>4. CASE d = a
        <4>0. u.hist = a.hist BY <3>0, <3>2, <3>4
        <4>1. Same(a, u)
          <5>1. But(a, u, Loose) BY <3>3, <3>4, <4>0 DEF But, Loose
          <5> QED BY <2>1, <2>4, <3>2, <3>3, <3>4, <5>1 DEF Same, Up
        <4>2. Same(t, u) BY <2>1, <4>1, SameTrans
        <4> QED BY <1>2, <2>1, <2>6, <4>2 DEF Did, Failing, Same, u
      <3>5. CASE d # a BY <1>2, <2>1, <2>2, <2>3, <2>4, <2>6, <3>0, <3>2, <3>3, <3>5 DEF Did, Up, Same, u, d
      <3> QED BY <3>4, <3>5
    <2> QED BY <2>1, <2>5, <2>6 DEF Lost, d
  <1> QED BY <1>1, <1>2, Send

\* The same, for a command that changes the fields K of the card.
Sent(t, u, d, rc, K) ==
    \/ Same(t, u) /\ rc \in Failing /\ (rc = "ENXIO" <=> ~t.card)
    \/ /\ t.card /\ Typed(u) /\ Typed(d) /\ (Up(t) => Up(u)) /\ But(t, u, K \cup Loose \cup {"hist"})
       /\ But(t, d, K \cup Loose)
       /\ \/ rc = "EOK" /\ u = d
          \/ rc = "ETIMEDOUT" /\ But(d, u, {"faults", "hist"}) /\ u.hist = d.hist \cup {"ghost"}

\* A command that changes K at most was sent in this sense.
LEMMA SentIs ==
    ASSUME NEW t, NEW u, NEW a, NEW d, NEW rc, NEW K, But(t, a, Loose), But(a, d, K), Did(t, u, d, rc)
    PROVE  Sent(t, u, d, rc, K)
  <1>1. But(t, d, K \cup Loose) BY DEF But
  <1>2. ASSUME But(d, u, {"faults", "hist"}) PROVE But(t, u, K \cup Loose \cup {"hist"})
    BY <1>1, <1>2 DEF But, Loose
  <1>3. ASSUME u = d PROVE But(t, u, K \cup Loose \cup {"hist"}) BY <1>1, <1>3 DEF But
  <1> QED BY <1>1, <1>2, <1>3 DEF Sent, Did

\* The switch of CMD6: the card is on partition p, heard or not.
LEMMA SendPartition ==
    ASSUME NEW t, Typed(t), Up(t), NEW p, NEW o \in sdio_send_cmd(t, Command("PARTITION", p))
    PROVE  \E d : Sent(t, o[1], d, o[2], {"cpart"}) /\ d.cpart = p
  <1>1. PICK a : Typed(a) /\ But(t, a, Loose) /\ Did(t, o[1], CardDoes(a, Command("PARTITION", p)), o[2])
    BY SendDoes
  <1> DEFINE d == CardDoes(a, Command("PARTITION", p))
  <1>2. d = [a EXCEPT !.cpart = p] BY DEF CardDoes, Command
  <1>3. But(a, d, {"cpart"}) /\ d.cpart = p BY <1>1, <1>2 DEF But, Typed, Keys
  <1> HIDE DEF d
  <1> QED BY <1>1, <1>3, SentIs DEF d

\* What the cache commands change.
OnCache == {"cacheOn", "cached"}

\* The cache commands: the cache keeps its data when it is turned on, and has none
\* after a flush or when it is turned off.
CacheDid(t, d, c) == /\ c = "CACHE_ON" => d.cached = t.cached /\ d.cacheOn = TRUE
                     /\ c = "CACHE_OFF" => d.cacheOn = FALSE /\ d.cached = FALSE
                     /\ c = "FLUSH" => d.cacheOn = t.cacheOn /\ d.cached = FALSE

\* They do this, heard or not.
LEMMA SendCache ==
    ASSUME NEW t, Typed(t), Up(t), NEW c, c \in {"CACHE_ON", "CACHE_OFF", "FLUSH"},
           NEW o \in sdio_send_cmd(t, Command(c, ""))
    PROVE  \E d : Sent(t, o[1], d, o[2], OnCache) /\ CacheDid(t, d, c)
  <1>1. PICK a : Typed(a) /\ But(t, a, Loose) /\ Did(t, o[1], CardDoes(a, Command(c, "")), o[2])
    BY SendDoes
  <1> DEFINE d == CardDoes(a, Command(c, ""))
  <1>0. a.cacheOn = t.cacheOn /\ a.cached = t.cached BY <1>1 DEF But, Loose, Keys
  <1>3. But(a, d, OnCache) /\ CacheDid(t, d, c)
    <2>1. CASE c = "CACHE_ON"
      <3>1. d = [a EXCEPT !.cacheOn = TRUE] BY <2>1 DEF CardDoes, Command
      <3> QED BY <1>0, <1>1, <2>1, <3>1 DEF But, Typed, Keys, OnCache, CacheDid
    <2>2. CASE c = "CACHE_OFF"
      <3>1. d = [a EXCEPT !.cacheOn = FALSE, !.cached = FALSE] BY <2>2 DEF CardDoes, Command
      <3> QED BY <1>0, <1>1, <2>2, <3>1 DEF But, Typed, Keys, OnCache, CacheDid
    <2>3. CASE c = "FLUSH"
      <3>1. d = [a EXCEPT !.cached = FALSE] BY <2>3 DEF CardDoes, Command
      <3> QED BY <1>0, <1>1, <2>3, <3>1 DEF But, Typed, Keys, OnCache, CacheDid
    <2> QED BY <2>1, <2>2, <2>3
  <1> HIDE DEF d
  <1> QED BY <1>1, <1>3, SentIs DEF d

\* An erase goes astray when the card is on another partition.
LEMMA SendErase ==
    ASSUME NEW t, Typed(t), Up(t), NEW p, NEW o \in sdio_send_cmd(t, Command("ERASE", p))
    PROVE  \E d : /\ Sent(t, o[1], d, o[2], {"hist"})
                  /\ d.hist = IF t.dtype = "MMC" /\ t.cpart # p THEN t.hist \cup {"stray"} ELSE t.hist
  <1>1. PICK a : Typed(a) /\ But(t, a, Loose) /\ Did(t, o[1], CardDoes(a, Command("ERASE", p)), o[2])
    BY SendDoes
  <1> DEFINE d == CardDoes(a, Command("ERASE", p))
  <1>2. d = Note(a, a.dtype = "MMC" /\ a.cpart # p, "stray") BY DEF CardDoes, Command
  <1>3. But(a, d, {"hist"}) /\ d.hist = IF a.dtype = "MMC" /\ a.cpart # p THEN a.hist \cup {"stray"} ELSE a.hist
    BY <1>1, <1>2 DEF Note, But, Typed, Keys
  <1>4. a.dtype = t.dtype /\ a.cpart = t.cpart /\ a.hist = t.hist BY <1>1 DEF But, Loose, Keys
  <1> HIDE DEF d
  <1> QED BY <1>1, <1>3, <1>4, SentIs DEF d

\* A secure command is misdirected when another system is selected.
LEMMA SendSecure ==
    ASSUME NEW t, Typed(t), Up(t), NEW o \in sdio_send_cmd(t, Command("SECURE", ""))
    PROVE  \E d : /\ Sent(t, o[1], d, o[2], {"hist"})
                  /\ d.hist = IF t.asec # "none" /\ t.csec # t.asec THEN t.hist \cup {"misdirected"} ELSE t.hist
  <1>1. PICK a : Typed(a) /\ But(t, a, Loose) /\ Did(t, o[1], CardDoes(a, Command("SECURE", "")), o[2])
    BY SendDoes
  <1> DEFINE d == CardDoes(a, Command("SECURE", ""))
  <1>2. d = Note(a, a.asec # "none" /\ a.csec # a.asec, "misdirected") BY DEF CardDoes, Command
  <1>3. But(a, d, {"hist"}) /\ d.hist = IF a.asec # "none" /\ a.csec # a.asec THEN a.hist \cup {"misdirected"} ELSE a.hist
    BY <1>1, <1>2 DEF Note, But, Typed, Keys
  <1>4. a.asec = t.asec /\ a.csec = t.csec /\ a.hist = t.hist BY <1>1 DEF But, Loose, Keys
  <1> HIDE DEF d
  <1> QED BY <1>1, <1>3, <1>4, SentIs DEF d

\* The selection of a security system.
LEMMA SendSelect ==
    ASSUME NEW t, Typed(t), Up(t), NEW p, NEW o \in sdio_send_cmd(t, Command("SELECT", p))
    PROVE  \E d : Sent(t, o[1], d, o[2], {"csec"}) /\ d.csec = p
  <1>1. PICK a : Typed(a) /\ But(t, a, Loose) /\ Did(t, o[1], CardDoes(a, Command("SELECT", p)), o[2])
    BY SendDoes
  <1> DEFINE d == CardDoes(a, Command("SELECT", p))
  <1>2. d = [a EXCEPT !.csec = p] BY DEF CardDoes, Command
  <1>3. But(a, d, {"csec"}) /\ d.csec = p BY <1>1, <1>2 DEF But, Typed, Keys
  <1> HIDE DEF d
  <1> QED BY <1>1, <1>3, SentIs DEF d

\* The start of a background operation.
LEMMA SendBkops ==
    ASSUME NEW t, Typed(t), Up(t), NEW p, NEW o \in sdio_send_cmd(t, Command("BKOPS", p))
    PROVE  \E d : Sent(t, o[1], d, o[2], {"bkRun"}) /\ d.bkRun = p
  <1>1. PICK a : Typed(a) /\ But(t, a, Loose) /\ Did(t, o[1], CardDoes(a, Command("BKOPS", p)), o[2])
    BY SendDoes
  <1> DEFINE d == CardDoes(a, Command("BKOPS", p))
  <1>2. d = [a EXCEPT !.bkRun = p, !.cbk = IF p THEN @ ELSE 0] BY DEF CardDoes, Command
  <1>3. But(a, d, {"bkRun", "cbk"}) /\ d.bkRun = p BY <1>1, <1>2 DEF But, Typed, Keys
  <1> HIDE DEF d
  <1>4. Sent(t, o[1], d, o[2], {"bkRun", "cbk"}) BY <1>1, <1>3, SentIs DEF d
  <1>5. {"bkRun", "cbk"} \cup Loose = {"bkRun"} \cup Loose BY DEF Loose
  <1> QED BY <1>3, <1>4, <1>5 DEF Sent

\* The interruption of one.
LEMMA SendHpi ==
    ASSUME NEW t, Typed(t), Up(t), NEW o \in sdio_send_cmd(t, Command("HPI", ""))
    PROVE  \E d : Sent(t, o[1], d, o[2], {"bkRun"}) /\ d.bkRun = FALSE
  <1>1. PICK a : Typed(a) /\ But(t, a, Loose) /\ Did(t, o[1], CardDoes(a, Command("HPI", "")), o[2])
    BY SendDoes
  <1> DEFINE d == CardDoes(a, Command("HPI", ""))
  <1>2. d = [a EXCEPT !.bkRun = FALSE] BY DEF CardDoes, Command
  <1>3. But(a, d, {"bkRun"}) /\ d.bkRun = FALSE BY <1>1, <1>2 DEF But, Typed, Keys
  <1> HIDE DEF d
  <1> QED BY <1>1, <1>3, SentIs DEF d

\* What a transfer changes.
OnData == {"cached", "hist"}

\* What a transfer leaves in the history when something is not as it should be.
Marks(t, p) ==
    (IF t.dtype = "MMC" /\ t.cpart # p THEN {"stray"} ELSE {})
      \cup (IF t.bkRun /\ t.drvr = "RUN" THEN {"overlap"} ELSE {})

\* A transfer leaves these marks, and data in a cache only by a write and only if
\* the cache is on.
LEMMA SendData ==
    ASSUME NEW t, Typed(t), Up(t), NEW p, NEW c, c \in {"READ", "WRITE"},
           NEW o \in sdio_send_cmd(t, Command(c, p))
    PROVE  \E d : /\ Sent(t, o[1], d, o[2], OnData) /\ d.hist = t.hist \cup Marks(t, p)
                  /\ d.cached => t.cached \/ (c = "WRITE" /\ t.cacheOn)
  <1>1. PICK a : Typed(a) /\ But(t, a, Loose) /\ Did(t, o[1], CardDoes(a, Command(c, p)), o[2])
    BY SendDoes
  <1> DEFINE d == CardDoes(a, Command(c, p))
             m == Note(a, a.dtype = "MMC" /\ a.cpart # p, "stray")
             n == Note(m, a.bkRun /\ a.drvr = "RUN", "overlap")
  <1>2. d = [n EXCEPT !.cached = @ \/ (c = "WRITE" /\ a.cacheOn)] BY DEF CardDoes, Command
  <1>4. /\ a.dtype = t.dtype /\ a.cpart = t.cpart /\ a.hist = t.hist /\ a.bkRun = t.bkRun /\ a.drvr = t.drvr
        /\ a.cacheOn = t.cacheOn /\ a.cached = t.cached
    BY <1>1 DEF But, Loose, Keys
  <1>5. Typed(m) /\ But(a, m, {"hist"}) /\ m.hist = IF a.dtype = "MMC" /\ a.cpart # p THEN a.hist \cup {"stray"} ELSE a.hist
    BY <1>1 DEF Note, Typed, But, Keys
  <1> HIDE DEF m
  <1>6. Typed(n) /\ But(m, n, {"hist"}) /\ n.hist = IF a.bkRun /\ a.drvr = "RUN" THEN m.hist \cup {"overlap"} ELSE m.hist
    BY <1>5 DEF Note, Typed, But, Keys
  <1> HIDE DEF n
  <1>7. n.hist = t.hist \cup Marks(t, p) BY <1>4, <1>5, <1>6 DEF Marks
  <1>8. But(n, d, {"cached"}) /\ d.cached = (n.cached \/ (c = "WRITE" /\ a.cacheOn))
    BY <1>2, <1>6 DEF Typed, But, Keys
  <1> HIDE DEF d
  <1>9. But(a, d, OnData) /\ n.cached = a.cached /\ d.hist = n.hist
    BY <1>5, <1>6, <1>8 DEF But, Keys, OnData
  <1>10. Sent(t, o[1], d, o[2], OnData) BY <1>1, <1>9, SentIs DEF d
  <1> QED BY <1>4, <1>7, <1>8, <1>9, <1>10

------------------------------------------------------------------------------

\* Commands of the driver library.

\* A flag is set and nothing else, ...
LEMMA SetIs ==
    ASSUME NEW t, Typed(t), NEW f
    PROVE  Typed(Set(t, f)) /\ But(t, Set(t, f), {"eflags"}) /\ Set(t, f).eflags = t.eflags \cup {f}
  BY DEF Set, Typed, But, Keys

\* ... or cleared.
LEMMA ClearIs ==
    ASSUME NEW t, Typed(t), NEW f
    PROVE  Typed(Clear(t, f)) /\ But(t, Clear(t, f), {"eflags"}) /\ Clear(t, f).eflags = t.eflags \ {f}
  BY DEF Clear, Typed, But, Keys

\* A command that asks nothing is an easy step.
LEMMA PlainIsEasy ==
    ASSUME NEW t, Midway(t), NEW o \in sdio_send_cmd(t, Plain)
    PROVE  Same(t, o[1]) /\ Easy(t, o[1]) /\ (o[2] = "EOK" => t.card)
  BY SendPlain, SameG DEF Midway, Base

\* A command whose answer was lost: the card may have done anything, the
\* invariant allows for it from then on.
LEMMA GhostBase ==
    ASSUME NEW t, NEW u, Base(t), Typed(u), t.card,
           But(t, u, {"cpart", "cacheOn", "cached", "wce", "bkRun", "csec", "hist"} \cup Loose),
           t.hist \cup {"ghost"} \subseteq u.hist, u.hist \subseteq t.hist \cup {"ghost"}
    PROVE  Base(u) /\ Ghost(u) /\ BkInv(u) /\ Calm(u) /\ u.hist = t.hist \cup {"ghost"}
  <1>1. u.card = t.card /\ u.asec = t.asec /\ u.caps = t.caps /\ u.wp = t.wp
    BY DEF But, Keys, Loose
  <1> QED BY <1>1 DEF Base, CacheInv, LossInv, TagInv, Off, Sound, Ghost, BkInv, Calm

\* sdio_set_partition(): once it succeeds the card is on p; a switch whose answer
\* was lost leaves the card elsewhere than the module believes.
LEMMA SetPartition ==
    ASSUME NEW t, Intact(t), NEW p, NEW o \in sdio_set_partition(t, p)
    PROVE  /\ Midway(o[1]) /\ Kept(t, o[1]) /\ (Calm(t) => Calm(o[1])) /\ But(t, o[1], {"cpart", "pactive", "hist"} \cup Loose)
           /\ o[2] = "EOK" => PartInv(o[1]) /\ OnTarget(o[1], p)
           /\ PartInv(o[1]) \/ o[1].cpart # o[1].pactive
  <1>0. Midway(t) /\ Typed(t) /\ Up(t) /\ PartInv(t) BY DEF Intact, Midway, Base
  <1>1. CASE ~t.card \/ t.dtype # "MMC" \/ t.pactive = p
    <2>1. o = <<t, "ENXIO">> \/ (o = <<t, "EOK">> /\ (t.dtype # "MMC" \/ t.pactive = p))
      <3>1. CASE ~t.card BY <3>1 DEF sdio_set_partition, _sdio_synchronize, Ret
      <3>2. CASE t.card
        BY <1>1, <3>2 DEF sdio_set_partition, _sdio_synchronize, Where, mmc_set_partition, Ret
      <3> QED BY <3>1, <3>2
    <2>2. o[1] = t /\ (o[2] = "EOK" => t.dtype # "MMC" \/ t.pactive = p) BY <2>1
    <2> QED BY <1>0, <2>2 DEF Kept, Held, But, PartInv, OnTarget
  <1>2. CASE t.card /\ t.dtype = "MMC" /\ t.pactive # p
    <2>1. PICK w \in sdio_send_cmd(t, Command("PARTITION", p)) :
            IF w[2] = "EOK" THEN o = <<[w[1] EXCEPT !.pactive = p], "EOK">> ELSE o = w
      BY <1>2 DEF sdio_set_partition, _sdio_synchronize, Where, mmc_set_partition, Ret, OnOk, sdio_mmc_switch
    <2>2. PICK d : Sent(t, w[1], d, w[2], {"cpart"}) /\ d.cpart = p BY <1>0, SendPartition
    <2> DEFINE a == w[1]
    <2>3. CASE Same(t, a) /\ w[2] \in Failing
      <3>1. o = w BY <2>1, <2>3 DEF Failing
      <3>2. Easy(t, a) BY <1>0, <2>3, SameG
      <3> QED BY <1>0, <2>3, <3>1, <3>2 DEF Easy, Same, Failing, But
    <2>4. CASE w[2] = "EOK" /\ a = d /\ Typed(d) /\ But(t, d, {"cpart"} \cup Loose) /\ (Up(t) => Up(a))
      <3> DEFINE u == [d EXCEPT !.pactive = p]
      <3>1. o = <<u, "EOK">> BY <2>1, <2>4
      <3>2. Typed(u) /\ But(d, u, {"pactive"}) /\ u.pactive = p BY <2>4 DEF Typed, But, Keys
      <3> HIDE DEF u
      <3>3. /\ u.hist = t.hist /\ u.cached = t.cached /\ u.cacheOn = t.cacheOn /\ u.eflags = t.eflags
            /\ u.wce = t.wce /\ u.caps = t.caps /\ u.wp = t.wp /\ u.card = t.card /\ u.bkRun = t.bkRun
            /\ u.asec = t.asec /\ u.dtype = t.dtype /\ u.drvr = t.drvr /\ u.inprog = t.inprog /\ u.csec = t.csec
        BY <2>4, <3>2 DEF But, Keys, Loose
      <3>4. u.cpart = p /\ Up(u) BY <1>0, <2>2, <2>4, <3>2 DEF But, Keys, Up
      <3>5. But(t, u, {"cpart", "pactive", "hist"} \cup Loose) BY <2>4, <3>2 DEF But
      <3>6. Base(u) BY <1>0, <1>2, <3>2, <3>3, <3>4 DEF Midway, Base, CacheInv, LossInv, TagInv, Off, Sound, Ghost, Flag
      <3>7. SecInv(u) /\ BkInv(u) /\ Kept(t, u) /\ (Calm(t) => Calm(u))
        BY <1>0, <3>3 DEF Midway, SecInv, BkInv, Kept, Held, DirtyOk, Ghost, Flag, Calm
      <3> QED BY <3>1, <3>2, <3>4, <3>5, <3>6, <3>7 DEF Midway, PartInv, OnTarget
    <2>5. CASE w[2] = "ETIMEDOUT" /\ But(d, a, {"faults", "hist"}) /\ a.hist = d.hist \cup {"ghost"}
               /\ But(t, d, {"cpart"} \cup Loose) /\ But(t, a, {"cpart"} \cup Loose \cup {"hist"}) /\ Typed(a) /\ Up(a)
      <3>1. o = w BY <2>1, <2>5
      <3>2. d.hist = t.hist BY <2>5 DEF But, Keys, Loose
      <3>3. /\ a.cacheOn = t.cacheOn /\ a.eflags = t.eflags /\ a.pactive = t.pactive /\ a.cpart = d.cpart
            /\ a.caps = t.caps /\ a.asec = t.asec /\ a.dtype = t.dtype /\ a.drvr = t.drvr /\ a.csec = t.csec
        BY <2>5 DEF But, Keys, Loose
      <3>4. But(t, a, {"cpart", "cacheOn", "cached", "wce", "bkRun", "csec", "hist"} \cup Loose) BY <2>5 DEF But
      <3>5. Base(a) /\ Ghost(a) /\ BkInv(a) /\ Calm(a) /\ a.hist = t.hist \cup {"ghost"}
        BY <1>0, <1>2, <2>5, <3>2, <3>4, GhostBase DEF Midway
      <3>6. SecInv(a) /\ Kept(t, a) BY <1>0, <3>3, <3>5 DEF Midway, SecInv, Kept, Held, DirtyOk, Ghost, Flag
      <3>7. a.cpart # a.pactive BY <1>2, <2>2, <3>3
      <3>8. But(t, a, {"cpart", "pactive", "hist"} \cup Loose) BY <2>5 DEF But
      <3> QED BY <2>5, <3>1, <3>5, <3>6, <3>7, <3>8 DEF Midway
    <2> QED BY <1>0, <2>2, <2>3, <2>4, <2>5 DEF Sent
  <1> QED BY <1>1, <1>2

\* What sdio_cache() may change.
CacheFields == {"cacheOn", "cached", "wce", "hist"} \cup Loose

\* The outcomes of sdio_cache(): nothing was done, the answer was lost, or the card
\* did what it was asked to.
CacheAnswer(t, u, rc, op) ==
    \/ Same(t, u) /\ (rc = "EOK" => op = "flush" /\ ~t.wce)
    \/ t.card /\ rc # "EOK" /\ u.hist = t.hist \cup {"ghost"}
    \/ /\ t.card /\ rc = "EOK" /\ "CACHE" \in t.caps /\ u.hist = t.hist
       /\ op = "enable" => u.cached = t.cached /\ u.wce = TRUE /\ u.cacheOn = TRUE
       /\ op = "disable" => ~u.cached /\ ~u.cacheOn
       /\ op = "flush" => ~u.cached /\ u.cacheOn = t.cacheOn /\ u.wce = t.wce

\* sdio_cache() has one of these outcomes, for each operation.
LEMMA CacheCall ==
    ASSUME NEW t, Base(t), Up(t), NEW op \in {"enable", "disable", "flush"}, NEW o \in sdio_cache(t, op)
    PROVE  /\ Typed(o[1]) /\ Up(o[1]) /\ But(t, o[1], CacheFields)
           /\ CacheAnswer(t, o[1], o[2], op)
  <1>0. Typed(t) BY DEF Base
  <1>1. CASE o[1] = t /\ (o[2] = "EOK" => op = "flush" /\ ~t.wce)
    BY <1>0, <1>1, SameSelf DEF But, CacheAnswer
  <1>2. CASE "CACHE" \notin t.caps
    <2>1. o = <<t, "ENOTSUP">> BY <1>2 DEF sdio_cache, Ret
    <2> QED BY <1>1, <2>1
  <1>3. CASE "CACHE" \in t.caps /\ ~t.card
    <2>1. o = <<t, "ENXIO">> BY <1>3 DEF sdio_cache, _sdio_synchronize, Ret
    <2> QED BY <1>1, <2>1
  <1>4. CASE "CACHE" \in t.caps /\ t.card
    <2> DEFINE c == CASE op = "enable" -> "CACHE_ON" [] op = "disable" -> "CACHE_OFF" [] op = "flush" -> "FLUSH"
               F(x) == [x EXCEPT !.wce = IF op = "flush" THEN @ ELSE op = "enable"]
    <2>0. c \in {"CACHE_ON", "CACHE_OFF", "FLUSH"}
          /\ (op = "enable" <=> c = "CACHE_ON") /\ (op = "disable" <=> c = "CACHE_OFF")
      OBVIOUS
    <2>1. o \in mmc_cache(t, op) BY <1>4 DEF sdio_cache, _sdio_synchronize
    <2>2. \/ o = <<t, "EOK">> /\ op = "flush" /\ ~t.wce
          \/ \E w \in sdio_send_cmd(t, Command(c, "")) :
               IF w[2] = "EOK" THEN o = <<F(w[1]), "EOK">> ELSE o = w
      BY <2>1 DEF mmc_cache, Where, Ret, OnOk
    <2> HIDE DEF c
    <2>3. CASE o = <<t, "EOK">> /\ op = "flush" /\ ~t.wce BY <1>1, <2>3
    <2>4. ASSUME NEW w \in sdio_send_cmd(t, Command(c, "")),
                 IF w[2] = "EOK" THEN o = <<F(w[1]), "EOK">> ELSE o = w
          PROVE  /\ Typed(o[1]) /\ Up(o[1]) /\ But(t, o[1], CacheFields)
                 /\ CacheAnswer(t, o[1], o[2], op)
      <3>1. PICK d : Sent(t, w[1], d, w[2], OnCache) /\ CacheDid(t, d, c)
        BY <1>0, <2>0, <2>4, SendCache
      <3> DEFINE a == w[1]
      <3>2. CASE Same(t, a) /\ w[2] \in Failing
        <4>1. o = w BY <2>4, <3>2 DEF Failing
        <4> QED BY <3>2, <4>1 DEF Same, But, CacheFields, Failing, CacheAnswer
      <3>3. CASE w[2] = "EOK" /\ a = d /\ Typed(d) /\ But(t, d, OnCache \cup Loose) /\ (Up(t) => Up(a))
        <4> DEFINE u == F(d)
        <4>1. o = <<u, "EOK">> BY <2>4, <3>3
        <4>2. Typed(u) /\ But(d, u, {"wce"}) /\ u.wce = (IF op = "flush" THEN d.wce ELSE op = "enable")
          BY <3>3 DEF Typed, But, Keys
        <4> HIDE DEF u
        <4>3. d.hist = t.hist /\ d.wce = t.wce /\ u.hist = d.hist /\ u.cached = d.cached /\ u.cacheOn = d.cacheOn
          BY <3>3, <4>2 DEF But, Keys, Loose, OnCache
        <4>4. But(t, u, CacheFields) BY <3>3, <4>2 DEF But, CacheFields, OnCache
        <4>5. Up(u) BY <3>3, <4>2 DEF Up, But, Keys
        <4> QED BY <1>4, <2>0, <3>1, <4>1, <4>2, <4>3, <4>4, <4>5 DEF CacheAnswer, CacheDid
      <3>4. CASE w[2] = "ETIMEDOUT" /\ But(d, a, {"faults", "hist"}) /\ a.hist = d.hist \cup {"ghost"}
                 /\ But(t, d, OnCache \cup Loose)
                 /\ But(t, a, OnCache \cup Loose \cup {"hist"}) /\ Typed(a) /\ Up(a)
        <4>1. o = w BY <2>4, <3>4
        <4>2. d.hist = t.hist BY <3>4 DEF But, Keys, Loose, OnCache
        <4>3. But(t, a, CacheFields) BY <3>4 DEF But, CacheFields, OnCache
        <4> QED BY <1>4, <3>4, <4>1, <4>2, <4>3 DEF CacheAnswer
      <3> QED BY <3>1, <3>2, <3>3, <3>4 DEF Sent
    <2> QED BY <2>2, <2>3, <2>4
  <1> QED BY <1>2, <1>3, <1>4

\* A flush is an easy step; if it succeeds the card holds no data.
LEMMA FlushIsEasy ==
    ASSUME NEW t, Midway(t), NEW o \in sdio_cache(t, "flush")
    PROVE  Easy(t, o[1]) /\ (o[2] = "EOK" => ~o[1].cached \/ Ghost(o[1]))
  <1> DEFINE u == o[1]
  <1>0. Base(t) /\ Up(t) /\ SecInv(t) /\ BkInv(t) BY DEF Midway
  <1>1. /\ Typed(u) /\ Up(u) /\ But(t, u, CacheFields)
        /\ \/ Same(t, u) /\ (o[2] = "EOK" => ~t.wce)
           \/ t.card /\ o[2] # "EOK" /\ u.hist = t.hist \cup {"ghost"}
           \/ t.card /\ o[2] = "EOK" /\ u.hist = t.hist /\ ~u.cached /\ u.cacheOn = t.cacheOn /\ u.wce = t.wce
    <2>1. Typed(u) /\ Up(u) /\ But(t, u, CacheFields) /\ CacheAnswer(t, u, o[2], "flush") BY <1>0, CacheCall
    <2> QED BY <2>1 DEF CacheAnswer
  <1>2. /\ u.eflags = t.eflags /\ u.caps = t.caps /\ u.wp = t.wp /\ u.card = t.card /\ u.bkRun = t.bkRun
        /\ u.asec = t.asec /\ u.dtype = t.dtype /\ u.drvr = t.drvr /\ u.inprog = t.inprog /\ u.csec = t.csec
        /\ u.cpart = t.cpart /\ u.pactive = t.pactive
    BY <1>1 DEF But, Keys, Loose, CacheFields
  <1> HIDE DEF u
  <1>3. CASE Same(t, u) /\ (o[2] = "EOK" => ~t.wce)
    <2>1. Easy(t, u) BY <1>3, SameG
    <2>2. u.hist = t.hist /\ u.cached = t.cached BY <1>3 DEF Same, But, Keys, Loose
    <2>3. ~t.wce => ~t.cached \/ Ghost(t) BY <1>0 DEF Base, CacheInv
    <2> QED BY <1>3, <2>1, <2>2, <2>3 DEF u, Ghost
  <1>4. CASE t.card /\ o[2] # "EOK" /\ u.hist = t.hist \cup {"ghost"}
    <2>1. But(t, u, {"cpart", "cacheOn", "cached", "wce", "bkRun", "csec", "hist"} \cup Loose)
      BY <1>1 DEF But, CacheFields
    <2>2. Base(u) /\ Ghost(u) /\ BkInv(u) /\ Calm(u) BY <1>0, <1>1, <1>4, <2>1, GhostBase
    <2> QED BY <1>0, <1>1, <1>2, <1>4, <2>2 DEF u, Easy, Midway, PartInv, SecInv, Kept, Held, DirtyOk, Ghost, Flag, Calm, OnTarget
  <1>5. CASE t.card /\ o[2] = "EOK" /\ u.hist = t.hist /\ ~u.cached /\ u.cacheOn = t.cacheOn /\ u.wce = t.wce
    <2>1. Base(u) BY <1>0, <1>1, <1>2, <1>5 DEF Base, CacheInv, LossInv, TagInv, Off, Sound, Ghost, Flag
    <2> QED BY <1>0, <1>1, <1>2, <1>5, <2>1
        DEF u, Easy, Midway, PartInv, SecInv, BkInv, Kept, Held, DirtyOk, Ghost, Flag, Calm, OnTarget
  <1> QED BY <1>1, <1>3, <1>4, <1>5

\* What sdio_reset() may change.
ResetFields == {"cached", "cacheOn", "wce", "cpart", "pactive", "bkRun", "csec", "hist", "faults", "card"}

\* After a power cycle the cache is off and empty, nothing runs, the partition is
\* the one that is believed, and data the cache held is lost.
Cleared(t, u) ==
    /\ Typed(u) /\ But(t, u, ResetFields) /\ u.card \in {t.card, FALSE}
    /\ ~u.cached /\ ~u.cacheOn /\ ~u.bkRun /\ u.cpart = u.pactive
    /\ u.hist = IF t.cached THEN t.hist \cup {"lost"} ELSE t.hist

\* The card after its power was off.
LEMMA PowerCycleIs ==
    ASSUME NEW t, Typed(t)
    PROVE  Cleared(t, PowerCycle(t)) /\ PowerCycle(t).card = t.card
  <1> DEFINE n == Note(t, t.cached, "lost")
  <1>1. Typed(n) /\ But(t, n, {"hist"}) /\ n.hist = IF t.cached THEN t.hist \cup {"lost"} ELSE t.hist
    BY DEF Note, Typed, But, Keys
  <1> HIDE DEF n
  <1>2. PowerCycle(t) = [n EXCEPT !.cached = FALSE, !.cacheOn = FALSE, !.wce = FALSE,
          !.cpart = User, !.pactive = User, !.bkRun = FALSE, !.csec = "none"] BY DEF PowerCycle, n
  <1> DEFINE u == PowerCycle(t)
  <1>3. DOMAIN u = DOMAIN n BY <1>2
  <1>4. /\ u.cached = FALSE /\ u.cacheOn = FALSE /\ u.bkRun = FALSE /\ u.cpart = User /\ u.pactive = User
        /\ u.hist = n.hist /\ u.hpm = n.hpm /\ u.card = n.card
    BY <1>1, <1>2 DEF Typed, Keys
  <1>5. ASSUME NEW k \in Keys \ ResetFields PROVE u[k] = n[k]
    BY <1>1, <1>2 DEF Typed, Keys, ResetFields
  <1> HIDE DEF u
  <1>6. n.hpm = t.hpm /\ n.card = t.card BY <1>1 DEF But, Keys
  <1>7. But(t, u, ResetFields) BY <1>1, <1>5 DEF But, ResetFields
  <1>8. Typed(u) BY <1>1, <1>3, <1>4, <1>6 DEF Typed
  <1> QED BY <1>1, <1>4, <1>6, <1>7, <1>8 DEF Cleared, u

\* The reset of the driver library does this, whether the card came back or not, ...
LEMMA _ResetClears ==
    ASSUME NEW t, Typed(t), NEW o \in _sdio_reset(t)
    PROVE  Cleared(t, o[1])
  <1> DEFINE p == PowerCycle(t)
             u == [Spend(p) EXCEPT !.card = FALSE]
  <1>1. Cleared(t, p) BY PowerCycleIs
  <1>2. o \in Ret(p, "EOK") \cup (IF p.faults = 0 THEN {} ELSE Ret(u, "ENXIO"))
    BY DEF _sdio_reset
  <1> HIDE DEF p
  <1>3. Typed(Spend(p)) /\ But(p, Spend(p), {"faults"}) BY <1>1, SpendIs DEF Cleared
  <1>4. Typed(u) /\ But(Spend(p), u, {"card"}) /\ u.card = FALSE BY <1>3 DEF Typed, But, Keys
  <1> HIDE DEF u
  <1>7. o[1] = p \/ o[1] = u BY <1>2 DEF Ret
  <1>5. /\ u.cached = p.cached /\ u.cacheOn = p.cacheOn /\ u.bkRun = p.bkRun /\ u.cpart = p.cpart
        /\ u.pactive = p.pactive /\ u.hist = p.hist
    BY <1>3, <1>4 DEF But, Keys
  <1>6. But(t, u, ResetFields) BY <1>1, <1>3, <1>4 DEF Cleared, But, ResetFields
  <1> QED BY <1>1, <1>4, <1>5, <1>6, <1>7 DEF Cleared

\* ... and so does the one of its interface.
LEMMA ResetClears ==
    ASSUME NEW t, Base(t), NEW o \in sdio_reset(t)
    PROVE  Cleared(t, o[1])
  <1>1. CASE ~t.card
    <2>1. o[1] = t BY <1>1 DEF sdio_reset, _sdio_synchronize, Ret
    <2> QED BY <1>1, <2>1 DEF Base, Off, Cleared, But
  <1>2. CASE t.card
    <2>1. \E w \in _sdio_reset(t) : o = <<w[1], "EOK">> BY <1>2 DEF sdio_reset, _sdio_synchronize, As
    <2> QED BY <2>1, _ResetClears DEF Base
  <1> QED BY <1>1, <1>2

\* No step is an easy step.
LEMMA EasySelf == ASSUME NEW t, Midway(t) PROVE Easy(t, t)
  BY DEF Easy, Kept, Held

\* Tuning is an easy step, ...
LEMMA RetuneIsEasy ==
    ASSUME NEW t, Midway(t), NEW o \in sdio_retune(t)
    PROVE  Easy(t, o[1])
  <1>1. CASE ~t.tune \/ ~t.card
    <2>1. o[1] = t
      <3>1. CASE ~t.tune BY <3>1 DEF sdio_retune, Ret
      <3>2. CASE t.tune /\ ~t.card BY <3>2 DEF sdio_retune, _sdio_synchronize, Ret
      <3> QED BY <1>1, <3>1, <3>2
    <2> QED BY <2>1, EasySelf
  <1>2. CASE t.tune /\ t.card
    <2>1. PICK w \in sdio_send_cmd(t, Plain) : o = <<[w[1] EXCEPT !.tune = FALSE], w[2]>>
      BY <1>2 DEF sdio_retune, _sdio_synchronize
    <2> DEFINE a == w[1]
               u == [a EXCEPT !.tune = FALSE]
    <2>2. Same(t, a) BY PlainIsEasy
    <2> HIDE DEF a
    <2>3. Typed(u) /\ But(a, u, {"tune"}) BY <2>2 DEF Same, Typed, But, Keys
    <2>5. o[1] = u BY <2>1 DEF a
    <2> HIDE DEF u
    <2>4. Same(a, u) BY <2>2, <2>3 DEF Same, But, Loose, Up, Keys
    <2> QED BY <2>2, <2>4, <2>5, SameTrans, SameG
  <1> QED BY <1>1, <1>2

\* ... and so is the change to a slower bus.
LEMMA BusErrorIsEasy ==
    ASSUME NEW t, Midway(t), NEW o \in sdio_bus_error(t)
    PROVE  Easy(t, o[1])
  <1>1. CASE ~t.card
    <2>1. o[1] = t BY <1>1 DEF sdio_bus_error, _sdio_synchronize, Ret
    <2> QED BY <2>1, EasySelf
  <1>2. CASE t.card
    <2>1. \E w \in sdio_send_cmd(t, Plain) : o = <<w[1], "EOK">>
      BY <1>2 DEF sdio_bus_error, _sdio_synchronize, As
    <2> QED BY <2>1, PlainIsEasy
  <1> QED BY <1>1, <1>2

\* What a command to stop a background operation may change.
OnBkRun == {"bkRun", "hist"} \cup Loose

\* To stop a background operation is an easy step, heard or not.
LEMMA BkIsEasy ==
    ASSUME NEW t, NEW u, Midway(t), Typed(u), Up(u), But(t, u, OnBkRun), t.card,
           (u.hist = t.hist /\ ~u.bkRun) \/ u.hist = t.hist \cup {"ghost"}
    PROVE  Easy(t, u)
  <1>1. /\ u.cached = t.cached /\ u.cacheOn = t.cacheOn /\ u.eflags = t.eflags
        /\ u.wce = t.wce /\ u.caps = t.caps /\ u.wp = t.wp /\ u.card = t.card /\ u.pactive = t.pactive
        /\ u.asec = t.asec /\ u.dtype = t.dtype /\ u.drvr = t.drvr /\ u.inprog = t.inprog /\ u.csec = t.csec
        /\ u.cpart = t.cpart
    BY DEF But, Keys, Loose, OnBkRun
  <1>2. Base(u) BY <1>1 DEF Midway, Base, CacheInv, LossInv, TagInv, Off, Sound, Ghost, Flag
  <1> QED BY <1>1, <1>2 DEF Easy, Midway, PartInv, SecInv, BkInv, Kept, Held, DirtyOk, Ghost, Flag, Calm, OnTarget

\* sdio_hpi() is an easy step; if it succeeds nothing runs.
LEMMA HpiIsEasy ==
    ASSUME NEW t, Midway(t), NEW o \in sdio_hpi(t)
    PROVE  Easy(t, o[1]) /\ (o[2] = "EOK" => ~o[1].bkRun)
  <1>1. PICK w \in sdio_send_cmd(t, Plain) :
            o \in CASE w[2] = "EOK" /\ ~w[1].bkRun -> Ret(w[1], w[2])
                    [] w[2] = "ETIMEDOUT" \/ w[1].bkRun ->
                         OnOk(sdio_send_cmd(w[1], Command("HPI", "")), LAMBDA u : sdio_send_cmd(u, Plain))
                    [] OTHER -> Ret(w[1], w[2])
    BY DEF sdio_hpi, Look, sdio_wait_card_status
  <1> DEFINE a == w[1]
  <1>2. Easy(t, a) /\ Midway(a) /\ Typed(a) /\ Up(a) BY PlainIsEasy DEF Easy, Midway, Base
  <1>3. CASE w[2] = "EOK" /\ ~a.bkRun BY <1>1, <1>2, <1>3 DEF Ret
  <1>4. CASE ~(w[2] = "EOK" /\ ~a.bkRun) /\ (w[2] = "ETIMEDOUT" \/ a.bkRun)
    <2>1. o \in OnOk(sdio_send_cmd(a, Command("HPI", "")), LAMBDA u : sdio_send_cmd(u, Plain)) BY <1>1, <1>4
    <2>2. PICK v \in sdio_send_cmd(a, Command("HPI", "")) :
            IF v[2] = "EOK" THEN o \in sdio_send_cmd(v[1], Plain) ELSE o = v
      BY <2>1 DEF OnOk
    <2> HIDE DEF a
    <2>3. PICK d : Sent(a, v[1], d, v[2], {"bkRun"}) /\ d.bkRun = FALSE BY <1>2, SendHpi
    <2> DEFINE b == v[1]
    <2>4. Easy(a, b) /\ (v[2] = "EOK" => ~b.bkRun)
      <3>1. CASE Same(a, b) /\ v[2] \in Failing BY <1>2, <3>1, SameG DEF Failing
      <3>2. CASE /\ a.card /\ Typed(b) /\ Typed(d) /\ Up(b) /\ But(a, b, {"bkRun"} \cup Loose \cup {"hist"})
                 /\ But(a, d, {"bkRun"} \cup Loose)
                 /\ \/ v[2] = "EOK" /\ b = d
                    \/ v[2] = "ETIMEDOUT" /\ But(d, b, {"faults", "hist"}) /\ b.hist = d.hist \cup {"ghost"}
        <4>1. d.hist = a.hist BY <3>2 DEF But, Keys, Loose
        <4>2. But(a, b, OnBkRun) BY <3>2 DEF But, OnBkRun
        <4>3. (b.hist = a.hist /\ ~b.bkRun) \/ b.hist = a.hist \cup {"ghost"} BY <2>3, <3>2, <4>1
        <4> QED BY <1>2, <2>3, <3>2, <4>2, <4>3, BkIsEasy
      <3> QED BY <1>2, <2>3, <3>1, <3>2 DEF Sent
    <2> HIDE DEF b
    <2>5. CASE v[2] # "EOK" BY <1>2, <2>2, <2>4, <2>5, EasyTrans DEF b
    <2>6. CASE v[2] = "EOK"
      <3>1. o \in sdio_send_cmd(b, Plain) BY <2>2, <2>6 DEF b
      <3>2. Same(b, o[1]) /\ Easy(b, o[1]) BY <2>4, <3>1, PlainIsEasy DEF Easy
      <3>3. o[1].bkRun = b.bkRun BY <3>2 DEF Same, But, Keys, Loose
      <3>4. Easy(t, b) BY <1>2, <2>4, EasyTrans
      <3> QED BY <2>4, <2>6, <3>2, <3>3, <3>4, EasyTrans
    <2> QED BY <2>5, <2>6
  <1>5. CASE ~(w[2] = "EOK" /\ ~a.bkRun) /\ ~(w[2] = "ETIMEDOUT" \/ a.bkRun)
    <2>1. o = <<w[1], w[2]>> BY <1>1, <1>5 DEF Ret
    <2> QED BY <1>2, <1>5, <2>1
  <1> QED BY <1>3, <1>4, <1>5

\* Notes that no part of the invariant forbids.
LEMMA NoteIsEasy ==
    ASSUME NEW t, Midway(t), NEW p \in BOOLEAN, NEW tag \in {"outside", "unsure", "unmarked", "forgotten", "doubt"}
    PROVE  /\ Easy(t, Note(t, p, tag)) /\ But(t, Note(t, p, tag), {"hist"})
           /\ Note(t, p, tag).hist = IF p THEN t.hist \cup {tag} ELSE t.hist
  <1> DEFINE u == Note(t, p, tag)
  <1>1. Typed(u) /\ But(t, u, {"hist"}) /\ u.hist = IF p THEN t.hist \cup {tag} ELSE t.hist
    BY NoteIs DEF Midway, Base
  <1> HIDE DEF u
  <1>2. /\ u.cached = t.cached /\ u.cacheOn = t.cacheOn /\ u.eflags = t.eflags /\ u.hpm = t.hpm
        /\ u.wce = t.wce /\ u.caps = t.caps /\ u.wp = t.wp /\ u.card = t.card /\ u.pactive = t.pactive
        /\ u.asec = t.asec /\ u.dtype = t.dtype /\ u.drvr = t.drvr /\ u.inprog = t.inprog /\ u.csec = t.csec
        /\ u.cpart = t.cpart /\ u.bkRun = t.bkRun
    BY <1>1 DEF But, Keys
  <1>3. t.hist \subseteq u.hist /\ \A x \in {"lost", "ghost", "stray", "misdirected", "overlap"} : x \in u.hist <=> x \in t.hist
    BY <1>1
  <1>4. Base(u) BY <1>1, <1>2, <1>3 DEF Midway, Base, CacheInv, LossInv, TagInv, Off, Sound, Ghost, Flag
  <1>5. Midway(u) /\ Kept(t, u)
    BY <1>1, <1>2, <1>3, <1>4 DEF Midway, Up, SecInv, BkInv, Kept, Held, DirtyOk, Ghost, Flag
  <1>6. (PartInv(t) => PartInv(u)) /\ (Calm(t) => Calm(u)) /\ \A q : OnTarget(t, q) => OnTarget(u, q)
    BY <1>2, <1>3 DEF PartInv, Ghost, Calm, OnTarget
  <1> QED BY <1>1, <1>5, <1>6 DEF Easy, u

\* Each of the three commands of an erase is an easy step once the card is on the
\* partition, ...
LEMMA EraseCmd ==
    ASSUME NEW t, Midway(t), NEW p, OnTarget(t, p), NEW o \in sdio_send_cmd(t, Command("ERASE", p))
    PROVE  Easy(t, o[1]) /\ (o[2] = "EOK" => t.card)
  <1> DEFINE u == o[1]
  <1>0. Typed(t) /\ Up(t) /\ Base(t) BY DEF Midway, Base
  <1>1. PICK d : /\ Sent(t, o[1], d, o[2], {"hist"})
                 /\ d.hist = IF t.dtype = "MMC" /\ t.cpart # p THEN t.hist \cup {"stray"} ELSE t.hist
    BY <1>0, SendErase
  <1>2. CASE Same(t, u) /\ o[2] \in Failing BY <1>2, SameG DEF Failing
  <1>3. CASE /\ t.card /\ Typed(u) /\ Up(u) /\ But(t, u, {"hist"} \cup Loose \cup {"hist"})
             /\ But(t, d, {"hist"} \cup Loose)
             /\ \/ o[2] = "EOK" /\ u = d
                \/ o[2] = "ETIMEDOUT" /\ But(d, u, {"faults", "hist"}) /\ u.hist = d.hist \cup {"ghost"}
    <2>1. /\ u.cached = t.cached /\ u.cacheOn = t.cacheOn /\ u.eflags = t.eflags
          /\ u.wce = t.wce /\ u.caps = t.caps /\ u.wp = t.wp /\ u.card = t.card /\ u.pactive = t.pactive
          /\ u.asec = t.asec /\ u.dtype = t.dtype /\ u.drvr = t.drvr /\ u.inprog = t.inprog /\ u.csec = t.csec
          /\ u.cpart = t.cpart /\ u.bkRun = t.bkRun
      BY <1>3 DEF But, Keys, Loose
    <2>2. t.dtype = "MMC" /\ t.cpart # p => "unsure" \in t.hist BY DEF OnTarget
    <2>3. /\ t.hist \subseteq u.hist /\ \A x \in {"lost", "misdirected", "overlap"} : x \in u.hist <=> x \in t.hist
          /\ "stray" \in u.hist => "stray" \in t.hist \/ "unsure" \in t.hist
      BY <1>1, <1>3, <2>2
    <2> HIDE DEF u
    <2>4. Base(u) BY <1>0, <1>3, <2>1, <2>3 DEF Base, CacheInv, LossInv, TagInv, Off, Sound, Ghost, Flag
    <2>5. Midway(u) /\ Kept(t, u)
      BY <1>3, <2>1, <2>3, <2>4 DEF Midway, SecInv, BkInv, Kept, Held, DirtyOk, Ghost, Flag
    <2>6. (PartInv(t) => PartInv(u)) /\ (Calm(t) => Calm(u)) /\ \A q : OnTarget(t, q) => OnTarget(u, q)
      BY <2>1, <2>3 DEF PartInv, Ghost, Calm, OnTarget
    <2> QED BY <1>3, <2>5, <2>6 DEF Easy, u
  <1> QED BY <1>0, <1>1, <1>2, <1>3 DEF Sent

\* ... and sdio_erase() sees to that; the partition may be in doubt afterwards.
LEMMA EraseCall ==
    ASSUME NEW t, Intact(t), NEW p, NEW o \in sdio_erase(t, p)
    PROVE  Midway(o[1]) /\ Kept(t, o[1]) /\ (PartInv(o[1]) \/ o[1].cpart # o[1].pactive)
  <1>0. Midway(t) /\ PartInv(t) BY DEF Intact
  <1>1. CASE ~t.card
    <2>1. o[1] = t BY <1>1 DEF sdio_erase, _sdio_synchronize, Ret
    <2> QED BY <1>0, <2>1 DEF Kept, Held
  <1>2. CASE t.card /\ t.dtype # "MMC"
    <2>1. o \in sdio_send_cmd(t, Command("ERASE", p)) BY <1>2 DEF sdio_erase, _sdio_synchronize, sd_erase
    <2>2. OnTarget(t, p) BY <1>2 DEF OnTarget
    <2> QED BY <1>0, <2>1, <2>2, EraseCmd DEF Easy
  <1>3. CASE t.card /\ t.dtype = "MMC"
    <2>1. PICK w \in sdio_set_partition(t, p) :
            IF w[2] = "EOK" THEN o \in sdio_send_cmd(w[1], Command("ERASE", p)) ELSE o = w
      BY <1>3 DEF sdio_erase, _sdio_synchronize, mmc_erase, OnOk, sdio_set_partition, Where
    <2>2. /\ Midway(w[1]) /\ Kept(t, w[1])
          /\ w[2] = "EOK" => PartInv(w[1]) /\ OnTarget(w[1], p)
          /\ PartInv(w[1]) \/ w[1].cpart # w[1].pactive
      BY SetPartition
    <2>3. CASE w[2] # "EOK" BY <2>1, <2>2, <2>3
    <2>4. CASE w[2] = "EOK"
      <3>1. Easy(w[1], o[1]) BY <2>1, <2>2, <2>4, EraseCmd
      <3> QED BY <2>2, <2>4, <3>1 DEF Easy, Kept, Held
    <2> QED BY <2>3, <2>4
  <1> QED BY <1>1, <1>2, <1>3

\* A request, or a part of one, that leaves the invariant intact.
Good(t, u) == Intact(u) /\ Kept(t, u)

\* No step is good, ...
LEMMA GoodSelf == ASSUME NEW t, Intact(t) PROVE Good(t, t)
  BY DEF Good, Kept, Held

\* ... two good steps are one, ...
LEMMA GoodTrans == ASSUME NEW t, NEW u, NEW v, Good(t, u), Good(u, v) PROVE Good(t, v)
  BY DEF Good, Kept, Held

\* ... and an easy step is good.
LEMMA GoodEasy == ASSUME NEW t, NEW u, Intact(t), Easy(t, u) PROVE Good(t, u)
  BY DEF Good, Easy, Intact

\* A doubt about the partition is noted, which settles it.
LEMMA DoubtSettled ==
    ASSUME NEW t, Midway(t), PartInv(t) \/ t.cpart # t.pactive
    PROVE  LET u == Note(t, t.cpart # t.pactive, "unsure") IN Intact(u) /\ Kept(t, u)
  <1> DEFINE u == Note(t, t.cpart # t.pactive, "unsure")
  <1>1. \A p \in BOOLEAN : LET v == Note(t, p, "unsure") IN
          Easy(t, v) /\ v.hist = IF p THEN t.hist \cup {"unsure"} ELSE t.hist
    BY NoteIsEasy
  <1>2. Easy(t, u) /\ u.hist = IF t.cpart # t.pactive THEN t.hist \cup {"unsure"} ELSE t.hist
    BY <1>1, (t.cpart # t.pactive) \in BOOLEAN
  <1> HIDE DEF u
  <1>3. PartInv(u) BY <1>2 DEF Easy, PartInv
  <1> QED BY <1>2, <1>3 DEF Easy, Intact, u

\* Erase(), which the erase requests share, keeps the invariant.
LEMMA EraseIsGood ==
    ASSUME NEW t, Intact(t), NEW r, NEW o \in Erase(t, r)
    PROVE  Good(t, o[1])
  <1>1. PICK w \in sdio_erase(t, r.part) :
          LET v == Note(w[1], r.lba + r.nlba > t.nlba[r.part], "outside")
          IN o = <<Note(v, w[1].cpart # w[1].pactive, "unsure"), w[2]>>
    BY DEF Erase
  <1> DEFINE a == w[1]
             v == Note(a, r.lba + r.nlba > t.nlba[r.part], "outside")
  <1>2. Midway(a) /\ Kept(t, a) /\ (PartInv(a) \/ a.cpart # a.pactive) BY EraseCall
  <1>3. \A p \in BOOLEAN : Easy(a, Note(a, p, "outside")) /\ But(a, Note(a, p, "outside"), {"hist"})
    BY <1>2, NoteIsEasy
  <1>4. (r.lba + r.nlba > t.nlba[r.part]) \in BOOLEAN OBVIOUS
  <1>5. Easy(a, v) /\ But(a, v, {"hist"}) BY <1>3, <1>4
  <1> HIDE DEF v, a
  <1>6. v.cpart = a.cpart /\ v.pactive = a.pactive BY <1>5 DEF But, Keys
  <1>7. Midway(v) /\ (PartInv(v) \/ v.cpart # v.pactive) BY <1>2, <1>5, <1>6 DEF Easy
  <1>8. o[1] = Note(v, v.cpart # v.pactive, "unsure") BY <1>1, <1>6 DEF v, a
  <1>9. Intact(o[1]) /\ Kept(v, o[1]) BY <1>7, <1>8, DoubtSettled
  <1> QED BY <1>2, <1>5, <1>9 DEF Easy, Good, Kept, Held

------------------------------------------------------------------------------

\* The security systems of an ASSD card.

\* What the security commands may change.
OnSec == {"csec", "hist"} \cup Loose

\* They change nothing else, and an answer may get lost.
SecStep(t, u) == /\ Typed(u) /\ (Up(t) => Up(u)) /\ But(t, u, OnSec)
                 /\ u.hist = t.hist \/ (t.card /\ u.hist = t.hist \cup {"ghost"})

\* Two such steps are one.
LEMMA SecTrans == ASSUME NEW t, NEW u, NEW v, SecStep(t, u), SecStep(u, v) PROVE SecStep(t, v)
  <1>1. u.card = t.card BY DEF SecStep, But, OnSec, Keys, Loose
  <1>2. But(t, v, OnSec) BY DEF SecStep, But
  <1> QED BY <1>1, <1>2 DEF SecStep

\* A step that changes nothing is one.
LEMMA SameIsSec == ASSUME NEW t, NEW u, Same(t, u) PROVE SecStep(t, u) /\ u.csec = t.csec
  BY DEF SecStep, Same, But, OnSec, Keys, Loose

\* The status and property commands of an ASSD card change nothing: the PSI
\* register, ...
LEMMA PsiIsSame ==
    ASSUME NEW t, Typed(t), Up(t), NEW o \in assd_send_psi(t)
    PROVE  Same(t, o[1])
  <1>0. PICK w \in sdio_send_cmd(t, Plain) : \E v \in sdio_send_cmd(w[1], Plain) :
          \E x \in sdio_send_cmd(v[1], Plain) : o = <<x[1], x[2], v[2] = "EOK">>
    BY DEF assd_send_psi, Anyway, Look, sdio_set_block_length
  <1>5. PICK v \in sdio_send_cmd(w[1], Plain) :
          \E x \in sdio_send_cmd(v[1], Plain) : o = <<x[1], x[2], v[2] = "EOK">>
    BY <1>0
  <1>1. PICK x \in sdio_send_cmd(v[1], Plain) : o = <<x[1], x[2], v[2] = "EOK">> BY <1>5
  <1>2. Same(t, w[1]) BY SendPlain
  <1>3. Same(w[1], v[1]) BY <1>2, SendPlain DEF Same
  <1>4. Same(v[1], x[1]) BY <1>2, <1>3, SendPlain DEF Same
  <1> QED BY <1>1, <1>2, <1>3, <1>4, SameTrans

\* ... the status, ...
LEMMA StatusIsSame ==
    ASSUME NEW t, Typed(t), Up(t), NEW o \in assd_status(t)
    PROVE  Same(t, o[1])
  <1>1. PICK w \in assd_send_psi(t) : \E sec : o = <<w[1], w[2], sec>> BY DEF assd_status
  <1> QED BY <1>1, PsiIsSame

\* ... the properties, ...
LEMMA PropertiesIsSame ==
    ASSUME NEW t, Typed(t), Up(t), NEW o \in assd_properties(t)
    PROVE  Same(t, o[1])
  <1>1. PICK w \in assd_send_psi(t) : o = <<w[1], w[2]>> BY DEF assd_properties, Status
  <1> QED BY <1>1, PsiIsSame

\* ... and the wait for the end of a secure command.
LEMMA WaitSccIsSame ==
    ASSUME NEW t, Typed(t), Up(t), NEW o \in assd_wait_scc(t)
    PROVE  Same(t, o[1])
  <1>1. PICK w \in assd_send_psi(t) : \E rc : o = <<w[1], rc>> BY DEF assd_wait_scc
  <1> QED BY <1>1, PsiIsSame

\* The command that selects system p, ...
LEMMA SelectCmd ==
    ASSUME NEW t, Typed(t), Up(t), NEW p, NEW o \in sdio_send_cmd(t, Command("SELECT", p))
    PROVE  SecStep(t, o[1]) /\ (o[2] = "EOK" => o[1].csec = p)
  <1> DEFINE u == o[1]
  <1>1. PICK d : Sent(t, o[1], d, o[2], {"csec"}) /\ d.csec = p BY SendSelect
  <1>2. CASE Same(t, u) /\ o[2] \in Failing BY <1>2, SameIsSec DEF Failing
  <1>3. CASE /\ t.card /\ Typed(u) /\ Up(u) /\ But(t, u, {"csec"} \cup Loose \cup {"hist"})
             /\ But(t, d, {"csec"} \cup Loose)
             /\ \/ o[2] = "EOK" /\ u = d
                \/ o[2] = "ETIMEDOUT" /\ But(d, u, {"faults", "hist"}) /\ u.hist = d.hist \cup {"ghost"}
    <2>1. d.hist = t.hist BY <1>3 DEF But, Keys, Loose
    <2>2. But(t, u, OnSec) BY <1>3 DEF But, OnSec
    <2> QED BY <1>1, <1>3, <2>1, <2>2 DEF SecStep
  <1> QED BY <1>1, <1>2, <1>3 DEF Sent

\* ... and the call that sends it: once it succeeds, p is selected.
LEMMA SelectSecIs ==
    ASSUME NEW t, Typed(t), Up(t), NEW p, NEW o \in SelectSec(t, p)
    PROVE  SecStep(t, o[1]) /\ (o[2] = "EOK" => o[1].csec = p)
  <1>1. PICK w \in assd_control_system(t, p) :
          IF w[2] = "EOK" THEN \E v \in assd_status(w[1]) : o[1] = v[1] ELSE o = w
    <2>1. PICK w \in assd_control_system(t, p) :
            IF w[2] = "EOK"
            THEN o \in {<<x[1], IF x[2] = "EOK" /\ x[3] # p THEN "EIO" ELSE x[2]>> : x \in assd_status(w[1])}
            ELSE o = w
      BY DEF SelectSec, OnOk
    <2> QED BY <2>1
  <1>2. SecStep(t, w[1]) /\ (w[2] = "EOK" => w[1].csec = p)
    <2>1. PICK a \in sdio_send_cmd(t, Plain) :
            IF a[2] = "EOK" THEN w \in sdio_send_cmd(a[1], Command("SELECT", p)) ELSE w = a
      BY DEF assd_control_system, OnOk, sdio_set_block_length
    <2>2. Same(t, a[1]) /\ SecStep(t, a[1]) BY SendPlain, SameIsSec
    <2>3. CASE a[2] # "EOK" BY <2>1, <2>2, <2>3
    <2>4. CASE a[2] = "EOK"
      <3>1. SecStep(a[1], w[1]) /\ (w[2] = "EOK" => w[1].csec = p) BY <2>1, <2>2, <2>4, SelectCmd DEF Same
      <3> QED BY <2>2, <3>1, SecTrans
    <2> QED BY <2>3, <2>4
  <1>3. CASE w[2] # "EOK" BY <1>1, <1>2, <1>3
  <1>4. CASE w[2] = "EOK"
    <2>1. PICK v \in assd_status(w[1]) : o[1] = v[1] BY <1>1, <1>4
    <2>2. Same(w[1], v[1]) BY <1>2, StatusIsSame DEF SecStep
    <2>3. SecStep(w[1], v[1]) /\ v[1].csec = w[1].csec BY <2>2, SameIsSec
    <2> QED BY <1>2, <1>4, <2>1, <2>3, SecTrans
  <1> QED BY <1>3, <1>4

\* The selected system is the one the module believes.
Aimed(t) == t.asec = "none" \/ t.csec = t.asec

\* assd_state() failed: the flag says that the selection must be made again, or
\* the selection is as it was.
Tried(t, u) == SecStep(t, u) /\ (Flag(t, "ASSD_INIT") \/ u.csec = t.csec)

\* assd_state() made the selection again.
Again(t, v) == SecStep(t, v) /\ Aimed(v)

\* assd_state() fails in the first way and succeeds in the second.
LEMMA StateIs ==
    ASSUME NEW t, Typed(t), Up(t), NEW reinit \in BOOLEAN, NEW o \in assd_state(t, reinit)
    PROVE  /\ o[2] # "EOK" => Tried(t, o[1])
           /\ o[2] = "EOK" => /\ "ASSD" \in t.caps
                              /\ \/ ~Flag(t, "ASSD_INIT") /\ o[1] = t
                                 \/ \E v : Again(t, v) /\ o[1] = Clear(v, "ASSD_INIT")
  <1>1. CASE "ASSD" \notin t.caps
    <2>1. o = <<t, "ENOTSUP">> BY <1>1 DEF assd_state, Ret
    <2> QED BY <2>1, SameSelf, SameIsSec DEF Tried
  <1>2. CASE "ASSD" \in t.caps /\ ~Flag(t, "ASSD_INIT")
    <2>1. o = <<t, "EOK">> BY <1>2 DEF assd_state, Ret
    <2> QED BY <1>2, <2>1
  <1>3. CASE "ASSD" \in t.caps /\ Flag(t, "ASSD_INIT")
    <2> DEFINE O == Look(Where(~reinit, t, assd_properties(t)),
                         LAMBDA u, rc : IF u.asec = "none" THEN Ret(u, rc) ELSE SelectSec(u, u.asec))
    <2>1. o \in OnOk(O, LAMBDA u : Ret(Clear(u, "ASSD_INIT"), "EOK")) BY <1>3 DEF assd_state
    <2>2. PICK w \in O : IF w[2] = "EOK" THEN o = <<Clear(w[1], "ASSD_INIT"), "EOK">> ELSE o = w
      BY <2>1 DEF OnOk, Ret
    <2>3. SecStep(t, w[1]) /\ (w[2] = "EOK" => Aimed(w[1]))
      <3>1. PICK a \in Where(~reinit, t, assd_properties(t)) :
              IF a[1].asec = "none" THEN w = <<a[1], a[2]>> ELSE w \in SelectSec(a[1], a[1].asec)
        BY DEF Look, Ret
      <3>2. Same(t, a[1])
        <4>1. CASE reinit
          <5>1. a = <<t, "EOK">> BY <4>1 DEF Where, Ret
          <5> QED BY <5>1, SameSelf
        <4>2. CASE ~reinit BY <4>2, PropertiesIsSame DEF Where
        <4> QED BY <4>1, <4>2
      <3> DEFINE b == a[1]
      <3>3. SecStep(t, b) /\ Typed(b) /\ Up(b) BY <3>2, SameIsSec DEF Same
      <3> HIDE DEF O, b
      <3>4. CASE b.asec = "none" BY <3>1, <3>3, <3>4 DEF b, Aimed
      <3>5. CASE b.asec # "none"
        <4>1. SecStep(b, w[1]) /\ (w[2] = "EOK" => w[1].csec = b.asec) BY <3>1, <3>3, <3>5, SelectSecIs DEF b
        <4>2. w[1].asec = b.asec BY <4>1 DEF SecStep, But, OnSec, Keys, Loose
        <4> QED BY <3>3, <4>1, <4>2, SecTrans DEF Aimed
      <3> QED BY <3>4, <3>5
    <2> HIDE DEF O
    <2>4. CASE w[2] # "EOK" BY <1>3, <2>2, <2>3, <2>4 DEF Tried
    <2>5. CASE w[2] = "EOK" BY <1>3, <2>2, <2>3, <2>5 DEF Again
    <2> QED BY <2>4, <2>5
  <1> QED BY <1>1, <1>2, <1>3

\* The rest of the invariant does not look at the security system, ...
SecRest(t, u) ==
    /\ (Base(t) => Base(u)) /\ (PartInv(t) => PartInv(u)) /\ (BkInv(t) => BkInv(u)) /\ Kept(t, u)
    /\ (Calm(t) => Calm(u)) /\ u.bkRun = t.bkRun /\ u.cacheOn = t.cacheOn /\ (Up(t) => Up(u)) /\ Typed(u)
    /\ u.asec = t.asec

\* ... so that a step of the security commands keeps it, ...
LEMMA SecStepRest == ASSUME NEW t, NEW u, SecStep(t, u) PROVE SecRest(t, u)
  <1>1. /\ u.cached = t.cached /\ u.cacheOn = t.cacheOn /\ u.eflags = t.eflags
        /\ u.wce = t.wce /\ u.caps = t.caps /\ u.wp = t.wp /\ u.card = t.card /\ u.pactive = t.pactive
        /\ u.asec = t.asec /\ u.dtype = t.dtype /\ u.drvr = t.drvr /\ u.inprog = t.inprog
        /\ u.cpart = t.cpart /\ u.bkRun = t.bkRun
    BY DEF SecStep, But, Keys, Loose, OnSec
  <1>2. /\ t.hist \subseteq u.hist
        /\ \A x \in {"lost", "unsure", "doubt", "stray", "misdirected", "overlap"} : x \in u.hist <=> x \in t.hist
    BY DEF SecStep
  <1>3. Base(t) => Base(u)
    BY <1>1, <1>2 DEF SecStep, Base, CacheInv, LossInv, TagInv, Off, Sound, Ghost, Flag
  <1> QED BY <1>1, <1>2, <1>3 DEF SecStep, SecRest, PartInv, BkInv, Kept, Held, DirtyOk, Ghost, Flag, Calm

\* ... the end of the initialisation keeps it, ...
LEMMA SecClearRest ==
    ASSUME NEW t, Typed(t) PROVE SecRest(t, Clear(t, "ASSD_INIT")) /\ Clear(t, "ASSD_INIT").csec = t.csec
  <1> DEFINE u == Clear(t, "ASSD_INIT")
  <1>0. Typed(u) /\ But(t, u, {"eflags"}) /\ u.eflags = t.eflags \ {"ASSD_INIT"} BY ClearIs
  <1> HIDE DEF u
  <1>1. /\ u.cached = t.cached /\ u.cacheOn = t.cacheOn /\ u.hist = t.hist /\ u.hpm = t.hpm
        /\ u.wce = t.wce /\ u.caps = t.caps /\ u.wp = t.wp /\ u.card = t.card /\ u.pactive = t.pactive
        /\ u.asec = t.asec /\ u.dtype = t.dtype /\ u.drvr = t.drvr /\ u.inprog = t.inprog
        /\ u.cpart = t.cpart /\ u.bkRun = t.bkRun /\ u.csec = t.csec
    BY <1>0 DEF But, Keys
  <1>2. \A f : f # "ASSD_INIT" => (Flag(u, f) <=> Flag(t, f)) BY <1>0 DEF Flag
  <1>3. Base(t) => Base(u)
    BY <1>0, <1>1, <1>2 DEF Base, CacheInv, LossInv, TagInv, Off, Sound, Ghost
  <1>4. SecRest(t, u) BY <1>0, <1>1, <1>2, <1>3 DEF SecRest, PartInv, BkInv, Kept, Held, DirtyOk, Ghost, Calm, Up
  <1> QED BY <1>1, <1>4 DEF u

\* ... and two such steps do.
LEMMA SecRestTrans == ASSUME NEW t, NEW u, NEW v, SecRest(t, u), SecRest(u, v) PROVE SecRest(t, v)
  BY DEF SecRest, Kept, Held

\* A secure command goes where it should, or the doubt about it is on record.
Settled(t) == Aimed(t) \/ "doubt" \in t.hist

\* A step that keeps the rest and the selection is good.
LEMMA RestIsGood == ASSUME NEW t, NEW u, Intact(t), SecRest(t, u), SecInv(u) PROVE Good(t, u)
  BY DEF Intact, Midway, SecRest, Good

\* assd_state() is good; if it succeeds, the selection is settled.
LEMMA AssdStateIsGood ==
    ASSUME NEW t, Intact(t), NEW reinit \in BOOLEAN, NEW o \in assd_state(t, reinit)
    PROVE  Good(t, o[1]) /\ (o[2] = "EOK" => Settled(o[1]) /\ "ASSD" \in o[1].caps)
  <1> DEFINE u == o[1]
  <1>0. Typed(t) /\ Up(t) /\ SecInv(t) BY DEF Intact, Midway, Base
  <1>1. CASE o[2] # "EOK"
    <2>1. Tried(t, u) BY <1>0, <1>1, StateIs
    <2>2. SecRest(t, u) BY <2>1, SecStepRest DEF Tried
    <2>3. u.asec = t.asec /\ u.eflags = t.eflags /\ t.hist \subseteq u.hist
      BY <2>1 DEF Tried, SecStep, But, OnSec, Keys, Loose
    <2>4. SecInv(u) BY <1>0, <2>1, <2>3 DEF Tried, SecInv, Flag
    <2> QED BY <1>1, <2>2, <2>4, RestIsGood
  <1>2. CASE o[2] = "EOK" /\ ~Flag(t, "ASSD_INIT") /\ u = t
    <2>1. "ASSD" \in t.caps BY <1>0, <1>2, StateIs
    <2> QED BY <1>0, <1>2, <2>1, GoodSelf DEF SecInv, Settled, Aimed
  <1>3. CASE o[2] = "EOK" /\ \E v : Again(t, v) /\ u = Clear(v, "ASSD_INIT")
    <2>1. PICK v : Again(t, v) /\ u = Clear(v, "ASSD_INIT") BY <1>3
    <2>2. SecRest(t, v) /\ Typed(v) BY <2>1, SecStepRest DEF Again, SecRest
    <2>3. SecRest(v, u) /\ u.csec = v.csec BY <2>1, <2>2, SecClearRest
    <2>4. SecRest(t, u) /\ u.asec = v.asec BY <2>2, <2>3, SecRestTrans DEF SecRest
    <2>5. Aimed(u) BY <2>1, <2>3, <2>4 DEF Again, Aimed
    <2>6. SecInv(u) BY <2>5 DEF Aimed, SecInv
    <2>7. "ASSD" \in t.caps BY <1>0, <1>3, StateIs
    <2>8. u.caps = t.caps BY <2>4 DEF SecRest, Kept, Held
    <2> QED BY <2>4, <2>5, <2>6, <2>7, <2>8, RestIsGood DEF Settled
  <1> QED BY <1>0, <1>1, <1>2, <1>3, StateIs

\* A step that changes nothing is good.
LEMMA SameIsGood == ASSUME NEW t, NEW u, Intact(t), Same(t, u) PROVE Good(t, u)
  BY SameG, GoodEasy DEF Intact

\* A doubt about the selection is noted.
LEMMA DoubtNoted ==
    ASSUME NEW t, Typed(t)
    PROVE  LET u == Note(t, t.csec # t.asec, "doubt") IN SecRest(t, u) /\ SecInv(u)
  <1> DEFINE u == Note(t, t.csec # t.asec, "doubt")
  <1>1. \A p \in BOOLEAN : LET v == Note(t, p, "doubt") IN
          Typed(v) /\ But(t, v, {"hist"}) /\ v.hist = IF p THEN t.hist \cup {"doubt"} ELSE t.hist
    BY NoteIs
  <1>2. Typed(u) /\ But(t, u, {"hist"}) /\ u.hist = IF t.csec # t.asec THEN t.hist \cup {"doubt"} ELSE t.hist
    BY <1>1, (t.csec # t.asec) \in BOOLEAN
  <1> HIDE DEF u
  <1>3. /\ u.cached = t.cached /\ u.cacheOn = t.cacheOn /\ u.eflags = t.eflags /\ u.hpm = t.hpm
        /\ u.wce = t.wce /\ u.caps = t.caps /\ u.wp = t.wp /\ u.card = t.card /\ u.pactive = t.pactive
        /\ u.asec = t.asec /\ u.dtype = t.dtype /\ u.drvr = t.drvr /\ u.inprog = t.inprog
        /\ u.cpart = t.cpart /\ u.bkRun = t.bkRun /\ u.csec = t.csec
    BY <1>2 DEF But, Keys
  <1>4. /\ t.hist \subseteq u.hist
        /\ \A x \in {"lost", "ghost", "unsure", "forgotten", "unmarked", "stray", "misdirected", "overlap"} :
             x \in u.hist <=> x \in t.hist
    BY <1>2
  <1>5. Base(t) => Base(u)
    BY <1>2, <1>3, <1>4 DEF Base, CacheInv, LossInv, TagInv, Off, Sound, Ghost, Flag
  <1>6. SecRest(t, u)
    BY <1>2, <1>3, <1>4, <1>5 DEF SecRest, PartInv, BkInv, Kept, Held, DirtyOk, Ghost, Flag, Calm, Up
  <1>7. SecInv(u) BY <1>2, <1>3 DEF SecInv
  <1> QED BY <1>6, <1>7 DEF u

\* sdmmc_assd_control_devctl() keeps the invariant, ...
LEMMA AssdControlIsGood ==
    ASSUME NEW t, Intact(t), NEW r, NEW o \in sdmmc_assd_control_devctl(t, r)
    PROVE  Good(t, o[1])
  <1>1. CASE ~Ready(t, r)
    <2>1. o = <<t, "EIO">> BY <1>1 DEF sdmmc_assd_control_devctl, IfReady, Ret
    <2> QED BY <2>1, GoodSelf
  <1>2. CASE Ready(t, r)
    <2>1. PICK w \in assd_state(t, TRUE) :
            IF w[2] = "EOK"
            THEN o \in IF r.arg \notin SecSys THEN Ret(w[1], "EINVAL")
                       ELSE {<<Note(x[1], x[2] # "EOK" /\ x[1].csec # x[1].asec, "doubt"), x[2]>> :
                               x \in OnOk(SelectSec(w[1], r.arg), LAMBDA u : Ret([u EXCEPT !.asec = r.arg], "EOK"))}
            ELSE o = w
      BY <1>2 DEF sdmmc_assd_control_devctl, IfReady, OnOk
    <2> DEFINE a == w[1]
    <2>2. Good(t, a) /\ (w[2] = "EOK" => "ASSD" \in a.caps) BY AssdStateIsGood
    <2>3. CASE w[2] # "EOK" BY <2>1, <2>2, <2>3
    <2>4. CASE w[2] = "EOK" /\ r.arg \notin SecSys
      <3>1. o \in Ret(w[1], "EINVAL") BY <2>1, <2>4
      <3> QED BY <2>2, <3>1 DEF Ret
    <2>5. CASE w[2] = "EOK" /\ r.arg \in SecSys
      <3>1. PICK x \in OnOk(SelectSec(w[1], r.arg), LAMBDA u : Ret([u EXCEPT !.asec = r.arg], "EOK")) :
              o = <<Note(x[1], x[2] # "EOK" /\ x[1].csec # x[1].asec, "doubt"), x[2]>>
        BY <2>1, <2>5
      <3>2. PICK y \in SelectSec(w[1], r.arg) :
              IF y[2] = "EOK" THEN x = <<[y[1] EXCEPT !.asec = r.arg], "EOK">> ELSE x = y
        BY <3>1 DEF OnOk, Ret
      <3>3. Intact(a) /\ Midway(a) /\ Base(a) /\ Typed(a) /\ Up(a) BY <2>2 DEF Good, Intact, Midway, Base
      <3> DEFINE b == y[1]
      <3>4. SecStep(a, b) /\ (y[2] = "EOK" => b.csec = r.arg) BY <3>3, SelectSecIs
      <3> HIDE DEF a, b
      <3>5. SecRest(a, b) /\ Typed(b) BY <3>4, SecStepRest DEF SecRest
      <3>6. Midway(b) \/ ~SecInv(b) BY <3>3, <3>5 DEF SecRest, Intact, Midway
      <3>7. CASE y[2] = "EOK"
        <4> DEFINE c == [b EXCEPT !.asec = r.arg]
        <4>1. o[1] = c BY <3>1, <3>2, <3>7 DEF b, Note
        <4>2. Typed(c) /\ But(b, c, {"asec"}) /\ c.asec = r.arg BY <3>5 DEF Typed, But, Keys
        <4> HIDE DEF c
        <4>3. /\ c.cached = b.cached /\ c.cacheOn = b.cacheOn /\ c.hist = b.hist /\ c.hpm = b.hpm
              /\ c.wce = b.wce /\ c.caps = b.caps /\ c.wp = b.wp /\ c.card = b.card /\ c.pactive = b.pactive
              /\ c.dtype = b.dtype /\ c.drvr = b.drvr /\ c.inprog = b.inprog
              /\ c.cpart = b.cpart /\ c.bkRun = b.bkRun /\ c.csec = b.csec /\ c.eflags = b.eflags
          BY <4>2 DEF But, Keys
        <4>4. Base(b) /\ Up(b) /\ PartInv(b) /\ BkInv(b) /\ Kept(a, b) BY <3>3, <3>5 DEF SecRest, Intact, Midway
        <4>5. "ASSD" \in b.caps BY <2>2, <3>7, <4>4, <2>5 DEF Kept, Held, a
        <4>6. Base(c) BY <4>2, <4>3, <4>4, <4>5 DEF Base, CacheInv, LossInv, TagInv, Off, Sound, Ghost, Flag
        <4>7. Intact(c) /\ Kept(b, c)
          BY <3>4, <3>7, <4>2, <4>3, <4>4, <4>6
             DEF Intact, Midway, PartInv, SecInv, BkInv, Kept, Held, DirtyOk, Ghost, Flag, Up
        <4>8. Good(a, c) BY <4>4, <4>7 DEF Good, Kept, Held
        <4> QED BY <2>2, <4>1, <4>8, GoodTrans DEF a
      <3>8. CASE y[2] # "EOK"
        <4> DEFINE c == Note(b, b.csec # b.asec, "doubt")
        <4>1. o[1] = c BY <3>1, <3>2, <3>8 DEF b
        <4>2. SecRest(b, c) /\ SecInv(c) BY <3>5, DoubtNoted
        <4>3. SecRest(a, c) BY <3>5, <4>2, SecRestTrans
        <4> QED BY <2>2, <3>3, <4>1, <4>2, <4>3, RestIsGood, GoodTrans DEF a
      <3> QED BY <3>7, <3>8
    <2> QED BY <2>3, <2>4, <2>5
  <1> QED BY <1>1, <1>2

\* ... and so do the requests for the status and the properties.
LEMMA AssdStatusIsGood ==
    ASSUME NEW t, Intact(t), NEW r, NEW o \in sdmmc_assd_status_devctl(t, r) \cup sdmmc_assd_properties_devctl(t, r)
    PROVE  Good(t, o[1])
  <1>1. CASE ~Ready(t, r)
    <2>1. o = <<t, "EIO">> BY <1>1 DEF sdmmc_assd_status_devctl, sdmmc_assd_properties_devctl, IfReady, Ret
    <2> QED BY <2>1, GoodSelf
  <1>2. CASE Ready(t, r)
    <2>1. PICK w \in assd_state(t, TRUE) :
            IF w[2] = "EOK"
            THEN \/ \E x \in assd_status(w[1]) : o = <<x[1], x[2]>>
                 \/ o \in assd_properties(w[1])
            ELSE o = w
      BY <1>2 DEF sdmmc_assd_status_devctl, sdmmc_assd_properties_devctl, IfReady, OnOk, Status
    <2>2. Good(t, w[1]) /\ Intact(w[1]) /\ Typed(w[1]) /\ Up(w[1]) BY AssdStateIsGood DEF Good, Intact, Midway, Base
    <2>3. CASE w[2] # "EOK" BY <2>1, <2>2, <2>3
    <2>4. CASE w[2] = "EOK"
      <3>1. Same(w[1], o[1]) BY <2>1, <2>2, <2>4, StatusIsSame, PropertiesIsSame
      <3> QED BY <2>2, <3>1, SameIsGood, GoodTrans
    <2> QED BY <2>3, <2>4
  <1> QED BY <1>1, <1>2

\* A secure command goes to the system that is selected, ...
LEMMA SecureCmd ==
    ASSUME NEW t, Intact(t), Settled(t), NEW o \in sdio_send_cmd(t, Command("SECURE", ""))
    PROVE  Good(t, o[1])
  <1> DEFINE u == o[1]
  <1>0. Typed(t) /\ Up(t) /\ Base(t) /\ Midway(t) BY DEF Intact, Midway, Base
  <1>1. PICK d : /\ Sent(t, o[1], d, o[2], {"hist"})
                 /\ d.hist = IF t.asec # "none" /\ t.csec # t.asec THEN t.hist \cup {"misdirected"} ELSE t.hist
    BY <1>0, SendSecure
  <1>2. CASE Same(t, u) BY <1>2, SameIsGood
  <1>3. CASE /\ t.card /\ Typed(u) /\ Up(u) /\ But(t, u, {"hist"} \cup Loose \cup {"hist"})
             /\ But(t, d, {"hist"} \cup Loose)
             /\ \/ o[2] = "EOK" /\ u = d
                \/ o[2] = "ETIMEDOUT" /\ But(d, u, {"faults", "hist"}) /\ u.hist = d.hist \cup {"ghost"}
    <2>1. /\ u.cached = t.cached /\ u.cacheOn = t.cacheOn /\ u.eflags = t.eflags
          /\ u.wce = t.wce /\ u.caps = t.caps /\ u.wp = t.wp /\ u.card = t.card /\ u.pactive = t.pactive
          /\ u.asec = t.asec /\ u.dtype = t.dtype /\ u.drvr = t.drvr /\ u.inprog = t.inprog /\ u.csec = t.csec
          /\ u.cpart = t.cpart /\ u.bkRun = t.bkRun
      BY <1>3 DEF But, Keys, Loose
    <2>2. t.asec # "none" /\ t.csec # t.asec => "doubt" \in t.hist BY DEF Settled, Aimed
    <2>3. /\ t.hist \subseteq u.hist /\ \A x \in {"lost", "stray", "overlap"} : x \in u.hist <=> x \in t.hist
          /\ "misdirected" \in u.hist => "misdirected" \in t.hist \/ "doubt" \in t.hist
      BY <1>1, <1>3, <2>2
    <2> HIDE DEF u
    <2>4. Base(u) BY <1>0, <1>3, <2>1, <2>3 DEF Base, CacheInv, LossInv, TagInv, Off, Sound, Ghost, Flag
    <2>5. Intact(u) /\ Kept(t, u)
      BY <1>3, <2>1, <2>3, <2>4 DEF Intact, Midway, PartInv, SecInv, BkInv, Kept, Held, DirtyOk, Ghost, Flag
    <2> QED BY <2>5 DEF Good, u
  <1> QED BY <1>0, <1>1, <1>2, <1>3 DEF Sent

\* ... and sdmmc_assd_apdu_devctl() only sends one to the right system.
LEMMA ApduIsGood ==
    ASSUME NEW t, Intact(t), NEW r, NEW o \in sdmmc_assd_apdu_devctl(t, r)
    PROVE  Good(t, o[1])
  <1>1. CASE ~Ready(t, r)
    <2>1. o = <<t, "EIO">> BY <1>1 DEF sdmmc_assd_apdu_devctl, IfReady, Ret
    <2> QED BY <2>1, GoodSelf
  <1>2. CASE Ready(t, r)
    <2> DEFINE Parked(x) == assd_write_sec_cmd(x)
               R(x) == assd_read_sec_cmd(x)
    <2>1. PICK w \in assd_state(t, TRUE) :
            IF w[2] = "EOK"
            THEN o \in IF r.arg = "long" THEN Ret(w[1], "EINVAL")
                       ELSE OnOk(Parked(w[1]), LAMBDA u : OnOk(sdio_wait_card_status(u), LAMBDA v :
                              OnOk(assd_wait_scc(v), R)))
            ELSE o = w
      BY <1>2 DEF sdmmc_assd_apdu_devctl, IfReady, OnOk
    <2> DEFINE a == w[1]
    <2>2. Good(t, a) /\ Intact(a) /\ (w[2] = "EOK" => Settled(a)) BY AssdStateIsGood DEF Good
    <2>3. CASE w[2] # "EOK" BY <2>1, <2>2, <2>3
    <2>4. CASE w[2] = "EOK" /\ r.arg = "long" BY <2>1, <2>2, <2>4 DEF Ret
    <2>5. CASE w[2] = "EOK" /\ r.arg # "long"
      <3>1. PICK x \in Parked(a) : IF x[2] = "EOK"
                               THEN o \in OnOk(sdio_wait_card_status(x[1]), LAMBDA v : OnOk(assd_wait_scc(v), R))
                               ELSE o = x
        BY <2>1, <2>5 DEF OnOk
      <3> HIDE DEF a
      <3>2. Good(a, x[1])
        <4>1. PICK y \in sdio_send_cmd(a, Plain) :
                IF y[2] = "EOK" THEN x \in sdio_send_cmd(y[1], Command("SECURE", "")) ELSE x = y
          BY DEF assd_write_sec_cmd, OnOk, sdio_set_block_length
        <4>2. Same(a, y[1]) /\ Good(a, y[1]) BY <2>2, PlainIsEasy, SameIsGood DEF Intact
        <4>3. Settled(y[1])
          <5>1. y[1].asec = a.asec /\ y[1].csec = a.csec /\ y[1].hist = a.hist
            BY <4>2 DEF Same, But, Keys, Loose
          <5> QED BY <2>2, <2>5, <5>1 DEF Settled, Aimed
        <4>4. CASE y[2] # "EOK" BY <4>1, <4>2, <4>4
        <4>5. CASE y[2] = "EOK"
          <5>1. Good(y[1], x[1]) BY <4>1, <4>2, <4>3, <4>5, SecureCmd DEF Good
          <5> QED BY <4>2, <5>1, GoodTrans
        <4> QED BY <4>4, <4>5
      <3>3. CASE x[2] # "EOK" BY <2>2, <3>1, <3>2, <3>3, GoodTrans DEF a
      <3>4. CASE x[2] = "EOK"
        <4>1. PICK y \in sdio_send_cmd(x[1], Plain) :
                IF y[2] = "EOK" THEN o \in OnOk(assd_wait_scc(y[1]), R) ELSE o = y
          BY <3>1, <3>4 DEF OnOk, sdio_wait_card_status
        <4>2. Intact(x[1]) BY <3>2 DEF Good
        <4>3. Same(x[1], y[1]) BY <4>2, PlainIsEasy DEF Intact
        <4>4. CASE y[2] # "EOK"
          <5>1. Good(x[1], o[1]) BY <4>1, <4>2, <4>3, <4>4, SameIsGood
          <5> QED BY <2>2, <3>2, <5>1, GoodTrans DEF a
        <4>5. CASE y[2] = "EOK"
          <5>1. PICK z \in assd_wait_scc(y[1]) : IF z[2] = "EOK" THEN o \in R(z[1]) ELSE o = z
            BY <4>1, <4>5 DEF OnOk
          <5>2. Same(y[1], z[1]) BY <4>2, <4>3, WaitSccIsSame DEF Same, Intact, Midway
          <5>3. Same(z[1], o[1])
            <6>1. CASE z[2] # "EOK" BY <5>1, <5>2, <6>1, SameSelf DEF Same
            <6>2. CASE z[2] = "EOK"
              <7>1. PICK q \in sdio_send_cmd(z[1], Plain) :
                      IF q[2] = "EOK" THEN o \in sdio_send_cmd(q[1], Plain) ELSE o = q
                BY <5>1, <6>2 DEF assd_read_sec_cmd, OnOk, sdio_set_block_length
              <7>2. Typed(z[1]) /\ Up(z[1]) BY <4>2, <4>3, <5>2 DEF Same, Intact, Midway
              <7>3. Same(z[1], q[1]) BY <7>2, SendPlain
              <7>4. CASE q[2] # "EOK" BY <7>1, <7>3, <7>4
              <7>5. CASE q[2] = "EOK"
                <8>1. Same(q[1], o[1]) BY <7>1, <7>2, <7>3, <7>5, SendPlain DEF Same
                <8> QED BY <7>3, <8>1, SameTrans
              <7> QED BY <7>4, <7>5
            <6> QED BY <6>1, <6>2
          <5>4. Same(x[1], o[1]) BY <4>3, <5>2, <5>3, SameTrans
          <5>5. Good(x[1], o[1]) BY <4>2, <5>4, SameIsGood
          <5> QED BY <2>2, <3>2, <5>5, GoodTrans DEF a
        <4> QED BY <4>4, <4>5
      <3> QED BY <3>3, <3>4
    <2> QED BY <2>3, <2>4, <2>5
  <1> QED BY <1>1, <1>2

------------------------------------------------------------------------------

\* sdmmc_dev_cfg() and sdmmc_reset().

\* What sdmmc_dev_cfg() starts from: nothing of the card goes on by itself.
Fresh(t) == Base(t) /\ Up(t) /\ PartInv(t) /\ ~t.bkRun

\* The cache is off, as far as is known.
NoCache(t) == ~t.cacheOn \/ Ghost(t)

\* A step of the configuration.
FreshEasy(t, u) == Fresh(u) /\ Held(t, u) /\ (NoCache(t) => NoCache(u)) /\ (Flag(t, "CACHE") <=> Flag(u, "CACHE"))

\* No step is one, ...
LEMMA FreshSelf == ASSUME NEW t, Fresh(t) PROVE FreshEasy(t, t)
  BY DEF FreshEasy, Held

\* ... two are one, ...
LEMMA FreshTrans == ASSUME NEW t, NEW u, NEW v, FreshEasy(t, u), FreshEasy(u, v) PROVE FreshEasy(t, v)
  BY DEF FreshEasy, Held

\* ... a step that changes nothing is one, ...
LEMMA FreshSame == ASSUME NEW t, NEW u, Fresh(t), Same(t, u) PROVE FreshEasy(t, u)
  <1>1. /\ u.hist = t.hist /\ u.eflags = t.eflags /\ u.caps = t.caps /\ u.bkRun = t.bkRun /\ u.drvr = t.drvr
        /\ u.cpart = t.cpart /\ u.pactive = t.pactive
        /\ u.dtype = t.dtype /\ u.cacheOn = t.cacheOn /\ Typed(u) /\ Up(u)
    BY DEF Fresh, Same, But, Keys, Loose
  <1>2. Base(u) BY SameBase DEF Fresh
  <1> QED BY <1>1, <1>2 DEF FreshEasy, Fresh, PartInv, Held, Ghost, Flag, NoCache

\* ... and so is a change to the flags the cache has no part in, ...
LEMMA FreshFlags ==
    ASSUME NEW t, Fresh(t), NEW u, Typed(u), But(t, u, {"eflags"}),
           \A f \in {"PRESENT", "CACHE", "VCACHE_DIRTY"} : Flag(u, f) <=> Flag(t, f)
    PROVE  FreshEasy(t, u)
  <1>1. /\ u.cached = t.cached /\ u.cacheOn = t.cacheOn /\ u.hist = t.hist /\ u.hpm = t.hpm
        /\ u.wce = t.wce /\ u.caps = t.caps /\ u.wp = t.wp /\ u.card = t.card /\ u.pactive = t.pactive
        /\ u.asec = t.asec /\ u.dtype = t.dtype /\ u.drvr = t.drvr
        /\ u.cpart = t.cpart /\ u.bkRun = t.bkRun
    BY DEF But, Keys
  <1>2. Base(u) BY <1>1 DEF Fresh, Base, CacheInv, LossInv, TagInv, Off, Sound, Ghost
  <1> QED BY <1>1, <1>2 DEF FreshEasy, Fresh, PartInv, Held, Ghost, NoCache, Up

\* ... one at a time.
LEMMA FreshClear ==
    ASSUME NEW t, Fresh(t), NEW f, f \notin {"PRESENT", "CACHE", "VCACHE_DIRTY"}
    PROVE  FreshEasy(t, Clear(t, f)) /\ FreshEasy(t, Set(t, f))
  <1>0. Typed(t) BY DEF Fresh, Base
  <1>1. Typed(Clear(t, f)) /\ But(t, Clear(t, f), {"eflags"}) /\ Clear(t, f).eflags = t.eflags \ {f} BY <1>0, ClearIs
  <1>2. Typed(Set(t, f)) /\ But(t, Set(t, f), {"eflags"}) /\ Set(t, f).eflags = t.eflags \cup {f} BY <1>0, SetIs
  <1>3. FreshEasy(t, Clear(t, f)) BY <1>1, FreshFlags DEF Flag
  <1>4. FreshEasy(t, Set(t, f)) BY <1>2, FreshFlags DEF Flag
  <1> QED BY <1>3, <1>4

\* The step of sdmmc_dev_cfg() that turns the cache on or off: the flag says in the
\* end what was achieved.
CfgCache(t) == Where("CACHE" \in t.caps, t,
                 Mend(sdio_cache(t, IF Flag(t, "CACHE") THEN "enable" ELSE "disable"), LAMBDA u : Clear(u, "CACHE")))

\* It does: a cache that is on is flagged.
LEMMA CfgCacheIs ==
    ASSUME NEW t, Fresh(t), NoCache(t), NEW o \in CfgCache(t)
    PROVE  Fresh(o[1]) /\ Held(t, o[1]) /\ o[2] = "EOK" /\ (~Flag(t, "CACHE") => NoCache(o[1]))
  <1>0. Base(t) /\ Up(t) /\ PartInv(t) /\ Typed(t) BY DEF Fresh, Base
  <1>1. CASE "CACHE" \notin t.caps
    <2>1. o = <<t, "EOK">> BY <1>1 DEF CfgCache, Where, Ret
    <2> QED BY <2>1, FreshSelf DEF FreshEasy
  <1>2. CASE "CACHE" \in t.caps
    <2> DEFINE op == IF Flag(t, "CACHE") THEN "enable" ELSE "disable"
    <2>0. op \in {"enable", "disable", "flush"} OBVIOUS
    <2>1. PICK w \in sdio_cache(t, op) : o = IF w[2] = "EOK" THEN w ELSE <<Clear(w[1], "CACHE"), "EOK">>
      BY <1>2 DEF CfgCache, Where, Mend
    <2>00. /\ (Flag(t, "CACHE") <=> op = "enable") /\ (~Flag(t, "CACHE") <=> op = "disable") /\ op # "flush"
      OBVIOUS
    <2> HIDE DEF op
    <2> DEFINE a == w[1]
    <2>2. Typed(a) /\ Up(a) /\ But(t, a, CacheFields) /\ CacheAnswer(t, a, w[2], op) BY <1>0, <2>0, CacheCall
    <2> HIDE DEF a
    <2>3. /\ a.eflags = t.eflags /\ a.caps = t.caps /\ a.wp = t.wp /\ a.card = t.card /\ a.bkRun = t.bkRun
          /\ a.asec = t.asec /\ a.dtype = t.dtype /\ a.drvr = t.drvr
          /\ a.cpart = t.cpart /\ a.pactive = t.pactive
      BY <2>2 DEF But, Keys, Loose, CacheFields
    <2> DEFINE c == Clear(a, "CACHE")
    <2>4. Typed(c) /\ But(a, c, {"eflags"}) /\ c.eflags = a.eflags \ {"CACHE"} BY <2>2, ClearIs
    <2>5. /\ c.caps = a.caps /\ c.wp = a.wp /\ c.card = a.card /\ c.bkRun = a.bkRun
          /\ c.asec = a.asec /\ c.dtype = a.dtype /\ c.drvr = a.drvr /\ c.hpm = a.hpm
          /\ c.cpart = a.cpart /\ c.pactive = a.pactive /\ c.hist = a.hist /\ c.cached = a.cached
          /\ c.cacheOn = a.cacheOn /\ c.wce = a.wce
      BY <2>4 DEF But, Keys
    <2>6. o = IF w[2] = "EOK" THEN w ELSE <<c, "EOK">> BY <2>1 DEF a
    <2> HIDE DEF c
    <2>7. CASE Same(t, a) /\ w[2] # "EOK"
      <3>1. Base(a) BY <1>0, <2>7, SameBase
      <3>2. a.hist = t.hist /\ a.cached = t.cached /\ a.cacheOn = t.cacheOn
        BY <2>7 DEF Same, But, Keys, Loose
      <3>3. Base(c)
        BY <1>0, <2>3, <2>4, <2>5, <3>1, <3>2
           DEF Base, CacheInv, LossInv, TagInv, Off, Sound, Ghost, Flag, NoCache
      <3> QED BY <1>0, <2>2, <2>3, <2>4, <2>5, <2>6, <2>7, <3>2, <3>3 DEF Fresh, PartInv, Held, Flag, Ghost, NoCache, Up
    <2>8. CASE t.card /\ w[2] # "EOK" /\ a.hist = t.hist \cup {"ghost"}
      <3>1. Base(c) BY <1>0, <2>2, <2>3, <2>4, <2>5, <2>8
             DEF Base, CacheInv, LossInv, TagInv, Off, Sound, Ghost
      <3> QED BY <1>0, <2>2, <2>3, <2>4, <2>5, <2>6, <2>8, <3>1 DEF Fresh, PartInv, Held, Flag, Ghost, NoCache, Up
    <2>9. CASE t.card /\ w[2] = "EOK" /\ a.hist = t.hist
               /\ (op = "enable" => a.cached = t.cached /\ a.wce = TRUE)
               /\ (op = "disable" => ~a.cached /\ ~a.cacheOn)
      <3>1. Base(a)
        BY <1>0, <1>2, <2>00, <2>2, <2>3, <2>9
           DEF Base, CacheInv, LossInv, TagInv, Off, Sound, Ghost, Flag, NoCache
      <3>2. o = w BY <2>6, <2>9
      <3> QED BY <1>0, <2>00, <2>2, <2>3, <2>9, <3>1, <3>2 DEF Fresh, PartInv, Held, Flag, Ghost, NoCache, a
    <2> QED BY <2>00, <2>2, <2>7, <2>8, <2>9 DEF CacheAnswer
  <1> QED BY <1>1, <1>2

\* The steps about background operations ...
CfgBkops(t) == Where(t.dtype = "MMC", t, Mend(sdmmc_bkops_cfg(t), LAMBDA u : Clear(u, "BKOPS")))

\* ... and about the notice of a power-off.
CfgNotify(t) == Where(Flag(t, "PWROFF_NOTIFY"), t,
                  Mend(sdio_pwroff_notify(t), LAMBDA u : Clear(u, "PWROFF_NOTIFY")))

\* The commands they send change nothing that counts, ...
LEMMA BkopsCfgIsSame ==
    ASSUME NEW t, Typed(t), Up(t), NEW o \in sdmmc_bkops_cfg(t)
    PROVE  Same(t, o[1])
  <1>1. CASE "BKOPS" \in t.caps BY <1>1, SendPlain DEF sdmmc_bkops_cfg, sdio_mmc_switch
  <1>2. CASE "BKOPS" \notin t.caps
    <2>1. o = <<t, "ENOTSUP">> BY <1>2 DEF sdmmc_bkops_cfg, Ret
    <2> QED BY <2>1, SameSelf
  <1> QED BY <1>1, <1>2

\* ... either of them, ...
LEMMA NotifyIsSame ==
    ASSUME NEW t, Typed(t), Up(t), NEW o \in sdio_pwroff_notify(t)
    PROVE  Same(t, o[1])
  <1>1. CASE "PWROFF_NOTIFY" \in t.caps BY <1>1, SendPlain DEF sdio_pwroff_notify
  <1>2. CASE "PWROFF_NOTIFY" \notin t.caps
    <2>1. o = <<t, "EOK">> BY <1>2 DEF sdio_pwroff_notify, Ret
    <2> QED BY <2>1, SameSelf
  <1> QED BY <1>1, <1>2

\* ... so that they are steps of the configuration.
LEMMA CfgBkopsIs ==
    ASSUME NEW t, Fresh(t), NEW o \in CfgBkops(t) \cup CfgNotify(t)
    PROVE  FreshEasy(t, o[1]) /\ o[2] = "EOK"
  <1>0. Typed(t) /\ Up(t) BY DEF Fresh, Base
  <1>1. \/ o = <<t, "EOK">>
        \/ \E w \in sdmmc_bkops_cfg(t) : o = IF w[2] = "EOK" THEN w ELSE <<Clear(w[1], "BKOPS"), "EOK">>
        \/ \E w \in sdio_pwroff_notify(t) : o = IF w[2] = "EOK" THEN w ELSE <<Clear(w[1], "PWROFF_NOTIFY"), "EOK">>
    BY DEF CfgBkops, CfgNotify, Where, Ret, Mend
  <1>2. CASE o = <<t, "EOK">> BY <1>2, FreshSelf
  <1>3. ASSUME NEW w, Same(t, w[1]), NEW f \in {"BKOPS", "PWROFF_NOTIFY"},
               o = IF w[2] = "EOK" THEN w ELSE <<Clear(w[1], f), "EOK">>
        PROVE  FreshEasy(t, o[1]) /\ o[2] = "EOK"
    <2>1. FreshEasy(t, w[1]) /\ Fresh(w[1]) BY <1>3, FreshSame DEF FreshEasy
    <2>2. FreshEasy(w[1], Clear(w[1], f)) BY <2>1, FreshClear
    <2> QED BY <1>3, <2>1, <2>2, FreshTrans
  <1> QED BY <1>0, <1>1, <1>2, <1>3, BkopsCfgIsSame, NotifyIsSame

\* sdmmc_assd_init() leaves the selection to be made when it is first used.
LEMMA AssdInitIs ==
    ASSUME NEW t, Fresh(t), NEW o \in sdmmc_assd_init(t)
    PROVE  FreshEasy(t, o[1]) /\ SecInv(o[1])
  <1> DEFINE v == Set(t, "ASSD_INIT")
             u == o[1]
  <1>1. FreshEasy(t, v) BY FreshClear
  <1>2. Flag(v, "ASSD_INIT") BY SetIs DEF Fresh, Base, Flag
  <1>3. o \in assd_state(v, FALSE) BY DEF sdmmc_assd_init
  <1> HIDE DEF v
  <1>4. Fresh(v) /\ Typed(v) /\ Up(v) BY <1>1 DEF FreshEasy, Fresh, Base
  <1>5. SecRest(v, u) /\ SecInv(u) /\ (Flag(v, "CACHE") <=> Flag(u, "CACHE"))
    <2>1. CASE o[2] # "EOK"
      <3>1. Tried(v, u) BY <1>3, <1>4, <2>1, StateIs
      <3>2. SecRest(v, u) BY <3>1, SecStepRest DEF Tried
      <3>3. u.eflags = v.eflags BY <3>1 DEF Tried, SecStep, But, OnSec, Keys, Loose
      <3> QED BY <1>2, <3>2, <3>3 DEF SecInv, Flag
    <2>2. CASE o[2] = "EOK"
      <3>1. PICK x : Again(v, x) /\ u = Clear(x, "ASSD_INIT") BY <1>2, <1>3, <1>4, <2>2, StateIs
      <3>2. SecRest(v, x) /\ Typed(x) BY <3>1, SecStepRest DEF Again, SecRest
      <3>3. SecRest(x, u) /\ u.csec = x.csec BY <3>1, <3>2, SecClearRest
      <3>4. SecRest(v, u) /\ u.asec = x.asec BY <3>2, <3>3, SecRestTrans DEF SecRest
      <3>5. SecInv(u) BY <3>1, <3>3, <3>4 DEF Again, Aimed, SecInv
      <3>6. u.eflags = x.eflags \ {"ASSD_INIT"} BY <3>1, <3>2, ClearIs
      <3>7. x.eflags = v.eflags BY <3>1 DEF Again, SecStep, But, OnSec, Keys, Loose
      <3> QED BY <3>4, <3>5, <3>6, <3>7 DEF Flag
    <2> QED BY <2>1, <2>2
  <1> HIDE DEF u
  <1>6. FreshEasy(v, u)
    <2>1. Ghost(v) => Ghost(u) BY <1>5 DEF SecRest, Kept, Held, Ghost
    <2> QED BY <1>4, <1>5, <2>1 DEF FreshEasy, Fresh, SecRest, Kept, NoCache
  <1> QED BY <1>1, <1>5, <1>6, FreshTrans DEF u

\* sdmmc_dev_cfg() brings a card that was just reset into the invariant.
LEMMA DevCfgIs ==
    ASSUME NEW t, Fresh(t), NoCache(t), NEW o \in sdmmc_dev_cfg(t)
    PROVE  /\ Fresh(o[1]) /\ Intact(o[1]) /\ Held(t, o[1]) /\ (~Flag(t, "CACHE") => NoCache(o[1]))
  <1> DEFINE relwr(x) == IF "WR_REL" \in x.caps THEN x ELSE Clear(x, "RELWR")
             A(x) == Where("ASSD" \in x.caps, x, sdmmc_assd_init(x))
             N(x) == OnOk(CfgNotify(relwr(x)), A)
             B(x) == OnOk(CfgBkops(x), N)
  <1>1. PICK w \in OnOk(CfgCache(t), B) : o[1] = w[1]
    <2>1. sdmmc_dev_cfg(t) = As(OnOk(CfgCache(t), B), "EOK")
      BY DEF sdmmc_dev_cfg, CfgCache, CfgBkops, CfgNotify
    <2> HIDE DEF B
    <2> QED BY <2>1 DEF As
  <1> HIDE DEF B
  <1>2. PICK c \in CfgCache(t) : IF c[2] = "EOK" THEN w \in B(c[1]) ELSE w = c BY <1>1 DEF OnOk
  <1>3. Fresh(c[1]) /\ Held(t, c[1]) /\ c[2] = "EOK" /\ (~Flag(t, "CACHE") => NoCache(c[1])) BY CfgCacheIs
  <1> HIDE DEF N
  <1>4. PICK b \in CfgBkops(c[1]) : IF b[2] = "EOK" THEN w \in N(b[1]) ELSE w = b BY <1>2, <1>3 DEF OnOk, B
  <1>5. FreshEasy(c[1], b[1]) /\ b[2] = "EOK" BY <1>3, CfgBkopsIs
  <1> HIDE DEF A
  <1> DEFINE e == relwr(b[1])
  <1>6. PICK n \in CfgNotify(e) : IF n[2] = "EOK" THEN w \in A(n[1]) ELSE w = n BY <1>4, <1>5 DEF OnOk, N
  <1>7. FreshEasy(b[1], e)
    <2>1. Fresh(b[1]) BY <1>5 DEF FreshEasy
    <2> QED BY <2>1, FreshSelf, FreshClear
  <1> HIDE DEF e
  <1>8. FreshEasy(e, n[1]) /\ n[2] = "EOK"
    <2>1. Fresh(e) BY <1>7 DEF FreshEasy
    <2> QED BY <2>1, CfgBkopsIs
  <1>9. Fresh(n[1]) BY <1>8 DEF FreshEasy
  <1>10. FreshEasy(n[1], w[1]) /\ SecInv(w[1])
    <2>1. w \in A(n[1]) BY <1>6, <1>8
    <2>2. CASE "ASSD" \in n[1].caps
      <3>1. w \in sdmmc_assd_init(n[1]) BY <2>1, <2>2 DEF A, Where
      <3> QED BY <1>9, <3>1, AssdInitIs
    <2>3. CASE "ASSD" \notin n[1].caps
      <3>1. w = <<n[1], "EOK">> BY <2>1, <2>3 DEF A, Where, Ret
      <3>2. SecInv(n[1]) BY <1>9, <2>3 DEF Fresh, Base, Sound, SecInv
      <3> QED BY <1>9, <3>1, <3>2, FreshSelf
    <2> QED BY <2>2, <2>3
  <1>11. FreshEasy(c[1], w[1]) BY <1>5, <1>7, <1>8, <1>10, FreshTrans
  <1> QED BY <1>1, <1>3, <1>10, <1>11 DEF FreshEasy, Held, Fresh, Intact, Midway, BkInv

\* Fields the invariant of a card that is awake does not look at.
LooseP == Loose \cup {"pm"}

\* Changes to them keep all of it.
LEMMA LooseKeeps ==
    ASSUME NEW t, NEW u, Base(t), Typed(u), But(t, u, LooseP)
    PROVE  /\ Base(u) /\ (PartInv(t) => PartInv(u)) /\ (SecInv(t) => SecInv(u)) /\ (BkInv(t) => BkInv(u))
           /\ Kept(t, u) /\ (Calm(t) => Calm(u)) /\ u.card = t.card /\ u.cached = t.cached /\ u.hist = t.hist
           /\ u.eflags = t.eflags /\ u.asec = t.asec /\ u.caps = t.caps
  <1>1. /\ u.cached = t.cached /\ u.cacheOn = t.cacheOn /\ u.eflags = t.eflags /\ u.hist = t.hist
        /\ u.wce = t.wce /\ u.caps = t.caps /\ u.wp = t.wp /\ u.card = t.card /\ u.pactive = t.pactive
        /\ u.asec = t.asec /\ u.dtype = t.dtype /\ u.drvr = t.drvr /\ u.inprog = t.inprog /\ u.csec = t.csec
        /\ u.cpart = t.cpart /\ u.bkRun = t.bkRun
    BY DEF But, Keys, Loose, LooseP
  <1>2. Base(u) BY <1>1 DEF Base, CacheInv, LossInv, TagInv, Off, Sound, Ghost, Flag
  <1> QED BY <1>1, <1>2 DEF PartInv, SecInv, BkInv, Kept, Held, DirtyOk, Ghost, Flag, Calm

\* A power cycle brings the record to where the configuration starts, if no data is
\* lost by it or the loss is on record.
LEMMA ClearedKeeps ==
    ASSUME NEW t, NEW u, Base(t), Cleared(t, u), t.cached => Ghost(t) \/ "unmarked" \in t.hist
    PROVE  /\ Fresh(u) \/ ~Up(u)
           /\ Base(u) /\ PartInv(u) /\ BkInv(u) /\ Calm(u) /\ ~u.bkRun /\ Kept(t, u) /\ NoCache(u)
           /\ u.eflags = t.eflags /\ u.asec = t.asec /\ u.hpm = t.hpm /\ (Up(t) => Up(u)) /\ u.caps = t.caps
           /\ u.pm = t.pm
  <1>1. /\ u.eflags = t.eflags /\ u.caps = t.caps /\ u.wp = t.wp /\ u.hpm = t.hpm /\ u.pm = t.pm
        /\ u.asec = t.asec /\ u.dtype = t.dtype /\ u.drvr = t.drvr
    BY DEF Cleared, But, Keys, ResetFields
  <1>2. /\ t.hist \subseteq u.hist
        /\ \A x \in {"ghost", "unsure", "unmarked", "forgotten", "doubt", "stray", "misdirected", "overlap"} :
             x \in u.hist <=> x \in t.hist
        /\ "lost" \in u.hist => "lost" \in t.hist \/ t.cached
    BY DEF Cleared
  <1>3. Base(u) BY <1>1, <1>2 DEF Cleared, Base, CacheInv, LossInv, TagInv, Off, Sound, Ghost
  <1>4. PartInv(u) /\ BkInv(u) /\ Calm(u) /\ ~u.bkRun /\ NoCache(u) /\ Kept(t, u)
    BY <1>1, <1>2 DEF Cleared, PartInv, BkInv, Calm, NoCache, Kept, Held, DirtyOk, Flag, Ghost
  <1>5. Up(t) => Up(u) BY <1>1 DEF Cleared, Up
  <1> QED BY <1>1, <1>3, <1>4, <1>5 DEF Fresh

\* sdmmc_reset() marks the partition and turns the cache off for good when the cache
\* held data.
Marked(u) ==
    CASE ~("CACHE" \in u.caps /\ Flag(u, "CACHE")) -> u
      [] "CACHE" \in u.caps /\ Flag(u, "CACHE") /\ Flag(u, "VCACHE_DIRTY") ->
           Clear(sdmmc_set_partition_attr(u, User), "CACHE")
      [] OTHER -> Clear(u, "CACHE")

\* It marks the partition whenever data may be lost.
LEMMA MarkedIs ==
    ASSUME NEW u, Typed(u)
    PROVE  /\ Typed(Marked(u)) /\ But(u, Marked(u), {"eflags", "wp"})
           /\ Marked(u).eflags \in {u.eflags, u.eflags \ {"CACHE"}}
           /\ u.wp \subseteq Marked(u).wp
           /\ ("CACHE" \in u.caps /\ Flag(u, "CACHE") /\ Flag(u, "VCACHE_DIRTY")) => User \in Marked(u).wp
           /\ "CACHE" \in u.caps => ~Flag(Marked(u), "CACHE")
  <1> DEFINE m == Marked(u)
  <1>1. CASE ~("CACHE" \in u.caps /\ Flag(u, "CACHE"))
    <2>1. m = u BY <1>1 DEF Marked
    <2> QED BY <1>1, <2>1 DEF But
  <1>2. CASE "CACHE" \in u.caps /\ Flag(u, "CACHE") /\ Flag(u, "VCACHE_DIRTY")
    <2> DEFINE v == sdmmc_set_partition_attr(u, User)
    <2>1. m = Clear(v, "CACHE") BY <1>2 DEF Marked
    <2>2. Typed(v) /\ But(u, v, {"wp"}) /\ v.wp = u.wp \cup {User}
      BY DEF sdmmc_set_partition_attr, Typed, But, Keys
    <2> HIDE DEF v, m
    <2>3. Typed(m) /\ But(v, m, {"eflags"}) /\ m.eflags = v.eflags \ {"CACHE"} BY <2>1, <2>2, ClearIs
    <2>4. m.wp = v.wp /\ v.eflags = u.eflags BY <2>2, <2>3 DEF But, Keys
    <2>5. But(u, m, {"eflags", "wp"}) BY <2>2, <2>3 DEF But
    <2> QED BY <2>2, <2>3, <2>4, <2>5 DEF Flag, m
  <1>3. CASE "CACHE" \in u.caps /\ Flag(u, "CACHE") /\ ~Flag(u, "VCACHE_DIRTY")
    <2>1. m = Clear(u, "CACHE") BY <1>3 DEF Marked
    <2> HIDE DEF m
    <2>3. Typed(m) /\ But(u, m, {"eflags"}) /\ m.eflags = u.eflags \ {"CACHE"} BY <2>1, ClearIs
    <2>4. m.wp = u.wp BY <2>3 DEF But, Keys
    <2>5. But(u, m, {"eflags", "wp"}) BY <2>3 DEF But
    <2> QED BY <1>3, <2>3, <2>4, <2>5 DEF Flag, m
  <1> QED BY <1>1, <1>2, <1>3

\* sdmmc_reset(), the recovery of every error: the invariant holds after it, and it
\* calms the card, from any state in which the card is not asleep.
LEMMA ResetIsGood ==
    ASSUME NEW t, Base(t), Up(t), NEW o \in sdmmc_reset(t)
    PROVE  Intact(o[1]) /\ Kept(t, o[1]) /\ Calm(o[1]) /\ ~o[1].bkRun
  <1>1. PICK w \in sdio_reset(t) : o \in sdmmc_dev_cfg(Marked(w[1]))
    BY DEF sdmmc_reset, Anyway, Marked
  <1> DEFINE u == w[1]
             m == Marked(u)
  <1>2. Cleared(t, u) BY ResetClears
  <1> HIDE DEF u
  <1>3. /\ Typed(m) /\ But(u, m, {"eflags", "wp"}) /\ m.eflags \in {u.eflags, u.eflags \ {"CACHE"}}
        /\ u.wp \subseteq m.wp
        /\ ("CACHE" \in u.caps /\ Flag(u, "CACHE") /\ Flag(u, "VCACHE_DIRTY")) => User \in m.wp
        /\ "CACHE" \in u.caps => ~Flag(m, "CACHE")
    BY <1>2, MarkedIs DEF Cleared
  <1> HIDE DEF m
  <1>4. /\ u.eflags = t.eflags /\ u.caps = t.caps /\ u.wp = t.wp /\ u.hpm = t.hpm
        /\ u.asec = t.asec /\ u.dtype = t.dtype /\ u.drvr = t.drvr
    BY <1>2 DEF Cleared, But, Keys, ResetFields
  <1>5. /\ m.cached = u.cached /\ m.cacheOn = u.cacheOn /\ m.hist = u.hist /\ m.hpm = u.hpm
        /\ m.wce = u.wce /\ m.caps = u.caps /\ m.card = u.card /\ m.pactive = u.pactive
        /\ m.asec = u.asec /\ m.dtype = u.dtype /\ m.drvr = u.drvr /\ m.cpart = u.cpart /\ m.bkRun = u.bkRun
    BY <1>3 DEF But, Keys
  <1>6. /\ t.hist \subseteq u.hist
        /\ \A x \in {"ghost", "unsure", "unmarked", "forgotten", "doubt", "stray", "misdirected", "overlap"} :
             x \in u.hist <=> x \in t.hist
        /\ "lost" \in u.hist => "lost" \in t.hist \/ t.cached
    BY <1>2 DEF Cleared
  <1>7. t.cached => Ghost(t) \/ (Flag(u, "VCACHE_DIRTY") /\ Flag(u, "CACHE") /\ "CACHE" \in u.caps)
    BY <1>4 DEF Base, CacheInv, Flag
  <1>8. LossInv(m)
    <2>1. CASE "lost" \in t.hist BY <1>3, <1>4, <1>5, <1>6, <2>1 DEF Base, LossInv, Ghost
    <2>2. CASE t.cached BY <1>3, <1>5, <1>6, <1>7, <2>2 DEF LossInv, Ghost
    <2> QED BY <1>5, <1>6, <2>1, <2>2 DEF LossInv
  <1>9. Base(m)
    BY <1>2, <1>3, <1>4, <1>5, <1>6, <1>8 DEF Cleared, Base, CacheInv, TagInv, Off, Sound, Ghost
  <1>10. Fresh(m) /\ NoCache(m)
    BY <1>2, <1>4, <1>5, <1>6, <1>9 DEF Cleared, Fresh, PartInv, NoCache, Up
  <1>11. Held(t, m) BY <1>3, <1>4, <1>5, <1>6 DEF Held, Flag
  <1>12. Fresh(o[1]) /\ Intact(o[1]) /\ Held(m, o[1]) /\ (~Flag(m, "CACHE") => NoCache(o[1]))
    BY <1>1, <1>10, DevCfgIs DEF m, u
  <1>13. NoCache(o[1])
    <2>1. CASE "CACHE" \in m.caps BY <1>3, <1>5, <1>12, <2>1
    <2>2. CASE "CACHE" \notin m.caps BY <1>12, <2>2 DEF Held, Intact, Midway, Base, CacheInv, NoCache
    <2> QED BY <2>1, <2>2
  <1> QED BY <1>11, <1>12, <1>13 DEF Held, Kept, DirtyOk, NoCache, Fresh, Calm

\* sdmmc_cache_flush(): if it succeeds, the card holds no data.
LEMMA CacheFlushIs ==
    ASSUME NEW t, Intact(t), NEW o \in sdmmc_cache_flush(t)
    PROVE  Intact(o[1]) /\ Held(t, o[1]) /\ (o[2] = "EOK" => ~o[1].cached \/ Ghost(o[1]))
  <1>0. Midway(t) /\ PartInv(t) /\ Base(t) BY DEF Intact, Midway
  <1>1. CASE ~("CACHE" \in t.caps /\ Flag(t, "CACHE") /\ Flag(t, "VCACHE_DIRTY"))
    <2>1. o = <<t, "EOK">> BY <1>1 DEF sdmmc_cache_flush, Ret
    <2>2. ~t.cached \/ Ghost(t) BY <1>0, <1>1 DEF Base, CacheInv
    <2> QED BY <2>1, <2>2 DEF Held
  <1>2. CASE "CACHE" \in t.caps /\ Flag(t, "CACHE") /\ Flag(t, "VCACHE_DIRTY")
    <2>1. PICK w \in sdio_cache(t, "flush") :
            IF w[2] = "EOK" THEN o = <<Clear(w[1], "VCACHE_DIRTY"), "EOK">> ELSE o = w
      BY <1>2 DEF sdmmc_cache_flush, OnOk, Ret
    <2> DEFINE a == w[1]
               c == Clear(a, "VCACHE_DIRTY")
    <2>2. Easy(t, a) /\ (w[2] = "EOK" => ~a.cached \/ Ghost(a)) BY <1>0, FlushIsEasy
    <2>3. CASE w[2] # "EOK" BY <1>0, <2>1, <2>2, <2>3 DEF Easy, Intact, Kept
    <2>4. CASE w[2] = "EOK"
      <3> HIDE DEF a
      <3>1. Intact(a) /\ Held(t, a) BY <1>0, <2>2 DEF Easy, Intact, Kept
      <3>2. Typed(c) /\ But(a, c, {"eflags"}) /\ c.eflags = a.eflags \ {"VCACHE_DIRTY"}
        BY <3>1, ClearIs DEF Intact, Midway, Base
      <3>3. o[1] = c BY <2>1, <2>4 DEF a
      <3> HIDE DEF c
      <3>4. /\ c.cached = a.cached /\ c.cacheOn = a.cacheOn /\ c.hist = a.hist /\ c.hpm = a.hpm
            /\ c.wce = a.wce /\ c.caps = a.caps /\ c.wp = a.wp /\ c.card = a.card /\ c.pactive = a.pactive
            /\ c.asec = a.asec /\ c.dtype = a.dtype /\ c.drvr = a.drvr /\ c.inprog = a.inprog
            /\ c.cpart = a.cpart /\ c.bkRun = a.bkRun /\ c.csec = a.csec
        BY <3>2 DEF But, Keys
      <3>5. \A f : f # "VCACHE_DIRTY" => (Flag(c, f) <=> Flag(a, f)) BY <3>2 DEF Flag
      <3>6. Base(c) BY <2>2, <2>4, <3>1, <3>2, <3>4, <3>5
             DEF Intact, Midway, Base, CacheInv, LossInv, TagInv, Off, Sound, Ghost
      <3>7. Intact(c) BY <3>1, <3>4, <3>5, <3>6 DEF Intact, Midway, PartInv, SecInv, BkInv, Ghost, Up
      <3>8. Held(a, c) BY <3>4, <3>5 DEF Held
      <3> QED BY <2>2, <2>4, <3>1, <3>3, <3>4, <3>7, <3>8 DEF Held, Ghost
    <2> QED BY <2>3, <2>4
  <1> QED BY <1>1, <1>2

------------------------------------------------------------------------------

\* Power management.

\* A card that sleeps holds no data, and the module knows that it sleeps.
Rest(t) == t.card /\ t.hpm = "SLEEP" => HcPm /\ t.pm = "SLEEP" /\ (~t.cached \/ Ghost(t))

\* Between requests, awake or asleep.
Parked(t) == Base(t) /\ PartInv(t) /\ SecInv(t) /\ BkInv(t) /\ Rest(t)

\* The invariant of a card that is awake is this one, ...
LEMMA GoodRests == ASSUME NEW t, Intact(t) PROVE Parked(t)
  BY DEF Intact, Midway, Parked, Rest, Up

\* ... and it is the same if the module believes the card awake.
LEMMA RestUp == ASSUME NEW t, Parked(t), t.pm # "SLEEP" PROVE Intact(t)
  BY DEF Intact, Midway, Parked, Rest, Up

\* A card that is woken may turn out to need a power cycle.
Woken(t, u) == \/ Typed(u) /\ But(t, u, Loose) /\ Up(u)
               \/ t.card /\ t.hpm = "SLEEP" /\ \E v : Typed(v) /\ But(t, v, Loose) /\ v.hpm # "SLEEP" /\ Cleared(v, u)

\* sdio_pwrmgnt(PM_ACTIVE) wakes the card in this sense.
LEMMA PwrActive ==
    ASSUME NEW t, Typed(t), Rest(t), NEW o \in sdio_pwrmgnt(t, "ACTIVE")
    PROVE  Woken(t, o[1])
  <1> DEFINE u == o[1]
             b == [t EXCEPT !.hpm = "ACTIVE"]
  <1>0. Typed(b) /\ But(t, b, {"hpm"}) /\ b.hpm = "ACTIVE" BY DEF Typed, But, Keys
  <1>00. b.faults = t.faults BY <1>0 DEF But, Keys
  <1> HIDE DEF b
  <1>01. But(t, b, Loose) /\ Up(b) BY <1>0 DEF But, Loose, Up
  <1>1. CASE ~t.card
    <2>1. o[1] = t BY <1>1 DEF sdio_pwrmgnt, _sdio_synchronize, Ret
    <2> QED BY <1>1, <2>1 DEF Woken, But, Up
  <1>2. CASE t.card /\ (~HcPm \/ t.hpm = "ACTIVE")
    <2>1. o = <<t, "EOK">> BY <1>2 DEF sdio_pwrmgnt, _sdio_synchronize, _sdio_pwrmgnt, Ret
    <2>2. t.hpm # "SLEEP" BY <1>2 DEF Rest
    <2> QED BY <2>1, <2>2 DEF Woken, But, Up
  <1>3. CASE t.card /\ HcPm /\ (t.hpm = "IDLE" \/ (t.hpm = "SLEEP" /\ ~HcSleep))
    <2>1. o = <<b, "EOK">> BY <1>3 DEF sdio_pwrmgnt, _sdio_synchronize, _sdio_pwrmgnt, Ret, b
    <2> QED BY <1>0, <1>01, <2>1 DEF Woken
  <1>4. CASE t.card /\ HcPm /\ t.hpm = "SLEEP" /\ HcSleep /\ "SLEEP" \notin t.caps
    <2>1. o \in _sdio_pwrmgnt(t, "ACTIVE") BY <1>4 DEF sdio_pwrmgnt, _sdio_synchronize
    <2>2. PICK w \in _sdio_reset(b) : o[1] = w[1]
      BY <1>4, <2>1 DEF _sdio_pwrmgnt, b, Look, Ret
    <2>3. Cleared(b, o[1]) BY <1>0, <2>2, _ResetClears
    <2> QED BY <1>0, <1>01, <1>4, <2>3 DEF Woken
  <1>5. CASE t.card /\ HcPm /\ t.hpm = "SLEEP" /\ HcSleep /\ "SLEEP" \in t.caps
    <2> DEFINE e == [Spend(t) EXCEPT !.hpm = "ACTIVE"]
    <2>1. o \in _sdio_pwrmgnt(t, "ACTIVE") BY <1>5 DEF sdio_pwrmgnt, _sdio_synchronize
    <2>2. PICK x \in Ret(b, "EOK") \cup Ret(Spend(t), "EIO") :
            IF x[2] = "EOK" THEN o = <<x[1], x[2]>>
            ELSE \E w \in _sdio_reset([x[1] EXCEPT !.hpm = "ACTIVE"]) : o[1] = w[1]
      <3> DEFINE X == {<<[t EXCEPT !.hpm = "ACTIVE"], "EOK">>}
                        \cup (IF t.faults = 0 THEN {} ELSE {<<Spend(t), "EIO">>})
                 Y(x) == IF x[2] = "EOK" THEN {<<x[1], x[2]>>}
                         ELSE UNION {{<<w[1], IF "ACTIVE" = "ACTIVE" /\ t.hpm = "SLEEP" THEN w[2] ELSE x[2]>>} :
                                w \in _sdio_reset([x[1] EXCEPT !.hpm = IF "ACTIVE" = "SLEEP" THEN "IDLE" ELSE "ACTIVE"])}
      <3>1. o \in UNION {IF x[2] = "EOK" THEN {<<x[1], x[2]>>}
                         ELSE UNION {{<<w[1], IF "ACTIVE" = "ACTIVE" /\ t.hpm = "SLEEP" THEN w[2] ELSE x[2]>>} :
                                w \in _sdio_reset([x[1] EXCEPT !.hpm = IF "ACTIVE" = "SLEEP" THEN "IDLE" ELSE "ACTIVE"])} :
                           x \in {<<[t EXCEPT !.hpm = "ACTIVE"], "EOK">>}
                                   \cup (IF t.faults = 0 THEN {} ELSE {<<Spend(t), "EIO">>})}
        BY <1>5, <2>1 DEF _sdio_pwrmgnt, Look, Ret
      <3>2. o \in UNION {Y(x) : x \in X} BY <3>1
      <3>3. \A x \in X : x = <<b, "EOK">> \/ x = <<Spend(t), "EIO">> BY DEF b
      <3> HIDE DEF X
      <3>4. PICK x \in X : o \in Y(x)
        <4> HIDE DEF Y
        <4> QED BY <3>2
      <3>5. IF x[2] = "EOK" THEN o = <<x[1], x[2]>>
            ELSE \E w \in _sdio_reset([x[1] EXCEPT !.hpm = "ACTIVE"]) : o[1] = w[1]
        BY <3>4
      <3> QED BY <3>3, <3>4, <3>5 DEF Ret
    <2>3. CASE x = <<b, "EOK">>
      <3>1. o = <<b, "EOK">> BY <2>2, <2>3
      <3> QED BY <1>0, <1>01, <3>1 DEF Woken
    <2>4. CASE x = <<Spend(t), "EIO">>
      <3>2. PICK w \in _sdio_reset(e) : o[1] = w[1] BY <2>2, <2>4
      <3>3. Typed(Spend(t)) /\ But(t, Spend(t), {"faults"}) BY SpendIs
      <3>4. Typed(e) /\ But(Spend(t), e, {"hpm"}) /\ e.hpm = "ACTIVE" BY <3>3 DEF Typed, But, Keys
      <3> HIDE DEF e
      <3>5. But(t, e, Loose) BY <3>3, <3>4 DEF But, Loose
      <3>6. Cleared(e, o[1]) BY <3>2, <3>4, _ResetClears
      <3> QED BY <1>5, <3>4, <3>5, <3>6 DEF Woken
    <2> QED BY <2>2, <2>3, <2>4 DEF Ret
  <1> QED BY <1>1, <1>2, <1>3, <1>4, <1>5 DEF Typed

\* sdmmc_pm(SDMMC_PM_ACTIVE), before each request: the card is awake and
\* configured, whatever it was.
LEMMA PmActive ==
    ASSUME NEW t, Parked(t), NEW o \in sdmmc_pm(t, "ACTIVE")
    PROVE  /\ Intact(o[1]) /\ Kept(t, o[1]) /\ (Calm(t) => Calm(o[1])) /\ t.eflags \subseteq o[1].eflags
           /\ o[2] = "EOK" /\ o[1].pm = "ACTIVE"
  <1> DEFINE lost == t.pm \in {"SLEEP", "SUSPEND"} /\ "ASSD" \in t.caps
             a == IF lost THEN Set(t, "ASSD_INIT") ELSE t
             b == sdmmc_timer_settime(a, "idle")
  <1>0. Typed(t) /\ Base(t) BY DEF Parked, Base
  <1>1. CASE t.pm = "ACTIVE"
    <2>1. o = <<t, "EOK">> BY <1>1 DEF sdmmc_pm, Ret
    <2> QED BY <1>0, <1>1, <2>1, RestUp DEF Kept, Held
  <1>2. CASE t.pm # "ACTIVE"
    <2>1. PICK w \in sdio_pwrmgnt(b, "ACTIVE") : o = <<[w[1] EXCEPT !.pm = "ACTIVE"], "EOK">>
      BY <1>2 DEF sdmmc_pm, Anyway, Ret
    <2>2. Typed(a) /\ But(t, a, {"eflags"}) /\ a.eflags = IF lost THEN t.eflags \cup {"ASSD_INIT"} ELSE t.eflags
      <3>1. CASE lost BY <1>0, <3>1, SetIs
      <3>2. CASE ~lost BY <1>0, <3>2 DEF But
      <3> QED BY <3>1, <3>2
    <2>3. lost <=> t.pm \in {"SLEEP", "SUSPEND"} /\ "ASSD" \in t.caps OBVIOUS
    <2> HIDE DEF a, lost
    <2>4. Typed(b) /\ But(a, b, {"timer"}) BY <2>2 DEF sdmmc_timer_settime, Typed, But, Keys
    <2> HIDE DEF b
    <2>5. /\ b.cached = t.cached /\ b.cacheOn = t.cacheOn /\ b.hist = t.hist /\ b.hpm = t.hpm
          /\ b.wce = t.wce /\ b.caps = t.caps /\ b.wp = t.wp /\ b.card = t.card /\ b.pactive = t.pactive
          /\ b.asec = t.asec /\ b.dtype = t.dtype /\ b.drvr = t.drvr /\ b.inprog = t.inprog /\ b.pm = t.pm
          /\ b.cpart = t.cpart /\ b.bkRun = t.bkRun /\ b.csec = t.csec /\ b.eflags = a.eflags
      BY <2>2, <2>4 DEF But, Keys
    <2>6. \A f : f # "ASSD_INIT" => (Flag(b, f) <=> Flag(t, f)) BY <2>2, <2>5 DEF Flag
    <2>7. Base(b) BY <1>0, <2>4, <2>5, <2>6 DEF Base, CacheInv, LossInv, TagInv, Off, Sound, Ghost
    <2>8. Kept(t, b) /\ t.eflags \subseteq b.eflags
      BY <2>2, <2>5, <2>6 DEF Kept, Held, DirtyOk, Ghost
    <2>9. PartInv(b) /\ SecInv(b) /\ BkInv(b) /\ Rest(b) /\ (Calm(t) => Calm(b))
      BY <2>2, <2>5, <2>6, <2>8 DEF Parked, PartInv, SecInv, BkInv, Rest, Calm, Ghost, Flag
    <2> DEFINE x == w[1]
               u == [x EXCEPT !.pm = "ACTIVE"]
    <2>10. Woken(b, x) BY <2>4, <2>9, PwrActive
    <2> HIDE DEF x
    <2>11. /\ Base(x) /\ PartInv(x) /\ SecInv(x) /\ BkInv(x) /\ Kept(b, x) /\ (Calm(b) => Calm(x))
           /\ Up(x) /\ x.eflags = b.eflags
      <3>1. CASE Typed(x) /\ But(b, x, Loose) /\ Up(x)
        <4>1. But(b, x, LooseP) BY <3>1 DEF But, LooseP
        <4> QED BY <2>7, <2>9, <3>1, <4>1, LooseKeeps
      <3>2. CASE b.card /\ b.hpm = "SLEEP" /\ \E v : Typed(v) /\ But(b, v, Loose) /\ v.hpm # "SLEEP" /\ Cleared(v, x)
        <4>1. PICK v : Typed(v) /\ But(b, v, Loose) /\ v.hpm # "SLEEP" /\ Cleared(v, x) BY <3>2
        <4>2. But(b, v, LooseP) BY <4>1 DEF But, LooseP
        <4>3. Base(v) /\ Kept(b, v) /\ v.cached = b.cached /\ v.hist = b.hist /\ v.eflags = b.eflags /\ v.asec = b.asec
          BY <2>7, <4>1, <4>2, LooseKeeps
        <4>4. v.cached => Ghost(v) \/ "unmarked" \in v.hist BY <2>9, <3>2, <4>3 DEF Rest, Ghost
        <4>5. /\ Base(x) /\ PartInv(x) /\ BkInv(x) /\ Calm(x) /\ Kept(v, x)
              /\ x.eflags = v.eflags /\ x.asec = v.asec /\ x.hpm = v.hpm
          BY <4>1, <4>3, <4>4, ClearedKeeps
        <4>6. SecInv(x)
          <5>1. b.pm = "SLEEP" BY <2>9, <3>2 DEF Rest
          <5>2. b.asec # "none" => "ASSD" \in b.caps BY <2>7 DEF Base, Sound
          <5>3. b.asec # "none" => Flag(x, "ASSD_INIT")
            BY <2>2, <2>3, <2>5, <4>3, <4>5, <5>1, <5>2 DEF Flag
          <5> QED BY <4>3, <4>5, <5>3 DEF SecInv
        <4>7. Kept(b, x) BY <4>3, <4>5 DEF Kept, Held
        <4> QED BY <4>1, <4>3, <4>5, <4>6, <4>7 DEF Up
      <3> QED BY <2>10, <3>1, <3>2 DEF Woken
    <2>12. Typed(u) /\ But(x, u, {"pm"}) /\ u.pm = "ACTIVE" BY <2>11 DEF Base, Typed, But, Keys
    <2>13. o = <<u, "EOK">> BY <2>1 DEF x
    <2> HIDE DEF u
    <2>14. But(x, u, LooseP) /\ Up(u) BY <2>11, <2>12 DEF But, LooseP, Up, Keys
    <2>15. /\ Base(u) /\ PartInv(u) /\ SecInv(u) /\ BkInv(u) /\ Kept(x, u) /\ (Calm(x) => Calm(u))
           /\ u.eflags = x.eflags
      BY <2>11, <2>12, <2>14, LooseKeeps
    <2> QED BY <2>8, <2>9, <2>11, <2>12, <2>13, <2>14, <2>15 DEF Intact, Midway, Kept, Held
  <1> QED BY <1>1, <1>2

\* sdio_pwrmgnt(PM_IDLE) puts nothing to sleep, ...
LEMMA PwrIdle ==
    ASSUME NEW t, Typed(t), Up(t), NEW o \in sdio_pwrmgnt(t, "IDLE")
    PROVE  Typed(o[1]) /\ But(t, o[1], Loose) /\ Up(o[1])
  <1> DEFINE b == [t EXCEPT !.hpm = "IDLE"]
  <1>1. o[1] = t \/ o[1] = b
    <2>1. CASE ~t.card BY <2>1 DEF sdio_pwrmgnt, _sdio_synchronize, Ret
    <2>2. CASE t.card
      <3>1. o \in _sdio_pwrmgnt(t, "IDLE") BY <2>2 DEF sdio_pwrmgnt, _sdio_synchronize
      <3>2. CASE ~HcPm \/ t.hpm = "IDLE"
        <4>1. o = <<t, "EOK">> BY <3>1, <3>2 DEF _sdio_pwrmgnt, Ret
        <4> QED BY <4>1
      <3>3. CASE HcPm /\ t.hpm # "IDLE"
        <4>1. o \in {<<IF t.hpm = "ACTIVE" THEN b ELSE t, "EOK">>} BY <3>1, <3>3 DEF _sdio_pwrmgnt, Ret
        <4> HIDE DEF b
        <4> QED BY <4>1
      <3> QED BY <3>2, <3>3
    <2> QED BY <2>1, <2>2
  <1>2. Typed(b) /\ But(t, b, {"hpm"}) /\ b.hpm = "IDLE" BY DEF Typed, But, Keys
  <1> HIDE DEF b
  <1>3. But(t, b, Loose) /\ Up(b) BY <1>2 DEF But, Loose, Up
  <1> QED BY <1>1, <1>2, <1>3 DEF But

\* ... and so does sdmmc_pm(SDMMC_PM_IDLE).
LEMMA PmIdle ==
    ASSUME NEW t, Intact(t), NEW o \in sdmmc_pm(t, "IDLE")
    PROVE  Good(t, o[1])
  <1>0. Typed(t) /\ Base(t) /\ Up(t) BY DEF Intact, Midway, Base
  <1>1. CASE t.pm = "IDLE"
    <2>1. o = <<t, "EOK">> BY <1>1 DEF sdmmc_pm, Ret
    <2> QED BY <2>1, GoodSelf
  <1>2. CASE t.pm # "IDLE"
    <2>1. PICK w \in sdio_pwrmgnt(t, "IDLE") :
            o = <<[sdmmc_timer_settime(w[1], IF HcSleep THEN "sleep" ELSE "off") EXCEPT !.pm = "IDLE"], "EOK">>
      BY <1>2 DEF sdmmc_pm, Anyway, Ret
    <2> DEFINE a == w[1]
               b == sdmmc_timer_settime(a, IF HcSleep THEN "sleep" ELSE "off")
               u == [b EXCEPT !.pm = "IDLE"]
    <2>2. Typed(a) /\ But(t, a, Loose) /\ Up(a) BY <1>0, PwrIdle
    <2> HIDE DEF a
    <2>3. Typed(b) /\ But(a, b, {"timer"}) BY <2>2 DEF sdmmc_timer_settime, Typed, But, Keys
    <2>6. o[1] = u BY <2>1 DEF a
    <2> HIDE DEF b
    <2>4. Typed(u) /\ But(b, u, {"pm"}) BY <2>3 DEF Typed, But, Keys
    <2> HIDE DEF u
    <2>5. But(t, u, LooseP) /\ Up(u) BY <2>2, <2>3, <2>4 DEF But, LooseP, Loose, Up, Keys
    <2> QED BY <1>0, <2>4, <2>5, <2>6, LooseKeeps DEF Good, Intact, Midway
  <1> QED BY <1>1, <1>2

\* sdmmc_pm(SDMMC_PM_SLEEP), of a card that holds no data.
LEMMA PmSleep ==
    ASSUME NEW t, Intact(t), ~t.cached \/ Ghost(t), "ASSD" \in t.caps => "SLEEP" \notin t.caps,
           t.pm # "SLEEP", NEW o \in sdmmc_pm(t, "SLEEP")
    PROVE  Parked(o[1]) /\ Kept(t, o[1])
  <1> DEFINE b == sdmmc_timer_settime(t, "off")
  <1>0. Typed(t) /\ Base(t) /\ Up(t) BY DEF Intact, Midway, Base
  <1>1. PICK w \in sdio_pwrmgnt(b, "SLEEP") :
          o = <<IF w[2] = "EOK" THEN [w[1] EXCEPT !.pm = "SLEEP"]
                ELSE [sdmmc_timer_settime(w[1], "sleep") EXCEPT !.pm = "IDLE"], "EOK">>
    BY DEF sdmmc_pm, Look, Ret
  <1>2. Typed(b) /\ But(t, b, {"timer"}) BY <1>0 DEF sdmmc_timer_settime, Typed, But, Keys
  <1> HIDE DEF b
  <1>3. But(t, b, LooseP) /\ Up(b) BY <1>0, <1>2 DEF But, LooseP, Loose, Up, Keys
  <1>4. Intact(b) /\ Kept(t, b) /\ b.cached = t.cached /\ b.hist = t.hist /\ b.caps = t.caps /\ Base(b)
    BY <1>0, <1>2, <1>3, LooseKeeps DEF Intact, Midway
  <1> DEFINE x == w[1]
             q == [b EXCEPT !.hpm = "SLEEP"]
  \* asleep, or awake, or reset
  <1>5. \/ w[2] = "EOK" /\ HcPm /\ Typed(x) /\ But(b, x, Loose)
        \/ Typed(x) /\ But(b, x, Loose) /\ Up(x)
        \/ /\ "SLEEP" \in b.caps
           /\ \E v : Typed(v) /\ But(b, v, Loose) /\ v.hpm # "SLEEP" /\ Cleared(v, x)
    <2>1. CASE ~b.card
      <3>1. x = b BY <2>1 DEF sdio_pwrmgnt, _sdio_synchronize, Ret
      <3> QED BY <1>2, <1>3, <3>1 DEF But
    <2>2. CASE b.card
      <3>0. w \in _sdio_pwrmgnt(b, "SLEEP") BY <2>2 DEF sdio_pwrmgnt, _sdio_synchronize
      <3>1. b.hpm # "SLEEP" BY <1>3, <2>2 DEF Up
      <3>2. Typed(q) /\ But(b, q, {"hpm"}) BY <1>2 DEF Typed, But, Keys
      <3>20. But(b, q, Loose) BY <3>2 DEF But, Loose
      <3>3. CASE ~HcPm
        <4>0. w = <<b, "EOK">> BY <3>0, <3>3 DEF _sdio_pwrmgnt, Ret
        <4>1. x = b BY <4>0
        <4> QED BY <1>2, <1>3, <4>1 DEF But
      <3>4. CASE HcPm /\ ~(HcSleep /\ "SLEEP" \in b.caps)
        <4>1. w = <<q, "EOK">> BY <3>0, <3>1, <3>4 DEF _sdio_pwrmgnt, Ret
        <4> QED BY <3>2, <3>20, <3>4, <4>1
      <3>5. CASE HcPm /\ HcSleep /\ "SLEEP" \in b.caps
        <4> DEFINE X == {<<[b EXCEPT !.hpm = "SLEEP"], "EOK">>}
                          \cup (IF b.faults = 0 THEN {} ELSE {<<Spend(b), "EIO">>})
                   Y(y) == IF y[2] = "EOK" THEN {<<y[1], y[2]>>}
                           ELSE UNION {{<<z[1], IF "SLEEP" = "ACTIVE" /\ b.hpm = "SLEEP" THEN z[2] ELSE y[2]>>} :
                                  z \in _sdio_reset([y[1] EXCEPT !.hpm = IF "SLEEP" = "SLEEP" THEN "IDLE" ELSE "SLEEP"])}
        <4>1. w \in UNION {IF y[2] = "EOK" THEN {<<y[1], y[2]>>}
                           ELSE UNION {{<<z[1], IF "SLEEP" = "ACTIVE" /\ b.hpm = "SLEEP" THEN z[2] ELSE y[2]>>} :
                                  z \in _sdio_reset([y[1] EXCEPT !.hpm = IF "SLEEP" = "SLEEP" THEN "IDLE" ELSE "SLEEP"])} :
                             y \in {<<[b EXCEPT !.hpm = "SLEEP"], "EOK">>}
                                     \cup (IF b.faults = 0 THEN {} ELSE {<<Spend(b), "EIO">>})}
          BY <3>0, <3>1, <3>5 DEF _sdio_pwrmgnt, Look, Ret
        <4>2. w \in UNION {Y(y) : y \in X} BY <4>1
        <4>3. \A y \in X : y = <<q, "EOK">> \/ y = <<Spend(b), "EIO">> OBVIOUS
        <4> HIDE DEF X
        <4>4. PICK y \in X : w \in Y(y)
          <5> HIDE DEF Y
          <5> QED BY <4>2
        <4>5. IF y[2] = "EOK" THEN w = <<y[1], y[2]>>
              ELSE \E z \in _sdio_reset([y[1] EXCEPT !.hpm = "IDLE"]) : w[1] = z[1]
          BY <4>4
        <4>6. CASE y = <<q, "EOK">>
          <5>1. w = <<q, "EOK">> BY <4>5, <4>6
          <5> QED BY <3>2, <3>20, <3>5, <5>1
        <4>7. CASE y = <<Spend(b), "EIO">>
          <5> DEFINE e == [Spend(b) EXCEPT !.hpm = "IDLE"]
          <5>2. PICK z \in _sdio_reset(e) : w[1] = z[1] BY <4>5, <4>7
          <5>3. Typed(Spend(b)) /\ But(b, Spend(b), {"faults"}) BY <1>2, SpendIs
          <5>4. Typed(e) /\ But(Spend(b), e, {"hpm"}) /\ e.hpm = "IDLE" BY <5>3 DEF Typed, But, Keys
          <5> HIDE DEF e
          <5>5. But(b, e, Loose) BY <5>3, <5>4 DEF But, Loose
          <5>6. Cleared(e, x) BY <5>2, <5>4, _ResetClears
          <5> QED BY <3>5, <5>4, <5>5, <5>6
        <4> QED BY <4>3, <4>4, <4>6, <4>7
      <3> QED BY <3>3, <3>4, <3>5
    <2> QED BY <2>1, <2>2
  <1> HIDE DEF x, q
  <1>6. /\ Base(x) /\ PartInv(x) /\ SecInv(x) /\ BkInv(x) /\ Kept(b, x)
        /\ Up(x) \/ (w[2] = "EOK" /\ HcPm /\ (~x.cached \/ Ghost(x)))
    <2>1. CASE Typed(x) /\ But(b, x, Loose) /\ (Up(x) \/ (w[2] = "EOK" /\ HcPm))
      <3>1. But(b, x, LooseP) BY <2>1 DEF But, LooseP
      <3>2. /\ Base(x) /\ PartInv(x) /\ SecInv(x) /\ BkInv(x) /\ Kept(b, x) /\ x.cached = b.cached /\ x.hist = b.hist
        BY <1>4, <2>1, <3>1, LooseKeeps DEF Intact, Midway
      <3> QED BY <1>4, <2>1, <3>2 DEF Ghost
    <2>2. CASE "SLEEP" \in b.caps /\ \E v : Typed(v) /\ But(b, v, Loose) /\ v.hpm # "SLEEP" /\ Cleared(v, x)
      <3>1. PICK v : Typed(v) /\ But(b, v, Loose) /\ v.hpm # "SLEEP" /\ Cleared(v, x) BY <2>2
      <3>2. But(b, v, LooseP) BY <3>1 DEF But, LooseP
      <3>3. Base(v) /\ Kept(b, v) /\ v.cached = b.cached /\ v.hist = b.hist /\ v.asec = b.asec
        BY <1>4, <3>1, <3>2, LooseKeeps
      <3>4. v.cached => Ghost(v) \/ "unmarked" \in v.hist BY <1>4, <3>3 DEF Ghost
      <3>5. /\ Base(x) /\ PartInv(x) /\ BkInv(x) /\ Kept(v, x) /\ x.asec = v.asec /\ x.hpm = v.hpm
        BY <3>1, <3>3, <3>4, ClearedKeeps
      <3>6. b.asec = "none" BY <1>4, <2>2 DEF Base, Sound
      <3> QED BY <3>1, <3>3, <3>5, <3>6 DEF Up, SecInv, Kept, Held
    <2> QED BY <1>5, <2>1, <2>2
  <1>7. CASE w[2] = "EOK"
    <2> DEFINE u == [x EXCEPT !.pm = "SLEEP"]
    <2>1. Typed(u) /\ But(x, u, {"pm"}) /\ u.pm = "SLEEP" BY <1>6 DEF Base, Typed, But, Keys
    <2>2. o[1] = u BY <1>1, <1>7 DEF x
    <2> HIDE DEF u
    <2>3. But(x, u, LooseP) /\ u.hpm = x.hpm /\ u.card = x.card BY <2>1 DEF But, LooseP, Keys
    <2>4. /\ Base(u) /\ PartInv(u) /\ SecInv(u) /\ BkInv(u) /\ Kept(x, u) /\ u.cached = x.cached /\ u.hist = x.hist
      BY <1>6, <2>1, <2>3, LooseKeeps
    <2>5. Rest(u) BY <1>6, <2>1, <2>3, <2>4 DEF Rest, Up, Ghost
    <2> QED BY <1>4, <1>6, <2>2, <2>4, <2>5 DEF Parked, Kept, Held
  <1>8. CASE w[2] # "EOK"
    <2> DEFINE y == sdmmc_timer_settime(x, "sleep")
               u == [y EXCEPT !.pm = "IDLE"]
    <2>0. Typed(y) /\ But(x, y, {"timer"}) BY <1>6 DEF sdmmc_timer_settime, Base, Typed, But, Keys
    <2>2. o[1] = u BY <1>1, <1>8 DEF x
    <2> HIDE DEF y
    <2>1. Typed(u) /\ But(y, u, {"pm"}) /\ u.pm = "IDLE" BY <2>0 DEF Typed, But, Keys
    <2> HIDE DEF u
    <2>3. But(x, u, LooseP) BY <2>0, <2>1 DEF But, LooseP, Loose
    <2>30. u.hpm = x.hpm /\ u.card = x.card BY <2>0, <2>1 DEF But, Keys
    <2>4. /\ Base(u) /\ PartInv(u) /\ SecInv(u) /\ BkInv(u) /\ Kept(x, u)
      BY <1>6, <2>1, <2>3, LooseKeeps
    <2>5. Rest(u) BY <1>6, <1>8, <2>30 DEF Rest, Up
    <2> QED BY <1>4, <1>6, <2>2, <2>4, <2>5 DEF Parked, Kept, Held
  <1> QED BY <1>7, <1>8

\* The power timer: the cache is flushed before the card is put to sleep, and it is
\* not put to sleep when that fails.
LEMMA TimerIs ==
    ASSUME NEW t, Parked(t), "ASSD" \in t.caps => "SLEEP" \notin t.caps, NEW o \in sdmmc_timer(t)
    PROVE  Parked(o[1]) /\ Held(t, o[1])
  <1>1. CASE t.drvr # "PAUSE" /\ t.pm = "ACTIVE"
    <2>1. o \in sdmmc_pm(t, "IDLE") BY <1>1 DEF sdmmc_timer
    <2>2. Intact(t) BY <1>1, RestUp
    <2> QED BY <2>1, <2>2, PmIdle, GoodRests DEF Good, Kept
  <1>2. CASE t.drvr # "PAUSE" /\ t.pm = "IDLE" /\ HcSleep
    <2>1. PICK w \in sdmmc_cache_flush(t) : IF w[2] = "EOK" THEN o \in sdmmc_pm(w[1], "SLEEP") ELSE o = w
      BY <1>2 DEF sdmmc_timer, OnOk
    <2>2. Intact(t) BY <1>2, RestUp
    <2>3. Intact(w[1]) /\ Held(t, w[1]) /\ (w[2] = "EOK" => ~w[1].cached \/ Ghost(w[1])) BY <2>2, CacheFlushIs
    <2>4. CASE w[2] # "EOK" BY <2>1, <2>3, <2>4, GoodRests
    <2>5. CASE w[2] = "EOK"
      <3>1. CASE w[1].pm # "SLEEP"
        <4>1. Parked(o[1]) /\ Kept(w[1], o[1]) BY <2>1, <2>3, <2>5, <3>1, PmSleep DEF Held
        <4> QED BY <2>3, <4>1 DEF Kept, Held
      <3>2. CASE w[1].pm = "SLEEP"
        <4>1. o = <<w[1], "EOK">> BY <2>1, <2>5, <3>2 DEF sdmmc_pm, Ret
        <4> QED BY <2>3, <4>1, GoodRests
      <3> QED BY <3>1, <3>2
    <2> QED BY <2>4, <2>5
  <1>3. CASE ~(t.drvr # "PAUSE" /\ t.pm = "ACTIVE") /\ ~(t.drvr # "PAUSE" /\ t.pm = "IDLE" /\ HcSleep)
    <2>1. o = <<t, "EOK">> BY <1>3 DEF sdmmc_timer, Ret
    <2> QED BY <2>1 DEF Held
  <1> QED BY <1>1, <1>2, <1>3

------------------------------------------------------------------------------

\* Background operations of the card.

\* What the start and the end of a background operation change.
OnNote == {"bkRun", "inprog"} \cup Loose

\* A background operation that is on the books, or has ended.
LEMMA NotedIsGood ==
    ASSUME NEW t, NEW u, Intact(t), Typed(u), But(t, u, OnNote), Up(u), t.card \/ ~u.bkRun,
           ~u.bkRun \/ (u.inprog /\ Flag(t, "BKOPS"))
    PROVE  Good(t, u) /\ (~u.bkRun => Calm(u))
  <1>1. /\ u.cached = t.cached /\ u.cacheOn = t.cacheOn /\ u.eflags = t.eflags /\ u.hist = t.hist
        /\ u.wce = t.wce /\ u.caps = t.caps /\ u.wp = t.wp /\ u.card = t.card /\ u.pactive = t.pactive
        /\ u.asec = t.asec /\ u.dtype = t.dtype /\ u.drvr = t.drvr /\ u.csec = t.csec
        /\ u.cpart = t.cpart
    BY DEF But, Keys, Loose, OnNote
  <1>2. Base(u) BY <1>1 DEF Intact, Midway, Base, CacheInv, LossInv, TagInv, Off, Sound, Ghost, Flag
  <1> QED BY <1>1, <1>2 DEF Intact, Midway, Good, PartInv, SecInv, BkInv, Kept, Held, DirtyOk, Ghost, Flag, Calm

\* The end of StartBkops(): the interruption ...
AfterHpi(a) == Look(sdio_hpi(a), LAMBDA u, hpi : IF hpi = "EOK" THEN Ret(u, hpi) ELSE sdmmc_reset(u))

\* ... and the note.
AfterStart(a, rc) == CASE rc = "EOK" -> Ret([a EXCEPT !.inprog = TRUE, !.ticks = 0], rc)
                       [] rc = "ETIMEDOUT" -> AfterHpi(a)
                       [] OTHER -> Ret(a, rc)

\* The start of a background operation is noted, and it is stopped when its answer
\* is lost.
LEMMA StartBkopsIs ==
    ASSUME NEW t, Intact(t), Flag(t, "BKOPS"), NEW tick \in BOOLEAN, NEW o \in StartBkops(t, tick)
    PROVE  Good(t, o[1]) /\ (~tick /\ Calm(t) => Calm(o[1]))
  <1>0. Midway(t) /\ Typed(t) /\ Up(t) BY DEF Intact, Midway, Base
  <1>1. \/ o[1] = t
        \/ \E w \in sdio_send_cmd(t, Command("BKOPS", tick)) :
             \/ w[2] = "EOK" /\ o[1] = [w[1] EXCEPT !.inprog = TRUE, !.ticks = 0]
             \/ w[2] = "ETIMEDOUT" /\ \E v \in sdio_hpi(w[1]) :
                  \/ v[2] = "EOK" /\ o[1] = v[1]
                  \/ v[2] # "EOK" /\ \E x \in sdmmc_reset(v[1]) : o[1] = x[1]
             \/ w[2] \notin {"EOK", "ETIMEDOUT"} /\ o[1] = w[1]
    <2> DEFINE X == sdio_send_cmd(t, Command("BKOPS", tick))
               Y == UNION {AfterStart(w[1], w[2]) : w \in X}
    <2>1. o \in Ret(t, "EOK") \/ o \in {<<y[1], "EOK">> : y \in Y}
      BY DEF StartBkops, As, Look, sdio_mmc_switch, AfterStart, AfterHpi
    <2>2. CASE o \in Ret(t, "EOK")
      <3>1. o = <<t, "EOK">> BY <2>2 DEF Ret
      <3> HIDE DEF X, Y
      <3> QED BY <3>1
    <2>3. CASE o \in {<<y[1], "EOK">> : y \in Y}
      <3> HIDE DEF X
      <3>1. PICK y \in Y : o = <<y[1], "EOK">> BY <2>3
      <3>2. PICK w \in X : y \in AfterStart(w[1], w[2]) BY <3>1
      <3>3. CASE w[2] = "EOK"
        <4>1. y \in Ret([w[1] EXCEPT !.inprog = TRUE, !.ticks = 0], "EOK") BY <3>2, <3>3 DEF AfterStart
        <4>2. o[1] = [w[1] EXCEPT !.inprog = TRUE, !.ticks = 0] BY <3>1, <4>1 DEF Ret
        <4> QED BY <3>3, <4>2 DEF X
      <3>4. CASE w[2] = "ETIMEDOUT"
        <4>1. y \in AfterHpi(w[1]) BY <3>2, <3>4 DEF AfterStart
        <4>2. PICK v \in sdio_hpi(w[1]) : y \in IF v[2] = "EOK" THEN Ret(v[1], v[2]) ELSE sdmmc_reset(v[1])
          BY <4>1 DEF AfterHpi, Look
        <4>3. (v[2] = "EOK" /\ o[1] = v[1]) \/ (v[2] # "EOK" /\ \E x \in sdmmc_reset(v[1]) : o[1] = x[1])
          BY <3>1, <4>2 DEF Ret
        <4> QED BY <3>4, <4>3 DEF X
      <3>5. CASE w[2] \notin {"EOK", "ETIMEDOUT"}
        <4>1. y \in Ret(w[1], w[2]) BY <3>2, <3>5 DEF AfterStart
        <4>2. o[1] = w[1] BY <3>1, <4>1 DEF Ret
        <4> QED BY <3>5, <4>2 DEF X
      <3> QED BY <3>3, <3>4, <3>5
    <2> QED BY <2>1, <2>2, <2>3
  <1>2. CASE o[1] = t BY <1>2, GoodSelf
  <1>3. ASSUME NEW w \in sdio_send_cmd(t, Command("BKOPS", tick)),
               \/ w[2] = "EOK" /\ o[1] = [w[1] EXCEPT !.inprog = TRUE, !.ticks = 0]
               \/ w[2] = "ETIMEDOUT" /\ \E v \in sdio_hpi(w[1]) :
                    \/ v[2] = "EOK" /\ o[1] = v[1]
                    \/ v[2] # "EOK" /\ \E x \in sdmmc_reset(v[1]) : o[1] = x[1]
               \/ w[2] \notin {"EOK", "ETIMEDOUT"} /\ o[1] = w[1]
        PROVE  Good(t, o[1]) /\ (~tick /\ Calm(t) => Calm(o[1]))
    <2> DEFINE a == w[1]
    <2>1. PICK d : Sent(t, a, d, w[2], {"bkRun"}) /\ d.bkRun = tick BY <1>0, <1>3, SendBkops
    <2>2. CASE w[2] = "EOK"
      <3>1. t.card /\ a = d /\ Typed(d) /\ Up(d) /\ But(t, d, {"bkRun"} \cup Loose)
        BY <1>0, <2>1, <2>2 DEF Sent, Failing
      <3> DEFINE u == [d EXCEPT !.inprog = TRUE, !.ticks = 0]
      <3>2. o[1] = u BY <1>3, <2>2, <3>1
      <3>3. Typed(u) /\ But(d, u, {"inprog", "ticks"}) /\ u.inprog = TRUE BY <3>1 DEF Typed, But, Keys
      <3> HIDE DEF u
      <3>4. But(t, u, OnNote) BY <3>1, <3>3 DEF But, OnNote, Loose
      <3>5. u.bkRun = tick /\ Up(u) BY <2>1, <3>1, <3>3 DEF But, Keys, Up
      <3> QED BY <3>1, <3>2, <3>3, <3>4, <3>5, NotedIsGood
    <2>3. CASE w[2] # "EOK"
      <3>1. Easy(t, a)
        <4>1. CASE Same(t, a) BY <1>0, <4>1, SameG
        <4>2. CASE t.card /\ Typed(a) /\ Up(a) /\ But(t, a, {"bkRun"} \cup Loose \cup {"hist"})
                   /\ But(t, d, {"bkRun"} \cup Loose) /\ a.hist = d.hist \cup {"ghost"}
          <5>1. d.hist = t.hist BY <4>2 DEF But, Keys, Loose
          <5>2. But(t, a, OnBkRun) BY <4>2 DEF But, OnBkRun
          <5> QED BY <1>0, <4>2, <5>1, <5>2, BkIsEasy
        <4> QED BY <1>0, <2>1, <2>3, <4>1, <4>2 DEF Sent
      <3>2. Good(t, a) /\ (Calm(t) => Calm(a)) BY <3>1, GoodEasy DEF Easy
      <3> HIDE DEF a
      <3>3. CASE o[1] = a BY <3>2, <3>3
      <3>4. ASSUME NEW v \in sdio_hpi(a), \/ v[2] = "EOK" /\ o[1] = v[1]
                                          \/ v[2] # "EOK" /\ \E x \in sdmmc_reset(v[1]) : o[1] = x[1]
            PROVE  Good(t, o[1]) /\ (Calm(t) => Calm(o[1]))
        <4>1. Easy(a, v[1]) BY <3>1, <3>4, HpiIsEasy DEF Easy
        <4>2. Good(a, v[1]) /\ (Calm(a) => Calm(v[1])) BY <3>2, <4>1, GoodEasy DEF Easy, Good
        <4>3. Good(t, v[1]) BY <3>2, <4>2, GoodTrans
        <4>4. CASE o[1] = v[1] BY <3>2, <4>2, <4>3, <4>4
        <4>5. ASSUME NEW x \in sdmmc_reset(v[1]), o[1] = x[1] PROVE Good(t, o[1]) /\ Calm(o[1])
          <5>1. Intact(x[1]) /\ Kept(v[1], x[1]) /\ Calm(x[1]) BY <4>3, <4>5, ResetIsGood DEF Good, Intact, Midway
          <5> QED BY <4>3, <4>5, <5>1, GoodTrans DEF Good
        <4> QED BY <3>4, <4>4, <4>5
      <3> QED BY <1>3, <2>3, <3>3, <3>4 DEF a
    <2> QED BY <2>2, <2>3
  <1> QED BY <1>1, <1>2, <1>3

\* That no operation runs is noted.
LEMMA NoneIs ==
    ASSUME NEW t, Intact(t), ~t.bkRun
    PROVE  LET u == [t EXCEPT !.bk = 0, !.inprog = FALSE] IN Good(t, u) /\ Calm(u)
  <1> DEFINE u == [t EXCEPT !.bk = 0, !.inprog = FALSE]
  <1>1. Typed(u) /\ But(t, u, {"bk", "inprog"}) BY DEF Intact, Midway, Base, Typed, But, Keys
  <1> HIDE DEF u
  <1>2. But(t, u, OnNote) BY <1>1 DEF But, OnNote, Loose
  <1>3. u.bkRun = t.bkRun /\ u.hpm = t.hpm /\ u.card = t.card BY <1>1 DEF But, Keys
  <1>4. Up(u) BY <1>3 DEF Intact, Midway, Up
  <1> QED BY <1>1, <1>2, <1>3, <1>4, NotedIsGood DEF u

\* The status that sdmmc_bkops() asks for.
Poll(t) ==
    LET u == IF t.bk # 0 THEN [t EXCEPT !.ticks = @ + 1] ELSE t
    IN As({IF o[2] = "EOK" /\ o[1].bk # o[1].cbk THEN <<[o[1] EXCEPT !.bk = o[1].cbk, !.ticks = 0], o[2]>> ELSE o :
             o \in sdio_send_ext_csd(u)}, "EOK")

\* It changes nothing that counts.
LEMMA PollIsSame ==
    ASSUME NEW t, Typed(t), Up(t), NEW o \in Poll(t)
    PROVE  Same(t, o[1]) /\ o[2] = "EOK"
  <1> DEFINE u == IF t.bk # 0 THEN [t EXCEPT !.ticks = @ + 1] ELSE t
  <1>1. PICK w \in sdio_send_cmd(u, Plain) :
          /\ o[1] = IF w[2] = "EOK" /\ w[1].bk # w[1].cbk THEN [w[1] EXCEPT !.bk = w[1].cbk, !.ticks = 0] ELSE w[1]
          /\ o[2] = "EOK"
    <2>1. PICK w \in sdio_send_cmd(u, Plain) :
            o = <<(IF w[2] = "EOK" /\ w[1].bk # w[1].cbk
                     THEN <<[w[1] EXCEPT !.bk = w[1].cbk, !.ticks = 0], w[2]>> ELSE w)[1], "EOK">>
      BY DEF Poll, As, sdio_send_ext_csd
    <2> HIDE DEF u
    <2> QED BY <2>1
  <1>2. Same(t, u)
    <2> DEFINE v == [t EXCEPT !.ticks = @ + 1]
    <2>1. Typed(v) /\ But(t, v, {"ticks"}) BY DEF Typed, But, Keys
    <2>2. u = v \/ u = t OBVIOUS
    <2> HIDE DEF u, v
    <2>3. Same(t, v) BY <2>1 DEF Same, But, Loose, Up, Keys
    <2> QED BY <2>2, <2>3, SameSelf
  <1> HIDE DEF u
  <1> DEFINE a == w[1]
             b == [a EXCEPT !.bk = a.cbk, !.ticks = 0]
  <1>3. Same(u, a) BY <1>1, <1>2, SendPlain DEF Same
  <1>4. o[1] = a \/ o[1] = b BY <1>1
  <1> HIDE DEF a
  <1>5. Typed(b) /\ But(a, b, {"bk", "ticks"}) BY <1>3 DEF Same, Typed, But, Keys
  <1> HIDE DEF b
  <1>6. Same(a, b) BY <1>3, <1>5 DEF Same, But, Loose, Up, Keys
  <1> QED BY <1>1, <1>2, <1>3, <1>4, <1>6, SameTrans

\* sdmmc_bkops(): unless it is the timer that calls, the card is calm afterwards.
LEMMA BkopsIs ==
    ASSUME NEW t, Intact(t), NEW tick \in BOOLEAN, NEW o \in sdmmc_bkops(t, tick)
    PROVE  Good(t, o[1]) /\ (~tick => Calm(o[1]))
  <1>1. CASE ~Flag(t, "BKOPS") \/ t.drvr = "PAUSE"
    <2>1. o = <<t, "EOK">> BY <1>1 DEF sdmmc_bkops, Ret
    <2> QED BY <1>1, <2>1, GoodSelf DEF Intact, Midway, BkInv, Calm
  <1>2. CASE Flag(t, "BKOPS") /\ t.drvr # "PAUSE" /\ t.inprog
    <2>1. PICK w \in sdmmc_pm(t, "ACTIVE") :
            IF w[2] = "EOK"
            THEN \/ tick /\ o[1] = w[1]
                 \/ ~tick /\ \E v \in sdio_hpi(w[1]) :
                      \/ v[2] = "EOK" /\ o[1] = [v[1] EXCEPT !.bk = 0, !.inprog = FALSE]
                      \/ v[2] # "EOK" /\ \E x \in sdmmc_reset(v[1]) : o[1] = [x[1] EXCEPT !.bk = 0, !.inprog = FALSE]
            ELSE o = w
      <3>1. o \in OnOk(sdmmc_pm(t, "ACTIVE"), LAMBDA y :
              IF tick THEN Ret(y, "EOK")
              ELSE Look(sdio_hpi(y), LAMBDA u, rc :
                     IF rc = "EOK" THEN Ret([u EXCEPT !.bk = 0, !.inprog = FALSE], rc)
                     ELSE Look(sdmmc_reset(u), LAMBDA v, ok : Ret([v EXCEPT !.bk = 0, !.inprog = FALSE], rc))))
        BY <1>2 DEF sdmmc_bkops
      <3> DEFINE Y(y) == IF tick THEN Ret(y, "EOK")
                         ELSE Look(sdio_hpi(y), LAMBDA u, rc :
                                IF rc = "EOK" THEN Ret([u EXCEPT !.bk = 0, !.inprog = FALSE], rc)
                                ELSE Look(sdmmc_reset(u), LAMBDA v, ok : Ret([v EXCEPT !.bk = 0, !.inprog = FALSE], rc)))
      <3>2. PICK w \in sdmmc_pm(t, "ACTIVE") : o \in IF w[2] = "EOK" THEN Y(w[1]) ELSE {w}
        BY <3>1 DEF OnOk
      <3>3. CASE w[2] # "EOK" BY <3>2, <3>3
      <3>4. CASE w[2] = "EOK" /\ tick
        <4>1. o \in Ret(w[1], "EOK") BY <3>2, <3>4
        <4> QED BY <3>4, <4>1 DEF Ret
      <3>5. CASE w[2] = "EOK" /\ ~tick
        <4> DEFINE Z(u, rc) == IF rc = "EOK" THEN Ret([u EXCEPT !.bk = 0, !.inprog = FALSE], rc)
                               ELSE Look(sdmmc_reset(u), LAMBDA v, ok : Ret([v EXCEPT !.bk = 0, !.inprog = FALSE], rc))
        <4>1. o \in UNION {Z(x[1], x[2]) : x \in sdio_hpi(w[1])} BY <3>2, <3>5 DEF Look
        <4>2. PICK v \in sdio_hpi(w[1]) : o \in Z(v[1], v[2])
          <5> HIDE DEF Z
          <5> QED BY <4>1
        <4>3. CASE v[2] = "EOK"
          <5>1. o \in Ret([v[1] EXCEPT !.bk = 0, !.inprog = FALSE], v[2]) BY <4>2, <4>3
          <5>2. o[1] = [v[1] EXCEPT !.bk = 0, !.inprog = FALSE] BY <5>1 DEF Ret
          <5> HIDE DEF Y, Z
          <5> QED BY <3>5, <4>3, <5>2
        <4>4. CASE v[2] # "EOK"
          <5>1. o \in UNION {Ret([x[1] EXCEPT !.bk = 0, !.inprog = FALSE], v[2]) : x \in sdmmc_reset(v[1])}
            BY <4>2, <4>4 DEF Look
          <5>2. PICK x \in sdmmc_reset(v[1]) : o \in Ret([x[1] EXCEPT !.bk = 0, !.inprog = FALSE], v[2]) BY <5>1
          <5>3. o[1] = [x[1] EXCEPT !.bk = 0, !.inprog = FALSE] BY <5>2 DEF Ret
          <5> HIDE DEF Y, Z
          <5> QED BY <3>5, <4>4, <5>3
        <4> QED BY <4>3, <4>4
      <3> HIDE DEF Y
      <3> QED BY <3>3, <3>4, <3>5
    <2>2. Good(t, w[1]) /\ w[2] = "EOK" BY GoodRests, PmActive DEF Good
    <2>3. CASE tick BY <2>1, <2>2, <2>3
    <2>4. CASE ~tick
      <3>1. PICK v \in sdio_hpi(w[1]) :
              \/ v[2] = "EOK" /\ o[1] = [v[1] EXCEPT !.bk = 0, !.inprog = FALSE]
              \/ v[2] # "EOK" /\ \E x \in sdmmc_reset(v[1]) : o[1] = [x[1] EXCEPT !.bk = 0, !.inprog = FALSE]
        BY <2>1, <2>2, <2>4
      <3>2. Intact(w[1]) /\ Midway(w[1]) BY <2>2 DEF Good, Intact
      <3>3. Easy(w[1], v[1]) /\ (v[2] = "EOK" => ~v[1].bkRun) BY <3>2, HpiIsEasy
      <3>4. Good(w[1], v[1]) BY <3>2, <3>3, GoodEasy
      <3>5. CASE v[2] = "EOK"
        <4>1. Good(v[1], o[1]) /\ Calm(o[1]) BY <3>1, <3>3, <3>4, <3>5, NoneIs DEF Good
        <4> QED BY <2>2, <3>4, <4>1, GoodTrans
      <3>6. CASE v[2] # "EOK"
        <4>1. PICK x \in sdmmc_reset(v[1]) : o[1] = [x[1] EXCEPT !.bk = 0, !.inprog = FALSE] BY <3>1, <3>6
        <4>2. Good(v[1], x[1]) /\ ~x[1].bkRun BY <3>4, ResetIsGood DEF Good, Intact, Midway
        <4>3. Good(x[1], o[1]) /\ Calm(o[1]) BY <4>1, <4>2, NoneIs DEF Good
        <4> QED BY <2>2, <3>4, <4>2, <4>3, GoodTrans
      <3> QED BY <3>5, <3>6
    <2> QED BY <2>3, <2>4
  <1>3. CASE Flag(t, "BKOPS") /\ t.drvr # "PAUSE" /\ ~t.inprog
    <2>1. PICK w \in Where(tick, t, OnOk(sdmmc_pm(t, "ACTIVE"), Poll)) :
            IF w[2] = "EOK" THEN o \in StartBkops(w[1], tick) ELSE o = w
      BY <1>3 DEF sdmmc_bkops, OnOk, Poll
    <2>2. Calm(t) BY <1>3 DEF Intact, Midway, BkInv, Calm
    <2>3. CASE ~tick
      <3>1. w = <<t, "EOK">> BY <2>3 DEF Where, Ret
      <3>2. o \in StartBkops(t, tick) BY <2>1, <3>1
      <3> QED BY <1>3, <2>2, <2>3, <3>2, StartBkopsIs
    <2>4. CASE tick
      <3>1. PICK a \in sdmmc_pm(t, "ACTIVE") : IF a[2] = "EOK" THEN w \in Poll(a[1]) ELSE w = a
        BY <2>4 DEF Where, OnOk
      <3>2. Good(t, a[1]) /\ a[2] = "EOK" /\ t.eflags \subseteq a[1].eflags BY GoodRests, PmActive DEF Good
      <3>3. Same(a[1], w[1]) /\ w[2] = "EOK" BY <3>1, <3>2, PollIsSame DEF Good, Intact, Midway, Base
      <3>4. Good(a[1], w[1]) BY <3>2, <3>3, SameIsGood DEF Good
      <3>5. Flag(w[1], "BKOPS") BY <1>3, <3>2, <3>3 DEF Flag, Same, But, Keys, Loose
      <3>6. Good(w[1], o[1]) BY <2>1, <3>3, <3>4, <3>5, StartBkopsIs DEF Good
      <3> QED BY <2>4, <3>2, <3>4, <3>6, GoodTrans
    <2> QED BY <2>3, <2>4
  <1> QED BY <1>1, <1>2, <1>3

\* sdmmc_dev_dcfg(), before the driver is stopped.
LEMMA DevDcfgIs ==
    ASSUME NEW t, Intact(t), NEW o \in sdmmc_dev_dcfg(t)
    PROVE  Good(t, o[1])
  <1> DEFINE F == Where("CACHE" \in t.caps /\ Flag(t, "CACHE"), t, sdio_cache(t, "flush"))
  <1>1. PICK w \in F : \E v : /\ v[1] = w[1] \/ v \in sdmmc_bkops_cfg(w[1])
                              /\ o[1] = v[1] \/ o \in sdio_pwroff_notify(v[1])
    <2> DEFINE B(x, rc) == IF Flag(x, "BKOPS_AUTO") THEN sdmmc_bkops_cfg(x) ELSE Ret(x, rc)
    <2>1. PICK v \in Look(F, B) : o \in IF Flag(v[1], "PWROFF_NOTIFY") THEN sdio_pwroff_notify(v[1]) ELSE Ret(v[1], v[2])
      <3> HIDE DEF B, F
      <3>1. sdmmc_dev_dcfg(t) = Look(Look(F, B), LAMBDA x, rc : IF Flag(x, "PWROFF_NOTIFY") THEN sdio_pwroff_notify(x) ELSE Ret(x, rc))
        BY DEF sdmmc_dev_dcfg, F, B
      <3> QED BY <3>1 DEF Look
    <2>2. PICK w \in F : v \in B(w[1], w[2])
      <3> HIDE DEF B, F
      <3> QED BY <2>1 DEF Look
    <2>3. v[1] = w[1] \/ v \in sdmmc_bkops_cfg(w[1])
      <3>1. CASE Flag(w[1], "BKOPS_AUTO") BY <2>2, <3>1
      <3>2. CASE ~Flag(w[1], "BKOPS_AUTO")
        <4>1. v \in Ret(w[1], w[2]) BY <2>2, <3>2
        <4>2. v = <<w[1], w[2]>> BY <4>1 DEF Ret
        <4> HIDE DEF B, F
        <4> QED BY <4>2
      <3> QED BY <3>1, <3>2
    <2>4. o[1] = v[1] \/ o \in sdio_pwroff_notify(v[1])
      <3>1. CASE Flag(v[1], "PWROFF_NOTIFY") BY <2>1, <3>1
      <3>2. CASE ~Flag(v[1], "PWROFF_NOTIFY")
        <4>1. o \in Ret(v[1], v[2]) BY <2>1, <3>2
        <4>2. o = <<v[1], v[2]>> BY <4>1 DEF Ret
        <4> HIDE DEF B, F
        <4> QED BY <4>2
      <3> QED BY <3>1, <3>2
    <2> QED BY <2>2, <2>3, <2>4
  <1>2. Good(t, w[1])
    <2>1. CASE "CACHE" \in t.caps /\ Flag(t, "CACHE")
      <3>1. w \in sdio_cache(t, "flush") BY <1>1, <2>1 DEF Where
      <3>2. Easy(t, w[1]) BY <3>1, FlushIsEasy DEF Intact
      <3> QED BY <3>2, GoodEasy
    <2>2. CASE ~("CACHE" \in t.caps /\ Flag(t, "CACHE"))
      <3>1. w = <<t, "EOK">> BY <1>1, <2>2 DEF Where, Ret
      <3> QED BY <3>1, GoodSelf
    <2> QED BY <2>1, <2>2
  <1> HIDE DEF F
  <1>3. PICK v : /\ v[1] = w[1] \/ v \in sdmmc_bkops_cfg(w[1])
                 /\ o[1] = v[1] \/ o \in sdio_pwroff_notify(v[1])
    BY <1>1
  <1>4. Typed(w[1]) /\ Up(w[1]) BY <1>2 DEF Good, Intact, Midway, Base
  <1>5. Same(w[1], v[1]) BY <1>3, <1>4, SameSelf, BkopsCfgIsSame
  <1>6. Same(v[1], o[1]) BY <1>3, <1>4, <1>5, SameSelf, NotifyIsSame DEF Same
  <1> QED BY <1>2, <1>5, <1>6, SameTrans, SameIsGood, GoodTrans DEF Good

------------------------------------------------------------------------------

\* Reads and writes.

\* What a transfer asks for before it is sent.
MayMove(t, p, out) == OnTarget(t, p) /\ Calm(t) /\ (out => DirtyOk(t))

\* A data command is an easy step.
LEMMA DataCmd ==
    ASSUME NEW t, Midway(t), NEW p, NEW out \in BOOLEAN, MayMove(t, p, out),
           NEW o \in sdio_send_cmd(t, Command(IF out THEN "WRITE" ELSE "READ", p))
    PROVE  Easy(t, o[1]) /\ (o[2] = "ENXIO" => ~t.card)
  <1> DEFINE u == o[1]
             c == IF out THEN "WRITE" ELSE "READ"
  <1>0. Typed(t) /\ Up(t) /\ Base(t) /\ OnTarget(t, p) /\ Calm(t) /\ (out => DirtyOk(t)) BY DEF Midway, Base, MayMove
  <1>1. PICK d : /\ Sent(t, o[1], d, o[2], OnData) /\ d.hist = t.hist \cup Marks(t, p)
                 /\ d.cached => t.cached \/ (c = "WRITE" /\ t.cacheOn)
    <2>1. c \in {"READ", "WRITE"} OBVIOUS
    <2> HIDE DEF c
    <2> QED BY <1>0, <2>1, SendData DEF c
  <1>2. CASE Same(t, u) /\ o[2] \in Failing /\ (o[2] = "ENXIO" <=> ~t.card) BY <1>2, SameG
  <1>3. CASE /\ t.card /\ Typed(u) /\ Up(u) /\ But(t, u, OnData \cup Loose \cup {"hist"})
             /\ But(t, d, OnData \cup Loose)
             /\ \/ o[2] = "EOK" /\ u = d
                \/ o[2] = "ETIMEDOUT" /\ But(d, u, {"faults", "hist"}) /\ u.hist = d.hist \cup {"ghost"}
    <2>1. /\ u.cacheOn = t.cacheOn /\ u.eflags = t.eflags
          /\ u.wce = t.wce /\ u.caps = t.caps /\ u.wp = t.wp /\ u.card = t.card /\ u.pactive = t.pactive
          /\ u.asec = t.asec /\ u.dtype = t.dtype /\ u.drvr = t.drvr /\ u.inprog = t.inprog /\ u.csec = t.csec
          /\ u.cpart = t.cpart /\ u.bkRun = t.bkRun
      BY <1>3 DEF But, Keys, Loose, OnData
    <2>2. t.dtype = "MMC" /\ t.cpart # p => "unsure" \in t.hist BY <1>0 DEF OnTarget
    <2>3. t.bkRun /\ t.drvr = "RUN" => Ghost(t) \/ "forgotten" \in t.hist BY <1>0 DEF Calm
    <2>4. Marks(t, p) \subseteq {"stray", "overlap"} BY DEF Marks
    <2>5. "stray" \in Marks(t, p) => "unsure" \in t.hist BY <2>2 DEF Marks
    <2>6. "overlap" \in Marks(t, p) => Ghost(t) \/ "forgotten" \in t.hist BY <2>3 DEF Marks
    <2>7. /\ t.hist \subseteq u.hist
          /\ \A x \in {"lost", "misdirected", "unsure", "unmarked", "forgotten", "doubt"} : x \in u.hist <=> x \in t.hist
          /\ "stray" \in u.hist => "stray" \in t.hist \/ "unsure" \in t.hist
          /\ "overlap" \in u.hist => "overlap" \in t.hist \/ "ghost" \in t.hist \/ "forgotten" \in t.hist
      BY <1>1, <1>3, <2>4, <2>5, <2>6 DEF Ghost
    <2>8. u.cached => t.cached \/ (out /\ t.cacheOn)
      <3>1. u.cached = d.cached BY <1>3 DEF But, Keys
      <3> QED BY <1>1, <3>1
    <2> HIDE DEF u
    <2>9. CacheInv(u)
      <3>1. CASE Ghost(t) BY <2>7, <3>1 DEF CacheInv, Ghost
      <3>2. CASE ~Ghost(t)
        <4>1. t.cached => t.cacheOn /\ Flag(t, "VCACHE_DIRTY") BY <1>0, <3>2 DEF Base, CacheInv
        <4>2. t.cacheOn => t.wce /\ Flag(t, "CACHE") /\ "CACHE" \in t.caps BY <1>0, <3>2 DEF Base, CacheInv
        <4>3. out /\ t.cacheOn => Flag(t, "VCACHE_DIRTY") BY <1>0, <3>2 DEF DirtyOk
        <4> QED BY <2>1, <2>8, <4>1, <4>2, <4>3 DEF CacheInv, Flag
      <3> QED BY <3>1, <3>2
    <2>10. Base(u) BY <1>0, <1>3, <2>1, <2>7, <2>9 DEF Base, LossInv, TagInv, Off, Sound, Ghost, Flag
    <2>11. Midway(u) /\ Kept(t, u)
      BY <1>3, <2>1, <2>7, <2>10 DEF Midway, SecInv, BkInv, Kept, Held, DirtyOk, Ghost, Flag
    <2>12. (PartInv(t) => PartInv(u)) /\ (Calm(t) => Calm(u)) /\ \A q : OnTarget(t, q) => OnTarget(u, q)
      BY <2>1, <2>7 DEF PartInv, Ghost, Calm, OnTarget
    <2> QED BY <1>3, <2>11, <2>12 DEF Easy, u
  <1> QED BY <1>0, <1>1, <1>2, <1>3 DEF Sent

\* The commands that end the transfer of sdmmc_rw(): the stop, ...
Stop(t, p) == Status(Where(p, t, sdio_stop_transmission(t)), LAMBDA rc : IF rc = "EOK" THEN rc ELSE "ETIMEDOUT")

\* ... the wait for the card, ...
Wait(t) == Look(sdio_wait_card_status(t), LAMBDA u, rc :
             IF rc = "EOK" THEN Ret(u, rc) ELSE As(sdio_stop_transmission(u), rc))

\* ... and what is done after a timeout.
Settle(t) == Anyway(Look(sdio_send_status(t), LAMBDA u, rc :
               IF rc = "EOK" THEN Ret(u, rc) ELSE sdio_stop_transmission(u)), LAMBDA u : Ret(u, "ETIMEDOUT"))

\* They are easy steps, ...
LEMMA StopIsEasy ==
    ASSUME NEW t, Midway(t), NEW p, NEW o \in Stop(t, p)
    PROVE  Easy(t, o[1]) /\ (o[2] = "ENXIO" => FALSE)
  <1> DEFINE O == Where(p, t, sdio_stop_transmission(t))
  <1>1. PICK w \in O : o = <<w[1], IF w[2] = "EOK" THEN w[2] ELSE "ETIMEDOUT">> BY DEF Stop, Status
  <1>2. CASE p
    <2>1. w \in sdio_send_cmd(t, Plain) BY <1>2 DEF Where, sdio_stop_transmission
    <2>2. Easy(t, w[1]) BY <2>1, PlainIsEasy
    <2> HIDE DEF O
    <2> QED BY <1>1, <2>2
  <1>3. CASE ~p
    <2>1. w = <<t, "EOK">> BY <1>3 DEF Where, Ret
    <2>2. Easy(t, w[1]) BY <2>1, EasySelf
    <2> HIDE DEF O
    <2> QED BY <1>1, <2>2
  <1> QED BY <1>2, <1>3

\* ... each of them, ...
LEMMA WaitIsEasy ==
    ASSUME NEW t, Midway(t), NEW o \in Wait(t)
    PROVE  Easy(t, o[1])
  <1>1. PICK w \in sdio_send_cmd(t, Plain) : o \in IF w[2] = "EOK" THEN Ret(w[1], w[2]) ELSE As(sdio_send_cmd(w[1], Plain), w[2])
    BY DEF Wait, Look, sdio_wait_card_status, sdio_stop_transmission
  <1>2. Easy(t, w[1]) BY PlainIsEasy
  <1>3. CASE w[2] = "EOK"
    <2>1. o \in Ret(w[1], w[2]) BY <1>1, <1>3
    <2>2. o = <<w[1], w[2]>> BY <2>1 DEF Ret
    <2> QED BY <1>2, <2>2
  <1>4. CASE w[2] # "EOK"
    <2>1. o \in As(sdio_send_cmd(w[1], Plain), w[2]) BY <1>1, <1>4
    <2>2. PICK v \in sdio_send_cmd(w[1], Plain) : o = <<v[1], w[2]>> BY <2>1 DEF As
    <2>3. Easy(w[1], v[1]) BY <1>2, PlainIsEasy DEF Easy
    <2> QED BY <1>2, <2>2, <2>3, EasyTrans
  <1> QED BY <1>3, <1>4

\* ... the last one with the status of a timeout.
LEMMA SettleIsEasy ==
    ASSUME NEW t, Midway(t), NEW o \in Settle(t)
    PROVE  Easy(t, o[1]) /\ o[2] = "ETIMEDOUT"
  <1> DEFINE Y(u, rc) == IF rc = "EOK" THEN Ret(u, rc) ELSE sdio_send_cmd(u, Plain)
             O == UNION {Y(w[1], w[2]) : w \in sdio_send_cmd(t, Plain)}
  <1>1. o \in UNION {Ret(x[1], "ETIMEDOUT") : x \in O}
    BY DEF Settle, Anyway, Look, sdio_send_status, sdio_stop_transmission
  <1> HIDE DEF O
  <1>2. PICK x \in O : o \in Ret(x[1], "ETIMEDOUT") BY <1>1
  <1>3. o = <<x[1], "ETIMEDOUT">> BY <1>2 DEF Ret
  <1> HIDE DEF Y
  <1>4. PICK w \in sdio_send_cmd(t, Plain) : x \in Y(w[1], w[2]) BY DEF O
  <1>5. Easy(t, w[1]) BY PlainIsEasy
  <1>6. CASE w[2] = "EOK"
    <2>1. x \in Ret(w[1], w[2]) BY <1>4, <1>6 DEF Y
    <2>2. x = <<w[1], w[2]>> BY <2>1 DEF Ret
    <2> QED BY <1>3, <1>5, <2>2
  <1>7. CASE w[2] # "EOK"
    <2>1. x \in sdio_send_cmd(w[1], Plain) BY <1>4, <1>7 DEF Y
    <2>2. Easy(w[1], x[1]) BY <1>5, <2>1, PlainIsEasy DEF Easy
    <2> QED BY <1>3, <1>5, <2>2, EasyTrans
  <1> QED BY <1>6, <1>7

\* The image of a firmware download goes to no partition.
Moves(t, p, out) == p # "firmware" => MayMove(t, p, out)

\* The transfer with the commands around it is an easy step.
LEMMA TransferIsEasy ==
    ASSUME NEW t, Midway(t), NEW p, NEW out \in BOOLEAN, NEW multi, NEW sbc, Moves(t, p, out),
           NEW o \in Transfer(t, p, out, multi, sbc)
    PROVE  Easy(t, o[1])
  <1> DEFINE data == IF p = "firmware" THEN Plain ELSE Command(IF out THEN "WRITE" ELSE "READ", p)
             end == multi /\ ~sbc /\ ~HcAcmd12
             B(u) == Where(out, u, Wait(u))
             Y(u, rc) == CASE rc = "ENXIO" -> Ret(u, "ENXIO")
                           [] rc = "EOK" -> OnOk(Stop(u, end), B)
                           [] OTHER -> Settle(u)
  <1>1. o \in UNION {Y(w[1], w[2]) : w \in sdio_send_cmd(t, data)}
    BY DEF Transfer, Look, Stop, Wait, Settle
  <1> HIDE DEF Y
  <1>2. PICK w \in sdio_send_cmd(t, data) : o \in Y(w[1], w[2]) BY <1>1
  <1>3. Easy(t, w[1])
    <2>1. CASE p = "firmware"
      <3>1. w \in sdio_send_cmd(t, Plain) BY <2>1
      <3> QED BY <3>1, PlainIsEasy
    <2>2. CASE p # "firmware"
      <3>1. w \in sdio_send_cmd(t, Command(IF out THEN "WRITE" ELSE "READ", p)) BY <2>2
      <3> QED BY <2>2, <3>1, DataCmd DEF Moves
    <2> QED BY <2>1, <2>2
  <1> HIDE DEF data, end
  <1>4. CASE w[2] = "ENXIO"
    <2>1. o \in Ret(w[1], "ENXIO") BY <1>2, <1>4 DEF Y
    <2>2. o = <<w[1], "ENXIO">> BY <2>1 DEF Ret
    <2> QED BY <1>3, <2>2
  <1>5. CASE w[2] = "EOK"
    <2>1. o \in OnOk(Stop(w[1], end), B) BY <1>2, <1>5 DEF Y
    <2> HIDE DEF B
    <2>2. PICK v \in Stop(w[1], end) : o \in IF v[2] = "EOK" THEN B(v[1]) ELSE {v} BY <2>1 DEF OnOk
    <2>3. Easy(w[1], v[1]) BY <1>3, StopIsEasy DEF Easy
    <2>4. Easy(t, v[1]) BY <1>3, <2>3, EasyTrans
    <2>5. CASE v[2] # "EOK" BY <2>2, <2>4, <2>5
    <2>6. CASE v[2] = "EOK"
      <3>1. o \in B(v[1]) BY <2>2, <2>6
      <3>2. CASE out
        <4>1. o \in Wait(v[1]) BY <3>1, <3>2 DEF B, Where
        <4>2. Easy(v[1], o[1]) BY <2>4, <4>1, WaitIsEasy DEF Easy
        <4> QED BY <2>4, <4>2, EasyTrans
      <3>3. CASE ~out
        <4>1. o = <<v[1], "EOK">> BY <3>1, <3>3 DEF B, Where, Ret
        <4> QED BY <2>4, <4>1
      <3> QED BY <3>2, <3>3
    <2> QED BY <2>5, <2>6
  <1>6. CASE w[2] \notin {"ENXIO", "EOK"}
    <2>1. o \in Settle(w[1]) BY <1>2, <1>6 DEF Y
    <2>2. Easy(w[1], o[1]) BY <1>3, <2>1, SettleIsEasy DEF Easy
    <2> QED BY <1>3, <2>2, EasyTrans
  <1> QED BY <1>4, <1>5, <1>6

\* sdmmc_rw() notes that the card needs a background operation urgently.
Urgent(t) == IF t.cbk = 3
               THEN [Note(t, t.inprog /\ t.bkRun /\ t.drvr = "RUN", "forgotten") EXCEPT !.bk = 3, !.inprog = FALSE]
               ELSE t

\* It may forget one that runs, which the history records.
LEMMA UrgentIsEasy ==
    ASSUME NEW t, Midway(t)
    PROVE  Easy(t, Urgent(t))
  <1>1. CASE t.cbk # 3
    <2>1. Urgent(t) = t BY <1>1 DEF Urgent
    <2> QED BY <2>1, EasySelf
  <1>2. CASE t.cbk = 3
    <2> DEFINE p == t.inprog /\ t.bkRun /\ t.drvr = "RUN"
               v == Note(t, p, "forgotten")
               u == [v EXCEPT !.bk = 3, !.inprog = FALSE]
    <2>1. Urgent(t) = u BY <1>2 DEF Urgent
    <2>2. Typed(v) /\ But(t, v, {"hist"}) /\ v.hist = IF p THEN t.hist \cup {"forgotten"} ELSE t.hist
      <3>1. \A q \in BOOLEAN : LET x == Note(t, q, "forgotten") IN
              Typed(x) /\ But(t, x, {"hist"}) /\ x.hist = IF q THEN t.hist \cup {"forgotten"} ELSE t.hist
        <4>1. Typed(t) BY DEF Midway, Base
        <4> QED BY <4>1, NoteIs
      <3>2. p \in BOOLEAN OBVIOUS
      <3> HIDE DEF p
      <3> QED BY <3>1, <3>2
    <2> HIDE DEF v
    <2>3. Typed(u) /\ But(v, u, {"bk", "inprog"}) BY <2>2 DEF Typed, But, Keys
    <2> HIDE DEF u
    <2>4. /\ u.cached = t.cached /\ u.cacheOn = t.cacheOn /\ u.eflags = t.eflags /\ u.hpm = t.hpm
          /\ u.wce = t.wce /\ u.caps = t.caps /\ u.wp = t.wp /\ u.card = t.card /\ u.pactive = t.pactive
          /\ u.asec = t.asec /\ u.dtype = t.dtype /\ u.drvr = t.drvr /\ u.csec = t.csec
          /\ u.cpart = t.cpart /\ u.bkRun = t.bkRun /\ u.hist = v.hist
      BY <2>2, <2>3 DEF But, Keys
    <2>5. t.hist \subseteq u.hist
          /\ \A x \in {"lost", "ghost", "stray", "misdirected", "overlap", "unsure", "unmarked", "doubt"} :
               x \in u.hist <=> x \in t.hist
      BY <2>2, <2>4
    <2>6. t.bkRun /\ t.drvr = "RUN" => Ghost(t) \/ "forgotten" \in u.hist
      <3>1. Ghost(t) \/ "forgotten" \in t.hist \/ ((t.bkRun /\ t.drvr = "RUN") => t.inprog) BY DEF Midway, BkInv
      <3>2. p => "forgotten" \in u.hist BY <2>2, <2>4
      <3> QED BY <2>5, <3>1, <3>2
    <2>7. Base(u) BY <2>3, <2>4, <2>5 DEF Midway, Base, CacheInv, LossInv, TagInv, Off, Sound, Ghost, Flag
    <2>8. BkInv(u) BY <2>4, <2>5, <2>6 DEF BkInv, Ghost
    <2>9. Midway(u) /\ Kept(t, u)
      BY <2>3, <2>4, <2>5, <2>7, <2>8 DEF Midway, Up, SecInv, Kept, Held, DirtyOk, Ghost, Flag
    <2>10. (PartInv(t) => PartInv(u)) /\ (Calm(t) => Calm(u)) /\ \A q : OnTarget(t, q) => OnTarget(u, q)
      BY <2>4, <2>5 DEF PartInv, Ghost, Calm, OnTarget
    <2> QED BY <2>1, <2>9, <2>10 DEF Easy
  <1> QED BY <1>1, <1>2

\* The recovery of sdmmc_rw(), ...
RwReset(t) == Look(sdio_send_status(t), LAMBDA u, rc : IF rc = "EOK" THEN Ret(u, rc) ELSE sdmmc_reset(u))

\* ... and the change to a slower bus.
Slower(t) == IF t.dtype # "SD" THEN Ret(t, "EOK") ELSE Ret(t, "EOK") \cup sdio_bus_error(t)

\* Both keep the invariant: the recovery ...
LEMMA RwResetIsGood ==
    ASSUME NEW t, Intact(t), NEW o \in RwReset(t)
    PROVE  Good(t, o[1])
  <1>1. PICK w \in sdio_send_cmd(t, Plain) : o \in IF w[2] = "EOK" THEN Ret(w[1], w[2]) ELSE sdmmc_reset(w[1])
    BY DEF RwReset, Look, sdio_send_status
  <1>2. Good(t, w[1]) BY PlainIsEasy, GoodEasy DEF Intact
  <1>3. CASE w[2] = "EOK"
    <2>1. o \in Ret(w[1], w[2]) BY <1>1, <1>3
    <2>2. o = <<w[1], w[2]>> BY <2>1 DEF Ret
    <2> QED BY <1>2, <2>2
  <1>4. CASE w[2] # "EOK"
    <2>1. o \in sdmmc_reset(w[1]) BY <1>1, <1>4
    <2>2. Good(w[1], o[1]) BY <1>2, <2>1, ResetIsGood DEF Good, Intact, Midway
    <2> QED BY <1>2, <2>2, GoodTrans
  <1> QED BY <1>3, <1>4

\* ... and the change of the bus.
LEMMA SlowerIsGood ==
    ASSUME NEW t, Intact(t), NEW o \in Slower(t)
    PROVE  Good(t, o[1])
  <1>1. o \in Ret(t, "EOK") \/ o \in sdio_bus_error(t) BY DEF Slower
  <1>2. CASE o \in Ret(t, "EOK")
    <2>1. o = <<t, "EOK">> BY <1>2 DEF Ret
    <2> QED BY <2>1, GoodSelf
  <1>3. CASE o \in sdio_bus_error(t) BY <1>3, BusErrorIsEasy, GoodEasy DEF Intact
  <1> QED BY <1>1, <1>2, <1>3

\* sdmmc_rw() keeps the invariant, and a transfer that succeeded was easy: the next
\* one may follow without another look.
LEMMA RwIsGood ==
    ASSUME NEW t, Intact(t), NEW p, NEW out \in BOOLEAN, NEW multi, NEW rlw, Moves(t, p, out),
           NEW o \in sdmmc_rw(t, p, out, multi, rlw)
    PROVE  Good(t, o[1]) /\ (o[2] = "EOK" => Easy(t, o[1]))
  <1> DEFINE sbc == rlw \/ (multi /\ ~HcAcmd12 /\ t.cmd23)
             X == Transfer(t, p, out, multi \/ rlw, sbc)
             F(v, rc) == [v EXCEPT !.cmd23 = "CMD23" \in v.caps /\ ~(rc = "ETIMEDOUT" /\ sbc /\ v.dtype = "SD")]
             Y(u, rc) == CASE rc = "ENXIO" -> Ret(u, rc)
                           [] rc = "EOK" -> Ret(Urgent(u), rc)
                           [] OTHER -> UNION {UNION {Ret(F(v[1], rc), rc) : v \in Slower(x[1])} : x \in RwReset(Urgent(u))}
  <1>1. o \in UNION {Y(w[1], w[2]) : w \in X}
    BY DEF sdmmc_rw, Look, Anyway, Urgent, RwReset, Slower
  <1> HIDE DEF Y, X
  <1>2. PICK w \in X : o \in Y(w[1], w[2]) BY <1>1
  <1>3. Easy(t, w[1]) BY TransferIsEasy DEF X, Intact
  <1>4. CASE w[2] = "ENXIO"
    <2>1. o \in Ret(w[1], w[2]) BY <1>2, <1>4 DEF Y
    <2>2. o = <<w[1], w[2]>> BY <2>1 DEF Ret
    <2> QED BY <1>3, <2>2, GoodEasy
  <1>5. Easy(t, Urgent(w[1])) BY <1>3, UrgentIsEasy, EasyTrans DEF Easy
  <1>6. CASE w[2] = "EOK"
    <2>1. o \in Ret(Urgent(w[1]), w[2]) BY <1>2, <1>6 DEF Y
    <2>2. o = <<Urgent(w[1]), w[2]>> BY <2>1 DEF Ret
    <2> QED BY <1>5, <2>2, GoodEasy
  <1>7. CASE w[2] \notin {"ENXIO", "EOK"}
    <2>1. o \in UNION {UNION {Ret(F(v[1], w[2]), w[2]) : v \in Slower(x[1])} : x \in RwReset(Urgent(w[1]))}
      BY <1>2, <1>7 DEF Y
    <2> HIDE DEF F
    <2>2. PICK x \in RwReset(Urgent(w[1])) : \E v \in Slower(x[1]) : o \in Ret(F(v[1], w[2]), w[2]) BY <2>1
    <2>3. PICK v \in Slower(x[1]) : o \in Ret(F(v[1], w[2]), w[2]) BY <2>2
    <2>4. o = <<F(v[1], w[2]), w[2]>> BY <2>3 DEF Ret
    <2>5. Good(t, Urgent(w[1])) BY <1>5, GoodEasy
    <2>6. Good(Urgent(w[1]), x[1]) BY <2>5, RwResetIsGood DEF Good
    <2>7. Good(t, x[1]) BY <2>5, <2>6, GoodTrans
    <2>8. Good(x[1], v[1]) BY <2>7, SlowerIsGood DEF Good
    <2>9. Good(t, v[1]) BY <2>7, <2>8, GoodTrans
    <2>10. Good(v[1], F(v[1], w[2]))
      <3> DEFINE b == v[1]
                 e == F(b, w[2])
      <3>1. Typed(b) /\ Intact(b) BY <2>9 DEF Good, Intact, Midway, Base
      <3> HIDE DEF b
      <3>2. Typed(e) /\ But(b, e, {"cmd23"}) BY <3>1 DEF F, Typed, But, Keys
      <3> HIDE DEF e
      <3>3. Same(b, e) BY <3>1, <3>2 DEF Same, But, Loose, Up, Keys
      <3>4. Good(b, e) BY <3>1, <3>3, SameIsGood
      <3> QED BY <3>4 DEF e, b
    <2> QED BY <1>7, <2>4, <2>9, <2>10, GoodTrans
  <1> QED BY <1>4, <1>6, <1>7

------------------------------------------------------------------------------

\* Requests.

\* Marks that are kept twice are kept.
LEMMA KeptTrans == ASSUME NEW t, NEW u, NEW v, Kept(t, u), Kept(u, v) PROVE Kept(t, v)
  BY DEF Kept, Held

\* The status for CAM changes nothing in the record.
LEMMA CamIs == ASSUME NEW O, NEW o \in Cam(O) PROVE \E w \in O : o[1] = w[1] /\ (o[2] = "CMP" => w[2] = "EOK")
  <1>1. PICK w \in O : o = <<w[1], sdmmc_error(w[2])>> BY DEF Cam, Status
  <1> QED BY <1>1 DEF sdmmc_error

\* A request of a unit that is not ready is answered without a step.
LEMMA ReadyOr == ASSUME NEW t, NEW r, NEW O, NEW o \in IfUnitReady(t, r, O) \cup IfReady(t, r, O)
                 PROVE  o \in O \/ (o[1] = t /\ o[2] # "CMP")
  <1>1. CASE Ready(t, r) BY <1>1 DEF IfUnitReady, IfReady
  <1>2. CASE ~Ready(t, r)
    <2>1. o \in Ret(t, sdmmc_unit_ready(t, r)) \/ o \in Ret(t, "EIO") BY <1>2 DEF IfUnitReady, IfReady
    <2>2. o = <<t, sdmmc_unit_ready(t, r)>> \/ o = <<t, "EIO">> BY <2>1 DEF Ret
    <2> QED BY <1>2, <2>2 DEF Ready
  <1> QED BY <1>1, <1>2

\* What Ret() returns.
LEMMA RetIs == ASSUME NEW t, NEW rc, NEW o \in Ret(t, rc) PROVE o[1] = t /\ o[2] = rc
  <1>1. o = <<t, rc>> BY DEF Ret
  <1> QED BY <1>1

\* sdmmc_read_write() after the interruption of a background operation.
Go(t, r, out, multi, rlw) ==
  LET u == Note(t, t.dtype = "MMC" /\ t.cpart # r.part, "unsure")
  IN IF rlw /\ multi /\ "WR_REL_ENH" \notin u.caps
       THEN OnOk(sdmmc_rw(u, r.part, out, FALSE, rlw), LAMBDA v : sdmmc_rw(v, r.part, out, multi, rlw))
       ELSE sdmmc_rw(u, r.part, out, multi, rlw)

\* It keeps the invariant, a transfer in two parts included, ...
LEMMA GoIsGood ==
    ASSUME NEW t, Intact(t), Calm(t), NEW r, NEW out \in BOOLEAN, out => DirtyOk(t), NEW multi, NEW rlw,
           NEW o \in Go(t, r, out, multi, rlw)
    PROVE  Good(t, o[1])
  <1> DEFINE p == t.dtype = "MMC" /\ t.cpart # r.part
             u == Note(t, p, "unsure")
  <1>1. Easy(t, u) /\ But(t, u, {"hist"}) /\ u.hist = IF p THEN t.hist \cup {"unsure"} ELSE t.hist
    <2>1. \A q \in BOOLEAN : LET v == Note(t, q, "unsure") IN
            Easy(t, v) /\ But(t, v, {"hist"}) /\ v.hist = IF q THEN t.hist \cup {"unsure"} ELSE t.hist
      <3>1. Midway(t) BY DEF Intact
      <3> QED BY <3>1, NoteIsEasy
    <2>2. p \in BOOLEAN OBVIOUS
    <2> HIDE DEF p
    <2> QED BY <2>1, <2>2
  <1>2. o \in IF rlw /\ multi /\ "WR_REL_ENH" \notin u.caps
              THEN UNION {IF w[2] = "EOK" THEN sdmmc_rw(w[1], r.part, out, multi, rlw) ELSE {w} :
                            w \in sdmmc_rw(u, r.part, out, FALSE, rlw)}
              ELSE sdmmc_rw(u, r.part, out, multi, rlw)
    BY DEF Go, OnOk
  <1> HIDE DEF u
  <1>3. OnTarget(u, r.part)
    <2>1. u.dtype = t.dtype /\ u.cpart = t.cpart BY <1>1 DEF But, Keys
    <2> QED BY <1>1, <2>1 DEF OnTarget
  <1>4. Moves(u, r.part, out) BY <1>1, <1>3 DEF Moves, MayMove, Easy, Kept
  <1>5. Intact(u) BY <1>1 DEF Easy, Intact
  <1>6. Good(t, u) BY <1>1, GoodEasy
  <1>7. CASE rlw /\ multi /\ "WR_REL_ENH" \notin u.caps
    <2>1. PICK w \in sdmmc_rw(u, r.part, out, FALSE, rlw) :
            o \in IF w[2] = "EOK" THEN sdmmc_rw(w[1], r.part, out, multi, rlw) ELSE {w}
      BY <1>2, <1>7
    <2>2. Good(u, w[1]) /\ (w[2] = "EOK" => Easy(u, w[1])) BY <1>4, <1>5, RwIsGood
    <2>3. CASE w[2] = "EOK"
      <3>1. Moves(w[1], r.part, out) BY <1>4, <2>2, <2>3 DEF Moves, MayMove, Easy, Kept
      <3>2. o \in sdmmc_rw(w[1], r.part, out, multi, rlw) BY <2>1, <2>3
      <3>3. Good(w[1], o[1]) BY <2>2, <3>1, <3>2, RwIsGood DEF Good
      <3> QED BY <1>6, <2>2, <3>3, GoodTrans
    <2>4. CASE w[2] # "EOK"
      <3>1. o = w BY <2>1, <2>4
      <3> QED BY <1>6, <2>2, <3>1, GoodTrans
    <2> QED BY <2>3, <2>4
  <1>8. CASE ~(rlw /\ multi /\ "WR_REL_ENH" \notin u.caps)
    <2>1. o \in sdmmc_rw(u, r.part, out, multi, rlw) BY <1>2, <1>8
    <2>2. Good(u, o[1]) BY <1>4, <1>5, <2>1, RwIsGood
    <2> QED BY <1>6, <2>2, GoodTrans
  <1> QED BY <1>7, <1>8

\* ... and so does sdmmc_read_write(): it calms the card and switches the partition
\* before it moves data.
LEMMA ReadWriteIsGood ==
    ASSUME NEW t, Intact(t), NEW r, NEW out \in BOOLEAN, out => DirtyOk(t), NEW o \in sdmmc_read_write(t, r, out)
    PROVE  Good(t, o[1])
  <1> DEFINE c == sdmmc_ccb_lba(r)
             rlw == out /\ (Flag(t, "RELWR") \/ (c.fua /\ "WR_REL" \in t.caps))
             g(u) == Go(u, r, out, c.multi, rlw)
             b(u) == Cam(Anyway(sdmmc_bkops(u, FALSE), g))
             y(u, rc) == IF rc # "EOK" THEN As(sdmmc_reset(u), sdmmc_error("ETIMEDOUT")) ELSE b(u)
             O == CASE t.locked -> Ret(t, sdmmc_error("EACCES"))
                    [] ~t.locked /\ out /\ r.part \in t.wp -> Ret(t, sdmmc_error("EROFS"))
                    [] ~t.locked /\ ~(out /\ r.part \in t.wp) /\ r.part = "rpmb" -> Ret(t, "PROVIDE_FAIL")
                    [] OTHER -> Look(sdio_set_partition(t, r.part), y)
  <1>1. o \in IfUnitReady(t, r, O) BY DEF sdmmc_read_write, Go
  <1> HIDE DEF g
  <1> HIDE DEF O
  <1>2. o[1] = t \/ o \in O BY <1>1, ReadyOr
  <1>3. o[1] = t \/ o \in Look(sdio_set_partition(t, r.part), y)
    <2> HIDE DEF y
    <2>1. ASSUME o \in O
          PROVE  \/ o \in Ret(t, sdmmc_error("EACCES")) \/ o \in Ret(t, sdmmc_error("EROFS"))
                 \/ o \in Ret(t, "PROVIDE_FAIL") \/ o \in Look(sdio_set_partition(t, r.part), y)
      BY <2>1 DEF O
    <2> QED BY <1>2, <2>1, RetIs
  <1>4. CASE o[1] = t BY <1>4, GoodSelf
  <1>5. CASE o \in Look(sdio_set_partition(t, r.part), y)
    <2> HIDE DEF y
    <2>1. PICK w \in sdio_set_partition(t, r.part) : o \in y(w[1], w[2]) BY <1>5 DEF Look
    <2>2. /\ Midway(w[1]) /\ Kept(t, w[1])
          /\ w[2] = "EOK" => PartInv(w[1]) /\ OnTarget(w[1], r.part)
      BY SetPartition
    <2>3. CASE w[2] # "EOK"
      <3>1. o \in As(sdmmc_reset(w[1]), sdmmc_error("ETIMEDOUT")) BY <2>1, <2>3 DEF y
      <3>2. PICK x \in sdmmc_reset(w[1]) : o = <<x[1], sdmmc_error("ETIMEDOUT")>> BY <3>1 DEF As
      <3>3. Intact(x[1]) /\ Kept(w[1], x[1]) BY <2>2, ResetIsGood DEF Midway
      <3> QED BY <2>2, <3>2, <3>3, KeptTrans DEF Good
    <2>4. CASE w[2] = "EOK"
      <3>1. o \in b(w[1]) BY <2>1, <2>4 DEF y
      <3> DEFINE P == Anyway(sdmmc_bkops(w[1], FALSE), g)
      <3> HIDE DEF P
      <3>2. PICK x \in P : o[1] = x[1]
        <4>1. o \in Cam(P) BY <3>1 DEF P
        <4> QED BY <4>1, CamIs
      <3>3. PICK v \in sdmmc_bkops(w[1], FALSE) : x \in g(v[1]) BY DEF Anyway, P
      <3>4. Good(t, w[1]) BY <2>2, <2>4 DEF Good, Intact
      <3>5. Good(w[1], v[1]) /\ Calm(v[1]) BY <3>4, BkopsIs DEF Good
      <3>6. Good(t, v[1]) BY <3>4, <3>5, GoodTrans
      <3>7. out => DirtyOk(v[1]) BY <3>6 DEF Good, Kept
      <3>8. x \in Go(v[1], r, out, c.multi, rlw) BY <3>3 DEF g
      <3> HIDE DEF c, rlw
      <3>9. Good(v[1], x[1]) BY <3>5, <3>6, <3>7, <3>8, GoIsGood DEF Good
      <3> QED BY <3>2, <3>6, <3>9, GoodTrans
    <2> QED BY <2>3, <2>4
  <1> QED BY <1>3, <1>4, <1>5

\* The card holds no data.
Flushed(u) == ~u.cached \/ Ghost(u)

\* sdmmc_cache_flush() does not return EPERM, ...
LEMMA FlushStatus ==
    ASSUME NEW t, Intact(t), NEW o \in sdmmc_cache_flush(t)
    PROVE  o[2] # "EPERM"
  <1>0. Typed(t) /\ Up(t) BY DEF Intact, Midway, Base
  <1>1. CASE o \in Ret(t, "EOK") BY <1>1, RetIs
  <1>2. CASE o \in OnOk(sdio_cache(t, "flush"), LAMBDA u : Ret(Clear(u, "VCACHE_DIRTY"), "EOK"))
    <2> DEFINE O == sdio_cache(t, "flush")
    <2> HIDE DEF O
    <2>1. PICK w \in O : o \in IF w[2] = "EOK" THEN Ret(Clear(w[1], "VCACHE_DIRTY"), "EOK") ELSE {w}
      BY <1>2 DEF OnOk, O
    <2>2. o = w \/ o[2] = "EOK"
      <3>1. CASE w[2] = "EOK"
        <4>1. o \in Ret(Clear(w[1], "VCACHE_DIRTY"), "EOK") BY <2>1, <3>1
        <4> QED BY <4>1, RetIs
      <3>2. CASE w[2] # "EOK" BY <2>1, <3>2
      <3> QED BY <3>1, <3>2
    <2>3. \/ w \in Ret(t, "ENOTSUP") \/ w \in Ret(t, "ENXIO") \/ w \in mmc_cache(t, "flush")
      BY DEF O, sdio_cache, _sdio_synchronize
    <2>4. CASE w \in Ret(t, "ENOTSUP") \/ w \in Ret(t, "ENXIO")
      <3>1. w[2] # "EPERM" BY <2>4, RetIs
      <3> QED BY <2>2, <3>1
    <2>5. CASE w \in mmc_cache(t, "flush")
      <3> DEFINE S == sdio_send_cmd(t, Command("FLUSH", ""))
                 F(x) == [x EXCEPT !.wce = IF "flush" = "flush" THEN @ ELSE "flush" = "enable"]
                 c == CASE "flush" = "enable" -> "CACHE_ON" [] "flush" = "disable" -> "CACHE_OFF" [] "flush" = "flush" -> "FLUSH"
      <3>1. c = "FLUSH" OBVIOUS
      <3>2. \/ w \in Ret(t, "EOK")
            \/ w \in UNION {IF v[2] = "EOK" THEN Ret(F(v[1]), "EOK") ELSE {v} : v \in sdio_send_cmd(t, Command(c, ""))}
        BY <2>5 DEF mmc_cache, Where, OnOk
      <3> HIDE DEF c
      <3> HIDE DEF F
      <3>3. CASE w \in Ret(t, "EOK")
        <4>1. w[2] # "EPERM" BY <3>3, RetIs
        <4> QED BY <2>2, <4>1
      <3>4. CASE w \in UNION {IF v[2] = "EOK" THEN Ret(F(v[1]), "EOK") ELSE {v} : v \in S}
        <4>1. PICK v \in S : w \in IF v[2] = "EOK" THEN Ret(F(v[1]), "EOK") ELSE {v} BY <3>4
        <4>2. w = v \/ w[2] = "EOK"
          <5>1. CASE v[2] = "EOK"
            <6>1. w \in Ret(F(v[1]), "EOK") BY <4>1, <5>1
            <6>2. w = <<F(v[1]), "EOK">> BY <6>1 DEF Ret
            <6> QED BY <6>2
          <5>2. CASE v[2] # "EOK" BY <4>1, <5>2
          <5> QED BY <5>1, <5>2
        <4>3. PICK d : Sent(t, v[1], d, v[2], OnCache) BY <1>0, SendCache
        <4>4. v[2] # "EPERM" BY <4>3 DEF Sent, Failing
        <4> QED BY <2>2, <4>2, <4>4
      <3> QED BY <3>1, <3>2, <3>3, <3>4
    <2> QED BY <2>3, <2>4, <2>5
  <1> QED BY <1>1, <1>2 DEF sdmmc_cache_flush

\* ... so that sdmmc_sync() reports success after a flush only.
LEMMA SyncIs ==
    ASSUME NEW t, Intact(t), Flag(t, "PRESENT"), NEW r, NEW o \in sdmmc_sync(t, r)
    PROVE  Intact(o[1]) /\ Held(t, o[1]) /\ (o[2] = "CMP" => Flushed(o[1]))
  <1> DEFINE O == Status(sdmmc_cache_flush(t), RawErrno)
  <1>1. o \in IfUnitReady(t, r, O) BY DEF sdmmc_sync
  <1> HIDE DEF O
  <1>2. CASE o[1] = t /\ o[2] # "CMP" BY <1>2 DEF Held
  <1>3. CASE o \in O
    <2>1. PICK w \in sdmmc_cache_flush(t) : o = <<w[1], RawErrno(w[2])>> BY <1>3 DEF O, Status
    <2>2. Intact(w[1]) /\ Held(t, w[1]) /\ (w[2] = "EOK" => Flushed(w[1])) BY CacheFlushIs DEF Flushed
    <2>3. w[2] # "EPERM" BY FlushStatus
    <2>4. o[2] = "CMP" => w[2] = "EOK" BY <2>1, <2>3 DEF RawErrno
    <2> QED BY <2>1, <2>2, <2>4
  <1> QED BY <1>1, <1>2, <1>3, ReadyOr

\* What is asked of every request.
Done(t, u) == Intact(u) /\ u.caps = t.caps /\ (Flag(t, "PRESENT") => Flag(u, "PRESENT"))

\* A request that does nothing does this, ...
LEMMA DoneSelf == ASSUME NEW t, Intact(t) PROVE Done(t, t)
  BY DEF Done

\* ... so does a good step, ...
LEMMA DoneGood == ASSUME NEW t, NEW u, Good(t, u) PROVE Done(t, u)
  BY DEF Done, Good, Kept, Held

\* ... and so do two.
LEMMA DoneTrans == ASSUME NEW t, NEW u, NEW v, Done(t, u), Done(u, v) PROVE Done(t, v)
  BY DEF Done, Held

\* A change of the cache that keeps the books on it.
LEMMA CachingStep ==
    ASSUME NEW t, Intact(t), NEW u, Typed(u), Up(u), But(t, u, CacheFields \cup {"eflags"}), CacheInv(u),
           t.card \/ (u.cached = t.cached /\ u.cacheOn = t.cacheOn),
           u.hist = t.hist \/ u.hist = t.hist \cup {"ghost"},
           \A f : f # "CACHE" => (Flag(u, f) <=> Flag(t, f))
    PROVE  Done(t, u)
  <1>1. /\ u.caps = t.caps /\ u.wp = t.wp /\ u.card = t.card /\ u.pactive = t.pactive
        /\ u.asec = t.asec /\ u.dtype = t.dtype /\ u.drvr = t.drvr /\ u.inprog = t.inprog /\ u.csec = t.csec
        /\ u.cpart = t.cpart /\ u.bkRun = t.bkRun
    BY DEF But, Keys, Loose, CacheFields
  <1>2. t.hist \subseteq u.hist
        /\ \A x \in {"lost", "stray", "misdirected", "overlap", "unsure", "unmarked", "doubt", "forgotten"} :
             x \in u.hist <=> x \in t.hist
    OBVIOUS
  <1>3. Base(u) BY <1>1, <1>2 DEF Intact, Midway, Base, LossInv, TagInv, Off, Sound, Ghost
  <1>4. Intact(u) BY <1>1, <1>2, <1>3 DEF Intact, Midway, PartInv, SecInv, BkInv, Ghost
  <1> QED BY <1>1, <1>2, <1>4 DEF Done, Held

\* sdmmc_mpage_caching(): MODE SELECT of the caching page turns the cache off or on.
LEMMA CachingIs ==
    ASSUME NEW t, Intact(t), NEW r, NEW select \in BOOLEAN, NEW o \in sdmmc_mpage_caching(t, r, select)
    PROVE  Done(t, o[1])
  <1>0. Typed(t) /\ Up(t) /\ Base(t) /\ CacheInv(t) /\ Off(t) BY DEF Intact, Midway, Base
  <1> DEFINE on == r.arg = "on"
             op == IF on THEN "enable" ELSE "disable"
             done(u) == IF on THEN Set(u, "CACHE") ELSE Clear(u, "CACHE")
             O == OnOk(sdio_cache(t, op), LAMBDA u : Ret(done(u), "EOK"))
  <1>1. \/ o \in Ret(t, "CMP") \/ o \in Ret(t, sdmmc_error("EINVAL"))
        \/ "CACHE" \in t.caps /\ o \in Cam(O)
    <2> HIDE DEF O
    <2>1. o \in CASE ~select -> Ret(t, "CMP")
                  [] select /\ "CACHE" \notin t.caps -> Ret(t, sdmmc_error("EINVAL"))
                  [] OTHER -> Cam(O)
      BY DEF sdmmc_mpage_caching, O
    <2> QED BY <2>1
  <1>2. CASE o \in Ret(t, "CMP") \/ o \in Ret(t, sdmmc_error("EINVAL"))
    <2>1. o[1] = t BY <1>2, RetIs
    <2> QED BY <2>1, DoneSelf
  <1>3. CASE "CACHE" \in t.caps /\ o \in Cam(O)
    <2>1. PICK x \in O : o[1] = x[1]
      <3> HIDE DEF O
      <3> QED BY <1>3, CamIs
    <2> HIDE DEF done
    <2>2. PICK w \in sdio_cache(t, op) : x \in IF w[2] = "EOK" THEN Ret(done(w[1]), "EOK") ELSE {w} BY DEF OnOk
    <2> DEFINE a == w[1]
    <2>3. op \in {"enable", "disable", "flush"} /\ op # "flush" /\ (op = "enable" <=> on) OBVIOUS
    <2> HIDE DEF op
    <2>4. /\ Typed(a) /\ Up(a) /\ But(t, a, CacheFields) /\ CacheAnswer(t, a, w[2], op)
      BY <1>0, <2>3, CacheCall
    <2>5. a.eflags = t.eflags /\ a.caps = t.caps /\ a.card = t.card BY <2>4 DEF But, Keys, CacheFields, Loose
    <2>6. CASE w[2] # "EOK"
      <3>1. o[1] = a BY <2>1, <2>2, <2>6
      <3> HIDE DEF a
      <3>2. But(t, a, CacheFields \cup {"eflags"}) BY <2>4 DEF But
      <3>3. CASE Same(t, a) BY <3>1, <3>3, SameIsGood, DoneGood
      <3>4. CASE t.card /\ a.hist = t.hist \cup {"ghost"}
        <4>1. CacheInv(a) BY <3>4 DEF CacheInv, Ghost
        <4>2. \A f : f # "CACHE" => (Flag(a, f) <=> Flag(t, f)) BY <2>5 DEF Flag
        <4> QED BY <2>4, <3>1, <3>2, <3>4, <4>1, <4>2, CachingStep
      <3> QED BY <2>4, <2>6, <3>3, <3>4 DEF CacheAnswer
    <2>7. CASE w[2] = "EOK"
      <3> DEFINE u == done(a)
      <3>1. o[1] = u
        <4>1. x \in Ret(done(a), "EOK") BY <2>2, <2>7
        <4>2. x = <<done(a), "EOK">> BY <4>1 DEF Ret
        <4> QED BY <2>1, <4>2
      <3>2. t.card /\ a.hist = t.hist /\ "CACHE" \in t.caps
            /\ IF on THEN a.cached = t.cached /\ a.wce = TRUE /\ a.cacheOn = TRUE ELSE ~a.cached /\ ~a.cacheOn
        BY <2>3, <2>4, <2>7 DEF CacheAnswer
      <3> HIDE DEF a
      <3>3. Typed(u) /\ But(a, u, {"eflags"}) /\ u.eflags = IF on THEN a.eflags \cup {"CACHE"} ELSE a.eflags \ {"CACHE"}
        BY <2>4, SetIs, ClearIs DEF done
      <3> HIDE DEF u
      <3>4. u.hist = a.hist /\ u.cached = a.cached /\ u.cacheOn = a.cacheOn /\ u.wce = a.wce /\ u.caps = a.caps
            /\ u.card = a.card /\ u.hpm = a.hpm
        BY <3>3 DEF But, Keys
      <3>5. \A f : f # "CACHE" => (Flag(u, f) <=> Flag(t, f)) BY <2>5, <3>3 DEF Flag
      <3>6. CacheInv(u)
        <4>1. CASE on
          <5>1. Flag(u, "CACHE") BY <3>3, <4>1 DEF Flag
          <5> QED BY <1>0, <2>5, <3>2, <3>4, <3>5, <4>1, <5>1 DEF CacheInv, Ghost
        <4>2. CASE ~on BY <3>2, <3>4, <4>2 DEF CacheInv
        <4> QED BY <4>1, <4>2
      <3>7. But(t, u, CacheFields \cup {"eflags"}) BY <2>4, <3>3 DEF But
      <3>8. Up(u) BY <2>4, <3>4 DEF Up
      <3> QED BY <3>1, <3>2, <3>3, <3>4, <3>5, <3>6, <3>7, <3>8, CachingStep
    <2> QED BY <2>6, <2>7
  <1> QED BY <1>1, <1>2, <1>3

\* sdmmc_dsm(), a list of erases, ...
LEMMA EraseSeqIsGood ==
    ASSUME NEW t, Intact(t), NEW r, NEW o \in sdmmc_dsm(t, r)
    PROVE  Good(t, o[1])
  <1> DEFINE One(u) == IF Inside(u, r) THEN Erase(u, r) ELSE Ret(u, "EINVAL")
  <1>1. ASSUME NEW u, Intact(u), NEW x \in One(u) PROVE Good(u, x[1])
    <2>1. CASE x \in Erase(u, r) BY <1>1, <2>1, EraseIsGood
    <2>2. CASE x \in Ret(u, "EINVAL")
      <3>1. x[1] = u BY <2>2, RetIs
      <3> QED BY <1>1, <3>1, GoodSelf
    <2> QED BY <1>1, <2>1, <2>2
  <1>2. o \in CASE r.ranges = 0 -> Ret(t, "EOK") [] r.ranges = 1 -> One(t) [] OTHER -> OnOk(One(t), One)
    BY DEF sdmmc_dsm
  <1> HIDE DEF One
  <1>3. o \in Ret(t, "EOK") \/ o \in One(t) \/ o \in OnOk(One(t), One) BY <1>2
  <1>4. CASE o \in Ret(t, "EOK")
    <2>1. o[1] = t BY <1>4, RetIs
    <2> QED BY <2>1, GoodSelf
  <1>5. CASE o \in One(t) BY <1>1, <1>5
  <1>6. CASE o \in OnOk(One(t), One)
    <2>1. PICK w \in One(t) : o \in IF w[2] = "EOK" THEN One(w[1]) ELSE {w} BY <1>6 DEF OnOk
    <2>2. Good(t, w[1]) BY <1>1
    <2>3. CASE w[2] = "EOK"
      <3>1. o \in One(w[1]) BY <2>1, <2>3
      <3>2. Good(w[1], o[1]) BY <1>1, <2>2, <3>1 DEF Good
      <3> QED BY <2>2, <3>2, GoodTrans
    <2>4. CASE w[2] # "EOK"
      <3>1. o = w BY <2>1, <2>4
      <3> QED BY <2>2, <3>1
    <2> QED BY <2>3, <2>4
  <1> QED BY <1>3, <1>4, <1>5, <1>6

\* ... and the requests that erase.
LEMMA EraseRequests ==
    ASSUME NEW t, Intact(t), NEW r,
           NEW o \in sdmmc_write_same(t, r) \cup sdmmc_erase12(t, r) \cup sdmmc_erase_devctl(t, r)
                       \cup sdmmc_dsm_devctl(t, r)
    PROVE  Done(t, o[1])
  <1>1. ASSUME NEW e, o \in IfUnitReady(t, r, Cam(Erase(t, r))) \/ o \in IfReady(t, r, Erase(t, r))
                 \/ o \in IfReady(t, r, sdmmc_dsm(t, r)) \/ o \in IfUnitReady(t, r, Ret(t, e)) \/ o \in IfReady(t, r, Ret(t, e))
        PROVE  Done(t, o[1])
    <2>1. o \in Cam(Erase(t, r)) \/ o \in Erase(t, r) \/ o \in sdmmc_dsm(t, r) \/ o \in Ret(t, e) \/ o[1] = t
      BY <1>1, ReadyOr
    <2>2. CASE o \in Cam(Erase(t, r))
      <3> DEFINE O == Erase(t, r)
      <3> HIDE DEF O
      <3>1. PICK w \in O : o[1] = w[1]
        <4>1. o \in Cam(O) BY <2>2 DEF O
        <4> QED BY <4>1, CamIs
      <3>2. Good(t, w[1]) BY EraseIsGood DEF O
      <3> QED BY <3>1, <3>2, DoneGood
    <2>3. CASE o \in Erase(t, r) BY <2>3, EraseIsGood, DoneGood
    <2>4. CASE o \in sdmmc_dsm(t, r) BY <2>4, EraseSeqIsGood, DoneGood
    <2>5. CASE o \in Ret(t, e) BY <2>5, RetIs, DoneSelf
    <2>6. CASE o[1] = t BY <2>6, DoneSelf
    <2> QED BY <2>1, <2>2, <2>3, <2>4, <2>5, <2>6
  <1>2. CASE o \in sdmmc_write_same(t, r)
    <2>1. o \in IfUnitReady(t, r, Cam(Erase(t, r))) \/ o \in IfUnitReady(t, r, Ret(t, sdmmc_error("EINVAL")))
      BY <1>2 DEF sdmmc_write_same
    <2> QED BY <1>1, <2>1
  <1>3. CASE o \in sdmmc_erase12(t, r)
    <2>1. o \in IfUnitReady(t, r, Cam(Erase(t, r))) \/ o \in IfUnitReady(t, r, Ret(t, sdmmc_error("EINVAL")))
      BY <1>3 DEF sdmmc_erase12
    <2> QED BY <1>1, <2>1
  <1>4. CASE o \in sdmmc_erase_devctl(t, r)
    <2>1. o \in IfReady(t, r, Erase(t, r)) \/ o \in IfReady(t, r, Ret(t, "EINVAL"))
      BY <1>4 DEF sdmmc_erase_devctl
    <2> QED BY <1>1, <2>1
  <1>5. CASE o \in sdmmc_dsm_devctl(t, r)
    <2>1. o \in IfReady(t, r, sdmmc_dsm(t, r)) \/ o \in IfReady(t, r, Ret(t, "EINVAL"))
      BY <1>5 DEF sdmmc_dsm_devctl
    <2> QED BY <1>1, <2>1
  <1> QED BY <1>2, <1>3, <1>4, <1>5

\* A command that asks nothing keeps the invariant.
LEMMA PlainIsGood == ASSUME NEW t, Intact(t), NEW o \in sdio_send_cmd(t, Plain) PROVE Good(t, o[1])
  BY PlainIsEasy, GoodEasy DEF Intact

\* A reset keeps it whatever status is returned after it.
LEMMA ResetAfter == ASSUME NEW t, Intact(t), NEW rc, NEW o \in As(sdmmc_reset(t), rc) PROVE Good(t, o[1])
  <1>1. PICK w \in sdmmc_reset(t) : o = <<w[1], rc>> BY DEF As
  <1>2. Good(t, w[1]) BY ResetIsGood DEF Intact, Midway, Good
  <1> QED BY <1>1, <1>2

\* sdmmc_write_protect() ...
LEMMA WriteProtectIsGood ==
    ASSUME NEW t, Intact(t), NEW r, NEW o \in sdmmc_write_protect(t, r)
    PROVE  Good(t, o[1])
  <1> DEFINE D == {<<Note(w[1], w[1].cpart # w[1].pactive, "unsure"), w[2]>> : w \in sdio_set_partition(t, r.part)}
             Mode(u) == CASE r.arg # "set" -> Ret(u, "EOK")
                          [] r.arg = "set" /\ r.part = "rpmb" -> Ret(u, "EINVAL")
                          [] OTHER -> sdio_mmc_switch(u, Plain)
             TheLast(v) == sdio_send_cmd(v, Plain)
             Y(u) == OnOk(Mode(u), TheLast)
  <1>1. o \in Ret(t, "EINVAL") \/ o \in OnOk(D, Y) BY DEF sdmmc_write_protect
  <1>2. CASE o \in Ret(t, "EINVAL")
    <2>1. o[1] = t BY <1>2, RetIs
    <2> QED BY <2>1, GoodSelf
  <1>3. CASE o \in OnOk(D, Y)
    <2> HIDE DEF Y, D
    <2>1. PICK d \in D : o \in IF d[2] = "EOK" THEN Y(d[1]) ELSE {d} BY <1>3 DEF OnOk
    <2>2. PICK w \in sdio_set_partition(t, r.part) : d = <<Note(w[1], w[1].cpart # w[1].pactive, "unsure"), w[2]>>
      BY DEF D
    <2>3. Midway(w[1]) /\ Kept(t, w[1]) /\ (PartInv(w[1]) \/ w[1].cpart # w[1].pactive) BY SetPartition
    <2>4. Intact(d[1]) /\ Kept(w[1], d[1]) BY <2>2, <2>3, DoubtSettled
    <2>5. Good(t, d[1]) BY <2>3, <2>4, KeptTrans DEF Good
    <2>6. CASE d[2] # "EOK" BY <2>1, <2>5, <2>6
    <2>7. CASE d[2] = "EOK"
      <3> HIDE DEF Mode
      <3>1. PICK m \in Mode(d[1]) : o \in IF m[2] = "EOK" THEN TheLast(m[1]) ELSE {m} BY <2>1, <2>7 DEF OnOk, Y
      <3>2. Good(d[1], m[1])
        <4>1. m \in Ret(d[1], "EOK") \/ m \in Ret(d[1], "EINVAL") \/ m \in sdio_send_cmd(d[1], Plain)
          BY DEF Mode, sdio_mmc_switch
        <4>2. CASE m \in Ret(d[1], "EOK") \/ m \in Ret(d[1], "EINVAL")
          <5>1. m[1] = d[1] BY <4>2, RetIs
          <5> QED BY <2>4, <5>1, GoodSelf
        <4>3. CASE m \in sdio_send_cmd(d[1], Plain) BY <2>4, <4>3, PlainIsGood
        <4> QED BY <4>1, <4>2, <4>3
      <3>3. Good(t, m[1]) BY <2>5, <3>2, GoodTrans
      <3>4. CASE m[2] # "EOK" BY <3>1, <3>3, <3>4
      <3>5. CASE m[2] = "EOK"
        <4>1. o \in sdio_send_cmd(m[1], Plain) BY <3>1, <3>5
        <4>2. Good(m[1], o[1]) BY <3>3, <4>1, PlainIsGood DEF Good
        <4> QED BY <3>3, <4>2, GoodTrans
      <3> QED BY <3>4, <3>5
    <2> QED BY <2>6, <2>7
  <1> QED BY <1>1, <1>2, <1>3

\* ... and the request that calls it.
LEMMA WpIsDone ==
    ASSUME NEW t, Intact(t), NEW r, NEW o \in sdmmc_wp_devctl(t, r)
    PROVE  Done(t, o[1])
  <1>1. \E e : o \in IfReady(t, r, Ret(t, e)) \cup IfReady(t, r, sdmmc_write_protect(t, r))
    BY DEF sdmmc_wp_devctl
  <1>2. PICK e : o \in IfReady(t, r, Ret(t, e)) \cup IfReady(t, r, sdmmc_write_protect(t, r)) BY <1>1
  <1>3. o \in Ret(t, e) \/ o \in sdmmc_write_protect(t, r) \/ o[1] = t BY <1>2, ReadyOr
  <1>4. CASE o \in Ret(t, e) \/ o[1] = t
    <2>1. o[1] = t BY <1>4, RetIs
    <2> QED BY <2>1, DoneSelf
  <1>5. CASE o \in sdmmc_write_protect(t, r) BY <1>5, WriteProtectIsGood, DoneGood
  <1> QED BY <1>3, <1>4, <1>5

\* sdmmc_lock_unlock_devctl().
LEMMA LockIsDone ==
    ASSUME NEW t, Intact(t), NEW r, NEW o \in sdmmc_lock_unlock_devctl(t, r)
    PROVE  Done(t, o[1])
  <1> DEFINE F(u) == [u EXCEPT !.locked = (r.arg = "lock"), !.cmd23 = "CMD23" \in u.caps]
             O == OnOk(sdio_lock_unlock(t), LAMBDA u : Ret(F(u), "EOK"))
  <1>1. o \in IfReady(t, r, Ret(t, "EINVAL")) \/ o \in IfReady(t, r, O) BY DEF sdmmc_lock_unlock_devctl
  <1>2. o \in Ret(t, "EINVAL") \/ o[1] = t \/ o \in O
    <2> HIDE DEF O
    <2> QED BY <1>1, ReadyOr
  <1>3. CASE o \in Ret(t, "EINVAL") \/ o[1] = t
    <2>1. o[1] = t BY <1>3, RetIs
    <2> QED BY <2>1, DoneSelf
  <1>4. CASE o \in O
    <2> HIDE DEF F
    <2>1. PICK w \in sdio_lock_unlock(t) : o \in IF w[2] = "EOK" THEN Ret(F(w[1]), "EOK") ELSE {w} BY <1>4 DEF OnOk
    <2>2. Good(t, w[1])
      <3>1. w \in Ret(t, "ENXIO") \/ w \in Ret(t, "EINVAL") \/ w \in sdio_send_cmd(t, Plain)
        BY DEF sdio_lock_unlock, _sdio_synchronize
      <3>2. CASE w \in Ret(t, "ENXIO") \/ w \in Ret(t, "EINVAL")
        <4>1. w[1] = t BY <3>2, RetIs
        <4> QED BY <4>1, GoodSelf
      <3>3. CASE w \in sdio_send_cmd(t, Plain) BY <3>3, PlainIsGood
      <3> QED BY <3>1, <3>2, <3>3
    <2>3. CASE w[2] # "EOK"
      <3>1. o = w BY <2>1, <2>3
      <3> QED BY <2>2, <3>1, DoneGood
    <2>4. CASE w[2] = "EOK"
      <3> DEFINE b == w[1]
                 e == F(b)
      <3>1. o[1] = e
        <4>1. o \in Ret(F(w[1]), "EOK") BY <2>1, <2>4
        <4>2. o = <<F(w[1]), "EOK">> BY <4>1 DEF Ret
        <4> QED BY <4>2
      <3>2. Typed(b) /\ Intact(b) BY <2>2 DEF Good, Intact, Midway, Base
      <3> HIDE DEF b
      <3>3. Typed(e) /\ But(b, e, {"cmd23", "locked"}) BY <3>2 DEF F, Typed, But, Keys
      <3> HIDE DEF e
      <3>4. Same(b, e) BY <3>2, <3>3 DEF Same, But, Loose, Up, Keys
      <3>5. Good(b, e) BY <3>2, <3>4, SameIsGood
      <3> QED BY <2>2, <3>1, <3>5, GoodTrans, DoneGood DEF b
    <2> QED BY <2>3, <2>4
  <1> QED BY <1>2, <1>3, <1>4

\* sdmmc_card_register_devctl().
LEMMA RegisterIsDone ==
    ASSUME NEW t, Intact(t), NEW r, NEW o \in sdmmc_card_register_devctl(t, r)
    PROVE  Done(t, o[1])
  <1> DEFINE Y(u, rc) == CASE rc = "EOK" -> Ret(u, rc)
                           [] rc = "ETIMEDOUT" -> As(sdmmc_reset(u), rc)
                           [] OTHER -> Ret(u, "EIO")
             E == UNION {Y(w[1], w[2]) : w \in sdio_send_cmd(t, Plain)}
             S == {<<w[1], IF w[2] = "EOK" THEN w[2] ELSE "EIO">> : w \in sdio_send_cmd(t, Plain)}
  <1>1. \E e : o \in IfReady(t, r, Ret(t, e)) \cup IfReady(t, r, E) \cup IfReady(t, r, S)
    <2>1. o \in IfReady(t, r, CASE r.arg = "cid" -> Ret(t, "EOK")
                                [] r.arg = "ecsd" -> IF t.dtype = "MMC" THEN E ELSE Ret(t, "ENOTSUP")
                                [] r.arg = "sds" -> IF t.dtype = "SD" THEN S ELSE Ret(t, "ENOTSUP")
                                [] r.arg = "write" -> IF t.dtype = "MMC" THEN S ELSE Ret(t, "ENOTSUP")
                                [] OTHER -> Ret(t, "EINVAL"))
      BY DEF sdmmc_card_register_devctl, Look, Status, sdio_send_ext_csd, sdio_app_read_status, sdio_mmc_switch
    <2> HIDE DEF E, S
    <2> QED BY <2>1
  <1> HIDE DEF Y, E, S
  <1>2. PICK e : o \in IfReady(t, r, Ret(t, e)) \cup IfReady(t, r, E) \cup IfReady(t, r, S) BY <1>1
  <1>3. o \in Ret(t, e) \/ o[1] = t \/ o \in E \/ o \in S BY <1>2, ReadyOr
  <1>4. CASE o \in Ret(t, e) \/ o[1] = t
    <2>1. o[1] = t BY <1>4, RetIs
    <2> QED BY <2>1, DoneSelf
  <1>5. CASE o \in S
    <2>1. PICK w \in sdio_send_cmd(t, Plain) : o[1] = w[1] BY <1>5 DEF S
    <2> QED BY <2>1, PlainIsGood, DoneGood
  <1>6. CASE o \in E
    <2>1. PICK w \in sdio_send_cmd(t, Plain) : o \in Y(w[1], w[2]) BY <1>6 DEF E
    <2>2. Good(t, w[1]) BY PlainIsGood
    <2>3. o \in Ret(w[1], w[2]) \/ o \in As(sdmmc_reset(w[1]), w[2]) \/ o \in Ret(w[1], "EIO") BY <2>1 DEF Y
    <2>4. CASE o \in Ret(w[1], w[2]) \/ o \in Ret(w[1], "EIO")
      <3>1. o[1] = w[1] BY <2>4, RetIs
      <3> QED BY <2>2, <3>1, DoneGood
    <2>5. CASE o \in As(sdmmc_reset(w[1]), w[2])
      <3>1. Good(w[1], o[1]) BY <2>2, <2>5, ResetAfter DEF Good
      <3> QED BY <2>2, <3>1, GoodTrans, DoneGood
    <2> QED BY <2>3, <2>4, <2>5
  <1> QED BY <1>3, <1>4, <1>5, <1>6

\* A frame of the RPMB goes astray when the card is on another partition, ...
StrayIs(t, q, v) == Typed(v) /\ But(t, v, {"hist"}) /\ v.hist = IF q THEN t.hist \cup {"stray"} ELSE t.hist

\* ... which is noted.
LEMMA StrayNoted == ASSUME NEW t, Typed(t), NEW q \in BOOLEAN PROVE StrayIs(t, q, Note(t, q, "stray"))
  BY NoteIs DEF StrayIs

\* On its partition a frame is an easy step.
LEMMA FrameIs ==
    ASSUME NEW t, Midway(t), NEW p, OnTarget(t, p), t.dtype = "MMC",
           NEW o \in sdio_mmc_rpmb_rw(Note(t, t.cpart # p, "stray"))
    PROVE  Easy(t, o[1])
  <1> DEFINE q == t.cpart # p
             u == Note(t, q, "stray")
  <1>1. Typed(u) /\ But(t, u, {"hist"}) /\ u.hist = IF q THEN t.hist \cup {"stray"} ELSE t.hist
    <2>1. Typed(t) BY DEF Midway, Base
    <2>2. q \in BOOLEAN OBVIOUS
    <2> HIDE DEF q
    <2>3. StrayIs(t, q, u) BY <2>1, <2>2, StrayNoted
    <2> QED BY <2>3 DEF StrayIs
  <1>2. q => "unsure" \in t.hist BY DEF OnTarget
  <1> HIDE DEF q
  <1> HIDE DEF u
  <1>3. /\ u.cached = t.cached /\ u.cacheOn = t.cacheOn /\ u.eflags = t.eflags /\ u.hpm = t.hpm
        /\ u.wce = t.wce /\ u.caps = t.caps /\ u.wp = t.wp /\ u.card = t.card /\ u.pactive = t.pactive
        /\ u.asec = t.asec /\ u.dtype = t.dtype /\ u.drvr = t.drvr /\ u.inprog = t.inprog /\ u.csec = t.csec
        /\ u.cpart = t.cpart /\ u.bkRun = t.bkRun
    BY <1>1 DEF But, Keys
  <1>4. /\ t.hist \subseteq u.hist
        /\ \A x \in {"lost", "ghost", "misdirected", "overlap", "unsure", "unmarked", "doubt", "forgotten"} :
             x \in u.hist <=> x \in t.hist
        /\ "stray" \in u.hist => "stray" \in t.hist \/ "unsure" \in t.hist
    BY <1>1, <1>2
  <1>5. Base(u) BY <1>1, <1>3, <1>4 DEF Midway, Base, CacheInv, LossInv, TagInv, Off, Sound, Ghost, Flag
  <1>6. Midway(u) /\ Kept(t, u)
    BY <1>1, <1>3, <1>4, <1>5 DEF Midway, Up, SecInv, BkInv, Kept, Held, DirtyOk, Ghost, Flag
  <1>7. (PartInv(t) => PartInv(u)) /\ (Calm(t) => Calm(u)) /\ \A x : OnTarget(t, x) => OnTarget(u, x)
    BY <1>3, <1>4 DEF PartInv, Ghost, Calm, OnTarget
  <1>8. Easy(t, u) BY <1>6, <1>7 DEF Easy
  <1>9. o \in Ret(u, "ENXIO") \/ o \in sdio_send_cmd(u, Plain)
    BY DEF sdio_mmc_rpmb_rw, mmc_rpmb_rw, _sdio_synchronize, u, q
  <1>10. CASE o \in Ret(u, "ENXIO") BY <1>8, <1>10, RetIs
  <1>11. CASE o \in sdio_send_cmd(u, Plain)
    <2>1. Easy(u, o[1]) BY <1>6, <1>11, PlainIsEasy
    <2> QED BY <1>8, <2>1, EasyTrans
  <1> QED BY <1>9, <1>10, <1>11

\* A frame of sdmmc_rpmb_devctl(), ...
RpmbFrame(t, r) == sdio_mmc_rpmb_rw(Note(t, t.cpart # r.part, "stray"))

\* ... and the two or three of a request.
RpmbFrames(t, r) == OnOk(Where(r.arg # "read", t, RpmbFrame(t, r)), LAMBDA u : OnOk(RpmbFrame(u, r), LAMBDA v : RpmbFrame(v, r)))

\* The card is on the partition of the request.
Sure(t, r) == Midway(t) /\ OnTarget(t, r.part) /\ t.dtype = "MMC"

\* It still is after a frame, ...
LEMMA FrameAgain == ASSUME NEW t, NEW r, Sure(t, r), NEW o \in RpmbFrame(t, r) PROVE Easy(t, o[1]) /\ Sure(o[1], r)
  <1>1. Easy(t, o[1]) BY FrameIs DEF Sure, RpmbFrame
  <1> QED BY <1>1 DEF Easy, Sure, Kept, Held

\* ... so that all of them go there, ...
LEMMA FramesIs ==
    ASSUME NEW t, NEW r, Sure(t, r), NEW o \in RpmbFrames(t, r)
    PROVE  Easy(t, o[1])
  <1> DEFINE W0 == Where(r.arg # "read", t, RpmbFrame(t, r))
             Z(v) == RpmbFrame(v, r)
             Y(u) == OnOk(RpmbFrame(u, r), Z)
  <1>1. o \in OnOk(W0, Y) BY DEF RpmbFrames
  <1> HIDE DEF Y, W0
  <1>2. PICK w \in W0 : o \in IF w[2] = "EOK" THEN Y(w[1]) ELSE {w} BY <1>1 DEF OnOk
  <1>3. Easy(t, w[1]) /\ Sure(w[1], r)
    <2>1. w \in RpmbFrame(t, r) \/ w \in Ret(t, "EOK") BY DEF W0, Where
    <2>2. CASE w \in RpmbFrame(t, r) BY <2>2, FrameAgain
    <2>3. CASE w \in Ret(t, "EOK")
      <3>1. w[1] = t BY <2>3, RetIs
      <3> QED BY <3>1, EasySelf DEF Sure
    <2> QED BY <2>1, <2>2, <2>3
  <1>4. CASE w[2] # "EOK"
    <2>1. o = w BY <1>2, <1>4
    <2> QED BY <1>3, <2>1
  <1>5. CASE w[2] = "EOK"
    <2> HIDE DEF Z
    <2>1. o \in Y(w[1]) BY <1>2, <1>5
    <2>2. PICK x \in RpmbFrame(w[1], r) : o \in IF x[2] = "EOK" THEN Z(x[1]) ELSE {x} BY <2>1 DEF Y, OnOk
    <2>3. Easy(w[1], x[1]) /\ Sure(x[1], r) BY <1>3, FrameAgain
    <2>4. Easy(t, x[1]) BY <1>3, <2>3, EasyTrans
    <2>5. CASE x[2] # "EOK"
      <3>1. o = x BY <2>2, <2>5
      <3> QED BY <2>4, <3>1
    <2>6. CASE x[2] = "EOK"
      <3>1. o \in RpmbFrame(x[1], r) BY <2>2, <2>6 DEF Z
      <3>2. Easy(x[1], o[1]) BY <2>3, <3>1, FrameAgain
      <3> QED BY <2>4, <3>2, EasyTrans
    <2> QED BY <2>5, <2>6
  <1> QED BY <1>4, <1>5

\* ... and sdmmc_rpmb_devctl() keeps the invariant.
LEMMA RpmbIsDone ==
    ASSUME NEW t, Intact(t), NEW r, NEW o \in sdmmc_rpmb_devctl(t, r)
    PROVE  Done(t, o[1])
  <1> DEFINE frames(u) == RpmbFrames(u, r)
             Sel(u) == OnOk(sdio_set_partition(u, r.part), frames)
             Z(u, rc) == IF rc = "EOK" THEN Ret(u, rc) ELSE As(sdmmc_reset(u), rc)
             Y(u) == Look(Sel(u), Z)
             O == Anyway(sdmmc_bkops(t, FALSE), Y)
  <1>1. \/ \E e : o \in Ret(t, e)
        \/ sdmmc_rpmb_info(t, r) = "EOK" /\ o \in O
    <2>1. o \in CASE sdmmc_rpmb_info(t, r) # "EOK" -> Ret(t, sdmmc_rpmb_info(t, r))
                  [] sdmmc_rpmb_info(t, r) = "EOK" /\ ~Ready(t, r) -> Ret(t, "EIO")
                  [] OTHER -> O
      BY DEF sdmmc_rpmb_devctl, RpmbFrames, RpmbFrame
    <2> HIDE DEF O
    <2> QED BY <2>1
  <1>2. CASE \E e : o \in Ret(t, e)
    <2>1. o[1] = t BY <1>2, RetIs
    <2> QED BY <2>1, DoneSelf
  <1>3. CASE sdmmc_rpmb_info(t, r) = "EOK" /\ o \in O
    <2>0. t.dtype = "MMC" BY <1>3 DEF sdmmc_rpmb_info
    <2> HIDE DEF Y
    <2>1. PICK w \in sdmmc_bkops(t, FALSE) : o \in Y(w[1]) BY <1>3 DEF Anyway
    <2>2. Good(t, w[1]) /\ w[1].dtype = "MMC" BY <2>0, BkopsIs DEF Good, Kept, Held
    <2> HIDE DEF Sel, Z
    <2>3. PICK x \in Sel(w[1]) : o \in Z(x[1], x[2]) BY <2>1 DEF Y, Look
    <2>4. Midway(x[1]) /\ Kept(w[1], x[1]) /\ (x[2] = "EOK" => PartInv(x[1]))
      <3> HIDE DEF frames
      <3>1. PICK y \in sdio_set_partition(w[1], r.part) : x \in IF y[2] = "EOK" THEN frames(y[1]) ELSE {y}
        BY DEF Sel, OnOk
      <3>2. /\ Midway(y[1]) /\ Kept(w[1], y[1])
            /\ y[2] = "EOK" => PartInv(y[1]) /\ OnTarget(y[1], r.part)
        BY <2>2, SetPartition DEF Good
      <3>3. CASE y[2] # "EOK"
        <4>1. x = y BY <3>1, <3>3
        <4> QED BY <3>2, <3>3, <4>1
      <3>4. CASE y[2] = "EOK"
        <4>1. x \in RpmbFrames(y[1], r) BY <3>1, <3>4 DEF frames
        <4>2. Sure(y[1], r) BY <2>2, <3>2, <3>4 DEF Sure, Kept, Held
        <4>3. Easy(y[1], x[1]) BY <4>1, <4>2, FramesIs
        <4>4. Midway(x[1]) /\ Kept(y[1], x[1]) /\ PartInv(x[1]) BY <3>2, <3>4, <4>3 DEF Easy
        <4> QED BY <3>2, <4>4, KeptTrans
      <3> QED BY <3>3, <3>4
    <2>5. CASE x[2] = "EOK"
      <3>1. o \in Ret(x[1], x[2]) BY <2>3, <2>5 DEF Z
      <3>2. o[1] = x[1] BY <3>1, RetIs
      <3>3. Good(w[1], o[1]) BY <2>4, <2>5, <3>2 DEF Good, Intact
      <3> QED BY <2>2, <3>3, GoodTrans, DoneGood
    <2>6. CASE x[2] # "EOK"
      <3>1. o \in As(sdmmc_reset(x[1]), x[2]) BY <2>3, <2>6 DEF Z
      <3>2. PICK y \in sdmmc_reset(x[1]) : o = <<y[1], x[2]>> BY <3>1 DEF As
      <3>3. Intact(y[1]) /\ Kept(x[1], y[1]) BY <2>4, ResetIsGood DEF Midway
      <3>4. Good(w[1], o[1]) BY <2>4, <3>2, <3>3, KeptTrans DEF Good
      <3> QED BY <2>2, <3>4, GoodTrans, DoneGood
    <2> QED BY <2>5, <2>6
  <1> QED BY <1>1, <1>2, <1>3

\* The general and the manufacturer command: the call, ...
LEMMA GenManIsGood ==
    ASSUME NEW t, Intact(t), NEW n, NEW o \in sdio_mmc_gen_man(t, n)
    PROVE  Good(t, o[1])
  <1> DEFINE A(v) == sdio_set_block_length(v)
             B(u) == Anyway(sdio_send_cmd(u, Plain), A)
             O == OnOk(sdio_set_block_length(t), B)
  <1>1. o \in Ret(t, "ENXIO") \/ o \in sdio_send_cmd(t, Plain) \/ o \in O
    BY DEF sdio_mmc_gen_man, mmc_gen_man_cmd, _sdio_synchronize
  <1>2. CASE o \in Ret(t, "ENXIO")
    <2>1. o[1] = t BY <1>2, RetIs
    <2> QED BY <2>1, GoodSelf
  <1>3. CASE o \in sdio_send_cmd(t, Plain) BY <1>3, PlainIsGood
  <1>4. CASE o \in O
    <2> HIDE DEF B
    <2>1. PICK w \in sdio_send_cmd(t, Plain) : o \in IF w[2] = "EOK" THEN B(w[1]) ELSE {w}
      BY <1>4 DEF OnOk, sdio_set_block_length
    <2>2. Good(t, w[1]) BY PlainIsGood
    <2>3. CASE w[2] # "EOK" BY <2>1, <2>2, <2>3
    <2>4. CASE w[2] = "EOK"
      <3>1. o \in B(w[1]) BY <2>1, <2>4
      <3>2. PICK v \in sdio_send_cmd(w[1], Plain) : o \in sdio_send_cmd(v[1], Plain)
        BY <3>1 DEF B, Anyway, sdio_set_block_length
      <3>3. Good(w[1], v[1]) BY <2>2, PlainIsGood DEF Good
      <3>4. Good(t, v[1]) BY <2>2, <3>3, GoodTrans
      <3>5. Good(v[1], o[1]) BY <3>2, <3>4, PlainIsGood DEF Good
      <3> QED BY <3>4, <3>5, GoodTrans
    <2> QED BY <2>3, <2>4
  <1> QED BY <1>1, <1>2, <1>3, <1>4

\* ... its recovery, ...
GenMan(t, n) == Look(sdio_mmc_gen_man(t, n), LAMBDA u, rc : IF rc = "EOK" THEN Ret(u, rc) ELSE As(sdmmc_reset(u), rc))

\* ... which keeps the invariant, ...
LEMMA GenManStep == ASSUME NEW t, Intact(t), NEW n, NEW o \in GenMan(t, n) PROVE Good(t, o[1])
  <1>1. PICK w \in sdio_mmc_gen_man(t, n) : o \in IF w[2] = "EOK" THEN Ret(w[1], w[2]) ELSE As(sdmmc_reset(w[1]), w[2])
    BY DEF GenMan, Look
  <1>2. Good(t, w[1]) BY GenManIsGood
  <1>3. CASE w[2] = "EOK"
    <2>1. o \in Ret(w[1], w[2]) BY <1>1, <1>3
    <2>2. o[1] = w[1] BY <2>1, RetIs
    <2> QED BY <1>2, <2>2
  <1>4. CASE w[2] # "EOK"
    <2>1. o \in As(sdmmc_reset(w[1]), w[2]) BY <1>1, <1>4
    <2>2. Good(w[1], o[1]) BY <1>2, <2>1, ResetAfter DEF Good
    <2> QED BY <1>2, <2>2, GoodTrans
  <1> QED BY <1>3, <1>4

\* ... and the requests.
LEMMA GenIsDone ==
    ASSUME NEW t, Intact(t), NEW r, NEW o \in sdmmc_gencmd_devctl(t, r) \cup sdmmc_mancmd_devctl(t, r)
    PROVE  Done(t, o[1])
  <1> DEFINE Y(u) == GenMan(u, r.blklen)
             Z(u) == IF r.arg # "man" THEN Ret(u, "ENOTSUP") ELSE GenMan(u, r.blklen)
             OY == Anyway(sdmmc_bkops(t, FALSE), Y)
             OZ == Anyway(sdmmc_bkops(t, FALSE), Z)
  <1>1. o \in IfReady(t, r, OY) \/ o \in IfReady(t, r, OZ) BY DEF sdmmc_gencmd_devctl, sdmmc_mancmd_devctl, GenMan
  <1>2. o[1] = t \/ o \in OY \/ o \in OZ
    <2> HIDE DEF OY, OZ
    <2> QED BY <1>1, ReadyOr
  <1>3. CASE o[1] = t BY <1>3, DoneSelf
  <1>4. CASE o \in OY \/ o \in OZ
    <2> HIDE DEF Y, Z
    <2>1. PICK w \in sdmmc_bkops(t, FALSE) : o \in Y(w[1]) \/ o \in Z(w[1]) BY <1>4 DEF Anyway
    <2>2. Good(t, w[1]) BY BkopsIs
    <2>3. o \in GenMan(w[1], r.blklen) \/ o \in Ret(w[1], "ENOTSUP") BY <2>1 DEF Y, Z
    <2>4. CASE o \in GenMan(w[1], r.blklen)
      <3>1. Good(w[1], o[1]) BY <2>2, <2>4, GenManStep DEF Good
      <3> QED BY <2>2, <3>1, GoodTrans, DoneGood
    <2>5. CASE o \in Ret(w[1], "ENOTSUP")
      <3>1. o[1] = w[1] BY <2>5, RetIs
      <3> QED BY <2>2, <3>1, DoneGood
    <2> QED BY <2>3, <2>4, <2>5
  <1> QED BY <1>2, <1>3, <1>4

\* sdmmc_ffu() enters the firmware update mode with a cache that is flushed.
Enter(t) == OnOk(Where("CACHE" \in t.caps /\ Flag(t, "CACHE"), t, sdio_cache(t, "flush")), LAMBDA u :
              OnOk(Where(Flag(u, "BKOPS_AUTO"), u, sdmmc_bkops_cfg(u)), LAMBDA v : sdio_mmc_switch(v, Plain)))

\* That keeps the invariant, ...
LEMMA EnterIsGood ==
    ASSUME NEW t, Intact(t), NEW o \in Enter(t)
    PROVE  Good(t, o[1])
  <1> DEFINE F == Where("CACHE" \in t.caps /\ Flag(t, "CACHE"), t, sdio_cache(t, "flush"))
             B(u) == Where(Flag(u, "BKOPS_AUTO"), u, sdmmc_bkops_cfg(u))
             S(v) == sdio_mmc_switch(v, Plain)
             Y(u) == OnOk(B(u), S)
  <1>1. o \in OnOk(F, Y) BY DEF Enter
  <1> HIDE DEF F, Y
  <1>2. PICK w \in F : o \in IF w[2] = "EOK" THEN Y(w[1]) ELSE {w} BY <1>1 DEF OnOk
  <1>3. Good(t, w[1])
    <2>1. w \in Ret(t, "EOK") \/ w \in sdio_cache(t, "flush") BY DEF F, Where
    <2>2. CASE w \in Ret(t, "EOK")
      <3>1. w[1] = t BY <2>2, RetIs
      <3> QED BY <3>1, GoodSelf
    <2>3. CASE w \in sdio_cache(t, "flush") BY <2>3, FlushIsEasy, GoodEasy DEF Intact
    <2> QED BY <2>1, <2>2, <2>3
  <1>4. CASE w[2] # "EOK" BY <1>2, <1>3, <1>4
  <1>5. CASE w[2] = "EOK"
    <2> HIDE DEF B
    <2>1. o \in Y(w[1]) BY <1>2, <1>5
    <2>2. PICK b \in B(w[1]) : o \in IF b[2] = "EOK" THEN S(b[1]) ELSE {b} BY <2>1 DEF Y, OnOk
    <2>3. Typed(w[1]) /\ Up(w[1]) BY <1>3 DEF Good, Intact, Midway, Base
    <2>4. Same(w[1], b[1])
      <3>1. b \in Ret(w[1], "EOK") \/ b \in sdmmc_bkops_cfg(w[1]) BY DEF B, Where
      <3>2. CASE b \in Ret(w[1], "EOK")
        <4>1. b[1] = w[1] BY <3>2, RetIs
        <4> QED BY <2>3, <4>1, SameSelf
      <3>3. CASE b \in sdmmc_bkops_cfg(w[1]) BY <2>3, <3>3, BkopsCfgIsSame
      <3> QED BY <3>1, <3>2, <3>3
    <2>5. Good(w[1], b[1]) BY <1>3, <2>4, SameIsGood DEF Good
    <2>6. Good(t, b[1]) BY <1>3, <2>5, GoodTrans
    <2>7. CASE b[2] # "EOK" BY <2>2, <2>6, <2>7
    <2>8. CASE b[2] = "EOK"
      <3>1. o \in sdio_send_cmd(b[1], Plain) BY <2>2, <2>8 DEF sdio_mmc_switch
      <3>2. Good(b[1], o[1]) BY <2>6, <3>1, PlainIsGood DEF Good
      <3> QED BY <2>6, <3>2, GoodTrans
    <2> QED BY <2>7, <2>8
  <1> QED BY <1>4, <1>5

\* ... the activation, ...
Activate(t) == Look(sdio_mmc_switch(t, Plain), LAMBDA u, rc : As(sdmmc_reset(u), rc))

\* ... which ends in a reset, keeps it, ...
LEMMA ActivateIsGood ==
    ASSUME NEW t, Intact(t), NEW o \in Activate(t)
    PROVE  Good(t, o[1])
  <1>1. PICK w \in sdio_send_cmd(t, Plain) : o \in As(sdmmc_reset(w[1]), w[2]) BY DEF Activate, Look, sdio_mmc_switch
  <1>2. Good(t, w[1]) BY PlainIsGood
  <1>3. Good(w[1], o[1]) BY <1>1, <1>2, ResetAfter DEF Good
  <1> QED BY <1>2, <1>3, GoodTrans

\* ... and so does sdmmc_ffu().
LEMMA FfuIsDone ==
    ASSUME NEW t, Intact(t), NEW r, NEW o \in sdmmc_ffu(t, r)
    PROVE  Done(t, o[1])
  <1> DEFINE Y(u) == sdmmc_rw(u, "firmware", TRUE, r.nlba > 1, FALSE)
             O == OnOk(Where(r.arg = "first", t, Enter(t)), Y)
             C == CASE t.dtype # "MMC" \/ FfuState = "none" -> Ret(t, "ENOTSUP")
                    [] t.dtype = "MMC" /\ FfuState = "denied" -> Ret(t, "EPERM")
                    [] t.dtype = "MMC" /\ FfuState = "open" /\ r.arg \notin {"first", "next", "activate"} ->
                         Ret(t, "EINVAL")
                    [] OTHER -> CASE ~Ready(t, r) -> Ret(t, "EBUSY")
                                  [] Ready(t, r) /\ r.arg = "activate" -> Activate(t)
                                  [] OTHER -> O
  <1>1. o \in Status(C, RawErrno) BY DEF sdmmc_ffu, Activate, Enter
  <1> HIDE DEF C
  <1>2. PICK x \in C : o[1] = x[1] BY <1>1 DEF Status
  <1> HIDE DEF O
  <1>3. (\E e : x \in Ret(t, e)) \/ x \in Activate(t) \/ x \in O BY DEF C
  <1>4. CASE \E e : x \in Ret(t, e)
    <2>1. x[1] = t BY <1>4, RetIs
    <2> QED BY <1>2, <2>1, DoneSelf
  <1>5. CASE x \in Activate(t) BY <1>2, <1>5, ActivateIsGood, DoneGood
  <1>6. CASE x \in O
    <2> DEFINE F == Where(r.arg = "first", t, Enter(t))
    <2> HIDE DEF Y, F
    <2>1. PICK w \in F : x \in IF w[2] = "EOK" THEN Y(w[1]) ELSE {w}
      <3>1. x \in OnOk(F, Y) BY <1>6 DEF O, F
      <3> QED BY <3>1 DEF OnOk
    <2>2. Good(t, w[1])
      <3>1. w \in Ret(t, "EOK") \/ w \in Enter(t) BY DEF F, Where
      <3>2. CASE w \in Ret(t, "EOK")
        <4>1. w[1] = t BY <3>2, RetIs
        <4> QED BY <4>1, GoodSelf
      <3>3. CASE w \in Enter(t) BY <3>3, EnterIsGood
      <3> QED BY <3>1, <3>2, <3>3
    <2>3. CASE w[2] # "EOK"
      <3>1. x = w BY <2>1, <2>3
      <3> QED BY <1>2, <2>2, <3>1, DoneGood
    <2>4. CASE w[2] = "EOK"
      <3> DEFINE multi == r.nlba > 1
      <3>1. x \in sdmmc_rw(w[1], "firmware", TRUE, multi, FALSE) BY <2>1, <2>4 DEF Y
      <3> HIDE DEF multi
      <3>2. Moves(w[1], "firmware", TRUE) BY DEF Moves
      <3>3. Good(w[1], x[1]) BY <2>2, <3>1, <3>2, RwIsGood DEF Good
      <3> QED BY <1>2, <2>2, <3>3, GoodTrans, DoneGood
    <2> QED BY <2>3, <2>4
  <1> QED BY <1>3, <1>4, <1>5, <1>6

\* The state of the driver changes while nothing runs.
LEMMA EnteredIs ==
    ASSUME NEW t, Intact(t), NEW u, Typed(u), But(t, u, {"drvr", "frozen"}), ~t.bkRun \/ u.drvr # "RUN"
    PROVE  Done(t, u)
  <1>1. /\ u.cached = t.cached /\ u.cacheOn = t.cacheOn /\ u.eflags = t.eflags /\ u.hpm = t.hpm
        /\ u.wce = t.wce /\ u.caps = t.caps /\ u.wp = t.wp /\ u.card = t.card /\ u.pactive = t.pactive
        /\ u.asec = t.asec /\ u.dtype = t.dtype /\ u.hist = t.hist /\ u.inprog = t.inprog /\ u.csec = t.csec
        /\ u.cpart = t.cpart /\ u.bkRun = t.bkRun
    BY DEF But, Keys
  <1>2. Base(u) BY <1>1 DEF Intact, Midway, Base, CacheInv, LossInv, TagInv, Off, Sound, Ghost, Flag
  <1>3. Intact(u) BY <1>1, <1>2 DEF Intact, Midway, Up, PartInv, SecInv, BkInv, Ghost, Flag
  <1> QED BY <1>1, <1>3 DEF Done, Flag

\* Data that the reset of a restart is going to lose.
LEMMA UnmarkedNoted ==
    ASSUME NEW t, Intact(t)
    PROVE  LET u == Note(t, t.cached, "unmarked") IN
           Good(t, u) /\ (u.cached => "unmarked" \in u.hist)
  <1>0. Midway(t) BY DEF Intact
  <1>1. CASE t.cached
    <2>1. Note(t, t.cached, "unmarked") = Note(t, TRUE, "unmarked") BY <1>1 DEF Note
    <2>2. Easy(t, Note(t, TRUE, "unmarked")) /\ Note(t, TRUE, "unmarked").hist = t.hist \cup {"unmarked"}
      BY <1>0, NoteIsEasy
    <2> QED BY <2>1, <2>2, GoodEasy
  <1>2. CASE ~t.cached
    <2>1. Note(t, t.cached, "unmarked") = t BY <1>2 DEF Note
    <2> QED BY <1>2, <2>1, GoodSelf
  <1> QED BY <1>1, <1>2

\* sdmmc_drvr_state_devctl(): the pause, ...
LEMMA PauseIsDone ==
    ASSUME NEW t, Intact(t), NEW r, r.arg = "PAUSE", NEW w \in sdmmc_pm(t, "IDLE")
    PROVE  LET u == [[w[1] EXCEPT !.drvr = r.arg] EXCEPT !.frozen = @ \cup {r.part}] IN Done(t, u)
  <1> DEFINE b == w[1]
             u == [[b EXCEPT !.drvr = r.arg] EXCEPT !.frozen = @ \cup {r.part}]
  <1>1. Good(t, b) BY PmIdle
  <1> HIDE DEF b
  <1>2. Typed(u) /\ But(b, u, {"drvr", "frozen"}) /\ u.drvr = "PAUSE" BY <1>1 DEF Good, Intact, Midway, Base, Typed, But, Keys
  <1> HIDE DEF u
  <1>3. Done(b, u) BY <1>1, <1>2, EnteredIs DEF Good
  <1>4. Done(t, u) BY <1>1, <1>3, DoneGood, DoneTrans
  <1> QED BY <1>4 DEF u, b

\* ... the restart, ...
LEMMA RunIsDone ==
    ASSUME NEW t, Intact(t), NEW r, NEW x \in sdio_reset(Note(t, t.cached, "unmarked")), NEW y \in sdmmc_dev_cfg(x[1])
    PROVE  LET u == [y[1] EXCEPT !.drvr = r.arg] IN Done(t, u)
  <1> DEFINE a == Note(t, t.cached, "unmarked")
             b == x[1]
             c == y[1]
             u == [c EXCEPT !.drvr = r.arg]
  <1>1. Good(t, a) /\ (a.cached => "unmarked" \in a.hist) BY UnmarkedNoted
  <1> HIDE DEF a
  <1>2. Base(a) /\ Up(a) BY <1>1 DEF Good, Intact, Midway
  <1>3. Cleared(a, b) BY <1>2, ResetClears DEF a
  <1> HIDE DEF b
  <1>4. Fresh(b) /\ NoCache(b) /\ Kept(a, b) BY <1>1, <1>2, <1>3, ClearedKeeps
  <1>5. Fresh(c) /\ Intact(c) /\ Held(b, c) BY <1>4, DevCfgIs DEF b
  <1> HIDE DEF c
  <1>6. Typed(u) /\ But(c, u, {"drvr", "frozen"}) BY <1>5 DEF Fresh, Base, Typed, But, Keys
  <1> HIDE DEF u
  <1>7. Done(c, u) BY <1>5, <1>6, EnteredIs DEF Fresh
  <1>8. Done(t, u) BY <1>1, <1>4, <1>5, <1>7 DEF Done, Good, Kept, Held
  <1> QED BY <1>8 DEF u, c

\* ... and all of it.
LEMMA DrvrStateIsDone ==
    ASSUME NEW t, Intact(t), NEW r, NEW o \in sdmmc_drvr_state_devctl(t, r)
    PROVE  Done(t, o[1])
  <1> DEFINE P3(u) == Ret([[u EXCEPT !.drvr = r.arg] EXCEPT !.frozen = @ \cup {r.part}], "EOK")
             P2(u, rc) == IF rc # "EOK" THEN Ret(u, "EIO") ELSE Anyway(sdmmc_pm(u, "IDLE"), P3)
             P == Look(sdmmc_dev_dcfg(t), P2)
             R3(v) == Ret([v EXCEPT !.drvr = r.arg], "EOK")
             R2(u) == Anyway(sdmmc_dev_cfg(u), R3)
             R1(u) == Anyway(sdio_reset(Note(u, u.cached, "unmarked")), R2)
             R == Anyway(sdmmc_pm(t, "ACTIVE"), R1)
  <1>1. o \in IfReady(t, r, IF r.arg = "PAUSE" THEN P ELSE R) BY DEF sdmmc_drvr_state_devctl
  <1> HIDE DEF P, R
  <1>2. o[1] = t \/ (r.arg = "PAUSE" /\ o \in P) \/ o \in R
    <2> DEFINE O == IF r.arg = "PAUSE" THEN P ELSE R
    <2>1. o \in O => (r.arg = "PAUSE" /\ o \in P) \/ o \in R OBVIOUS
    <2> HIDE DEF O
    <2>2. o[1] = t \/ o \in O BY <1>1, ReadyOr DEF O
    <2> QED BY <2>1, <2>2
  <1>3. CASE o[1] = t BY <1>3, DoneSelf
  <1>4. CASE r.arg = "PAUSE" /\ o \in P
    <2> HIDE DEF P2
    <2>1. PICK w \in sdmmc_dev_dcfg(t) : o \in P2(w[1], w[2]) BY <1>4 DEF P, Look
    <2>2. Good(t, w[1]) BY DevDcfgIs
    <2> HIDE DEF P3
    <2>3. o \in Ret(w[1], "EIO") \/ o \in Anyway(sdmmc_pm(w[1], "IDLE"), P3) BY <2>1 DEF P2
    <2>4. CASE o \in Ret(w[1], "EIO")
      <3>1. o[1] = w[1] BY <2>4, RetIs
      <3> QED BY <2>2, <3>1, DoneGood
    <2>5. CASE o \in Anyway(sdmmc_pm(w[1], "IDLE"), P3)
      <3>1. PICK x \in sdmmc_pm(w[1], "IDLE") : o \in P3(x[1]) BY <2>5 DEF Anyway
      <3> DEFINE u == [[x[1] EXCEPT !.drvr = r.arg] EXCEPT !.frozen = @ \cup {r.part}]
      <3>2. o[1] = u
        <4>1. o \in Ret(u, "EOK") BY <3>1 DEF P3
        <4>2. o = <<u, "EOK">> BY <4>1 DEF Ret
        <4> QED BY <4>2
      <3>3. Done(w[1], u) BY <1>4, <2>2, PauseIsDone DEF Good
      <3> HIDE DEF u
      <3> QED BY <2>2, <3>2, <3>3, DoneGood, DoneTrans
    <2> QED BY <2>3, <2>4, <2>5
  <1>5. CASE o \in R
    <2> HIDE DEF R1
    <2>1. PICK w \in sdmmc_pm(t, "ACTIVE") : o \in R1(w[1]) BY <1>5 DEF R, Anyway
    <2>2. Good(t, w[1]) BY GoodRests, PmActive DEF Good
    <2> HIDE DEF R2
    <2>3. PICK x \in sdio_reset(Note(w[1], w[1].cached, "unmarked")) : o \in R2(x[1]) BY <2>1 DEF R1, Anyway
    <2> HIDE DEF R3
    <2>4. PICK y \in sdmmc_dev_cfg(x[1]) : o \in R3(y[1]) BY <2>3 DEF R2, Anyway
    <2> DEFINE u == [y[1] EXCEPT !.drvr = r.arg]
    <2>5. o[1] = u
      <3>1. o \in Ret(u, "EOK") BY <2>4 DEF R3
      <3>2. o = <<u, "EOK">> BY <3>1 DEF Ret
      <3> QED BY <3>2
    <2>6. Done(w[1], u) BY <2>2, RunIsDone DEF Good
    <2> HIDE DEF u
    <2> QED BY <2>2, <2>5, <2>6, DoneGood, DoneTrans
  <1> QED BY <1>2, <1>3, <1>4, <1>5

------------------------------------------------------------------------------

\* sdmmc_scsi_io() and sdmmc_devctl().

\* sdmmc_scsi_io() marks the cache dirty before a write.
Dirty(t) == IF "CACHE" \in t.caps /\ Flag(t, "CACHE") THEN Set(t, "VCACHE_DIRTY") ELSE t

\* So a write finds the mark.
LEMMA DirtyIs ==
    ASSUME NEW t, Intact(t)
    PROVE  Done(t, Dirty(t)) /\ DirtyOk(Dirty(t))
  <1>0. Base(t) /\ CacheInv(t) /\ Typed(t) BY DEF Intact, Midway, Base
  <1>1. CASE ~("CACHE" \in t.caps /\ Flag(t, "CACHE"))
    <2>1. Dirty(t) = t BY <1>1 DEF Dirty
    <2> QED BY <1>0, <1>1, <2>1, DoneSelf DEF DirtyOk, CacheInv
  <1>2. CASE "CACHE" \in t.caps /\ Flag(t, "CACHE")
    <2> DEFINE u == Set(t, "VCACHE_DIRTY")
    <2>1. Dirty(t) = u BY <1>2 DEF Dirty
    <2>2. Typed(u) /\ But(t, u, {"eflags"}) /\ u.eflags = t.eflags \cup {"VCACHE_DIRTY"} BY <1>0, SetIs
    <2> HIDE DEF u
    <2>3. /\ u.cached = t.cached /\ u.cacheOn = t.cacheOn /\ u.hist = t.hist /\ u.hpm = t.hpm
          /\ u.wce = t.wce /\ u.caps = t.caps /\ u.wp = t.wp /\ u.card = t.card /\ u.pactive = t.pactive
          /\ u.asec = t.asec /\ u.dtype = t.dtype /\ u.drvr = t.drvr /\ u.inprog = t.inprog /\ u.csec = t.csec
          /\ u.cpart = t.cpart /\ u.bkRun = t.bkRun
      BY <2>2 DEF But, Keys
    <2>4. \A f : Flag(t, f) => Flag(u, f) BY <2>2 DEF Flag
    <2>5. Flag(u, "VCACHE_DIRTY") /\ (Flag(u, "ASSD_INIT") <=> Flag(t, "ASSD_INIT")) BY <2>2 DEF Flag
    <2>6. Base(u) BY <1>0, <2>2, <2>3, <2>4 DEF Base, CacheInv, LossInv, TagInv, Off, Sound, Ghost
    <2>7. Intact(u) BY <2>3, <2>4, <2>5, <2>6 DEF Intact, Midway, Up, PartInv, SecInv, BkInv, Ghost
    <2> QED BY <2>1, <2>3, <2>4, <2>5, <2>7 DEF Done, DirtyOk
  <1> QED BY <1>1, <1>2

\* Reads and writes keep the invariant.
LEMMA ReadWriteIsDone ==
    ASSUME NEW t, Intact(t), NEW r,
           NEW o \in sdmmc_read_write(Dirty(t), r, TRUE) \cup sdmmc_read_write(t, r, FALSE)
    PROVE  Done(t, o[1])
  <1>1. CASE o \in sdmmc_read_write(Dirty(t), r, TRUE)
    <2> DEFINE u == Dirty(t)
    <2>1. Done(t, u) /\ DirtyOk(u) BY DirtyIs
    <2>2. o \in sdmmc_read_write(u, r, TRUE) BY <1>1
    <2> HIDE DEF u
    <2>3. Good(u, o[1]) BY <2>1, <2>2, ReadWriteIsGood DEF Done
    <2> QED BY <2>1, <2>3, DoneGood, DoneTrans
  <1>2. CASE o \in sdmmc_read_write(t, r, FALSE)
    <2>1. Good(t, o[1]) BY <1>2, ReadWriteIsGood
    <2> QED BY <2>1, DoneGood
  <1> QED BY <1>1, <1>2

\* The requests that are answered out of ext ...
Plainly(t, o) == o[1] = t

\* ... change nothing.
LEMMA AnsweredIs ==
    ASSUME NEW t, NEW r,
           NEW o \in sdmmc_inquiry(t, r) \cup sdmmc_spindle(t, r) \cup sdmmc_capacity(t, r)
                       \cup sdmmc_service_action(t, r)
    PROVE  Plainly(t, o)
  <1>1. \E e : o \in Ret(t, e) \cup IfUnitReady(t, r, Ret(t, e))
    BY DEF sdmmc_inquiry, sdmmc_std_inquiry, sdmmc_evpd_inquiry, sdmmc_spindle, sdmmc_capacity, sdmmc_service_action
  <1>2. PICK e : o \in Ret(t, e) \cup IfUnitReady(t, r, Ret(t, e)) BY <1>1
  <1>3. o \in Ret(t, e) \/ o[1] = t BY <1>2, ReadyOr
  <1> QED BY <1>3, RetIs DEF Plainly

\* MODE SELECT and MODE SENSE keep the invariant.
LEMMA ModeIsDone ==
    ASSUME NEW t, Intact(t), NEW r, NEW o \in sdmmc_mode_select(t, r) \cup sdmmc_mode_sense(t, r)
    PROVE  Done(t, o[1])
  <1> DEFINE C == sdmmc_mpage_caching(t, r, TRUE)
             N == sdmmc_mpage_caching(t, r, FALSE)
  <1>1. o \in C \/ \E e : o \in Ret(t, e) \/ o \in IfUnitReady(t, r, Ret(t, e)) \/ o \in IfUnitReady(t, r, N)
    <2> HIDE DEF C, N
    <2> QED BY DEF sdmmc_mode_select, sdmmc_mode_sense, sdmmc_mpage_rw_err, C, N
  <1> HIDE DEF C, N
  <1>2. o \in C \/ (\E e : o \in Ret(t, e)) \/ o[1] = t \/ o \in N BY <1>1, ReadyOr
  <1>3. CASE o \in C BY <1>3, CachingIs DEF C
  <1>4. CASE o \in N BY <1>4, CachingIs DEF N
  <1>5. CASE (\E e : o \in Ret(t, e)) \/ o[1] = t
    <2>1. o[1] = t BY <1>5, RetIs
    <2> QED BY <2>1, DoneSelf
  <1> QED BY <1>2, <1>3, <1>4, <1>5

\* Every SCSI request does, and a SYNCHRONIZE CACHE that succeeds leaves no data in
\* the card.
LEMMA ScsiIsDone ==
    ASSUME NEW t, Intact(t), NEW r, Flag(t, "PRESENT"), NEW o \in sdmmc_scsi_io(t, r)
    PROVE  Done(t, o[1]) /\ (r.op = "SYNC" /\ o[2] = "CMP" => Flushed(o[1]))
  <1>1. CASE r.op = "SYNC"
    <2>1. o \in sdmmc_sync(t, r) BY <1>1 DEF sdmmc_scsi_io
    <2> QED BY <2>1, SyncIs DEF Done, Held
  <1>2. CASE r.op # "SYNC"
    <2>1. \/ \E e : o \in Ret(t, e)
          \/ o \in sdmmc_inquiry(t, r) \cup sdmmc_spindle(t, r) \cup sdmmc_capacity(t, r) \cup sdmmc_service_action(t, r)
          \/ o \in sdmmc_read_write(Dirty(t), r, TRUE) \cup sdmmc_read_write(t, r, FALSE)
          \/ o \in sdmmc_mode_select(t, r) \cup sdmmc_mode_sense(t, r)
          \/ o \in sdmmc_erase12(t, r) \cup sdmmc_write_same(t, r)
          \/ o \in sdmmc_ffu(t, r)
      <3>1. CASE r.op = "WRITE"
        <4>1. o \in sdmmc_read_write(Dirty(t), r, TRUE) BY <3>1 DEF sdmmc_scsi_io, Dirty
        <4> QED BY <4>1
      <3>2. CASE r.op = "READ"
        <4>1. o \in sdmmc_read_write(t, r, FALSE) BY <3>2 DEF sdmmc_scsi_io
        <4> QED BY <4>1
      <3>3. CASE r.op \notin {"READ", "WRITE"} BY <1>2, <3>3 DEF sdmmc_scsi_io
      <3> QED BY <3>1, <3>2, <3>3
    <2>2. CASE \E e : o \in Ret(t, e)
      <3>1. o[1] = t BY <2>2, RetIs
      <3> QED BY <1>2, <3>1, DoneSelf
    <2>3. CASE o \in sdmmc_inquiry(t, r) \cup sdmmc_spindle(t, r) \cup sdmmc_capacity(t, r) \cup sdmmc_service_action(t, r)
      <3>1. o[1] = t BY <2>3, AnsweredIs DEF Plainly
      <3> QED BY <1>2, <3>1, DoneSelf
    <2>4. CASE o \in sdmmc_read_write(Dirty(t), r, TRUE) \cup sdmmc_read_write(t, r, FALSE)
      BY <1>2, <2>4, ReadWriteIsDone
    <2>5. CASE o \in sdmmc_mode_select(t, r) \cup sdmmc_mode_sense(t, r) BY <1>2, <2>5, ModeIsDone
    <2>6. CASE o \in sdmmc_erase12(t, r) \cup sdmmc_write_same(t, r) BY <1>2, <2>6, EraseRequests
    <2>7. CASE o \in sdmmc_ffu(t, r) BY <1>2, <2>7, FfuIsDone
    <2> QED BY <2>1, <2>2, <2>3, <2>4, <2>5, <2>6, <2>7
  <1> QED BY <1>1, <1>2

\* Every devctl() does, and none of them is a SYNCHRONIZE CACHE.
LEMMA DevctlIsDone ==
    ASSUME NEW t, Intact(t), NEW r, NEW o \in sdmmc_devctl(t, r)
    PROVE  Done(t, o[1]) /\ (r.op = "SYNC" => o[2] # "CMP")
  <1>1. CASE r.op = "SYNC"
    <2>1. o \in Ret(t, "EACCES") \/ o \in Ret(t, "EOK") BY <1>1 DEF sdmmc_devctl
    <2>2. o[1] = t /\ o[2] # "CMP" BY <2>1, RetIs
    <2> QED BY <2>2, DoneSelf
  <1>2. CASE r.op # "SYNC"
    <2>1. \/ \E e : o \in Ret(t, e) \/ o \in IfReady(t, r, Ret(t, e))
          \/ o \in sdmmc_erase_devctl(t, r) \cup sdmmc_dsm_devctl(t, r)
          \/ o \in sdmmc_wp_devctl(t, r)
          \/ o \in sdmmc_card_register_devctl(t, r)
          \/ o \in sdmmc_assd_status_devctl(t, r) \cup sdmmc_assd_properties_devctl(t, r)
          \/ o \in sdmmc_assd_control_devctl(t, r)
          \/ o \in sdmmc_assd_apdu_devctl(t, r)
          \/ o \in sdmmc_lock_unlock_devctl(t, r)
          \/ o \in sdmmc_rpmb_devctl(t, r)
          \/ o \in sdmmc_gencmd_devctl(t, r) \cup sdmmc_mancmd_devctl(t, r)
          \/ o \in sdmmc_drvr_state_devctl(t, r)
      BY DEF sdmmc_devctl, sdmmc_device_info_devctl, sdmmc_part_info_devctl, sdmmc_pwr_mgnt_devctl,
             sdmmc_verbosity_devctl, sdmmc_dsn_devctl, sdmmc_rpmb_info_devctl
    <2>2. CASE \E e : o \in Ret(t, e) \/ o \in IfReady(t, r, Ret(t, e))
      <3>1. (\E e : o \in Ret(t, e)) \/ o[1] = t BY <2>2, ReadyOr
      <3>2. o[1] = t BY <3>1, RetIs
      <3> QED BY <1>2, <3>2, DoneSelf
    <2>3. CASE o \in sdmmc_erase_devctl(t, r) \cup sdmmc_dsm_devctl(t, r) BY <1>2, <2>3, EraseRequests
    <2>4. CASE o \in sdmmc_wp_devctl(t, r) BY <1>2, <2>4, WpIsDone
    <2>5. CASE o \in sdmmc_card_register_devctl(t, r) BY <1>2, <2>5, RegisterIsDone
    <2>6. CASE o \in sdmmc_assd_status_devctl(t, r) \cup sdmmc_assd_properties_devctl(t, r)
      BY <1>2, <2>6, AssdStatusIsGood, DoneGood
    <2>7. CASE o \in sdmmc_assd_control_devctl(t, r) BY <1>2, <2>7, AssdControlIsGood, DoneGood
    <2>8. CASE o \in sdmmc_assd_apdu_devctl(t, r) BY <1>2, <2>8, ApduIsGood, DoneGood
    <2>9. CASE o \in sdmmc_lock_unlock_devctl(t, r) BY <1>2, <2>9, LockIsDone
    <2>10. CASE o \in sdmmc_rpmb_devctl(t, r) BY <1>2, <2>10, RpmbIsDone
    <2>11. CASE o \in sdmmc_gencmd_devctl(t, r) \cup sdmmc_mancmd_devctl(t, r) BY <1>2, <2>11, GenIsDone
    <2>12. CASE o \in sdmmc_drvr_state_devctl(t, r) BY <1>2, <2>12, DrvrStateIsDone
    <2> QED BY <2>1, <2>2, <2>3, <2>4, <2>5, <2>6, <2>7, <2>8, <2>9, <2>10, <2>11, <2>12
  <1> QED BY <1>1, <1>2

------------------------------------------------------------------------------

\* The threads.

\* The invariant of the record at any time.
Sane(t) == Parked(t) /\ Flag(t, "PRESENT") /\ ("ASSD" \in t.caps => "SLEEP" \notin t.caps)

\* A request keeps it and leaves the card awake, ...
LEMMA SaneDone == ASSUME NEW t, NEW u, Sane(t), Done(t, u) PROVE Sane(u) /\ Up(u)
  BY GoodRests DEF Sane, Done, Intact, Midway

\* ... as does a good step.
LEMMA SaneGood == ASSUME NEW t, NEW u, Sane(t), Good(t, u) PROVE Sane(u) /\ Up(u)
  BY SaneDone, DoneGood

\* Changes to the loose fields keep it.
LEMMA SaneLoose ==
    ASSUME NEW t, NEW u, Sane(t), Typed(u), But(t, u, Loose), u.hpm = t.hpm
    PROVE  Sane(u) /\ (Up(t) => Up(u)) /\ (Flushed(t) => Flushed(u))
  <1>1. But(t, u, LooseP) BY DEF But, LooseP
  <1>2. u.pm = t.pm BY DEF But, Keys, Loose
  <1>3. /\ Base(u) /\ (PartInv(t) => PartInv(u)) /\ (SecInv(t) => SecInv(u)) /\ (BkInv(t) => BkInv(u))
        /\ u.card = t.card /\ u.cached = t.cached /\ u.hist = t.hist
        /\ u.eflags = t.eflags /\ u.caps = t.caps
    BY <1>1, LooseKeeps DEF Sane, Parked
  <1>4. Rest(u) BY <1>2, <1>3 DEF Sane, Parked, Rest, Ghost
  <1> QED BY <1>3, <1>4 DEF Sane, Parked, Flag, Up, Flushed, Ghost

\* The card is done with its background operation.
LEMMA SaneStopped ==
    ASSUME NEW t, Sane(t), NEW u, Typed(u), But(t, u, {"bkRun", "cbk"}), ~u.bkRun
    PROVE  Sane(u)
  <1>1. /\ u.cached = t.cached /\ u.cacheOn = t.cacheOn /\ u.eflags = t.eflags /\ u.hpm = t.hpm
        /\ u.wce = t.wce /\ u.caps = t.caps /\ u.wp = t.wp /\ u.card = t.card /\ u.pactive = t.pactive
        /\ u.asec = t.asec /\ u.dtype = t.dtype /\ u.hist = t.hist /\ u.inprog = t.inprog /\ u.csec = t.csec
        /\ u.cpart = t.cpart /\ u.drvr = t.drvr /\ u.pm = t.pm
    BY DEF But, Keys
  <1>2. Base(u) BY <1>1 DEF Sane, Parked, Base, CacheInv, LossInv, TagInv, Off, Sound, Ghost, Flag
  <1> QED BY <1>1, <1>2 DEF Sane, Parked, Rest, PartInv, SecInv, BkInv, Ghost, Flag

\* A card that was just attached is where the configuration starts, ...
LEMMA AttachedIs ==
    ASSUME NEW c, NEW opts
    PROVE  LET t == Attached(c, opts) IN Fresh(t) /\ NoCache(t) /\ t.caps = c.caps
  <1> DEFINE t == Attached(c, opts)
  <1>1. /\ Typed(t) /\ t.hist = {} /\ t.cached = FALSE /\ t.cacheOn = FALSE /\ t.asec = "none" /\ t.caps = c.caps
        /\ t.cpart = User /\ t.pactive = User /\ t.bkRun = FALSE /\ t.hpm = "IDLE"
    BY DEF Attached, Typed, Keys, None
  <1> HIDE DEF t
  <1>2. Base(t) BY <1>1 DEF Base, CacheInv, LossInv, TagInv, Off, Sound, Ghost
  <1>3. Fresh(t) /\ NoCache(t) BY <1>1, <1>2 DEF Fresh, Up, PartInv, NoCache
  <1> QED BY <1>1, <1>3 DEF t

\* ... and the module starts in the invariant.
LEMMA InitIsSane ==
    ASSUME NEW c \in Cards, NEW opts, NEW o \in sdmmc_dev_cfg(Attached(c, opts))
    PROVE  Sane(Set(o[1], "PRESENT"))
  <1> DEFINE t == Attached(c, opts)
             a == o[1]
             u == Set(a, "PRESENT")
  <1>1. Fresh(t) /\ NoCache(t) /\ t.caps = c.caps BY AttachedIs
  <1>2. Intact(a) /\ a.caps = c.caps
    <2>1. o \in sdmmc_dev_cfg(t) OBVIOUS
    <2> HIDE DEF t
    <2> QED BY <1>1, <2>1, DevCfgIs DEF Held
  <1> HIDE DEF a
  <1>3. Typed(u) /\ But(a, u, {"eflags"}) /\ u.eflags = a.eflags \cup {"PRESENT"} BY <1>2, SetIs DEF Intact, Midway, Base
  <1> HIDE DEF u
  <1>4. /\ u.cached = a.cached /\ u.cacheOn = a.cacheOn /\ u.hist = a.hist /\ u.hpm = a.hpm
        /\ u.wce = a.wce /\ u.caps = a.caps /\ u.wp = a.wp /\ u.card = a.card /\ u.pactive = a.pactive
        /\ u.asec = a.asec /\ u.dtype = a.dtype /\ u.drvr = a.drvr /\ u.inprog = a.inprog /\ u.csec = a.csec
        /\ u.cpart = a.cpart /\ u.bkRun = a.bkRun
    BY <1>3 DEF But, Keys
  <1>5. \A f : f # "PRESENT" => (Flag(u, f) <=> Flag(a, f)) BY <1>3 DEF Flag
  <1>6. Base(u) BY <1>2, <1>3, <1>4, <1>5 DEF Intact, Midway, Base, CacheInv, LossInv, TagInv, Off, Sound, Ghost
  <1>7. Intact(u) BY <1>2, <1>4, <1>5, <1>6 DEF Intact, Midway, Up, PartInv, SecInv, BkInv, Ghost
  <1>8. Flag(u, "PRESENT") BY <1>3 DEF Flag
  <1>9. Parked(u) BY <1>7, GoodRests
  <1>10. "ASSD" \in u.caps => "SLEEP" \notin u.caps BY <1>2, <1>4, CardsAssumption
  <1>11. Sane(u) BY <1>8, <1>9, <1>10 DEF Sane
  <1> QED BY <1>11 DEF u, a

----------------------------------------------------------------------------

\* What the driver thread does to the record: a request, ...
Work(t, r) == Anyway(sdmmc_pm(t, "ACTIVE"), LAMBDA u : IF r.scsi THEN sdmmc_scsi_io(u, r) ELSE sdmmc_devctl(u, r))

\* ... which keeps the invariant, and leaves no data behind if it was a successful
\* SYNCHRONIZE CACHE, ...
LEMMA WorkIs ==
    ASSUME NEW t, Sane(t), NEW r, NEW o \in Work(t, r)
    PROVE  Sane(o[1]) /\ Up(o[1]) /\ (r.op = "SYNC" /\ o[2] = "CMP" => Flushed(o[1]))
  <1>1. PICK w \in sdmmc_pm(t, "ACTIVE") : o \in IF r.scsi THEN sdmmc_scsi_io(w[1], r) ELSE sdmmc_devctl(w[1], r)
    BY DEF Work, Anyway
  <1>2. Intact(w[1]) /\ Kept(t, w[1]) BY PmActive DEF Sane
  <1>3. Done(t, w[1]) BY <1>2, DoneGood DEF Good
  <1>4. Flag(w[1], "PRESENT") BY <1>3 DEF Done, Sane
  <1>5. Done(w[1], o[1]) /\ (r.op = "SYNC" /\ o[2] = "CMP" => Flushed(o[1]))
    <2>1. CASE r.scsi
      <3>1. o \in sdmmc_scsi_io(w[1], r) BY <1>1, <2>1
      <3> QED BY <1>2, <1>4, <3>1, ScsiIsDone
    <2>2. CASE ~r.scsi
      <3>1. o \in sdmmc_devctl(w[1], r) BY <1>1, <2>2
      <3> QED BY <1>2, <3>1, DevctlIsDone
    <2> QED BY <2>1, <2>2
  <1> QED BY <1>3, <1>5, DoneTrans, SaneDone

\* ... what follows a request, ...
Post(t) == Look(sdio_retune(t), LAMBDA u, rc : IF rc = "EOK" THEN Ret(u, rc) ELSE sdmmc_reset(u))

\* ... which keeps it, ...
LEMMA PostIs ==
    ASSUME NEW t, Sane(t), Up(t), NEW o \in Post(t)
    PROVE  Sane(o[1])
  <1>1. Intact(t) BY DEF Sane, Parked, Intact, Midway
  <1>2. PICK w \in sdio_retune(t) : o \in IF w[2] = "EOK" THEN Ret(w[1], w[2]) ELSE sdmmc_reset(w[1]) BY DEF Post, Look
  <1>3. Good(t, w[1]) BY <1>1, RetuneIsEasy, GoodEasy DEF Intact
  <1>4. CASE w[2] = "EOK"
    <2>1. o \in Ret(w[1], w[2]) BY <1>2, <1>4
    <2>2. o[1] = w[1] BY <2>1, RetIs
    <2> QED BY <1>3, <2>2, SaneGood
  <1>5. CASE w[2] # "EOK"
    <2>1. o \in sdmmc_reset(w[1]) BY <1>2, <1>5
    <2>2. Good(w[1], o[1]) BY <1>3, <2>1, ResetIsGood DEF Good, Intact, Midway
    <2> QED BY <1>3, <2>2, GoodTrans, SaneGood
  <1> QED BY <1>4, <1>5

\* ... and a pulse, ...
Pulsed(t, p) == CASE p = "ENQUEUE" -> Ret(t, "EOK")
                  [] p = "TIMER" -> IF t.pm = "ACTIVE" THEN sdmmc_bkops(t, TRUE) ELSE Ret(t, "EOK")
                  [] p = "PM" -> sdmmc_timer(t)

\* ... which keeps it.
LEMMA PulsedIs ==
    ASSUME NEW t, Sane(t), NEW p \in {"ENQUEUE", "TIMER", "PM"}, NEW o \in Pulsed(t, p)
    PROVE  Sane(o[1])
  <1>1. \/ o \in Ret(t, "EOK")
        \/ t.pm = "ACTIVE" /\ o \in sdmmc_bkops(t, TRUE)
        \/ o \in sdmmc_timer(t)
    <2>1. CASE p = "ENQUEUE" BY <2>1 DEF Pulsed
    <2>2. CASE p = "TIMER"
      <3>1. o \in IF t.pm = "ACTIVE" THEN sdmmc_bkops(t, TRUE) ELSE Ret(t, "EOK") BY <2>2 DEF Pulsed
      <3> QED BY <3>1
    <2>3. CASE p = "PM" BY <2>3 DEF Pulsed
    <2> QED BY <2>1, <2>2, <2>3
  <1>2. CASE o \in Ret(t, "EOK") BY <1>2, RetIs
  <1>3. CASE t.pm = "ACTIVE" /\ o \in sdmmc_bkops(t, TRUE)
    <2>1. Intact(t) BY <1>3, RestUp DEF Sane
    <2>2. Good(t, o[1]) BY <1>3, <2>1, BkopsIs
    <2> QED BY <2>2, SaneGood
  <1>4. CASE o \in sdmmc_timer(t)
    <2>1. Parked(o[1]) /\ Held(t, o[1]) BY <1>4, TimerIs DEF Sane
    <2> QED BY <2>1 DEF Sane, Held
  <1> QED BY <1>1, <1>2, <1>3, <1>4

\* Where the driver thread is.
Stages == {"receive", "start", "run", "post"}

\* Where the threads are: the driver thread has a request only while it works on one.
Threads == /\ dpc \in Stages /\ pulses \subseteq {"ENQUEUE", "TIMER", "PM"}
           /\ cpc \in [Clients -> {"idle", "check", "waiting"}]
           /\ dpc \in {"receive", "start"} => nexus = None

\* A SYNCHRONIZE CACHE that was answered with success left no data in the card.
Answered == last = [op |-> "SYNC", status |-> "CMP"] /\ dpc = "post" => Flushed(s)

\* The inductive invariant.
SimInv == Sane(s) /\ (dpc = "post" => Up(s)) /\ Answered /\ Threads /\ NoLostWakeup

\* It holds when the module was started.
LEMMA InitSim == Init => SimInv
  <1> SUFFICES ASSUME Init PROVE SimInv OBVIOUS
  <1>1. PICK c \in Cards, opts \in Options : \E o \in sdmmc_dev_cfg(Attached(c, opts)) : s = Set(o[1], "PRESENT")
    BY DEF Init
  <1>2. Sane(s) BY <1>1, InitIsSane
  <1>3. Threads /\ dpc = "receive" BY DEF Init, Threads, Stages
  <1>4. NoLostWakeup BY DEF Init, NoLostWakeup, Startable
  <1> QED BY <1>2, <1>3, <1>4 DEF SimInv, Answered

\* A step that changes the record where nobody looks.
Idle == Sane(s)' /\ (Up(s) => Up(s)') /\ (Flushed(s) => Flushed(s)')

\* A change to the loose fields is one, ...
LEMMA LooseStep == ASSUME SimInv, Typed(s'), But(s, s', Loose), s'.hpm = s.hpm PROVE Idle
  BY SaneLoose DEF Idle, SimInv

\* ... and so is no change.
LEMMA SameStep == ASSUME SimInv, s' = s PROVE Idle
  BY DEF Idle, SimInv

\* The record is what it should be.
LEMMA TypS == ASSUME SimInv PROVE Typed(s)
  BY DEF SimInv, Sane, Parked, Base

\* What can be started is a matter of the queue and of frozen.
LEMMA StartableSame == ASSUME queue' = queue, req' = req, s'.frozen = s.frozen PROVE Startable' = Startable
  BY DEF Startable

\* A client queues a request, ...
LEMMA ActionStep == ASSUME SimInv, NEW c \in Clients, NEW r, sdmmc_sim_action(c, r) PROVE SimInv'
  <1>1. Idle BY SameStep DEF sdmmc_sim_action
  <1>2. Threads' BY DEF sdmmc_sim_action, SimInv, Threads
  <1>3. NoLostWakeup'
    <2>1. cpc'[c] = "check" BY DEF sdmmc_sim_action, SimInv, Threads
    <2>2. dpc' = "receive" => nexus' = None BY <1>2 DEF Threads
    <2> QED BY <2>1, <2>2 DEF NoLostWakeup
  <1>4. dpc' = dpc /\ last' = last BY DEF sdmmc_sim_action
  <1> QED BY <1>1, <1>2, <1>3, <1>4 DEF SimInv, Answered, Idle

\* ... wakes the driver thread if it is idle, ...
LEMMA PulseStep == ASSUME SimInv, NEW c \in Clients, PulseIfIdle(c) PROVE SimInv'
  <1>1. Idle BY SameStep DEF PulseIfIdle
  <1>2. Threads' BY DEF PulseIfIdle, SimInv, Threads
  <1>3. NoLostWakeup'
    <2>1. dpc = "receive" => pulses' # {} BY DEF PulseIfIdle, SimInv, Threads
    <2> QED BY <2>1 DEF NoLostWakeup, PulseIfIdle
  <1>4. dpc' = dpc /\ last' = last BY DEF PulseIfIdle
  <1> QED BY <1>1, <1>2, <1>3, <1>4 DEF SimInv, Answered, Idle

\* ... or asks for a state of the driver.
LEMMA DevctlStep == ASSUME SimInv, NEW c \in Clients, NEW r, sdmmc_sim_action_devctl(c, r) PROVE SimInv'
  <1>1. dpc' = dpc /\ last' = last /\ nexus' = nexus BY DEF sdmmc_sim_action_devctl
  <1>2. CASE s.drvr = r.arg /\ UNCHANGED <<s, queue, req, cpc, pulses>>
    <2>1. Idle BY <1>2, SameStep
    <2>2. Threads' BY <1>1, <1>2 DEF SimInv, Threads
    <2>3. NoLostWakeup' BY <1>1, <1>2, StartableSame DEF SimInv, NoLostWakeup
    <2> QED BY <1>1, <2>1, <2>2, <2>3 DEF SimInv, Answered, Idle
  <1>3. CASE cpc' = [cpc EXCEPT ![c] = "check"] /\ UNCHANGED <<s, pulses>>
    <2>1. Idle BY <1>3, SameStep
    <2>2. Threads' BY <1>1, <1>3 DEF SimInv, Threads
    <2>3. NoLostWakeup'
      <3>1. cpc'[c] = "check" BY <1>3 DEF SimInv, Threads
      <3>2. dpc' = "receive" => nexus' = None BY <2>2 DEF Threads
      <3> QED BY <3>1, <3>2 DEF NoLostWakeup
    <2> QED BY <1>1, <2>1, <2>2, <2>3 DEF SimInv, Answered, Idle
  <1>4. CASE cpc' = [cpc EXCEPT ![c] = "waiting"] /\ sdmmc_rel_simq(r.part)
    <2> DEFINE u == [s EXCEPT !.frozen = @ \ {r.part}]
    <2>1. s' = u /\ pulses' = pulses \cup {"ENQUEUE"} BY <1>4 DEF sdmmc_rel_simq
    <2>2. Typed(u) /\ But(s, u, Loose) /\ u.hpm = s.hpm BY TypS DEF Typed, But, Keys, Loose
    <2> HIDE DEF u
    <2>3. Idle BY <2>1, <2>2, LooseStep
    <2>4. Threads' BY <1>1, <1>4, <2>1 DEF SimInv, Threads
    <2>5. NoLostWakeup' BY <2>1 DEF NoLostWakeup
    <2> QED BY <1>1, <2>3, <2>4, <2>5 DEF SimInv, Answered, Idle
  <1> QED BY <1>2, <1>3, <1>4 DEF sdmmc_sim_action_devctl

\* The driver thread takes a request, ...
LEMMA DequeueStep == ASSUME SimInv, Dequeue PROVE SimInv'
  <1>1. Idle BY SameStep DEF Dequeue
  <1>2. Threads' BY DEF Dequeue, SimInv, Threads, Stages
  <1>3. dpc' # "post" BY DEF Dequeue
  <1>4. NoLostWakeup'
    <2>1. CASE Startable = {}
      <3>1. Startable' = {} BY <2>1, StartableSame DEF Dequeue
      <3> QED BY <3>1 DEF NoLostWakeup
    <2>2. CASE Startable # {} BY <2>2 DEF Dequeue, NoLostWakeup
    <2> QED BY <2>1, <2>2
  <1> QED BY <1>1, <1>2, <1>3, <1>4 DEF SimInv, Answered, Idle

\* ... works on it, ...
LEMMA RunStep == ASSUME SimInv, RunCcb PROVE SimInv'
  <1> DEFINE r == req[nexus]
  <1>1. PICK o \in Work(s, r) : s' = o[1] /\ last' = [op |-> r.op, status |-> o[2]] BY DEF RunCcb, Work
  <1> HIDE DEF r
  <1>2. Sane(o[1]) /\ Up(o[1]) /\ (r.op = "SYNC" /\ o[2] = "CMP" => Flushed(o[1])) BY WorkIs DEF SimInv
  <1>3. dpc' = "post" BY DEF RunCcb
  <1>4. Threads' BY DEF RunCcb, SimInv, Threads, Stages
  <1>5. Answered' BY <1>1, <1>2 DEF Answered
  <1>6. NoLostWakeup' BY <1>3 DEF NoLostWakeup
  <1> QED BY <1>1, <1>2, <1>4, <1>5, <1>6 DEF SimInv

\* ... answers it and wakes itself if there is more to do, ...
LEMMA PostStep == ASSUME SimInv, sdmmc_post_ccb PROVE SimInv'
  <1>1. \E o \in Post(s) : s' = o[1] BY DEF sdmmc_post_ccb, Post
  <1>2. Sane(s)' BY <1>1, PostIs DEF SimInv, sdmmc_post_ccb
  <1>3. dpc' \in {"receive", "start"} /\ nexus' = None /\ (dpc' = "receive" => pulses' # {})
    BY DEF sdmmc_post_ccb
  <1>4. Threads'
    <2>1. pulses' \subseteq {"ENQUEUE", "TIMER", "PM"} BY DEF sdmmc_post_ccb, SimInv, Threads
    <2>2. cpc' \in [Clients -> {"idle", "check", "waiting"}] BY DEF sdmmc_post_ccb, SimInv, Threads
    <2> QED BY <1>3, <2>1, <2>2 DEF Threads, Stages
  <1>5. NoLostWakeup' BY <1>3 DEF NoLostWakeup
  <1> QED BY <1>2, <1>3, <1>4, <1>5 DEF SimInv, Answered

\* ... or takes a pulse.
LEMMA ThreadStep == ASSUME SimInv, sdmmc_driver_thread PROVE SimInv'
  <1>1. PICK p \in pulses : \E o \in Pulsed(s, p) : s' = o[1] BY DEF sdmmc_driver_thread, Pulsed
  <1>2. p \in {"ENQUEUE", "TIMER", "PM"} BY DEF SimInv, Threads
  <1>3. Sane(s)' BY <1>1, <1>2, PulsedIs DEF SimInv
  <1>4. dpc' = "start" /\ nexus' = None BY DEF sdmmc_driver_thread, SimInv, Threads
  <1>5. Threads' BY <1>4 DEF sdmmc_driver_thread, SimInv, Threads, Stages
  <1>6. NoLostWakeup' BY <1>4 DEF NoLostWakeup
  <1> QED BY <1>3, <1>4, <1>5, <1>6 DEF SimInv, Answered

\* A timer sends its pulse.
LEMMA TimerStep == ASSUME SimInv, NEW p \in {"TIMER", "PM"}, TimerFires(p) PROVE SimInv'
  <1>1. Idle
    <2> DEFINE u == [s EXCEPT !.timer = "off"]
    <2>1. s' = u \/ s' = s BY DEF TimerFires
    <2>2. Typed(u) /\ But(s, u, Loose) /\ u.hpm = s.hpm BY TypS DEF Typed, But, Keys, Loose
    <2> HIDE DEF u
    <2> QED BY <2>1, <2>2, LooseStep, SameStep
  <1>2. dpc' = dpc /\ last' = last BY DEF TimerFires
  <1>3. Threads' BY DEF TimerFires, SimInv, Threads
  <1>4. NoLostWakeup' BY DEF TimerFires, NoLostWakeup
  <1> QED BY <1>1, <1>2, <1>3, <1>4 DEF SimInv, Answered, Idle

\* The card ends its background operation, or needs one.
LEMMA BkopsStep == ASSUME SimInv, CardBkops PROVE SimInv'
  <1>1. Sane(s)' /\ s'.frozen = s.frozen
    <2>0. Typed(s) BY TypS
    <2>1. CASE s' = [s EXCEPT !.bkRun = FALSE, !.cbk = 0]
      <3> DEFINE u == [s EXCEPT !.bkRun = FALSE, !.cbk = 0]
      <3>1. Typed(u) /\ But(s, u, {"bkRun", "cbk"}) /\ u.bkRun = FALSE BY <2>0 DEF Typed, But, Keys
      <3> HIDE DEF u
      <3>2. Sane(u) /\ u.frozen = s.frozen BY <3>1, SaneStopped DEF SimInv, But, Keys
      <3> QED BY <2>1, <3>2 DEF u
    <2>2. ASSUME NEW n, s' = [s EXCEPT !.cbk = n] PROVE Sane(s)' /\ s'.frozen = s.frozen
      <3> DEFINE u == [s EXCEPT !.cbk = n]
      <3>1. Typed(u) /\ But(s, u, {"cbk"}) BY <2>0 DEF Typed, But, Keys
      <3> HIDE DEF u
      <3>2. But(s, u, Loose) /\ u.hpm = s.hpm /\ u.frozen = s.frozen BY <3>1 DEF But, Keys, Loose
      <3>3. Sane(u) BY <3>1, <3>2, SaneLoose DEF SimInv
      <3> QED BY <2>2, <3>2, <3>3 DEF u
    <2> QED BY <2>1, <2>2 DEF CardBkops
  <1>2. dpc' = "receive" /\ dpc = "receive" BY DEF CardBkops
  <1>3. Threads' BY DEF CardBkops, SimInv, Threads
  <1>4. NoLostWakeup'
    <2>1. Startable' = Startable BY <1>1, StartableSame DEF CardBkops
    <2> QED BY <2>1 DEF CardBkops, SimInv, NoLostWakeup
  <1> QED BY <1>1, <1>2, <1>3, <1>4 DEF SimInv, Answered

\* The bus needs to be tuned again.
LEMMA TuningStep == ASSUME SimInv, NeedsTuning PROVE SimInv'
  <1>1. Idle
    <2> DEFINE u == [s EXCEPT !.tune = TRUE]
    <2>1. s' = u BY DEF NeedsTuning
    <2>2. Typed(u) /\ But(s, u, Loose) /\ u.hpm = s.hpm BY TypS DEF Typed, But, Keys, Loose
    <2> HIDE DEF u
    <2> QED BY <2>1, <2>2, LooseStep
  <1>2. dpc' = "post" /\ dpc = "post" /\ last' = last BY DEF NeedsTuning
  <1>3. Threads' BY DEF NeedsTuning, SimInv, Threads
  <1>4. NoLostWakeup' BY <1>2 DEF NoLostWakeup
  <1> QED BY <1>1, <1>2, <1>3, <1>4 DEF SimInv, Answered, Idle

\* Every step keeps the invariant, ...
LEMMA NextSim == SimInv /\ [Next]_vars => SimInv'
  <1> SUFFICES ASSUME SimInv, [Next]_vars PROVE SimInv' OBVIOUS
  <1>1. ASSUME NEW c \in Clients, NEW r \in Requests[s.use],
               sdmmc_sim_action(c, r) \/ sdmmc_sim_action_devctl(c, r)
        PROVE  SimInv'
    BY <1>1, ActionStep, DevctlStep
  <1>2. ASSUME NEW c \in Clients, PulseIfIdle(c) PROVE SimInv' BY <1>2, PulseStep
  <1>3. CASE Driver BY <1>3, DequeueStep, RunStep, PostStep, ThreadStep DEF Driver
  <1>4. CASE TimerFires("TIMER") \/ TimerFires("PM") BY <1>4, TimerStep
  <1>5. CASE CardBkops \/ NeedsTuning BY <1>5, BkopsStep, TuningStep
  <1>6. CASE UNCHANGED vars
    <2>1. Idle BY <1>6, SameStep DEF vars
    <2>2. Threads' BY <1>6 DEF vars, SimInv, Threads
    <2>3. NoLostWakeup' BY <1>6 DEF vars, SimInv, NoLostWakeup, Startable
    <2> QED BY <1>6, <2>1, <2>2, <2>3 DEF SimInv, Answered, Idle, vars
  <1> QED BY <1>1, <1>2, <1>3, <1>4, <1>5, <1>6 DEF Next

\* ... so that it always holds.
LEMMA SimSafe == Spec => []SimInv
  <1> QED BY InitSim, NextSim, PTL DEF Spec

\* DataIsSafe: data that was written is on the medium once a SYNCHRONIZE CACHE has
\* succeeded; it is lost before that only with a partition that is marked for it or
\* with an answer that was lost; for every card, every option, every controller
\* feature and any number of clients, faults and ticks.
THEOREM WrittenIsSafe == Spec => []DataIsSafe
  <1>1. SimInv => DataIsSafe
    <2> SUFFICES ASSUME SimInv PROVE DataIsSafe OBVIOUS
    <2>1. SyncIsStable BY DEF SimInv, Answered, Flushed, Ghost, SyncIsStable
    <2>2. LossIsKnown BY DEF SimInv, Sane, Parked, Base, LossInv, Ghost, LossIsKnown
    <2> QED BY <2>1, <2>2 DEF DataIsSafe
  <1> QED BY <1>1, SimSafe, PTL

\* RequestFindsItsTarget: a transfer, an erase, a frame or a secure command goes to
\* the partition or system it was sent for, and finds no background operation in its
\* way, but for the causes the history names.
THEOREM TargetIsFound == Spec => []RequestFindsItsTarget
  <1>1. SimInv => RequestFindsItsTarget
    BY DEF SimInv, Sane, Parked, Base, TagInv, Ghost, RequestFindsItsTarget, AccessHitsOwnPartition,
           RwInterruptsBkops, ApduReachesSelected
  <1> QED BY <1>1, SimSafe, PTL

\* NoLostWakeup: the driver thread is not left waiting while a request can be
\* started.
THEOREM WakeupsArrive == Spec => []NoLostWakeup
  <1>1. SimInv => NoLostWakeup BY DEF SimInv
  <1> QED BY <1>1, SimSafe, PTL
==============================================================================
