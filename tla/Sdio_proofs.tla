------------------------------ MODULE Sdio_proofs ----------------------------
(***************************************************************************)
(* Proofs about the SDIO core.                                             *)
(*                                                                         *)
(* SdioCmd, for every set of commands, every feature set of the controller *)
(* and any number of retries, polls and ids: the accounting of command     *)
(* objects and features whatever the timing, and that a completion belongs *)
(* to the command it is reported for when answers come within the timeout. *)
(*                                                                         *)
(* SdioConnect, for every command line, every target and any number of     *)
(* controllers and of I/O threads: handles are sound, and a driver that    *)
(* has ended leaves nothing behind.                                        *)
(*                                                                         *)
(* CardInit, for every host, every set of cards and any number of failures *)
(* and of operations: the device has the CID of the card it was set up on. *)
(***************************************************************************)
EXTENDS SdioCmd, SdioConnect, CardInit, FiniteSetTheorems, SequenceTheorems, TLAPS

\* The client is issuing cur; it holds main all the time it is not idle.
Issuing == {"clear", "inhibit", "wait", "abort", "judge"}

\* The list of what is still to be issued names the command being issued.
TodoInv ==
  /\ pc \in Issuing \cup {"post"} => todo # << >>
  /\ pc \in Issuing => (cur = main <=> Head(todo) = "main")
  /\ \A i, j \in 1 .. Len(todo) : todo[i] = "main" /\ todo[j] = "main" => i = j

\* Every command is in the free list once, or with the client.
PrefixOut == pc \in Issuing /\ cur # main

InUse == (IF pc = "idle" THEN 0 ELSE 1) + (IF PrefixOut THEN 1 ELSE 0)

PoolInv ==
  /\ Len(clist) + InUse = made
  /\ \A i \in 1 .. Len(clist) : clist[i] <= made
  /\ \A i, j \in 1 .. Len(clist) : clist[i] = clist[j] => i = j
  /\ pc = "idle" <=> main = None
  /\ main # None => main <= made /\ \A i \in 1 .. Len(clist) : clist[i] # main
  /\ pc \in Issuing => cur # None
  /\ PrefixOut => cur <= made /\ \A i \in 1 .. Len(clist) : clist[i] # cur

\* Nothing says that a card is removed while it is in, so that the return
\* that leaves the features off is not taken.
FeatureInv ==
  /\ ~removed => /\ "rem" \notin is \cup sts /\ hcs # "CARD_REMOVED"
                 /\ \A c \in Cmds : status[c] # "CARD_REMOVED"
                 /\ caps \cup saved = HcCaps
                 /\ pc = "idle" => saved = {}
  /\ (pc # "idle" /\ kind.rlw) => caps = {}

AccountInv == TypeOK /\ TodoInv /\ PoolInv /\ FeatureInv

\* Status bits that complete a command.
Final == {"cc", "tc", "cto", "dcrc"}

\* While the card is in: the slot names the command being issued until that
\* has a status, ...
SlotInv ==
  /\ pc \in {"clear", "inhibit"} => slot = cur /\ status[cur] = "INPROG"
  /\ pc = "wait" =>
       \/ slot = cur /\ status[cur] = "INPROG"
       \/ slot = None /\ status[cur] # "INPROG" /\ is = {} /\ hpc = "idle"
  /\ pc = "abort" => slot \in {cur, None}
  /\ pc \notin Issuing \/ pc = "judge" => slot = None
  /\ ((pc = "post" \/ PrefixOut) /\ \E i \in 1 .. Len(todo) : todo[i] = "main")
       => status[main] = "INPROG"

\* ... a controller that answers works for that command only, and a stopped
\* one has nothing to report that would complete it, ...
LineInv ==
  /\ (~hung /\ (cmdl # 0 \/ datl # 0)) =>
       /\ pc = "wait" /\ slot = cur
       /\ cmdl \in {0, issueOf[cur]} /\ datl \in {0, issueOf[cur]}
       /\ IF ie = "tc" THEN datl # 0 ELSE datl = 0
  /\ (is \cup sts) \cap Final # {} => ~hung /\ cmdl = 0 /\ datl = 0

\* ... and the event thread only has bits of the command in the slot.
EventInv ==
  /\ pc # "wait" => is = {} /\ hpc = "idle"
  /\ is # {} => isId = issueOf[cur]
  /\ hpc # "idle" => stsId = issueOf[cur]
  /\ sts \cap Final # {} => is = {}
  /\ hpc = "cmplt" => hcmd = cur /\ slot = cur

\* A success in hand stays that of the waiting command, also when the card is
\* removed meanwhile.
SuccessInv ==
  /\ hpc = "idle" => sts = {}
  /\ hpc = "cmplt" => hcs = Completion(sts) /\ hcs # "INPROG"
  /\ (removed /\ is \cap {"cc", "tc"} # {}) => "rem" \in is
  /\ Completion(sts) = "CMP" =>
       /\ pc = "wait" /\ slot = cur /\ status[cur] = "INPROG" /\ stsId = issueOf[cur]
       /\ hpc = "cmplt" => hcmd = cur

OwnInv == SuccessInv /\ (~removed => SlotInv /\ LineInv /\ EventInv)

-----------------------------------------------------------------------------
\* The commands of an attempt: at least the command itself, and that once
\* (_sdio_send_cmd).
LEMMA AttemptShape ==
  ASSUME NEW k \in Flags, NEW cs
  PROVE  /\ Attempt(k, cs) \in Seq(Roles) /\ Attempt(k, cs) # << >>
         /\ \A i, j \in 1 .. Len(Attempt(k, cs)) :
              Attempt(k, cs)[i] = "main" /\ Attempt(k, cs)[j] = "main" => i = j
  <1> DEFINE A == IF k.app THEN <<"app">> ELSE << >>
             B == IF k.sbc /\ "ACMD23" \notin cs THEN <<"sbc">> ELSE << >>
             M == <<"main">>
             P == IF k.drdy THEN [i \in 1 .. MaxPolls |-> "drdy"] ELSE << >>
  <1>1. /\ A \in Seq(Roles) /\ Len(A) \in Nat /\ \A i \in 1 .. Len(A) : A[i] # "main"
        /\ B \in Seq(Roles) /\ Len(B) \in Nat /\ \A i \in 1 .. Len(B) : B[i] # "main"
    <2>1. A \in Seq(Roles) /\ (Len(A) = 0 \/ (Len(A) = 1 /\ A[1] = "app"))
      <3>1. CASE k.app
        BY <3>1 DEF Roles
      <3>2. CASE ~k.app
        BY <3>2
      <3> QED BY <3>1, <3>2
    <2>2. B \in Seq(Roles) /\ (Len(B) = 0 \/ (Len(B) = 1 /\ B[1] = "sbc"))
      <3>1. CASE k.sbc /\ "ACMD23" \notin cs
        BY <3>1 DEF Roles
      <3>2. CASE ~(k.sbc /\ "ACMD23" \notin cs)
        BY <3>2
      <3> QED BY <3>1, <3>2
    <2> HIDE DEF A, B
    <2> QED BY <2>1, <2>2
  <1>2. M \in Seq(Roles) /\ Len(M) = 1
    BY DEF Roles
  <1>3. P \in Seq(Roles) /\ Len(P) \in Nat /\ \A i \in 1 .. Len(P) : P[i] # "main"
    BY CmdAssumption DEF Roles
  <1> HIDE DEF A, B, M, P
  <1>c. \A r, t \in Seq(Roles) :
          /\ r \o t \in Seq(Roles) /\ Len(r \o t) = Len(r) + Len(t)
          /\ \A i \in 1 .. Len(r) + Len(t) :
               (r \o t)[i] = IF i <= Len(r) THEN r[i] ELSE t[i - Len(r)]
    BY ConcatProperties
  <1> DEFINE C == A \o B
             E == C \o M
             Z == E \o P
  <1>4. C \in Seq(Roles) /\ Len(C) \in Nat /\ \A i \in 1 .. Len(C) : C[i] # "main"
    BY <1>1, <1>c
  <1> HIDE DEF C
  <1>5. E \in Seq(Roles) /\ Len(E) = Len(C) + 1 /\ \A i \in 1 .. Len(C) : E[i] # "main"
    <2>1. /\ E \in Seq(Roles) /\ Len(E) = Len(C) + Len(M)
          /\ \A i \in 1 .. Len(C) + Len(M) : E[i] = IF i <= Len(C) THEN C[i] ELSE M[i - Len(C)]
      BY <1>2, <1>4, <1>c
    <2> HIDE DEF E
    <2> QED BY <1>2, <1>4, <2>1
  <1> HIDE DEF E
  <1>6. /\ Z \in Seq(Roles) /\ Len(Z) = Len(E) + Len(P) /\ Len(Z) > 0
        /\ \A i \in 1 .. Len(Z) : Z[i] = "main" => i = Len(C) + 1
    <2>1. /\ Z \in Seq(Roles) /\ Len(Z) = Len(E) + Len(P)
          /\ \A i \in 1 .. Len(E) + Len(P) : Z[i] = IF i <= Len(E) THEN E[i] ELSE P[i - Len(E)]
      BY <1>3, <1>5, <1>c
    <2> HIDE DEF Z
    <2>2. ASSUME NEW i \in 1 .. Len(Z), Z[i] = "main"
          PROVE  i = Len(C) + 1
      <3>1. CASE i <= Len(E)
        BY <1>3, <1>4, <1>5, <2>1, <2>2, <3>1
      <3>2. CASE i > Len(E)
        <4>1. i - Len(E) \in 1 .. Len(P) /\ i \in 1 .. Len(E) + Len(P)
          BY <1>3, <1>4, <1>5, <2>1, <2>2, <3>2
        <4>2. Z[i] = P[i - Len(E)]
          BY <1>4, <1>5, <2>1, <3>2, <4>1
        <4> QED BY <1>3, <2>2, <4>1, <4>2
      <3> QED BY <1>4, <1>5, <3>1, <3>2
    <2> QED BY <1>3, <1>4, <1>5, <2>1, <2>2
  <1>7. Attempt(k, cs) = Z
    BY DEF Attempt, A, B, M, P, C, E
  <1> HIDE DEF Z
  <1> QED BY <1>6, <1>7

\* A command taken from the pool, or a new one, was not in use, and there is
\* room for it (sdio_alloc_cmd).
LEMMA Taken ==
  ASSUME TypeOK, PoolInv, ~PrefixOut, Alloc
  PROVE  /\ clist' \in Seq(Cmds) /\ made' \in 0 .. 2 /\ made <= made'
         /\ Allocated \in Cmds /\ Allocated <= made' /\ Allocated # main
         /\ Len(clist') + InUse + 1 = made'
         /\ \A i \in 1 .. Len(clist') : clist'[i] <= made' /\ clist'[i] # Allocated
         /\ \A i, j \in 1 .. Len(clist') : clist'[i] = clist'[j] => i = j
         /\ main # None => \A i \in 1 .. Len(clist') : clist'[i] # main
  <1>1. CASE clist = << >>
    BY <1>1 DEF Alloc, Allocated, PoolInv, InUse, Cmds, None
  <1>2. CASE clist # << >>
    <2>1. /\ Tail(clist) \in Seq(Cmds) /\ Len(Tail(clist)) = Len(clist) - 1
          /\ \A i \in 1 .. Len(Tail(clist)) : Tail(clist)[i] = clist[i + 1]
          /\ Len(clist) \in Nat /\ Len(clist) > 0 /\ Head(clist) = clist[1] /\ Head(clist) \in Cmds
      BY <1>2, HeadTailProperties DEF TypeOK
    <2>2. clist' = Tail(clist) /\ made' = made /\ Allocated = clist[1]
      BY <1>2, <2>1 DEF Alloc, Allocated
    <2>3. \A i \in 1 .. Len(clist') :
            clist'[i] = clist[i + 1] /\ i + 1 \in 1 .. Len(clist) /\ i + 1 # 1
      BY <2>1, <2>2
    <2>4. 1 \in 1 .. Len(clist)
      BY <2>1
    <2>5. /\ Len(clist') + InUse + 1 = made' /\ made' \in 0 .. 2
          /\ Allocated \in Cmds /\ Allocated <= made' /\ Allocated # main
      <3>1. InUse \in Nat /\ Len(clist) + InUse = made /\ made \in 0 .. 2
        BY DEF TypeOK, PoolInv, InUse
      <3>2. Allocated # main
        BY <2>1, <2>2, <2>4 DEF PoolInv, Cmds, None
      <3> QED BY <2>1, <2>2, <2>4, <3>1, <3>2 DEF PoolInv
    <2>6. \A i, j \in 1 .. Len(clist') : clist'[i] = clist'[j] => i = j
      BY <2>1, <2>2, <2>3 DEF PoolInv
    <2>7. /\ \A i \in 1 .. Len(clist') : clist'[i] <= made' /\ clist'[i] # Allocated
          /\ main # None => \A i \in 1 .. Len(clist') : clist'[i] # main
      BY <2>2, <2>3, <2>4 DEF PoolInv
    <2> QED BY <2>1, <2>2, <2>5, <2>6, <2>7 DEF TypeOK
  <1> QED BY <1>1, <1>2

\* A command that goes back was in use and is in the list once (sdio_free_cmd).
LEMMA FreedCmds ==
  ASSUME TypeOK, PoolInv, NEW c \in Cmds, c <= made, Free(c),
         \A i \in 1 .. Len(clist) : clist[i] # c
  PROVE  /\ clist' \in Seq(Cmds) /\ made' = made /\ Len(clist') = Len(clist) + 1
         /\ \A i \in 1 .. Len(clist') : clist'[i] <= made
         /\ \A i, j \in 1 .. Len(clist') : clist'[i] = clist'[j] => i = j
         /\ \A x : (x # c /\ \A i \in 1 .. Len(clist) : clist[i] # x) =>
                     \A i \in 1 .. Len(clist') : clist'[i] # x
  <1>1. /\ Append(clist, c) \in Seq(Cmds) /\ Len(Append(clist, c)) = Len(clist) + 1
        /\ \A i \in 1 .. Len(clist) : Append(clist, c)[i] = clist[i]
        /\ Append(clist, c)[Len(clist) + 1] = c /\ Len(clist) \in Nat
    BY AppendProperties DEF TypeOK
  <1>2. clist' = Append(clist, c) /\ made' = made
    BY DEF Free
  <1>3. \A i \in 1 .. Len(clist') :
          \/ i \in 1 .. Len(clist) /\ clist'[i] = clist[i]
          \/ i = Len(clist) + 1 /\ clist'[i] = c
    BY <1>1, <1>2
  <1> QED BY <1>1, <1>2, <1>3 DEF PoolInv

\* What leaves a prefix command behind has freed it, and ...
LEMMA PrefixFreed ==
  ASSUME TypeOK, PoolInv, pc \in Issuing, FreePrefix, pc' \notin Issuing, pc' # "idle",
         UNCHANGED main
  PROVE  PoolInv' /\ clist' \in Seq(Cmds) /\ made' = made
  <1>1. CASE cur = main
    BY <1>1 DEF FreePrefix, TypeOK, PoolInv, PrefixOut, InUse, pool
  <1>2. CASE cur # main
    <2>1. /\ cur \in Cmds /\ cur <= made /\ Free(cur) /\ PrefixOut
          /\ \A i \in 1 .. Len(clist) : clist[i] # cur
      BY <1>2 DEF FreePrefix, TypeOK, PoolInv, PrefixOut
    <2>2. /\ clist' \in Seq(Cmds) /\ made' = made /\ Len(clist') = Len(clist) + 1
          /\ \A i \in 1 .. Len(clist') : clist'[i] <= made
          /\ \A i, j \in 1 .. Len(clist') : clist'[i] = clist'[j] => i = j
          /\ main # None => \A i \in 1 .. Len(clist') : clist'[i] # main
      BY <1>2, <2>1, FreedCmds DEF PoolInv
    <2> QED BY <2>1, <2>2 DEF PoolInv, PrefixOut, InUse, Issuing
  <1> QED BY <1>1, <1>2

\* ... what returns to the client has freed the client's.
LEMMA Returned ==
  ASSUME TypeOK, PoolInv, pc # "idle", ~PrefixOut, Return
  PROVE  PoolInv' /\ clist' \in Seq(Cmds) /\ made' = made
  <1>1. /\ main \in Cmds /\ main <= made /\ Free(main)
        /\ \A i \in 1 .. Len(clist) : clist[i] # main
    BY DEF Return, TypeOK, PoolInv
  <1>2. /\ clist' \in Seq(Cmds) /\ made' = made /\ Len(clist') = Len(clist) + 1
        /\ \A i \in 1 .. Len(clist') : clist'[i] <= made
        /\ \A i, j \in 1 .. Len(clist') : clist'[i] = clist'[j] => i = j
    BY <1>1, FreedCmds
  <1> QED BY <1>2 DEF Return, PoolInv, PrefixOut, InUse, Issuing

\* The rest of an attempt: the command itself is in it only while it has not
\* been issued.
LEMMA Rest ==
  ASSUME TypeOK, TodoInv, todo # << >>, todo' = Tail(todo)
  PROVE  /\ todo' \in Seq(Roles)
         /\ \A i, j \in 1 .. Len(todo') : todo'[i] = "main" /\ todo'[j] = "main" => i = j
         /\ \A i \in 1 .. Len(todo') : todo'[i] = "main" => Head(todo) # "main"
         /\ (\E i \in 1 .. Len(todo') : todo'[i] = "main") =>
               \E i \in 1 .. Len(todo) : todo[i] = "main"
         /\ Len(todo) > 1 => todo' # << >>
  <1>1. /\ Tail(todo) \in Seq(Roles) /\ Len(Tail(todo)) = Len(todo) - 1
        /\ \A i \in 1 .. Len(Tail(todo)) : Tail(todo)[i] = todo[i + 1]
        /\ Len(todo) \in Nat /\ Len(todo) > 0 /\ Head(todo) = todo[1]
    BY HeadTailProperties DEF TypeOK
  <1>2. \A r : r = << >> => Len(r) = 0
    BY EmptySeq
  <1>3. Len(todo) > 1 => Len(Tail(todo)) # 0
    BY <1>1, SMTT(60)
  <1>4. Len(todo) > 1 => todo' # << >>
    BY <1>2, <1>3, Zenon
  <1> QED BY <1>1, <1>4 DEF TodoInv

\* The controller latches only what happens, and with the bits that are
\* enabled.
LEMMA Latched ==
  ASSUME TypeOK, NEW bits \in SUBSET Bits, NEW id \in 0 .. IdMod, Latch(bits, id)
  PROVE  /\ is' \subseteq Bits /\ isId' \in 0 .. IdMod
         /\ is \subseteq is' /\ is' \subseteq is \cup bits
         /\ is' = is => isId' \in {isId, id}
         /\ is' # is => isId' = id
         /\ "cc" \in is' \ is => ie = "cc"
         /\ is' \cap {"tc", "dcrc", "blk"} # is \cap {"tc", "dcrc", "blk"} => ie # "cc"
         /\ "rem" \in bits => "rem" \in is'
         /\ "cto" \in bits => "cto" \in is' /\ isId' = id
         /\ (ie = "cc" /\ "cc" \in bits) => "cc" \in is' /\ isId' = id
  BY DEF Latch, TypeOK, Bits

\* The inductive step for the accounts, whatever the timing.
LEMMA AccountNext == AccountInv /\ [Next]_vars => AccountInv'
  <1> USE DEF AccountInv
  <1>1. ASSUME AccountInv, Next
        PROVE  AccountInv'
    <2> USE <1>1
    <2>1. CASE \E k \in Kinds, r \in 0 .. MaxRetries : Send(k, r)
      <3>1. TypeOK'
        <4>0. PICK k \in Kinds, r \in 0 .. MaxRetries : Send(k, r)
          BY <2>1
        <4>t. Alloc /\ ~PrefixOut
          BY <4>0 DEF Send, PrefixOut, Issuing
        <4>1. /\ pc' \in {"idle", "attempt", "post", "clear", "inhibit", "wait", "abort", "judge", "done"}
              /\ kind' \in Flags /\ main' \in Cmds \cup {None} /\ cur' \in Cmds \cup {None}
              /\ retries' \in 0 .. MaxRetries /\ saved' \subseteq HcCaps /\ caps' \subseteq HcCaps
          BY <4>0, Taken, <4>t, CmdAssumption DEF TypeOK, Send
        <4>2. tune' \in BOOLEAN /\ hung' \in BOOLEAN /\ removed' \in BOOLEAN
          BY <4>0 DEF TypeOK, Send, lines
        <4>3. todo' \in Seq(Roles) /\ clist' \in Seq(Cmds) /\ made' \in 0 .. 2
          BY <4>0, Taken, <4>t DEF TypeOK, Send
        <4>4. /\ status' \in [Cmds -> CmdStatus] /\ slot' \in Cmds \cup {None}
              /\ hcmd' \in Cmds \cup {None} /\ hcs' \in CmdStatus /\ hpc' \in {"idle", "look", "cmplt"}
          BY <4>0, CmdAssumption DEF TypeOK, Send, hc
        <4>5. /\ is' \subseteq Bits /\ ie' \in {"cc", "tc"} /\ sts' \subseteq Bits
              /\ cmdl' \in 0 .. IdMod /\ datl' \in 0 .. IdMod /\ issued' \in 0 .. IdMod
              /\ issueOf' \in [Cmds -> 0 .. IdMod] /\ isId' \in 0 .. IdMod /\ stsId' \in 0 .. IdMod
          BY <4>0, CmdAssumption DEF TypeOK, Send, lines, hc
        <4> QED BY <4>1, <4>2, <4>3, <4>4, <4>5 DEF TypeOK
      <3>2. TodoInv'
        BY <2>1 DEF TodoInv, Issuing, Send
      <3>3. PoolInv'
        <4>0. PICK k \in Kinds, r \in 0 .. MaxRetries : Send(k, r)
          BY <2>1
        <4>1. Alloc /\ ~PrefixOut /\ pc = "idle" /\ main' = Allocated /\ pc' = "attempt"
          BY <4>0 DEF Send, PrefixOut, Issuing
        <4>2. InUse = 0 /\ InUse' = 1 /\ ~PrefixOut' /\ pc' \notin Issuing
          BY <4>1 DEF PrefixOut, InUse, Issuing
        <4>3. main' # None
          BY <4>1, Taken DEF Cmds, None
        <4> QED BY <4>1, <4>2, <4>3, Taken DEF PoolInv
      <3>4. FeatureInv'
        BY <2>1 DEF FeatureInv, Send, hc
      <3> QED BY <3>1, <3>2, <3>3, <3>4
    <2>2. CASE BeginAttempt
      <3>1. TypeOK'
        <4>1. /\ pc' \in {"idle", "attempt", "post", "clear", "inhibit", "wait", "abort", "judge", "done"}
              /\ kind' \in Flags /\ main' \in Cmds \cup {None} /\ cur' \in Cmds \cup {None}
              /\ retries' \in 0 .. MaxRetries /\ saved' \subseteq HcCaps /\ caps' \subseteq HcCaps
          BY <2>2 DEF TypeOK, BeginAttempt
        <4>2. tune' \in BOOLEAN /\ hung' \in BOOLEAN /\ removed' \in BOOLEAN
          BY <2>2 DEF TypeOK, BeginAttempt, lines
        <4>3. todo' \in Seq(Roles) /\ clist' \in Seq(Cmds) /\ made' \in 0 .. 2
          BY <2>2, AttemptShape DEF TypeOK, BeginAttempt, pool
        <4>4. /\ status' \in [Cmds -> CmdStatus] /\ slot' \in Cmds \cup {None}
              /\ hcmd' \in Cmds \cup {None} /\ hcs' \in CmdStatus /\ hpc' \in {"idle", "look", "cmplt"}
          BY <2>2 DEF TypeOK, BeginAttempt, hc, CmdStatus
        <4>5. /\ is' \subseteq Bits /\ ie' \in {"cc", "tc"} /\ sts' \subseteq Bits
              /\ cmdl' \in 0 .. IdMod /\ datl' \in 0 .. IdMod /\ issued' \in 0 .. IdMod
              /\ issueOf' \in [Cmds -> 0 .. IdMod] /\ isId' \in 0 .. IdMod /\ stsId' \in 0 .. IdMod
          BY <2>2, CmdAssumption DEF TypeOK, BeginAttempt, lines, hc
        <4> QED BY <4>1, <4>2, <4>3, <4>4, <4>5 DEF TypeOK
      <3>2. TodoInv'
        <4>1. kind \in Flags
          BY DEF TypeOK
        <4> QED BY <2>2, <4>1, AttemptShape DEF TodoInv, Issuing, BeginAttempt
      <3>3. PoolInv'
        BY <2>2 DEF PoolInv, InUse, PrefixOut, Issuing, BeginAttempt, pool
      <3>4. FeatureInv'
        BY <2>2 DEF FeatureInv, BeginAttempt, hc
      <3> QED BY <3>1, <3>2, <3>3, <3>4
    <2>3. CASE Post
      <3>1. TypeOK'
        BY <2>3, CmdAssumption DEF TypeOK, PoolInv, Post, pool, lines, hc
      <3>2. TodoInv'
        BY <2>3 DEF TodoInv, Post
      <3>3. PoolInv'
        BY <2>3 DEF PoolInv, InUse, PrefixOut, Issuing, Post, pool
      <3>4. FeatureInv'
        BY <2>3 DEF FeatureInv, Post, hc
      <3> QED BY <3>1, <3>2, <3>3, <3>4
    <2>4. CASE PostPrefix
      <3>1. TypeOK'
        BY <2>4, CmdAssumption
           DEF TypeOK, CmdStatus, PoolInv, InUse, PrefixOut, Issuing, PostPrefix, Alloc,
               Allocated, lines, hc, Cmds
      <3>2. TodoInv'
        BY <2>4, SMTT(60)
           DEF TodoInv, Issuing, PrefixOut, PoolInv, TypeOK, Roles, Bits, CmdStatus, Flags,
               PostPrefix, Alloc, Allocated, lines, hc, None, Cmds
      <3>3. PoolInv'
        <4>1. /\ Alloc /\ ~PrefixOut /\ cur' = Allocated /\ pc' = "clear" /\ UNCHANGED main
              /\ pc = "post"
          BY <2>4 DEF PostPrefix, PrefixOut, Issuing
        <4>2. cur' # None /\ cur' # main'
          BY <4>1, Taken DEF Cmds, None
        <4>3. InUse = 1 /\ InUse' = 2 /\ PrefixOut'
          BY <4>1, <4>2 DEF PrefixOut, InUse, Issuing
        <4>4. main # None => main <= made'
          BY <4>1, Taken, SMTT(60) DEF PoolInv, TypeOK, Cmds
        <4>5. /\ pc' \in Issuing /\ pc' # "idle" /\ UNCHANGED main
              /\ main # None
          BY <4>1 DEF PoolInv, Issuing
        <4>6. Len(clist') + InUse' = made'
          BY <4>1, <4>3, Taken
        <4> QED BY <4>1, <4>2, <4>4, <4>5, <4>6, Taken DEF PoolInv
      <3>4. FeatureInv'
        BY <2>4 DEF FeatureInv, PostPrefix, hc
      <3> QED BY <3>1, <3>2, <3>3, <3>4
    <2>5. CASE ClearStatus
      <3>1. TypeOK'
        BY <2>5, CmdAssumption DEF TypeOK, ClearStatus, pool, lines, hc
      <3>2. TodoInv'
        BY <2>5 DEF TodoInv, Issuing, ClearStatus
      <3>3. PoolInv'
        BY <2>5 DEF PoolInv, InUse, PrefixOut, Issuing, ClearStatus, pool
      <3>4. FeatureInv'
        BY <2>5 DEF FeatureInv, ClearStatus, hc
      <3> QED BY <3>1, <3>2, <3>3, <3>4
    <2>6. CASE XferSetupFails
      <3>1. TypeOK'
        BY <2>6, CmdAssumption DEF TypeOK, XferSetupFails, pool, lines, hc
      <3>2. TodoInv'
        BY <2>6 DEF TodoInv, Issuing, XferSetupFails
      <3>3. PoolInv'
        BY <2>6 DEF PoolInv, InUse, PrefixOut, Issuing, XferSetupFails, pool
      <3>4. FeatureInv'
        BY <2>6 DEF FeatureInv, XferSetupFails, hc
      <3> QED BY <3>1, <3>2, <3>3, <3>4
    <2>7. CASE Issue
      <3>1. TypeOK'
        BY <2>7, CmdAssumption DEF TypeOK, PoolInv, Issuing, Issue, NextId, pool, hc
      <3>2. TodoInv'
        BY <2>7 DEF TodoInv, Issuing, Issue
      <3>3. PoolInv'
        BY <2>7 DEF PoolInv, InUse, PrefixOut, Issuing, Issue, pool
      <3>4. FeatureInv'
        BY <2>7 DEF FeatureInv, Issue, hc
      <3> QED BY <3>1, <3>2, <3>3, <3>4
    <2>8. CASE InhibitTimeout
      <3>1. TypeOK'
        BY <2>8, CmdAssumption DEF TypeOK, InhibitTimeout, pool, lines, hc
      <3>2. TodoInv'
        BY <2>8 DEF TodoInv, Issuing, InhibitTimeout
      <3>3. PoolInv'
        BY <2>8 DEF PoolInv, InUse, PrefixOut, Issuing, InhibitTimeout, pool
      <3>4. FeatureInv'
        BY <2>8 DEF FeatureInv, InhibitTimeout, hc
      <3> QED BY <3>1, <3>2, <3>3, <3>4
    <2>9. CASE WaitDone
      <3>1. TypeOK'
        BY <2>9, CmdAssumption DEF TypeOK, WaitDone, pool, lines, hc
      <3>2. TodoInv'
        BY <2>9 DEF TodoInv, Issuing, WaitDone
      <3>3. PoolInv'
        BY <2>9 DEF PoolInv, InUse, PrefixOut, Issuing, WaitDone, pool
      <3>4. FeatureInv'
        BY <2>9 DEF FeatureInv, WaitDone, hc
      <3> QED BY <3>1, <3>2, <3>3, <3>4
    <2>10. CASE WaitTimeout
      <3>1. TypeOK'
        BY <2>10, CmdAssumption DEF TypeOK, WaitTimeout, pool, lines, hc
      <3>2. TodoInv'
        BY <2>10 DEF TodoInv, Issuing, WaitTimeout
      <3>3. PoolInv'
        BY <2>10 DEF PoolInv, InUse, PrefixOut, Issuing, WaitTimeout, pool
      <3>4. FeatureInv'
        BY <2>10 DEF FeatureInv, WaitTimeout, hc
      <3> QED BY <3>1, <3>2, <3>3, <3>4
    <2>11. CASE Abort
      <3>1. TypeOK'
        BY <2>11, CmdAssumption
           DEF TypeOK, Roles, CmdStatus, PoolInv, InUse, PrefixOut, Issuing, Abort, Free,
               FreePrefix, pool, lines, hc, None
      <3>2. TodoInv'
        BY <2>11 DEF TodoInv, Issuing, Abort
      <3>3. PoolInv'
        <4>1. pc \in Issuing /\ FreePrefix /\ pc' \notin Issuing /\ pc' # "idle" /\ UNCHANGED main
          BY <2>11 DEF Abort, Issuing
        <4> QED BY <4>1, PrefixFreed
      <3>4. FeatureInv'
        BY <2>11 DEF FeatureInv, Abort, hc
      <3> QED BY <3>1, <3>2, <3>3, <3>4
    <2>12. CASE JudgeOk
      <3>1. TypeOK'
        <4>t. pc \in Issuing /\ FreePrefix /\ pc' \notin Issuing /\ pc' # "idle" /\ UNCHANGED main
          BY <2>12 DEF JudgeOk, Issuing
        <4>u. todo # << >>
          BY <2>12 DEF JudgeOk, TodoInv, Issuing
        <4>1. /\ pc' \in {"idle", "attempt", "post", "clear", "inhibit", "wait", "abort", "judge", "done"}
              /\ kind' \in Flags /\ main' \in Cmds \cup {None} /\ cur' \in Cmds \cup {None}
              /\ retries' \in 0 .. MaxRetries /\ saved' \subseteq HcCaps /\ caps' \subseteq HcCaps
          BY <2>12 DEF TypeOK, JudgeOk
        <4>2. tune' \in BOOLEAN /\ hung' \in BOOLEAN /\ removed' \in BOOLEAN
          BY <2>12 DEF TypeOK, JudgeOk, lines
        <4>3. todo' \in Seq(Roles) /\ clist' \in Seq(Cmds) /\ made' \in 0 .. 2
          BY <2>12, <4>t, <4>u, PrefixFreed, Rest DEF TypeOK, JudgeOk
        <4>4. /\ status' \in [Cmds -> CmdStatus] /\ slot' \in Cmds \cup {None}
              /\ hcmd' \in Cmds \cup {None} /\ hcs' \in CmdStatus /\ hpc' \in {"idle", "look", "cmplt"}
          BY <2>12 DEF TypeOK, JudgeOk, hc
        <4>5. /\ is' \subseteq Bits /\ ie' \in {"cc", "tc"} /\ sts' \subseteq Bits
              /\ cmdl' \in 0 .. IdMod /\ datl' \in 0 .. IdMod /\ issued' \in 0 .. IdMod
              /\ issueOf' \in [Cmds -> 0 .. IdMod] /\ isId' \in 0 .. IdMod /\ stsId' \in 0 .. IdMod
          BY <2>12 DEF TypeOK, JudgeOk, lines, hc
        <4> QED BY <4>1, <4>2, <4>3, <4>4, <4>5 DEF TypeOK
      <3>2. TodoInv'
        <4>1. todo # << >> /\ todo' = Tail(todo) /\ pc' \notin Issuing /\ (pc' = "post" => todo' # << >>)
          BY <2>12, HeadTailProperties DEF JudgeOk, TodoInv, Issuing
        <4> QED BY <4>1, Rest DEF TodoInv
      <3>3. PoolInv'
        <4>1. pc \in Issuing /\ FreePrefix /\ pc' \notin Issuing /\ pc' # "idle" /\ UNCHANGED main
          BY <2>12 DEF JudgeOk, Issuing
        <4> QED BY <4>1, PrefixFreed
      <3>4. FeatureInv'
        BY <2>12 DEF FeatureInv, JudgeOk, hc
      <3> QED BY <3>1, <3>2, <3>3, <3>4
    <2>13. CASE PollReady
      <3>1. TypeOK'
        BY <2>13, CmdAssumption
           DEF TypeOK, PoolInv, InUse, PrefixOut, Issuing, PollReady, Free, FreePrefix, pool,
               lines, hc, None
      <3>2. TodoInv'
        BY <2>13 DEF TodoInv, Issuing, PollReady
      <3>3. PoolInv'
        <4>1. pc \in Issuing /\ FreePrefix /\ pc' \notin Issuing /\ pc' # "idle" /\ UNCHANGED main
          BY <2>13 DEF PollReady, Issuing
        <4> QED BY <4>1, PrefixFreed
      <3>4. FeatureInv'
        BY <2>13 DEF FeatureInv, PollReady, hc
      <3> QED BY <3>1, <3>2, <3>3, <3>4
    <2>14. CASE PollAgain
      <3>1. TypeOK'
        BY <2>14, CmdAssumption, SMTT(60)
           DEF TypeOK, Roles, Bits, CmdStatus, Flags, PoolInv, InUse, PrefixOut, TodoInv,
               Issuing, PollAgain, Free, FreePrefix, pool, lines, hc, None, Cmds
      <3>2. TodoInv'
        <4>1. /\ todo # << >> /\ Len(todo) > 1 /\ todo' = Tail(todo) /\ pc' = "post"
              /\ UNCHANGED <<cur, main>>
          BY <2>14 DEF PollAgain, TodoInv, Issuing
        <4> QED BY <4>1, Rest DEF TodoInv, Issuing
      <3>3. PoolInv'
        <4>1. pc \in Issuing /\ FreePrefix /\ pc' \notin Issuing /\ pc' # "idle" /\ UNCHANGED main
          BY <2>14 DEF PollAgain, Issuing
        <4> QED BY <4>1, PrefixFreed
      <3>4. FeatureInv'
        BY <2>14 DEF FeatureInv, PollAgain, hc
      <3> QED BY <3>1, <3>2, <3>3, <3>4
    <2>15. CASE JudgeError
      <3>1. TypeOK'
        <4>t. pc \in Issuing /\ FreePrefix /\ pc' \notin Issuing /\ pc' # "idle" /\ UNCHANGED main
          BY <2>15 DEF JudgeError, Issuing
        <4>1. /\ pc' \in {"idle", "attempt", "post", "clear", "inhibit", "wait", "abort", "judge", "done"}
              /\ kind' \in Flags /\ main' \in Cmds \cup {None} /\ cur' \in Cmds \cup {None}
              /\ retries' \in 0 .. MaxRetries /\ saved' \subseteq HcCaps /\ caps' \subseteq HcCaps
          BY <2>15, CmdAssumption DEF TypeOK, JudgeError
        <4>2. tune' \in BOOLEAN /\ hung' \in BOOLEAN /\ removed' \in BOOLEAN
          BY <2>15 DEF TypeOK, JudgeError, lines
        <4>3. todo' \in Seq(Roles) /\ clist' \in Seq(Cmds) /\ made' \in 0 .. 2
          BY <2>15, <4>t, PrefixFreed DEF TypeOK, JudgeError
        <4>4. /\ status' \in [Cmds -> CmdStatus] /\ slot' \in Cmds \cup {None}
              /\ hcmd' \in Cmds \cup {None} /\ hcs' \in CmdStatus /\ hpc' \in {"idle", "look", "cmplt"}
          BY <2>15 DEF TypeOK, JudgeError, hc
        <4>5. /\ is' \subseteq Bits /\ ie' \in {"cc", "tc"} /\ sts' \subseteq Bits
              /\ cmdl' \in 0 .. IdMod /\ datl' \in 0 .. IdMod /\ issued' \in 0 .. IdMod
              /\ issueOf' \in [Cmds -> 0 .. IdMod] /\ isId' \in 0 .. IdMod /\ stsId' \in 0 .. IdMod
          BY <2>15 DEF TypeOK, JudgeError, lines, hc
        <4> QED BY <4>1, <4>2, <4>3, <4>4, <4>5 DEF TypeOK
      <3>2. TodoInv'
        BY <2>15 DEF TodoInv, Issuing, JudgeError
      <3>3. PoolInv'
        <4>1. pc \in Issuing /\ FreePrefix /\ pc' \notin Issuing /\ pc' # "idle" /\ UNCHANGED main
          BY <2>15 DEF JudgeError, Issuing
        <4> QED BY <4>1, PrefixFreed
      <3>4. FeatureInv'
        BY <2>15 DEF FeatureInv, JudgeError, hc
      <3> QED BY <3>1, <3>2, <3>3, <3>4
    <2>16. CASE JudgeRemoved
      <3>1. TypeOK'
        <4>t. CASE cur = main
          <5>1. pc # "idle" /\ ~PrefixOut /\ Return
            BY <2>16, <4>t DEF JudgeRemoved, PrefixOut
          <5>2. clist' \in Seq(Cmds) /\ made' = made /\ todo' \in Seq(Roles)
            BY <5>1, Returned DEF Return
          <5> QED BY <2>16, <4>t, <5>2, CmdAssumption
                     DEF TypeOK, JudgeRemoved, Return, lines, hc
        <4>u. CASE cur # main
          <5>1. cur \in Cmds /\ cur <= made /\ Free(cur) /\ \A i \in 1 .. Len(clist) : clist[i] # cur
            BY <2>16, <4>u DEF JudgeRemoved, PoolInv, PrefixOut, Issuing, TypeOK
          <5>2. clist' \in Seq(Cmds) /\ made' = made
            BY <5>1, FreedCmds
          <5> QED BY <2>16, <4>u, <5>2 DEF TypeOK, JudgeRemoved, lines, hc
        <4> QED BY <4>t, <4>u
      <3>2. TodoInv'
        <4>1. pc' \in {"idle", "done"} /\ (todo' = todo \/ todo' = << >>)
          BY <2>16 DEF JudgeRemoved, Return
        <4> QED BY <4>1 DEF TodoInv, Issuing
      <3>3. PoolInv'
        <4>1. CASE cur = main
          <5>1. pc # "idle" /\ ~PrefixOut /\ Return
            BY <2>16, <4>1 DEF JudgeRemoved, PrefixOut
          <5> QED BY <5>1, Returned
        <4>2. CASE cur # main
          <5>1. FreePrefix /\ pc \in Issuing /\ pc' = "done" /\ UNCHANGED main
            BY <2>16, <4>2 DEF JudgeRemoved, FreePrefix, Issuing
          <5> QED BY <5>1, PrefixFreed DEF Issuing
        <4> QED BY <4>1, <4>2
      <3>4. FeatureInv'
        <4>1. status[cur] = "CARD_REMOVED" /\ cur \in Cmds
          BY <2>16 DEF JudgeRemoved, PoolInv, Issuing, TypeOK
        <4>2. removed' /\ UNCHANGED <<kind, caps>> /\ (pc' # "idle" => pc # "idle")
          BY <2>16, <4>1 DEF JudgeRemoved, FeatureInv
        <4>3. pc # "idle"
          BY <2>16 DEF JudgeRemoved
        <4> QED BY <4>2, <4>3 DEF FeatureInv
      <3> QED BY <3>1, <3>2, <3>3, <3>4
    <2>17. CASE Done
      <3>1. TypeOK'
        BY <2>17, CmdAssumption DEF TypeOK, PoolInv, Done, Free, Return, lines, hc, Cmds
      <3>2. TodoInv'
        BY <2>17 DEF TodoInv, Issuing, Done, Return
      <3>3. PoolInv'
        <4>1. pc # "idle" /\ ~PrefixOut /\ Return
          BY <2>17 DEF Done, PrefixOut, Issuing
        <4> QED BY <4>1, Returned
      <3>4. FeatureInv'
        BY <2>17 DEF FeatureInv, Done, Return, hc
      <3> QED BY <3>1, <3>2, <3>3, <3>4
    <2>18. CASE IntrRead
      <3>1. TypeOK'
        BY <2>18, CmdAssumption DEF TypeOK, IntrRead, client, pool, lines
      <3>2. TodoInv'
        BY <2>18 DEF TodoInv, IntrRead, client
      <3>3. PoolInv'
        BY <2>18 DEF PoolInv, InUse, PrefixOut, IntrRead, client, pool
      <3>4. FeatureInv'
        BY <2>18 DEF FeatureInv, IntrRead, client
      <3> QED BY <3>1, <3>2, <3>3, <3>4
    <2>19. CASE IntrLook
      <3>1. TypeOK'
        <4>1. /\ pc' \in {"idle", "attempt", "post", "clear", "inhibit", "wait", "abort", "judge", "done"}
              /\ kind' \in Flags /\ main' \in Cmds \cup {None} /\ cur' \in Cmds \cup {None}
              /\ retries' \in 0 .. MaxRetries /\ saved' \subseteq HcCaps /\ caps' \subseteq HcCaps
          BY <2>19 DEF TypeOK, IntrLook, client
        <4>2. tune' \in BOOLEAN /\ hung' \in BOOLEAN /\ removed' \in BOOLEAN
          BY <2>19 DEF TypeOK, IntrLook, client, lines
        <4>3. todo' \in Seq(Roles) /\ clist' \in Seq(Cmds) /\ made' \in 0 .. 2
          BY <2>19 DEF TypeOK, IntrLook, client, pool
        <4>4. /\ status' \in [Cmds -> CmdStatus] /\ slot' \in Cmds \cup {None}
              /\ hcmd' \in Cmds \cup {None} /\ hcs' \in CmdStatus /\ hpc' \in {"idle", "look", "cmplt"}
          BY <2>19 DEF TypeOK, IntrLook, IntrReturn, Completion, CmdStatus
        <4>5. /\ is' \subseteq Bits /\ ie' \in {"cc", "tc"} /\ sts' \subseteq Bits
              /\ cmdl' \in 0 .. IdMod /\ datl' \in 0 .. IdMod /\ issued' \in 0 .. IdMod
              /\ issueOf' \in [Cmds -> 0 .. IdMod] /\ isId' \in 0 .. IdMod /\ stsId' \in 0 .. IdMod
          BY <2>19, CmdAssumption DEF TypeOK, IntrLook, client, pool, lines, IntrReturn
        <4> QED BY <4>1, <4>2, <4>3, <4>4, <4>5 DEF TypeOK
      <3>2. TodoInv'
        BY <2>19 DEF TodoInv, IntrLook, client
      <3>3. PoolInv'
        BY <2>19 DEF PoolInv, InUse, PrefixOut, IntrLook, client, pool
      <3>4. FeatureInv'
        BY <2>19 DEF FeatureInv, IntrLook, IntrReturn, Completion, client
      <3> QED BY <3>1, <3>2, <3>3, <3>4
    <2>20. CASE IntrComplete
      <3>1. TypeOK'
        <4>1. /\ pc' \in {"idle", "attempt", "post", "clear", "inhibit", "wait", "abort", "judge", "done"}
              /\ kind' \in Flags /\ main' \in Cmds \cup {None} /\ cur' \in Cmds \cup {None}
              /\ retries' \in 0 .. MaxRetries /\ saved' \subseteq HcCaps /\ caps' \subseteq HcCaps
          BY <2>20 DEF TypeOK, IntrComplete, client
        <4>2. tune' \in BOOLEAN /\ hung' \in BOOLEAN /\ removed' \in BOOLEAN
          BY <2>20 DEF TypeOK, IntrComplete, client, lines
        <4>3. todo' \in Seq(Roles) /\ clist' \in Seq(Cmds) /\ made' \in 0 .. 2
          BY <2>20 DEF TypeOK, IntrComplete, client, pool
        <4>4. /\ status' \in [Cmds -> CmdStatus] /\ slot' \in Cmds \cup {None}
              /\ hcmd' \in Cmds \cup {None} /\ hcs' \in CmdStatus /\ hpc' \in {"idle", "look", "cmplt"}
          BY <2>20 DEF TypeOK, IntrComplete, IntrReturn, CmdStatus
        <4>5. /\ is' \subseteq Bits /\ ie' \in {"cc", "tc"} /\ sts' \subseteq Bits
              /\ cmdl' \in 0 .. IdMod /\ datl' \in 0 .. IdMod /\ issued' \in 0 .. IdMod
              /\ issueOf' \in [Cmds -> 0 .. IdMod] /\ isId' \in 0 .. IdMod /\ stsId' \in 0 .. IdMod
          BY <2>20, CmdAssumption DEF TypeOK, IntrComplete, lines, IntrReturn
        <4> QED BY <4>1, <4>2, <4>3, <4>4, <4>5 DEF TypeOK
      <3>2. TodoInv'
        BY <2>20 DEF TodoInv, IntrComplete, client
      <3>3. PoolInv'
        BY <2>20 DEF PoolInv, InUse, PrefixOut, IntrComplete, client, pool
      <3>4. FeatureInv'
        BY <2>20 DEF FeatureInv, IntrComplete, IntrReturn, client
      <3> QED BY <3>1, <3>2, <3>3, <3>4
    <2>21. CASE Respond
      <3>1. TypeOK'
        <4>l. is' \subseteq Bits /\ isId' \in 0 .. IdMod
          BY <2>21, Latched DEF Respond, TypeOK, Bits
        <4>1. /\ pc' \in {"idle", "attempt", "post", "clear", "inhibit", "wait", "abort", "judge", "done"}
              /\ kind' \in Flags /\ main' \in Cmds \cup {None} /\ cur' \in Cmds \cup {None}
              /\ retries' \in 0 .. MaxRetries /\ saved' \subseteq HcCaps /\ caps' \subseteq HcCaps
          BY <2>21 DEF TypeOK, Respond, client
        <4>2. tune' \in BOOLEAN /\ hung' \in BOOLEAN /\ removed' \in BOOLEAN
          BY <2>21 DEF TypeOK, Respond, client
        <4>3. todo' \in Seq(Roles) /\ clist' \in Seq(Cmds) /\ made' \in 0 .. 2
          BY <2>21 DEF TypeOK, Respond, client, pool
        <4>4. /\ status' \in [Cmds -> CmdStatus] /\ slot' \in Cmds \cup {None}
              /\ hcmd' \in Cmds \cup {None} /\ hcs' \in CmdStatus /\ hpc' \in {"idle", "look", "cmplt"}
          BY <2>21 DEF TypeOK, Respond, hc
        <4>5. /\ is' \subseteq Bits /\ ie' \in {"cc", "tc"} /\ sts' \subseteq Bits
              /\ cmdl' \in 0 .. IdMod /\ datl' \in 0 .. IdMod /\ issued' \in 0 .. IdMod
              /\ issueOf' \in [Cmds -> 0 .. IdMod] /\ isId' \in 0 .. IdMod /\ stsId' \in 0 .. IdMod
          BY <2>21, <4>l, CmdAssumption DEF TypeOK, Respond, pool, hc
        <4> QED BY <4>1, <4>2, <4>3, <4>4, <4>5 DEF TypeOK
      <3>2. TodoInv'
        BY <2>21 DEF TodoInv, Respond, client
      <3>3. PoolInv'
        BY <2>21 DEF PoolInv, InUse, PrefixOut, Respond, client, pool
      <3>4. FeatureInv'
        BY <2>21 DEF FeatureInv, Respond, Latch, client, hc
      <3> QED BY <3>1, <3>2, <3>3, <3>4
    <2>22. CASE DataEnd
      <3>1. TypeOK'
        <4>l. is' \subseteq Bits /\ isId' \in 0 .. IdMod
          BY <2>22, Latched DEF DataEnd, TypeOK, Bits
        <4>1. /\ pc' \in {"idle", "attempt", "post", "clear", "inhibit", "wait", "abort", "judge", "done"}
              /\ kind' \in Flags /\ main' \in Cmds \cup {None} /\ cur' \in Cmds \cup {None}
              /\ retries' \in 0 .. MaxRetries /\ saved' \subseteq HcCaps /\ caps' \subseteq HcCaps
          BY <2>22 DEF TypeOK, DataEnd, client
        <4>2. tune' \in BOOLEAN /\ hung' \in BOOLEAN /\ removed' \in BOOLEAN
          BY <2>22 DEF TypeOK, DataEnd, client
        <4>3. todo' \in Seq(Roles) /\ clist' \in Seq(Cmds) /\ made' \in 0 .. 2
          BY <2>22 DEF TypeOK, DataEnd, client, pool
        <4>4. /\ status' \in [Cmds -> CmdStatus] /\ slot' \in Cmds \cup {None}
              /\ hcmd' \in Cmds \cup {None} /\ hcs' \in CmdStatus /\ hpc' \in {"idle", "look", "cmplt"}
          BY <2>22 DEF TypeOK, DataEnd, hc
        <4>5. /\ is' \subseteq Bits /\ ie' \in {"cc", "tc"} /\ sts' \subseteq Bits
              /\ cmdl' \in 0 .. IdMod /\ datl' \in 0 .. IdMod /\ issued' \in 0 .. IdMod
              /\ issueOf' \in [Cmds -> 0 .. IdMod] /\ isId' \in 0 .. IdMod /\ stsId' \in 0 .. IdMod
          BY <2>22, <4>l, CmdAssumption DEF TypeOK, DataEnd, hc
        <4> QED BY <4>1, <4>2, <4>3, <4>4, <4>5 DEF TypeOK
      <3>2. TodoInv'
        BY <2>22 DEF TodoInv, DataEnd, client
      <3>3. PoolInv'
        BY <2>22 DEF PoolInv, InUse, PrefixOut, DataEnd, client, pool
      <3>4. FeatureInv'
        BY <2>22 DEF FeatureInv, DataEnd, Latch, client, hc
      <3> QED BY <3>1, <3>2, <3>3, <3>4
    <2>23. CASE DataBlock
      <3>1. TypeOK'
        <4>l. is' \subseteq Bits /\ isId' \in 0 .. IdMod
          BY <2>23, Latched DEF DataBlock, TypeOK, Bits
        <4>1. /\ pc' \in {"idle", "attempt", "post", "clear", "inhibit", "wait", "abort", "judge", "done"}
              /\ kind' \in Flags /\ main' \in Cmds \cup {None} /\ cur' \in Cmds \cup {None}
              /\ retries' \in 0 .. MaxRetries /\ saved' \subseteq HcCaps /\ caps' \subseteq HcCaps
          BY <2>23 DEF TypeOK, DataBlock, client
        <4>2. tune' \in BOOLEAN /\ hung' \in BOOLEAN /\ removed' \in BOOLEAN
          BY <2>23 DEF TypeOK, DataBlock, client, lines
        <4>3. todo' \in Seq(Roles) /\ clist' \in Seq(Cmds) /\ made' \in 0 .. 2
          BY <2>23 DEF TypeOK, DataBlock, client, pool
        <4>4. /\ status' \in [Cmds -> CmdStatus] /\ slot' \in Cmds \cup {None}
              /\ hcmd' \in Cmds \cup {None} /\ hcs' \in CmdStatus /\ hpc' \in {"idle", "look", "cmplt"}
          BY <2>23 DEF TypeOK, DataBlock, hc
        <4>5. /\ is' \subseteq Bits /\ ie' \in {"cc", "tc"} /\ sts' \subseteq Bits
              /\ cmdl' \in 0 .. IdMod /\ datl' \in 0 .. IdMod /\ issued' \in 0 .. IdMod
              /\ issueOf' \in [Cmds -> 0 .. IdMod] /\ isId' \in 0 .. IdMod /\ stsId' \in 0 .. IdMod
          BY <2>23, <4>l, CmdAssumption DEF TypeOK, DataBlock, lines, hc
        <4> QED BY <4>1, <4>2, <4>3, <4>4, <4>5 DEF TypeOK
      <3>2. TodoInv'
        BY <2>23 DEF TodoInv, DataBlock, client
      <3>3. PoolInv'
        BY <2>23 DEF PoolInv, InUse, PrefixOut, DataBlock, client, pool
      <3>4. FeatureInv'
        BY <2>23 DEF FeatureInv, DataBlock, Latch, client, hc
      <3> QED BY <3>1, <3>2, <3>3, <3>4
    <2>24. CASE Hang
      <3>1. TypeOK'
        BY <2>24, CmdAssumption DEF TypeOK, Hang, client, pool, hc
      <3>2. TodoInv'
        BY <2>24 DEF TodoInv, Hang, client
      <3>3. PoolInv'
        BY <2>24 DEF PoolInv, InUse, PrefixOut, Hang, client, pool
      <3>4. FeatureInv'
        BY <2>24 DEF FeatureInv, Hang, client, hc
      <3> QED BY <3>1, <3>2, <3>3, <3>4
    <2>25. CASE RemoveCard
      <3>1. TypeOK'
        BY <2>25, CmdAssumption DEF TypeOK, Bits, RemoveCard, client, pool, lines, hc
      <3>2. TodoInv'
        BY <2>25 DEF TodoInv, RemoveCard, client
      <3>3. PoolInv'
        BY <2>25 DEF PoolInv, InUse, PrefixOut, RemoveCard, client, pool
      <3>4. FeatureInv'
        BY <2>25 DEF FeatureInv, RemoveCard, client
      <3> QED BY <3>1, <3>2, <3>3, <3>4
    <2> QED BY <2>1, <2>2, <2>3, <2>4, <2>5, <2>6, <2>7, <2>8, <2>9, <2>10, <2>11, <2>12,
               <2>13, <2>14, <2>15, <2>16, <2>17, <2>18, <2>19, <2>20, <2>21, <2>22, <2>23,
               <2>24, <2>25
               DEF Next, ClientStep, EventStep, Controller
  <1>2. ASSUME AccountInv, UNCHANGED vars
        PROVE  AccountInv'
    BY <1>2, SMTT(60)
       DEF vars, client, pool, lines, hc, TypeOK, TodoInv, PoolInv, InUse, PrefixOut,
           FeatureInv
  <1> QED BY <1>1, <1>2

\* The inductive step for completions, when every answer comes in time.
LEMMA OwnNext ==
  ASSUME LateAnswers = FALSE, AccountInv, OwnInv, [Next]_vars
  PROVE  OwnInv'
  <1> USE DEF AccountInv, OwnInv
  <1>1. ASSUME Next
        PROVE  OwnInv'
    <2> USE <1>1
    <2>1. CASE \E k \in Kinds, r \in 0 .. MaxRetries : Send(k, r)
      <3>1. SuccessInv'
        BY <2>1 DEF SuccessInv, Send, hc
      <3>2. (~removed => SlotInv)'
        BY <2>1 DEF SlotInv, Issuing, PrefixOut, Send
      <3>3. (~removed => LineInv)'
        BY <2>1, CmdAssumption DEF LineInv, Send, lines, hc
      <3>4. (~removed => EventInv)'
        BY <2>1 DEF EventInv, Send, hc
      <3> QED BY <3>1, <3>2, <3>3, <3>4
    <2>2. CASE BeginAttempt
      <3>1. SuccessInv'
        BY <2>2 DEF SuccessInv, BeginAttempt, hc
      <3>2. (~removed => SlotInv)'
        BY <2>2 DEF SlotInv, Issuing, PoolInv, TypeOK, BeginAttempt
      <3>3. (~removed => LineInv)'
        BY <2>2, CmdAssumption DEF LineInv, BeginAttempt, lines, hc
      <3>4. (~removed => EventInv)'
        BY <2>2 DEF EventInv, BeginAttempt, hc
      <3> QED BY <3>1, <3>2, <3>3, <3>4
    <2>3. CASE Post
      <3>1. SuccessInv'
        BY <2>3 DEF SuccessInv, Post, hc
      <3>2. (~removed => SlotInv)'
        BY <2>3 DEF SlotInv, Issuing, TodoInv, Post
      <3>3. (~removed => LineInv)'
        BY <2>3, CmdAssumption DEF LineInv, Post, lines, hc
      <3>4. (~removed => EventInv)'
        BY <2>3 DEF EventInv, Post, hc
      <3> QED BY <3>1, <3>2, <3>3, <3>4
    <2>4. CASE PostPrefix
      <3>1. SuccessInv'
        BY <2>4 DEF SuccessInv, PostPrefix, hc
      <3>2. (~removed => SlotInv)'
        <4>1. /\ Alloc /\ ~PrefixOut /\ pc = "post" /\ pc' = "clear" /\ slot' = Allocated /\ cur' = Allocated
              /\ status' = [status EXCEPT ![Allocated] = "INPROG"] /\ UNCHANGED <<main, removed, todo>>
          BY <2>4 DEF PostPrefix, PrefixOut, Issuing
        <4>2. Allocated \in Cmds /\ Allocated # main
          BY <4>1, Taken
        <4>3. main \in Cmds
          BY <4>1 DEF TypeOK, PoolInv, None
        <4>4. status'[Allocated] = "INPROG" /\ status'[main] = status[main]
          BY <4>1, <4>2, <4>3 DEF TypeOK
        <4> QED BY <4>1, <4>4 DEF SlotInv, Issuing
      <3>3. (~removed => LineInv)'
        BY <2>4, CmdAssumption DEF LineInv, PostPrefix, lines, hc
      <3>4. (~removed => EventInv)'
        BY <2>4 DEF EventInv, PostPrefix, hc
      <3> QED BY <3>1, <3>2, <3>3, <3>4
    <2>5. CASE ClearStatus
      <3>1. SuccessInv'
        BY <2>5 DEF SuccessInv, ClearStatus, hc
      <3>2. (~removed => SlotInv)'
        BY <2>5 DEF SlotInv, Issuing, PrefixOut, ClearStatus
      <3>3. (~removed => LineInv)'
        BY <2>5, CmdAssumption DEF LineInv, ClearStatus, lines, hc
      <3>4. (~removed => EventInv)'
        BY <2>5 DEF EventInv, ClearStatus, hc
      <3> QED BY <3>1, <3>2, <3>3, <3>4
    <2>6. CASE XferSetupFails
      <3>1. SuccessInv'
        BY <2>6 DEF SuccessInv, XferSetupFails, hc
      <3>2. (~removed => SlotInv)'
        BY <2>6 DEF SlotInv, Issuing, TodoInv, XferSetupFails, HasData
      <3>3. (~removed => LineInv)'
        BY <2>6, CmdAssumption DEF LineInv, XferSetupFails, lines, hc
      <3>4. (~removed => EventInv)'
        BY <2>6 DEF EventInv, XferSetupFails, hc
      <3> QED BY <3>1, <3>2, <3>3, <3>4
    <2>7. CASE Issue
      <3>1. SuccessInv'
        BY <2>7 DEF SuccessInv, Issue, hc
      <3>2. (~removed => SlotInv)'
        BY <2>7 DEF SlotInv, Issuing, PrefixOut, Issue
      <3>3. (~removed => LineInv)'
        <4>1. NextId \in 1 .. IdMod
          BY CmdAssumption DEF NextId, TypeOK
        <4>2. cur \in Cmds
          BY <2>7 DEF Issue, PoolInv, Issuing, TypeOK
        <4>3. issueOf'[cur] = NextId
          BY <2>7, <4>2 DEF Issue, TypeOK
        <4>4. ~removed => is = {} /\ sts = {} /\ slot = cur
          BY <2>7 DEF Issue, EventInv, SuccessInv, SlotInv
        <4>5. ~removed /\ ~hung => datl = 0
          BY <2>7 DEF Issue, LineInv
        <4> QED BY <2>7, <4>1, <4>3, <4>4, <4>5 DEF LineInv, Issue, hc
      <3>4. (~removed => EventInv)'
        BY <2>7 DEF EventInv, Issue, hc
      <3> QED BY <3>1, <3>2, <3>3, <3>4
    <2>8. CASE InhibitTimeout
      <3>1. SuccessInv'
        BY <2>8 DEF SuccessInv, InhibitTimeout, hc
      <3>2. (~removed => SlotInv)'
        BY <2>8 DEF SlotInv, Issuing, PrefixOut, InhibitTimeout
      <3>3. (~removed => LineInv)'
        BY <2>8, CmdAssumption DEF LineInv, InhibitTimeout, lines, hc
      <3>4. (~removed => EventInv)'
        BY <2>8 DEF EventInv, InhibitTimeout, hc
      <3> QED BY <3>1, <3>2, <3>3, <3>4
    <2>9. CASE WaitDone
      <3>1. SuccessInv'
        BY <2>9 DEF SuccessInv, WaitDone, hc
      <3>2. (~removed => SlotInv)'
        BY <2>9 DEF SlotInv, Issuing, PrefixOut, WaitDone
      <3>3. (~removed => LineInv)'
        <4>1. cur # None /\ pc = "wait" /\ status[cur] # "INPROG"
          BY <2>9 DEF WaitDone, PoolInv, Issuing
        <4>2. ~removed => slot = None
          BY <4>1 DEF SlotInv
        <4> QED BY <2>9, <4>1, <4>2 DEF LineInv, WaitDone, lines, hc
      <3>4. (~removed => EventInv)'
        BY <2>9 DEF EventInv, SlotInv, WaitDone, hc
      <3> QED BY <3>1, <3>2, <3>3, <3>4
    <2>10. CASE WaitTimeout
      <3>1. SuccessInv'
        BY <2>10 DEF SuccessInv, WaitTimeout, Completion, NoAnswerComing, hc
      <3>2. (~removed => SlotInv)'
        BY <2>10 DEF SlotInv, Issuing, PrefixOut, WaitTimeout
      <3>3. (~removed => LineInv)'
        BY <2>10, CmdAssumption DEF LineInv, WaitTimeout, NoAnswerComing, lines, hc
      <3>4. (~removed => EventInv)'
        BY <2>10 DEF EventInv, WaitTimeout, NoAnswerComing, hc
      <3> QED BY <3>1, <3>2, <3>3, <3>4
    <2>11. CASE Abort
      <3>1. SuccessInv'
        BY <2>11 DEF SuccessInv, Abort, hc
      <3>2. (~removed => SlotInv)'
        BY <2>11 DEF SlotInv, Issuing, PrefixOut, Abort
      <3>3. (~removed => LineInv)'
        BY <2>11, CmdAssumption DEF LineInv, Abort, lines, hc
      <3>4. (~removed => EventInv)'
        BY <2>11 DEF EventInv, Abort, hc
      <3> QED BY <3>1, <3>2, <3>3, <3>4
    <2>12. CASE JudgeOk
      <3>1. SuccessInv'
        BY <2>12 DEF SuccessInv, JudgeOk, hc
      <3>2. (~removed => SlotInv)'
        <4>1. /\ pc = "judge" /\ pc' \in {"post", "done"} /\ todo # << >> /\ todo' = Tail(todo)
              /\ UNCHANGED <<main, cur, status, slot, removed>>
          BY <2>12 DEF JudgeOk, TodoInv, Issuing
        <4>2. (\E i \in 1 .. Len(todo') : todo'[i] = "main") =>
                 PrefixOut /\ \E i \in 1 .. Len(todo) : todo[i] = "main"
          BY <4>1, Rest DEF TodoInv, PrefixOut, Issuing
        <4> QED BY <4>1, <4>2 DEF SlotInv, Issuing, PrefixOut
      <3>3. (~removed => LineInv)'
        BY <2>12, CmdAssumption DEF LineInv, JudgeOk, lines, hc
      <3>4. (~removed => EventInv)'
        BY <2>12 DEF EventInv, JudgeOk, hc
      <3> QED BY <3>1, <3>2, <3>3, <3>4
    <2>13. CASE PollReady
      <3>1. SuccessInv'
        BY <2>13 DEF SuccessInv, PollReady, hc
      <3>2. (~removed => SlotInv)'
        BY <2>13 DEF SlotInv, PollReady
      <3>3. (~removed => LineInv)'
        BY <2>13, CmdAssumption DEF LineInv, PollReady, lines, hc
      <3>4. (~removed => EventInv)'
        BY <2>13 DEF EventInv, PollReady, hc
      <3> QED BY <3>1, <3>2, <3>3, <3>4
    <2>14. CASE PollAgain
      <3>1. SuccessInv'
        BY <2>14 DEF SuccessInv, PollAgain, hc
      <3>2. (~removed => SlotInv)'
        <4>1. /\ pc = "judge" /\ pc' \in {"post", "done"} /\ todo # << >> /\ todo' = Tail(todo)
              /\ UNCHANGED <<main, cur, status, slot, removed>>
          BY <2>14 DEF PollAgain, TodoInv, Issuing
        <4>2. (\E i \in 1 .. Len(todo') : todo'[i] = "main") =>
                 PrefixOut /\ \E i \in 1 .. Len(todo) : todo[i] = "main"
          BY <4>1, Rest DEF TodoInv, PrefixOut, Issuing
        <4> QED BY <4>1, <4>2 DEF SlotInv, Issuing, PrefixOut
      <3>3. (~removed => LineInv)'
        BY <2>14, CmdAssumption DEF LineInv, PollAgain, lines, hc
      <3>4. (~removed => EventInv)'
        BY <2>14 DEF EventInv, PollAgain, hc
      <3> QED BY <3>1, <3>2, <3>3, <3>4
    <2>15. CASE JudgeError
      <3>1. SuccessInv'
        BY <2>15 DEF SuccessInv, JudgeError, hc
      <3>2. (~removed => SlotInv)'
        BY <2>15 DEF SlotInv, Issuing, PrefixOut, JudgeError
      <3>3. (~removed => LineInv)'
        BY <2>15, CmdAssumption DEF LineInv, JudgeError, lines, hc
      <3>4. (~removed => EventInv)'
        BY <2>15 DEF EventInv, JudgeError, hc
      <3> QED BY <3>1, <3>2, <3>3, <3>4
    <2>16. CASE JudgeRemoved
      <3>1. SuccessInv'
        BY <2>16 DEF SuccessInv, JudgeRemoved, hc
      <3>2. (~removed => SlotInv)'
        BY <2>16 DEF Issuing, PoolInv, FeatureInv, TypeOK, JudgeRemoved
      <3>3. (~removed => LineInv)'
        BY <2>16, CmdAssumption DEF LineInv, JudgeRemoved, lines, hc
      <3>4. (~removed => EventInv)'
        BY <2>16 DEF EventInv, JudgeRemoved, hc
      <3> QED BY <3>1, <3>2, <3>3, <3>4
    <2>17. CASE Done
      <3>1. SuccessInv'
        BY <2>17 DEF SuccessInv, Done, hc
      <3>2. (~removed => SlotInv)'
        BY <2>17 DEF SlotInv, Issuing, Done, Return
      <3>3. (~removed => LineInv)'
        BY <2>17, CmdAssumption DEF LineInv, Done, lines, hc
      <3>4. (~removed => EventInv)'
        BY <2>17 DEF EventInv, Done, hc
      <3> QED BY <3>1, <3>2, <3>3, <3>4
    <2>18. CASE IntrRead
      <3>1. SuccessInv'
        BY <2>18 DEF SuccessInv, SlotInv, EventInv, IntrRead, Completion, client
      <3>2. (~removed => SlotInv)'
        BY <2>18 DEF SlotInv, PrefixOut, IntrRead, client
      <3>3. (~removed => LineInv)'
        BY <2>18, CmdAssumption DEF LineInv, IntrRead, client, lines
      <3>4. (~removed => EventInv)'
        BY <2>18 DEF EventInv, IntrRead, client
      <3> QED BY <3>1, <3>2, <3>3, <3>4
    <2>19. CASE IntrLook
      <3>1. SuccessInv'
        BY <2>19 DEF SuccessInv, IntrLook, IntrReturn, Completion, client
      <3>2. (~removed => SlotInv)'
        BY <2>19 DEF SlotInv, PrefixOut, IntrLook, client
      <3>3. (~removed => LineInv)'
        BY <2>19, CmdAssumption DEF LineInv, IntrLook, IntrReturn, client, lines
      <3>4. (~removed => EventInv)'
        BY <2>19 DEF EventInv, SlotInv, IntrLook, IntrReturn, client
      <3> QED BY <3>1, <3>2, <3>3, <3>4
    <2>20. CASE IntrComplete
      <3>1. SuccessInv'
        BY <2>20 DEF SuccessInv, IntrComplete, IntrReturn, Completion
      <3>2. (~removed => SlotInv)'
        BY <2>20
           DEF SlotInv, EventInv, SuccessInv, Issuing, PrefixOut, Final, FeatureInv, TypeOK,
               IntrComplete, IntrReturn, Completion, client
      <3>3. (~removed => LineInv)'
        BY <2>20, CmdAssumption
           DEF LineInv, SuccessInv, Final, FeatureInv, IntrComplete, Completion, lines
      <3>4. (~removed => EventInv)'
        BY <2>20 DEF EventInv, IntrComplete, IntrReturn, client
      <3> QED BY <3>1, <3>2, <3>3, <3>4
    <2>21. CASE Respond
      <3>1. SuccessInv'
        <4>1. UNCHANGED <<pc, cur, status, slot, removed, hpc, sts, hcmd, hcs, issueOf, stsId>>
          BY <2>21 DEF Respond, client, hc
        <4>2. CASE ~removed
          BY <4>1, <4>2 DEF SuccessInv, Completion
        <4>3. CASE removed
          <5>1. Latch({"cto"}, cmdl)
            BY <2>21, <4>3 DEF Respond
          <5>2. is \subseteq is' /\ is' \subseteq is \cup {"cto"}
            BY <5>1, Latched DEF TypeOK, Bits
          <5> QED BY <4>1, <5>2 DEF SuccessInv, Completion
        <4> QED BY <4>2, <4>3
      <3>2. (~removed => SlotInv)'
        BY <2>21 DEF SlotInv, LineInv, Issuing, PrefixOut, PoolInv, Respond, client
      <3>3. (~removed => LineInv)'
        BY <2>21, CmdAssumption DEF LineInv, Respond, Latch, client, hc
      <3>4. (~removed => EventInv)'
        BY <2>21 DEF EventInv, LineInv, Respond, Latch, client, hc
      <3> QED BY <3>1, <3>2, <3>3, <3>4
    <2>22. CASE DataEnd
      <3>1. SuccessInv'
        BY <2>22 DEF SuccessInv, DataEnd, Latch, client, hc
      <3>2. (~removed => SlotInv)'
        BY <2>22 DEF SlotInv, LineInv, Issuing, PrefixOut, PoolInv, DataEnd, client
      <3>3. (~removed => LineInv)'
        BY <2>22, CmdAssumption DEF LineInv, DataEnd
      <3>4. (~removed => EventInv)'
        BY <2>22 DEF EventInv, LineInv, DataEnd, Latch, client, hc
      <3> QED BY <3>1, <3>2, <3>3, <3>4
    <2>23. CASE DataBlock
      <3>1. SuccessInv'
        BY <2>23 DEF SuccessInv, DataBlock, client, hc
      <3>2. (~removed => SlotInv)'
        BY <2>23 DEF SlotInv, LineInv, Issuing, PrefixOut, PoolInv, DataBlock, client
      <3>3. (~removed => LineInv)'
        BY <2>23, CmdAssumption DEF LineInv, Final, DataBlock, Latch, client, lines, hc
      <3>4. (~removed => EventInv)'
        BY <2>23 DEF EventInv, LineInv, DataBlock, Latch, client, hc
      <3> QED BY <3>1, <3>2, <3>3, <3>4
    <2>24. CASE Hang
      <3>1. SuccessInv'
        BY <2>24 DEF SuccessInv, Hang, client, hc
      <3>2. (~removed => SlotInv)'
        BY <2>24 DEF SlotInv, PrefixOut, Hang, client, hc
      <3>3. (~removed => LineInv)'
        BY <2>24, CmdAssumption DEF LineInv, Hang, hc
      <3>4. (~removed => EventInv)'
        BY <2>24 DEF EventInv, Hang, client, hc
      <3> QED BY <3>1, <3>2, <3>3, <3>4
    <2>25. CASE RemoveCard
      <3>1. SuccessInv'
        BY <2>25 DEF SuccessInv, RemoveCard, client, hc
      <3>2. (~removed => SlotInv)'
        BY <2>25 DEF RemoveCard
      <3>3. (~removed => LineInv)'
        BY <2>25, CmdAssumption DEF RemoveCard
      <3>4. (~removed => EventInv)'
        BY <2>25 DEF RemoveCard
      <3> QED BY <3>1, <3>2, <3>3, <3>4
    <2> QED BY <2>1, <2>2, <2>3, <2>4, <2>5, <2>6, <2>7, <2>8, <2>9, <2>10, <2>11, <2>12,
               <2>13, <2>14, <2>15, <2>16, <2>17, <2>18, <2>19, <2>20, <2>21, <2>22, <2>23,
               <2>24, <2>25
               DEF Next, ClientStep, EventStep, Controller
  <1>2. ASSUME UNCHANGED vars
        PROVE  OwnInv'
    BY <1>2 DEF vars, client, lines, hc, SuccessInv, SlotInv, LineInv, EventInv, PrefixOut
  <1> QED BY <1>1, <1>2

LEMMA AccountInit == Init => AccountInv
  <1> SUFFICES ASSUME Init
               PROVE  AccountInv
    OBVIOUS
  <1>1. kind \in Flags
    BY CmdAssumption DEF Init
  <1>2. {tune, hung, removed} \subseteq BOOLEAN
    BY DEF Init
  <1>3. todo \in Seq(Roles) /\ clist \in Seq(Cmds) /\ Len(clist) = 0 /\ Len(todo) = 0
    BY DEF Init
  <1>4. /\ {cmdl, datl, issued, isId, stsId} \subseteq 0 .. IdMod /\ retries \in 0 .. MaxRetries
        /\ issueOf \in [Cmds -> 0 .. IdMod] /\ status \in [Cmds -> CmdStatus]
    BY CmdAssumption DEF Init, CmdStatus
  <1>5. TypeOK
    BY <1>1, <1>2, <1>3, <1>4 DEF Init, TypeOK, CmdStatus
  <1>6. PoolInv
    BY <1>3 DEF Init, PoolInv, InUse, PrefixOut, Issuing
  <1>7. TodoInv
    BY <1>3 DEF Init, TodoInv, Issuing
  <1>8. FeatureInv
    BY DEF Init, FeatureInv
  <1> QED BY <1>5, <1>6, <1>7, <1>8 DEF AccountInv

LEMMA OwnInit == Init => OwnInv
  BY DEF Init, OwnInv, SuccessInv, Completion, SlotInv, LineInv, EventInv

\* A command object is free or in use, never both, and is freed once, over all
\* retries, timeouts and removals and however late the answers come
\* (sdio_alloc_cmd, sdio_free_cmd).
THEOREM PoolStaysConsistent == Spec => [](TypeOK /\ PoolIsConsistent)
  <1>1. AccountInv => TypeOK /\ PoolIsConsistent
    <2> SUFFICES ASSUME AccountInv
                 PROVE  TypeOK /\ PoolIsConsistent
      OBVIOUS
    <2>1. DOMAIN clist = 1 .. Len(clist)
      BY DEF AccountInv, TypeOK
    <2>2. \A i \in 1 .. Len(clist) : clist[i] \in Cmds
      BY DEF AccountInv, TypeOK
    <2>3. \A i \in 1 .. Len(clist) : clist[i] # main
      BY <2>2 DEF AccountInv, PoolInv, Cmds, None
    <2>4. pc = "idle" => Len(clist) = made
      BY DEF AccountInv, PoolInv, InUse, PrefixOut, Issuing
    <2> QED BY <2>1, <2>3, <2>4 DEF AccountInv, PoolInv, PoolIsConsistent
  <1> QED BY <1>1, AccountInit, AccountNext, PTL DEF Spec

\* The ACMD12 and ACMD23 features are off during a reliable write, and on
\* again after every path but that of a removed card, however late the answers
\* come (_sdio_send_cmd).
THEOREM CapsAlwaysFollow == Spec => []CapsFollowCommand
  <1>1. AccountInv => CapsFollowCommand
    BY DEF AccountInv, FeatureInv, CapsFollowCommand, CapsRestoredIfPresent, CapsRestored,
           ReliableWriteSendsOwnCount
  <1> QED BY <1>1, AccountInit, AccountNext, PTL DEF Spec

\* With answers that come within the timeout: the slot only has the command
\* being issued, and no list has it at the same time, ...
THEOREM CommandsStayAccounted ==
  ASSUME LateAnswers = FALSE
  PROVE  Spec => []CommandsAccounted
  <1>1. AccountInv /\ OwnInv => SlotIsCurrent
    <2> SUFFICES ASSUME AccountInv, OwnInv, slot # None, ~removed
                 PROVE  /\ slot = cur /\ pc \in {"clear", "inhibit", "wait", "abort"}
                        /\ \A i \in DOMAIN clist : clist[i] # slot
      BY DEF SlotIsCurrent
    <2>1. slot = cur /\ pc \in {"clear", "inhibit", "wait", "abort"}
      BY DEF OwnInv, SlotInv, Issuing
    <2>2. \A i \in 1 .. Len(clist) : clist[i] # cur
      BY <2>1 DEF AccountInv, PoolInv, PrefixOut, Issuing
    <2>3. DOMAIN clist = 1 .. Len(clist)
      BY DEF AccountInv, TypeOK
    <2> QED BY <2>1, <2>2, <2>3
  <1>2. Spec => [](AccountInv /\ OwnInv)
    BY AccountInit, AccountNext, OwnInit, OwnNext, PTL DEF Spec
  <1> QED BY <1>1, <1>2, PoolStaysConsistent, PTL DEF CommandsAccounted

\* ... and a success is reported only for the issue of the command that the
\* client waits for (sdhci_intr_event, sdio_cmd_cmplt).
THEOREM CompletionStaysOwn ==
  ASSUME LateAnswers = FALSE
  PROVE  Spec => []CompletionIsOwn
  <1>1. OwnInv => CompletionIsOwn
    BY DEF OwnInv, SuccessInv, CompletionIsOwn
  <1> QED BY <1>1, AccountInit, AccountNext, OwnInit, OwnNext, PTL DEF Spec

-----------------------------------------------------------------------------
(* The thread of card detection, the main thread and the I/O threads share   *)
(* one controller list, one handle and one mutex, none of which has a lock of *)
(* its own.  What keeps them sound is the order in which main() builds and    *)
(* takes down: the invariant says, for every place of the main thread, where  *)
(* the card detection thread may be and what exists.                          *)

HostSet == [path : Nat, caps : SUBSET {"CD_INTR", "CD_WP", "DMA", "ACMD12", "ACMD23"},
          emb : BOOLEAN, named : BOOLEAN, addrs : Nat, irqs : Nat,
          have : SUBSET {"tid", "chid", "coid"}, drv : {"none", "held", "stale"},
          present : BOOLEAN, handle : BOOLEAN]

\* The places of sdio_cd(), and of the card detection thread outside of it.
Looking  == {"detect", "mark", "sleep", "close", "join", "free", "insert", "ident", "flags",
             "present", "callback"}
Waiting  == {"receive", "enum"}
Mains    == {"start", "init", "args", "hosts", "cd", "attach", "run", "dinit", "join",
             "unplug", "free", "ended", "abort"}

TypeInv ==
  /\ mainpc \in Mains /\ cdpc \in Looking \cup Waiting \cup {"none", "ended"}
  /\ why \in {"none", "connect", "disconnect", "again", "close"}
  /\ n \in Nat \ {0} /\ pulses \in Nat /\ usage \in Nat
  /\ cmdline \in Cmdlines /\ hlist \in Seq(HostSet)
  /\ io \in [Io -> {"none", "ready", "busy"}]

\* The controllers: a soldered one does not interrupt for cards, at most one
\* has a slot, and what is registered is in the list.
ListInv ==
  /\ \A i \in 1 .. Len(hlist) : hlist[i].emb => "CD_INTR" \notin hlist[i].caps
  /\ \A i, j \in 1 .. Len(hlist) : hlist[i].emb \/ hlist[j].emb \/ i = j
  /\ registered \subseteq {hlist[i].path : i \in 1 .. Len(hlist)}
  /\ mainpc \in {"start", "init"} => hlist = <<>> /\ n = 1
  /\ mainpc = "args" => /\ Len(hlist) < n /\ Len(hlist) <= Len(cmdline)
                        /\ ~sdioscan => Len(hlist) = n - 1
                        /\ \A i \in 1 .. Len(hlist) : hlist[i].emb <=> Soldered(cmdline[i])
  /\ mainpc \in {"cd", "unplug"} => n <= Len(hlist) + 1

\* The card detection thread and what it needs: complete from sdio_init() on,
\* gone once it has been joined.
ThreadInv ==
  /\ (cdpc = "none" <=> "tid" \notin ids) /\ (cdpc # "none" => mutex)
  /\ (armed => "timer" \in ids) /\ (chan => "chid" \in ids)
  /\ mainpc \in {"start", "init"} => ids = {} /\ ~mutex
  /\ mainpc \in {"args", "hosts", "cd", "run"} => chan /\ mutex
  /\ mainpc \in {"args", "hosts", "cd", "run"} \/ (mainpc = "attach" /\ mutex) =>
       {"tid", "chid", "timer"} \subseteq ids
  /\ mainpc \in {"args", "hosts"} \/ (mainpc = "attach" /\ mutex) => cdpc \in Waiting
  /\ mainpc = "attach" => IF mutex THEN chan /\ why = "none" ELSE ids = {} /\ hlist = <<>> /\ why = "connect"
  /\ mainpc = "join" => ~armed /\ ~chan
  /\ mainpc \in {"cd", "run"} => cdpc \in Looking \cup Waiting
  /\ mainpc \in {"unplug", "free", "abort"} => ids = {}
  /\ ~chan => pulses = 0
  /\ cdpc \in Looking => enum \/ mainpc = "cd"
  /\ (enum => mainpc = "run" \/ why \in {"disconnect", "again", "close"})
  /\ mainpc \in {"start", "init", "args", "hosts", "cd", "run"} => why = "none"
  /\ mainpc \in {"dinit", "join"} => why # "none"
  /\ mainpc \in {"dinit", "join"} /\ why \in {"again", "close"} => ids = {}
  /\ mainpc = "free" => why \in {"connect", "close"}
  /\ ~enumerating => mainpc \in {"start", "run"}
  /\ mainpc = "run" => ~enumerating

\* Whatever can reach the slot's controller finds it initialised.
UpInv ==
  /\ up => \E i \in 1 .. Len(hlist) : ~hlist[i].emb
  /\ pulses > 0 \/ cdpc = "enum" \/ armed \/ cdpc \in Looking \/ device => up
  /\ cdpc # "none" /\ present => up
  /\ cdpc \in Looking \/ device => mutex
  /\ mainpc \in {"hosts", "cd"} => \A i \in 1 .. Len(hlist) :
       (i < n \/ (i = n /\ mainpc = "cd")) => hlist[i].emb \/ up
  /\ (mainpc = "attach" /\ mutex) => \A i \in 1 .. Len(hlist) : hlist[i].emb \/ up

\* Requests are counted, and have a handle.
Busy == {t \in Io : io[t] = "busy"}

CountInv == usage = Cardinality(Busy) /\ (Busy # {} => device)

\* When there is a handle.
HandleInv ==
  /\ mainpc \in {"start", "init", "args", "hosts", "cd", "free"} => ~device
  /\ mainpc \in {"dinit", "join"} /\ why \in {"connect", "close"} => ~device
  /\ mainpc = "attach" => /\ ~mutex => ~device
                          /\ device => present /\ \E i \in 1 .. Len(hlist) : i < n /\ ~hlist[i].emb
                          /\ scan /\ present => \A i \in 1 .. Len(hlist) :
                               i < n => hlist[i].emb \/ device
  /\ scan <=> target = 0
  /\ mainpc = "unplug" => \A i \in 1 .. Len(hlist) : i < n /\ hlist[i].emb => ~hlist[i].handle
  /\ mainpc \in {"dinit", "join"} /\ why = "again" =>
       \A i \in 1 .. Len(hlist) : hlist[i].emb => ~hlist[i].handle
  /\ \A i \in 1 .. Len(hlist) : hlist[i].handle => hlist[i].emb

\* What sdio_cd() knows at each of its places.
LookInv ==
  /\ cdpc \in {"mark", "sleep", "close", "join", "free", "ident", "flags", "present"} => ~present
  /\ cdpc \in {"flags", "present", "callback"} => power
  /\ cdpc = "callback" => present
  /\ cdpc # "none" /\ present => power
  /\ mainpc \in {"start", "init"} => ~present
  /\ cdpc \in {"sleep", "close", "join", "free"} => device /\ rmv
  /\ cdpc \in {"close", "join", "free"} => usage = 0
  /\ mainpc = "run" =>
       /\ cdpc \in {"ident", "flags", "present", "callback"} => ~device
       /\ cdpc = "insert" /\ device => present
       /\ cdpc \in {"receive", "enum", "detect"} /\ device => present
       /\ cdpc \in {"receive", "enum", "detect", "insert"} /\ scan /\ present => device

ConnInv == TypeInv /\ ListInv /\ ThreadInv /\ UpInv /\ CountInv /\ HandleInv /\ LookInv /\ NothingLeft

-----------------------------------------------------------------------------
LEMMA BusyFinite ==
  /\ IsFiniteSet(Busy) /\ Cardinality(Busy) \in Nat
  /\ Cardinality(Busy) = 0 <=> Busy = {}
  <1>1. IsFiniteSet(Io)
    BY CardAssumption
  <1>2. IsFiniteSet(Busy)
    BY <1>1, FS_Subset DEF Busy
  <1> QED BY <1>2, FS_CardinalityType, FS_EmptySet

\* A request is let in, and is out again (_sdio_synchronize).
LEMMA OneMore ==
  ASSUME TypeInv, NEW t \in Io, io[t] = "ready", io' = [io EXCEPT ![t] = "busy"]
  PROVE  Cardinality(Busy') = Cardinality(Busy) + 1
  <1>1. Busy' = Busy \cup {t} /\ t \notin Busy
    BY DEF Busy, TypeInv
  <1> QED BY <1>1, BusyFinite, FS_AddElement

LEMMA OneLess ==
  ASSUME TypeInv, NEW t \in Io, io[t] = "busy", io' = [io EXCEPT ![t] = "ready"]
  PROVE  Busy # {} /\ Cardinality(Busy) > 0 /\ Cardinality(Busy') = Cardinality(Busy) - 1
  <1>1. Busy' = Busy \ {t} /\ t \in Busy
    BY DEF Busy, TypeInv
  <1> QED BY <1>1, BusyFinite, FS_RemoveElement

\* Nobody is let in by a step that makes no thread busy.
LEMMA NobodyIn ==
  ASSUME \A t \in Io : io'[t] # "busy"
  PROVE  Busy' = {} /\ Cardinality(Busy') = 0
  <1>1. Busy' = {}
    BY DEF Busy
  <1> QED BY <1>1, FS_EmptySet

\* sdio_create_thread() makes nothing without a thread.
LEMMA ThreadFirst ==
  ASSUME NEW needs, NEW got \in sdio_create_thread(needs)
  PROVE  got = {} \/ "tid" \in got
  BY DEF sdio_create_thread

\* The controller sdio_options() makes of an option set.
LEMMA OptionsHost ==
  ASSUME TypeInv, NEW opts \in Seq([o : STRING, a : {"none", "good", "bad"}])
  PROVE  LET ho == sdio_options(sdio_hc_alloc, opts).hc
         IN  /\ ho \in HostSet /\ ho.path = Len(hlist) + 1 /\ ~ho.handle
             /\ ho.emb <=> Soldered(opts)
             /\ ho.emb => "CD_INTR" \notin ho.caps
  <1> DEFINE good == Accepted(opts)
             addr == {i \in good : SetValue(opts[i]) = "addr"}
             irq  == {i \in good : SetValue(opts[i]) = "irq"}
             nm   == {i \in good : SetValue(opts[i]) = "named"}
             kept == {c \in {"CD_INTR", "CD_WP", "DMA", "ACMD12", "ACMD23"} :
                        \A i \in good : <<opts[i].o, c>> \notin SetFeature}
  <1>1. IsFiniteSet(good)
    <2>1. IsFiniteSet(1 .. Len(opts)) /\ DOMAIN opts = 1 .. Len(opts)
      BY FS_Interval, LenProperties
    <2>2. good \subseteq 1 .. Len(opts)
      BY <2>1 DEF Accepted
    <2> QED BY <2>1, <2>2, FS_Subset
  <1>2. Cardinality(addr) \in Nat /\ Cardinality(irq) \in Nat
    BY <1>1, FS_Subset, FS_CardinalityType
  <1>3. Soldered(opts) => "CD_INTR" \notin kept
    <2> SUFFICES ASSUME Soldered(opts) PROVE "CD_INTR" \notin kept
      OBVIOUS
    <2>1. PICK i \in good : opts[i].o = "emmc"
      BY DEF Soldered
    <2>2. <<opts[i].o, "CD_INTR">> \in SetFeature
      BY <2>1 DEF SetFeature
    <2> QED BY <2>2
  <1>4. sdio_options(sdio_hc_alloc, opts).hc =
          [path |-> Len(hlist) + 1, caps |-> kept, emb |-> Soldered(opts), named |-> nm # {},
           addrs |-> Cardinality(addr), irqs |-> Cardinality(irq), have |-> {},
           drv |-> "none", present |-> FALSE, handle |-> FALSE]
    BY DEF sdio_options, sdio_hc_alloc
  <1>5. Len(hlist) + 1 \in Nat /\ kept \in SUBSET {"CD_INTR", "CD_WP", "DMA", "ACMD12", "ACMD23"}
    BY DEF TypeInv
  <1>6. Soldered(opts) \in BOOLEAN /\ (nm # {}) \in BOOLEAN
    BY DEF Soldered
  <1> HIDE DEF kept, addr, irq, nm
  <1>7. sdio_options(sdio_hc_alloc, opts).hc \in HostSet
    BY <1>2, <1>4, <1>5, <1>6 DEF HostSet
  <1> QED BY <1>3, <1>4, <1>7

\* sdio_hc_init() keeps who a controller is.
LEMMA HostKept ==
  ASSUME NEW ho \in HostSet, NEW h \in HcInit(ho)
  PROVE  /\ h \in HostSet /\ h.path = ho.path /\ h.emb = ho.emb /\ h.caps = ho.caps
         /\ h.handle = ho.handle
  <1> DEFINE full == {"tid"} \cup ToSet(HcNeeds)
  <1>1. full = {"tid", "chid", "coid"}
    BY DEF ToSet, HcNeeds
  <1>2. ASSUME NEW got \in sdio_create_thread(HcNeeds)
        PROVE  got \in SUBSET {"tid", "chid", "coid"}
    <2>1. CASE got = {}
      BY <2>1
    <2>2. CASE got # {}
      <3>1. PICK k \in 0 .. Len(HcNeeds) : got = {"tid"} \cup ToSet(SubSeq(HcNeeds, 1, k))
        BY <1>2, <2>2 DEF sdio_create_thread
      <3>2. k \in 0 .. 2 /\ \A i \in 1 .. k : HcNeeds[i] \in {"chid", "coid"}
        BY <3>1 DEF HcNeeds
      <3>3. SubSeq(HcNeeds, 1, k) \in Seq({"chid", "coid"})
        BY <3>2, SubSeqProperties
      <3>4. ToSet(SubSeq(HcNeeds, 1, k)) \subseteq {"chid", "coid"}
        BY <3>3, LenProperties DEF ToSet
      <3> QED BY <3>1, <3>4
    <2> QED BY <2>1, <2>2
  <1> HIDE DEF full
  <1>3. \/ \E got \in SUBSET {"tid", "chid", "coid"} : h = [ho EXCEPT !.have = got]
        \/ h \in ChipsetInit([ho EXCEPT !.have = full])
    BY <1>2 DEF HcInit, full
  <1>4. CASE \E got \in SUBSET {"tid", "chid", "coid"} : h = [ho EXCEPT !.have = got]
    BY <1>4 DEF HostSet
  <1>5. CASE h \in ChipsetInit([ho EXCEPT !.have = full])
    <2> DEFINE hf == [ho EXCEPT !.have = full]
    <2>1. /\ hf \in HostSet /\ hf.path = ho.path /\ hf.emb = ho.emb /\ hf.caps = ho.caps
          /\ hf.handle = ho.handle
      BY <1>1 DEF HostSet
    <2> HIDE DEF hf
    <2>2. \/ h = [hf EXCEPT !.drv = "none"] \/ h = [hf EXCEPT !.drv = "stale"]
          \/ h = [hf EXCEPT !.drv = "held"]
      BY <1>5 DEF ChipsetInit, hf
    <2> QED BY <2>1, <2>2 DEF HostSet
  <1> QED BY <1>3, <1>4, <1>5

\* A step keeps the controllers, and who they are.
SameHosts ==
  /\ hlist' \in Seq(HostSet) /\ Len(hlist') = Len(hlist)
  /\ \A i \in 1 .. Len(hlist) : /\ hlist'[i].path = hlist[i].path
                                /\ hlist'[i].emb = hlist[i].emb
                                /\ hlist'[i].caps = hlist[i].caps

LEMMA OneHost ==
  ASSUME TypeInv, NEW k \in 1 .. Len(hlist), NEW h \in HostSet,
         hlist' = [hlist EXCEPT ![k] = h],
         h.path = hlist[k].path, h.emb = hlist[k].emb, h.caps = hlist[k].caps
  PROVE  /\ SameHosts /\ hlist'[k] = h
         /\ \A i \in 1 .. Len(hlist) : i # k => hlist'[i] = hlist[i]
  <1>1. hlist \in Seq(HostSet)
    BY DEF TypeInv
  <1>2. hlist' \in Seq(HostSet) /\ Len(hlist') = Len(hlist)
    BY <1>1, ExceptSeq
  <1>3. \A i \in 1 .. Len(hlist) : hlist'[i] = IF i = k THEN h ELSE hlist[i]
    BY <1>1, ExceptSeq
  <1> QED BY <1>2, <1>3 DEF SameHosts

LEMMA InitHostStep ==
  ASSUME TypeInv, InitHost
  PROVE  /\ SameHosts /\ n \in 1 .. Len(hlist)
         /\ \A i \in 1 .. Len(hlist) : hlist'[i].handle = hlist[i].handle
         /\ registered' \subseteq registered \cup {hlist[n].path}
         /\ \/ mainpc' = "dinit" /\ why' = "connect" /\ up' = up /\ pulses' = pulses /\ cdpc' = cdpc /\ n' = n
            \/ /\ why' = why /\ up' = (up \/ ~hlist[n].emb)
               /\ pulses' = IF CdIntr(hlist[n]) THEN pulses + 1 ELSE pulses
               /\ \/ mainpc' = "cd" /\ cdpc' = "detect" /\ n' = n /\ ~hlist[n].emb
                  \/ mainpc' = "hosts" /\ cdpc' = cdpc /\ n' = n + 1
  <1>1. n \in 1 .. Len(hlist) /\ hlist[n] \in HostSet
    BY DEF InitHost, TypeInv
  <1>2. PICK ho \in HcInit(hlist[n]) :
          LET ok == ho.drv = "held" IN
          IF ~ok
            THEN /\ hlist' = [hlist EXCEPT ![n] = ho] /\ Fail("EIO")
                 /\ UNCHANGED <<pulses, cdpc, up, n>>
            ELSE /\ up' = (up \/ ~ho.emb)
                 /\ pulses' = IF CdIntr(ho) THEN pulses + 1 ELSE pulses
                 /\ IF ~ho.emb /\ ~CdIntr(ho)
                      THEN mainpc' = "cd" /\ cdpc' = "detect" /\ hlist' = [hlist EXCEPT ![n] = ho]
                      ELSE /\ \E p \in IF ho.emb THEN BOOLEAN ELSE {FALSE} :
                                hlist' = [hlist EXCEPT ![n] = [ho EXCEPT !.present = p]]
                           /\ UNCHANGED <<mainpc, cdpc>>
                 /\ n' = IF ~ho.emb /\ ~CdIntr(ho) THEN n ELSE n + 1
                 /\ UNCHANGED <<why, cstatus>>
    BY DEF InitHost
  <1>3. /\ ho \in HostSet /\ ho.path = hlist[n].path /\ ho.emb = hlist[n].emb
        /\ ho.caps = hlist[n].caps /\ ho.handle = hlist[n].handle
    BY <1>1, <1>2, HostKept
  <1>4. CdIntr(ho) <=> CdIntr(hlist[n])
    BY <1>3 DEF CdIntr
  <1>5. \/ hlist' = [hlist EXCEPT ![n] = ho]
        \/ \E p \in BOOLEAN : hlist' = [hlist EXCEPT ![n] = [ho EXCEPT !.present = p]]
    BY <1>2, Zenon
  <1>6. \A p \in BOOLEAN : /\ [ho EXCEPT !.present = p] \in HostSet
                           /\ [ho EXCEPT !.present = p].path = ho.path
                           /\ [ho EXCEPT !.present = p].emb = ho.emb
                           /\ [ho EXCEPT !.present = p].caps = ho.caps
                           /\ [ho EXCEPT !.present = p].handle = ho.handle
    BY <1>3 DEF HostSet
  <1>7. \E h \in HostSet : /\ hlist' = [hlist EXCEPT ![n] = h]
                         /\ h.path = ho.path /\ h.emb = ho.emb /\ h.caps = ho.caps
                         /\ h.handle = ho.handle
    BY <1>3, <1>5, <1>6
  <1>8. SameHosts /\ \A i \in 1 .. Len(hlist) : hlist'[i].handle = hlist[i].handle
    <2>1. PICK h \in HostSet : /\ hlist' = [hlist EXCEPT ![n] = h]
                             /\ h.path = hlist[n].path /\ h.emb = hlist[n].emb
                             /\ h.caps = hlist[n].caps /\ h.handle = hlist[n].handle
      BY <1>3, <1>7
    <2>2. /\ SameHosts /\ hlist'[n] = h
          /\ \A i \in 1 .. Len(hlist) : i # n => hlist'[i] = hlist[i]
      BY <1>1, <2>1, OneHost
    <2> QED BY <2>1, <2>2
  <1>9. registered' \subseteq registered \cup {hlist[n].path}
    BY DEF InitHost, sdio_xpt_device_notify
  <1>10. mainpc = "hosts"
    BY DEF InitHost
  <1> QED BY <1>1, <1>2, <1>3, <1>4, <1>8, <1>9, <1>10 DEF Fail

LEMMA AttachStep ==
  ASSUME TypeInv, ListInv, SimAttach, mutex
  PROVE  /\ SameHosts /\ n \in 1 .. Len(hlist) /\ n' = n + 1 /\ mainpc' = "attach"
         /\ \A i \in 1 .. Len(hlist) :
              hlist'[i].handle = hlist[i].handle \/ hlist[i].emb
  <1>1. n \in 1 .. Len(hlist) /\ hlist[n] \in HostSet /\ n' = n + 1 /\ mainpc' = "attach"
    BY DEF SimAttach, TypeInv
  <1>2. CASE hlist' = hlist
    BY <1>1, <1>2 DEF SameHosts, TypeInv
  <1>3. CASE hlist[n].emb /\ hlist' = [hlist EXCEPT ![n].handle = hlist[n].present]
    <2> DEFINE h == [hlist[n] EXCEPT !.handle = hlist[n].present]
    <2>1. h \in HostSet /\ h.path = hlist[n].path /\ h.emb = hlist[n].emb /\ h.caps = hlist[n].caps
      BY <1>1 DEF HostSet
    <2>2. hlist' = [hlist EXCEPT ![n] = h]
      BY <1>3
    <2> HIDE DEF h
    <2> QED BY <1>1, <1>3, <2>1, <2>2, OneHost, ZenonT(60)
  <1> QED BY <1>2, <1>3 DEF SimAttach

LEMMA UnplugStep ==
  ASSUME TypeInv, ListInv, Unplug
  PROVE  /\ SameHosts /\ n \in 1 .. Len(hlist) /\ n' \in {n, n + 1}
         /\ hlist[n].emb => ~hlist'[n].handle
         /\ \A i \in 1 .. Len(hlist) : i # n \/ ~hlist[i].emb => hlist'[i] = hlist[i]
  <1>1. n \in 1 .. Len(hlist) /\ hlist[n] \in HostSet
    BY DEF Unplug, TypeInv
  <1>2. CASE ~hlist[n].emb
    <2>1. hlist' = hlist /\ n' \in {n, n + 1}
      BY <1>2 DEF Unplug
    <2> QED BY <1>1, <1>2, <2>1 DEF SameHosts, TypeInv
  <1>3. CASE hlist[n].emb
    <2> DEFINE h == [hlist[n] EXCEPT !.handle = FALSE]
    <2>1. /\ h \in HostSet /\ h.path = hlist[n].path /\ h.emb = hlist[n].emb /\ h.caps = hlist[n].caps
          /\ ~h.handle
      BY <1>1 DEF HostSet
    <2>2. hlist' = [hlist EXCEPT ![n] = h] /\ n' = n + 1
      BY <1>3 DEF Unplug
    <2> HIDE DEF h
    <2> QED BY <1>1, <1>3, <2>1, <2>2, OneHost
  <1> QED BY <1>2, <1>3

LEMMA FreeStep ==
  ASSUME TypeInv, FreeHost
  PROVE  /\ hlist' \in Seq(HostSet) /\ Len(hlist) > 0 /\ Len(hlist') = Len(hlist) - 1
         /\ \A i \in 1 .. Len(hlist') : i + 1 \in 1 .. Len(hlist) /\ hlist'[i] = hlist[i + 1]
         /\ mainpc' \in {"free", "abort"} /\ registered' \subseteq registered \ {hlist[1].path}
         /\ up' = (up /\ hlist[1].emb) /\ power' = (power /\ hlist[1].emb)
  <1>1. hlist \in Seq(HostSet) /\ hlist # <<>> /\ hlist' = Tail(hlist)
    BY DEF FreeHost, TypeInv, sdio_hc_free
  <1>2. /\ Head(hlist) = hlist[1] /\ hlist' \in Seq(HostSet) /\ Len(hlist') = Len(hlist) - 1
        /\ \A i \in 1 .. Len(hlist') : hlist'[i] = hlist[i + 1]
    BY <1>1, HeadTailProperties
  <1>3. Len(hlist) \in Nat /\ Len(hlist) > 0
    BY <1>1, LenProperties, EmptySeq
  <1>4. /\ mainpc' \in {"free", "abort"} /\ registered' \subseteq registered \ {hlist[1].path}
        /\ up' = (up /\ hlist[1].emb) /\ power' = (power /\ hlist[1].emb)
    BY <1>2 DEF FreeHost, sdhci_dinit, sdio_xpt_device_notify
  <1> QED BY <1>2, <1>3, <1>4

LEMMA ParseStep ==
  ASSUME TypeInv, ListInv, ParseArgs
  PROVE  /\ n \in 1 .. Len(cmdline) /\ n' = n + 1
         /\ \/ hlist' = hlist /\ (sdioscan' = sdioscan) /\ (~sdioscan => mainpc' # "args")
            \/ /\ ~sdioscan /\ hlist' \in Seq(HostSet)
               /\ Len(hlist) = n - 1 /\ Len(hlist') = n
               /\ \A i \in 1 .. Len(hlist) : hlist'[i] = hlist[i]
               /\ ~hlist'[n].handle /\ (hlist'[n].emb <=> Soldered(cmdline[n]))
               /\ hlist'[n].emb => "CD_INTR" \notin hlist'[n].caps
  <1>1. /\ n \in 1 .. Len(cmdline) /\ n' = n + 1 /\ hlist \in Seq(HostSet)
        /\ cmdline \in Seq(Seq([o : STRING, a : {"none", "good", "bad"}]))
    BY CmdlineAssumption DEF ParseArgs, TypeInv
  <1>2. CASE hlist' = hlist /\ (sdioscan' = sdioscan) /\ (~sdioscan => mainpc' # "args")
    BY <1>1, <1>2
  <1>3. CASE ~sdioscan /\ hlist' = Append(hlist, sdio_options(sdio_hc_alloc, cmdline[n]).hc)
    <2> DEFINE h == sdio_options(sdio_hc_alloc, cmdline[n]).hc
    <2>1. /\ h \in HostSet /\ ~h.handle /\ (h.emb <=> Soldered(cmdline[n]))
          /\ h.emb => "CD_INTR" \notin h.caps
      BY <1>1, OptionsHost
    <2>2. Len(hlist) = n - 1
      BY <1>3 DEF ListInv, ParseArgs
    <2> HIDE DEF h
    <2>3. /\ hlist' \in Seq(HostSet) /\ Len(hlist') = Len(hlist) + 1
          /\ \A i \in 1 .. Len(hlist) : hlist'[i] = hlist[i]
          /\ hlist'[Len(hlist) + 1] = h
      BY <1>1, <1>3, <2>1, AppendProperties DEF h
    <2> QED BY <1>1, <1>3, <2>1, <2>2, <2>3
  <1> QED BY <1>2, <1>3 DEF ParseArgs, Fail

LEMMA MainNext ==
  ASSUME ConnInv, MainThread \/ SimDetach
  PROVE  ConnInv'
  <1>0. TypeInv /\ ListInv /\ ThreadInv /\ UpInv /\ CountInv /\ HandleInv /\ LookInv /\ NothingLeft
    BY DEF ConnInv
  <1> USE <1>0
  <1>1. CASE SimStart
    <2>1. TypeInv'
      BY <1>1 DEF TypeInv, Mains, SimStart, cdv, handle, cardv
    <2>2. ListInv'
      BY <1>1 DEF ListInv, SimStart
    <2>3. ThreadInv'
      BY <1>1 DEF ThreadInv, SimStart, cdv, cardv
    <2>4. UpInv'
      BY <1>1 DEF UpInv, SimStart, flagv, cdv, handle, cardv
    <2>5. CountInv'
      BY <1>1 DEF CountInv, Busy, SimStart, handle, cardv
    <2>6. HandleInv'
      BY <1>1 DEF HandleInv, SimStart, handle, cardv
    <2>7. LookInv'
      BY <1>1 DEF LookInv, SimStart, flagv, cdv, handle, cardv
    <2>8. NothingLeft'
      BY <1>1 DEF NothingLeft, SimStart
    <2> QED BY <2>1, <2>2, <2>3, <2>4, <2>5, <2>6, <2>7, <2>8 DEF ConnInv
  <1>2. CASE SdioInit
    <2>1. TypeInv'
      BY <1>2 DEF TypeInv, Mains, Waiting, SdioInit, handle, Fail
    <2>2. ListInv'
      BY <1>2 DEF ListInv, SdioInit
    <2>3. ThreadInv'
      <3>1. PICK got \in sdio_create_thread(CdNeeds) :
              LET ok == ToSet(CdNeeds) \subseteq got IN
              /\ ids' = got /\ chan' = ("chid" \in got)
              /\ cdpc' = IF ok THEN "receive" ELSE IF got = {} THEN "none" ELSE "ended"
              /\ IF ok THEN mainpc' = "args" /\ UNCHANGED <<why, cstatus>> ELSE Fail("EIO")
        BY <1>2 DEF SdioInit
      <3>2. ToSet(CdNeeds) = {"chid", "coid", "timer"}
        BY DEF ToSet, CdNeeds
      <3>3. got = {} \/ "tid" \in got
        BY <3>1, ThreadFirst
      <3>4. /\ mainpc = "init" /\ mutex' /\ ids = {} /\ ~mutex /\ why = "none"
            /\ ~armed /\ ~chan /\ pulses = 0 /\ ~enum /\ enumerating
            /\ UNCHANGED <<armed, enum, enumerating, pulses>>
        BY <1>2 DEF SdioInit, ThreadInv
      <3>5. CASE {"chid", "coid", "timer"} \subseteq got
        <4>1. mainpc' = "args" /\ cdpc' = "receive" /\ why' = "none" /\ chan'
              /\ {"tid", "chid", "timer"} \subseteq ids'
          BY <3>1, <3>2, <3>3, <3>4, <3>5
        <4> QED BY <3>4, <4>1 DEF ThreadInv, Looking, Waiting
      <3>6. CASE ~({"chid", "coid", "timer"} \subseteq got)
        <4>1. /\ mainpc' = "dinit" /\ why' = "connect" /\ (chan' => "chid" \in ids')
              /\ cdpc' = IF "tid" \notin ids' THEN "none" ELSE "ended"
          BY <3>1, <3>2, <3>3, <3>6 DEF Fail
        <4> QED BY <3>4, <4>1 DEF ThreadInv, Looking, Waiting
      <3> QED BY <3>5, <3>6
    <2>4. UpInv'
      <3>1. mainpc' \in {"args", "dinit"} /\ cdpc' \in {"receive", "none", "ended"}
        BY <1>2 DEF SdioInit, Fail
      <3>2. /\ mainpc = "init" /\ ids = {} /\ ~armed /\ ~chan /\ pulses = 0 /\ ~device /\ ~present
            /\ UNCHANGED <<armed, pulses, device, present, up, hlist>>
        BY <1>2 DEF SdioInit, ThreadInv, HandleInv, LookInv, handle, flagv
      <3> QED BY <3>1, <3>2 DEF UpInv, Looking
    <2>5. CountInv'
      BY <1>2 DEF CountInv, Busy, SdioInit, handle
    <2>6. HandleInv'
      BY <1>2 DEF HandleInv, SdioInit, handle, Fail
    <2>7. LookInv'
      BY <1>2 DEF LookInv, SdioInit, flagv
    <2>8. NothingLeft'
      BY <1>2 DEF NothingLeft, SdioInit, Fail
    <2> QED BY <2>1, <2>2, <2>3, <2>4, <2>5, <2>6, <2>7, <2>8 DEF ConnInv
  <1>3. CASE ParseArgs
    <2>1. TypeInv'
      <3>1. hlist' \in Seq(HostSet) /\ n' \in Nat \ {0}
        BY <1>3, ParseStep DEF TypeInv
      <3>2. mainpc' \in Mains /\ why' \in {"none", "connect", "disconnect", "again", "close"}
        BY <1>3 DEF ParseArgs, Fail, TypeInv, Mains
      <3> QED BY <1>3, <3>1, <3>2 DEF ParseArgs, TypeInv, cardv, cdv, handle
    <2>2. ListInv'
      <3>1. /\ mainpc = "args" /\ mainpc' \in {"args", "dinit"} /\ Len(hlist) \in Nat /\ n \in Nat
            /\ UNCHANGED <<registered, cmdline>>
        BY <1>3 DEF ParseArgs, Fail, TypeInv
      <3>2. CASE hlist' = hlist /\ (sdioscan' = sdioscan) /\ (~sdioscan => mainpc' # "args")
        BY <1>3, <3>1, <3>2, ParseStep DEF ListInv
      <3>3. CASE /\ hlist' \in Seq(HostSet) /\ Len(hlist) = n - 1 /\ Len(hlist') = n
                 /\ \A i \in 1 .. Len(hlist) : hlist'[i] = hlist[i]
                 /\ hlist'[n].emb <=> Soldered(cmdline[n])
                 /\ hlist'[n].emb => "CD_INTR" \notin hlist'[n].caps
        <4>1. n' = n + 1 /\ n \in 1 .. Len(cmdline)
          BY <1>3, ParseStep
        <4>2. \A i \in 1 .. Len(hlist') : hlist'[i].emb <=> Soldered(cmdline[i])
          BY <3>1, <3>3 DEF ListInv
        <4>3. \A i, j \in 1 .. Len(hlist') : hlist'[i].emb \/ hlist'[j].emb \/ i = j
          <5>1. \A i, j \in 1 .. Len(cmdline) : Soldered(cmdline[i]) \/ Soldered(cmdline[j]) \/ i = j
            <6>1. cmdline \in Cmdlines
              BY DEF TypeInv
            <6>2. DOMAIN cmdline = 1 .. Len(cmdline)
              BY <6>1, CmdlineAssumption, LenProperties
            <6> QED BY <6>1, <6>2, CmdlineAssumption
          <5>2. \A i \in 1 .. Len(hlist') : i \in 1 .. Len(cmdline)
            BY <3>1, <3>3, <4>1
          <5> QED BY <4>2, <5>1, <5>2
        <4>4. \A i \in 1 .. Len(hlist') : hlist'[i].emb => "CD_INTR" \notin hlist'[i].caps
          BY <3>1, <3>3 DEF ListInv
        <4>5. registered' \subseteq {hlist'[i].path : i \in 1 .. Len(hlist')}
          BY <3>1, <3>3 DEF ListInv
        <4> QED BY <3>1, <3>3, <4>1, <4>2, <4>3, <4>4, <4>5 DEF ListInv
      <3> QED BY <1>3, <3>2, <3>3, ParseStep
    <2>3. ThreadInv'
      BY <1>3 DEF ThreadInv, ParseArgs, cdv, ctl, cardv, Fail
    <2>4. UpInv'
      <3>1. mainpc' \in {"args", "dinit"} /\ UNCHANGED <<up, pulses, cdpc, armed, device, present, mutex>>
        BY <1>3 DEF ParseArgs, Fail, cardv, cdv, flagv, handle, ctl
      <3>2. (\E i \in 1 .. Len(hlist) : ~hlist[i].emb) => \E i \in 1 .. Len(hlist') : ~hlist'[i].emb
        BY <1>3, ParseStep DEF TypeInv
      <3> QED BY <3>1, <3>2 DEF UpInv
    <2>5. CountInv'
      BY <1>3 DEF CountInv, Busy, ParseArgs, handle, cardv
    <2>6. HandleInv'
      <3>1. /\ mainpc = "args" /\ mainpc' \in {"args", "dinit"} /\ (mainpc' = "dinit" => why' = "connect")
            /\ ~device /\ UNCHANGED <<device, scan, target>>
        BY <1>3 DEF ParseArgs, Fail, cardv, handle, ctl, HandleInv
      <3>2. \A i \in 1 .. Len(hlist') : hlist'[i].handle => hlist'[i].emb
        BY <1>3, ParseStep DEF HandleInv, TypeInv
      <3> QED BY <3>1, <3>2 DEF HandleInv
    <2>7. LookInv'
      BY <1>3 DEF LookInv, ParseArgs, flagv, cdv, handle, cardv, Fail
    <2>8. NothingLeft'
      BY <1>3 DEF NothingLeft, ParseArgs, Fail
    <2> QED BY <2>1, <2>2, <2>3, <2>4, <2>5, <2>6, <2>7, <2>8 DEF ConnInv
  <1>4. CASE FindControllers
    <2>1. TypeInv'
      BY <1>4 DEF TypeInv, Mains, FindControllers, cdv, handle, cardv, Fail
    <2>2. ListInv'
      BY <1>4 DEF ListInv, FindControllers, Fail
    <2>3. ThreadInv'
      BY <1>4 DEF ThreadInv, FindControllers, cdv, ctl, cardv, Fail
    <2>4. UpInv'
      BY <1>4 DEF UpInv, FindControllers, flagv, cdv, handle, ctl, cardv, Fail
    <2>5. CountInv'
      BY <1>4 DEF CountInv, Busy, FindControllers, handle, cardv
    <2>6. HandleInv'
      BY <1>4 DEF HandleInv, FindControllers, handle, ctl, cardv, Fail
    <2>7. LookInv'
      BY <1>4 DEF LookInv, FindControllers, flagv, cdv, handle, cardv, Fail
    <2>8. NothingLeft'
      BY <1>4 DEF NothingLeft, FindControllers, Fail
    <2> QED BY <2>1, <2>2, <2>3, <2>4, <2>5, <2>6, <2>7, <2>8 DEF ConnInv
  <1>5. CASE InitHost
    <2>1. TypeInv'
      <3>1. hlist' \in Seq(HostSet) /\ n' \in Nat \ {0} /\ pulses' \in Nat
            /\ mainpc' \in Mains /\ cdpc' \in Looking \cup Waiting \cup {"none", "ended"}
            /\ why' \in {"none", "connect", "disconnect", "again", "close"}
        BY <1>5, InitHostStep DEF SameHosts, TypeInv, Mains, Looking
      <3>2. UNCHANGED <<usage, cmdline, io>>
        BY <1>5 DEF InitHost, handle
      <3> QED BY <3>1, <3>2 DEF TypeInv
    <2>2. ListInv'
      <3>1. registered' \subseteq {hlist'[i].path : i \in 1 .. Len(hlist')}
        BY <1>5, InitHostStep DEF SameHosts, ListInv
      <3>2. mainpc' \in {"dinit", "cd", "hosts"} /\ n' <= Len(hlist') + 1
        <4>1. /\ n \in 1 .. Len(hlist) /\ Len(hlist) \in Nat /\ Len(hlist') = Len(hlist)
              /\ mainpc' \in {"dinit", "cd", "hosts"} /\ n' \in {n, n + 1}
          BY <1>5, InitHostStep DEF SameHosts, TypeInv
        <4> QED BY <4>1
      <3>3. Len(hlist') = Len(hlist) /\ \A i \in 1 .. Len(hlist) :
              hlist'[i].emb = hlist[i].emb /\ hlist'[i].caps = hlist[i].caps
        BY <1>5, InitHostStep DEF SameHosts
      <3> QED BY <3>1, <3>2, <3>3 DEF ListInv
    <2>3. ThreadInv'
      BY <1>5 DEF ThreadInv, Looking, InitHost, Fail
    <2>4. UpInv'
      <3>1. /\ mainpc = "hosts" /\ cdpc \in Waiting /\ ~device /\ mutex
            /\ UNCHANGED <<device, present, armed, mutex>>
        BY <1>5 DEF InitHost, ThreadInv, HandleInv, handle, flagv
      <3>2. Len(hlist') = Len(hlist) /\ \A i \in 1 .. Len(hlist) : hlist'[i].emb = hlist[i].emb
        BY <1>5, InitHostStep DEF SameHosts
      <3>3. n \in 1 .. Len(hlist) /\ (CdIntr(hlist[n]) => ~hlist[n].emb)
        BY <1>5, InitHostStep DEF ListInv, CdIntr
      <3>4. CASE mainpc' = "dinit" /\ up' = up /\ pulses' = pulses /\ cdpc' = cdpc
        BY <3>1, <3>2, <3>4 DEF UpInv, Looking, Waiting
      <3>5. CASE up' = (up \/ ~hlist[n].emb) /\ pulses' = (IF CdIntr(hlist[n]) THEN pulses + 1 ELSE pulses)
                 /\ \/ mainpc' = "cd" /\ cdpc' = "detect" /\ n' = n /\ ~hlist[n].emb
                    \/ mainpc' = "hosts" /\ cdpc' = cdpc /\ n' = n + 1
        <4>1. up' => \E i \in 1 .. Len(hlist') : ~hlist'[i].emb
          BY <3>2, <3>3, <3>5 DEF UpInv
        <4>2. pulses' > 0 \/ cdpc' = "enum" \/ armed' \/ cdpc' \in Looking \/ device' => up'
          BY <3>1, <3>3, <3>5 DEF UpInv, TypeInv
        <4>3. \A i \in 1 .. Len(hlist') :
                (i < n' \/ (i = n' /\ mainpc' = "cd")) => hlist'[i].emb \/ up'
          <5>1. n \in Nat /\ (n' = n \/ n' = n + 1) /\ (mainpc' = "hosts" => n' = n + 1)
                /\ \A i \in 1 .. Len(hlist) : i < n => hlist[i].emb \/ up
            BY <3>1, <3>5 DEF UpInv, TypeInv
          <5>2. hlist[n].emb \/ up'
            BY <3>5
          <5>3. \A i \in 1 .. Len(hlist) : (i < n' \/ (i = n' /\ mainpc' = "cd")) => i < n \/ i = n
            BY <3>3, <3>5, <5>1
          <5> QED BY <3>2, <3>5, <5>1, <5>2, <5>3
        <4>4. present' => up'
          BY <3>1, <3>5 DEF UpInv, Waiting
        <4> QED BY <3>1, <3>5, <4>1, <4>2, <4>3, <4>4 DEF UpInv
      <3> QED BY <1>5, <3>4, <3>5, InitHostStep
    <2>5. CountInv'
      BY <1>5 DEF CountInv, Busy, InitHost, handle
    <2>6. HandleInv'
      <3>1. /\ mainpc = "hosts" /\ mainpc' \in {"dinit", "cd", "hosts"} /\ ~device /\ (device' = device)
            /\ UNCHANGED <<scan, target>> /\ (mainpc' = "dinit" => why' = "connect")
        BY <1>5, InitHostStep DEF InitHost, HandleInv, handle
      <3>2. \A i \in 1 .. Len(hlist') : hlist'[i].handle => hlist'[i].emb
        BY <1>5, InitHostStep DEF SameHosts, HandleInv
      <3> QED BY <3>1, <3>2 DEF HandleInv
    <2>7. LookInv'
      BY <1>5 DEF LookInv, ThreadInv, InitHost, flagv, handle, Fail
    <2>8. NothingLeft'
      BY <1>5 DEF NothingLeft, InitHost, Fail
    <2> QED BY <2>1, <2>2, <2>3, <2>4, <2>5, <2>6, <2>7, <2>8 DEF ConnInv
  <1>6. CASE FirstLook
    <2>1. TypeInv'
      BY <1>6 DEF TypeInv, Mains, FirstLook, cdv, handle, cardv
    <2>2. ListInv'
      BY <1>6 DEF ListInv, FirstLook
    <2>3. ThreadInv'
      BY <1>6 DEF ThreadInv, Looking, FirstLook, cdv, ctl, cardv
    <2>4. UpInv'
      BY <1>6 DEF UpInv, TypeInv, FirstLook, flagv, cdv, handle, ctl, cardv
    <2>5. CountInv'
      BY <1>6 DEF CountInv, Busy, FirstLook, handle, cardv
    <2>6. HandleInv'
      BY <1>6 DEF HandleInv, FirstLook, handle, ctl, cardv
    <2>7. LookInv'
      BY <1>6 DEF LookInv, FirstLook, flagv, cdv, cardv
    <2>8. NothingLeft'
      BY <1>6 DEF NothingLeft, FirstLook
    <2> QED BY <2>1, <2>2, <2>3, <2>4, <2>5, <2>6, <2>7, <2>8 DEF ConnInv
  <1>7. CASE Connected
    <2>1. TypeInv'
      BY <1>7 DEF TypeInv, Mains, Connected, cdv, handle, cardv
    <2>2. ListInv'
      BY <1>7 DEF ListInv, Connected
    <2>3. ThreadInv'
      BY <1>7 DEF ThreadInv, Connected, cdv, cardv
    <2>4. UpInv'
      <3>1. /\ mainpc = "hosts" /\ mainpc' \in {"ended", "attach"} /\ n > Len(hlist) /\ ~device
            /\ UNCHANGED <<up, pulses, cdpc, device, present, mutex, hlist>>
        BY <1>7 DEF Connected, cardv, cdv, handle, flagv, HandleInv
      <3>2. \A i \in 1 .. Len(hlist) : hlist[i].emb \/ up
        BY <3>1 DEF UpInv, TypeInv
      <3>3. armed' => up'
        <4> SUFFICES ASSUME armed' PROVE up
          BY <3>1
        <4>1. PICK i \in Slot : ~CdIntr(hlist[i])
          BY <1>7 DEF Connected
        <4>2. i \in 1 .. Len(hlist) /\ ~hlist[i].emb
          BY <4>1 DEF Slot, TypeInv
        <4> QED BY <3>2, <4>2
      <3> QED BY <3>1, <3>2, <3>3 DEF UpInv
    <2>5. CountInv'
      BY <1>7 DEF CountInv, Busy, Connected, handle, cardv
    <2>6. HandleInv'
      BY <1>7 DEF HandleInv, Connected, handle, cardv
    <2>7. LookInv'
      BY <1>7 DEF LookInv, Connected, flagv, cdv, handle, cardv
    <2>8. NothingLeft'
      BY <1>7 DEF NothingLeft, Connected
    <2> QED BY <2>1, <2>2, <2>3, <2>4, <2>5, <2>6, <2>7, <2>8 DEF ConnInv
  <1>8. CASE SimAttach
    <2>1. TypeInv'
      <3>1. CASE mutex
        <4>1. hlist' \in Seq(HostSet) /\ n' \in Nat \ {0} /\ mainpc' \in Mains
          BY <1>8, <3>1, AttachStep DEF SameHosts, TypeInv, Mains
        <4>2. usage' \in Nat /\ io' \in [Io -> {"none", "ready", "busy"}]
          BY <1>8 DEF SimAttach, AttachSlot, TypeInv, handle
        <4> QED BY <1>8, <4>1, <4>2 DEF SimAttach, TypeInv, cdv
      <3>2. CASE ~mutex
        BY <1>8, <3>2 DEF SimAttach, TypeInv, Mains, cdv, handle
      <3> QED BY <3>1, <3>2
    <2>2. ListInv'
      <3>1. CASE mutex
        <4>1. /\ Len(hlist') = Len(hlist) /\ mainpc' = "attach" /\ registered' = registered
              /\ \A i \in 1 .. Len(hlist) : /\ hlist'[i].emb = hlist[i].emb
                                            /\ hlist'[i].caps = hlist[i].caps
                                            /\ hlist'[i].path = hlist[i].path
          BY <1>8, <3>1, AttachStep DEF SameHosts, SimAttach
        <4>2. registered' \subseteq {hlist'[i].path : i \in 1 .. Len(hlist')}
          BY <4>1 DEF ListInv
        <4> QED BY <4>1, <4>2 DEF ListInv
      <3>2. CASE ~mutex
        BY <1>8, <3>2 DEF SimAttach, ListInv
      <3> QED BY <3>1, <3>2
    <2>3. ThreadInv'
      BY <1>8 DEF ThreadInv, SimAttach, cdv, ctl
    <2>4. UpInv'
      <3>1. CASE mutex
        <4>1. /\ Len(hlist') = Len(hlist) /\ mainpc' = "attach" /\ n' = n + 1 /\ mainpc = "attach"
              /\ n \in 1 .. Len(hlist)
              /\ \A i \in 1 .. Len(hlist) : hlist'[i].emb = hlist[i].emb
              /\ UNCHANGED <<up, pulses, cdpc, armed, present, mutex>>
          BY <1>8, <3>1, AttachStep DEF SameHosts, SimAttach, cdv, flagv, ctl
        <4>2. device' => device \/ ~hlist[n].emb
          BY <1>8, <3>1 DEF SimAttach, handle
        <4>3. ~hlist[n].emb => up
          BY <3>1, <4>1 DEF UpInv
        <4> QED BY <3>1, <4>1, <4>2, <4>3 DEF UpInv
      <3>2. CASE ~mutex
        BY <1>8, <3>2 DEF SimAttach, UpInv, cdv, flagv, ctl, handle
      <3> QED BY <3>1, <3>2
    <2>5. CountInv'
      <3>1. CASE UNCHANGED <<device, usage, io>>
        BY <3>1 DEF CountInv, Busy
      <3>2. CASE device' /\ usage' = 0 /\ io' = [t \in Io |-> "ready"]
        <4>1. \A t \in Io : io'[t] # "busy"
          BY <3>2
        <4> QED BY <3>2, <4>1, NobodyIn DEF CountInv
      <3> QED BY <1>8, <3>1, <3>2 DEF SimAttach, AttachSlot, handle
    <2>6. HandleInv'
      <3>1. CASE mutex
        <4>1. /\ Len(hlist') = Len(hlist) /\ mainpc' = "attach" /\ n' = n + 1 /\ mainpc = "attach"
              /\ n \in 1 .. Len(hlist) /\ n \in Nat
              /\ \A i \in 1 .. Len(hlist) : hlist'[i].emb = hlist[i].emb
              /\ \A i \in 1 .. Len(hlist) : hlist'[i].handle = hlist[i].handle \/ hlist[i].emb
              /\ UNCHANGED <<present, mutex, scan, target>>
          BY <1>8, <3>1, AttachStep DEF SameHosts, SimAttach, flagv, ctl
        <4>2. \/ device' = device
              \/ device' = TRUE /\ present /\ ~hlist[n].emb
          BY <1>8, <3>1 DEF SimAttach, AttachSlot, handle
        <4>3. scan /\ present /\ ~hlist[n].emb => device'
          BY <1>8, <3>1 DEF SimAttach, AttachSlot, HandleInv
        <4>4. device' => present' /\ \E i \in 1 .. Len(hlist') : i < n' /\ ~hlist'[i].emb
          <5>1. CASE device' = TRUE /\ present /\ ~hlist[n].emb
            BY <4>1, <5>1
          <5>2. CASE device' = device
            BY <4>1, <5>2 DEF HandleInv
          <5> QED BY <4>2, <5>1, <5>2
        <4>5. scan' /\ present' => \A i \in 1 .. Len(hlist') : i < n' => hlist'[i].emb \/ device'
          <5> SUFFICES ASSUME scan, present, NEW i \in 1 .. Len(hlist), i < n + 1, ~hlist[i].emb
                       PROVE  device'
            BY <4>1
          <5>1. CASE i = n
            BY <4>3, <5>1
          <5>2. CASE i # n
            <6>1. device
              BY <4>1, <5>2 DEF HandleInv
            <6> QED BY <4>2, <6>1
          <5> QED BY <5>1, <5>2
        <4>6. \A i \in 1 .. Len(hlist') : hlist'[i].handle => hlist'[i].emb
          BY <4>1 DEF HandleInv
        <4> QED BY <3>1, <4>1, <4>4, <4>5, <4>6 DEF HandleInv
      <3>2. CASE ~mutex
        BY <1>8, <3>2 DEF SimAttach, HandleInv, ctl
      <3> QED BY <3>1, <3>2
    <2>7. LookInv'
      BY <1>8 DEF LookInv, SimAttach, flagv, cdv, handle, AttachSlot
    <2>8. NothingLeft'
      BY <1>8 DEF NothingLeft, SimAttach
    <2> QED BY <2>1, <2>2, <2>3, <2>4, <2>5, <2>6, <2>7, <2>8 DEF ConnInv
  <1>9. CASE Attached
    <2>1. TypeInv'
      BY <1>9 DEF TypeInv, Mains, Attached, cdv, handle, cardv
    <2>2. ListInv'
      BY <1>9 DEF ListInv, Attached
    <2>3. ThreadInv'
      BY <1>9 DEF ThreadInv, Attached, cdv, cardv
    <2>4. UpInv'
      BY <1>9 DEF UpInv, Attached, flagv, cdv, handle, cardv
    <2>5. CountInv'
      BY <1>9 DEF CountInv, Busy, Attached, handle, cardv
    <2>6. HandleInv'
      BY <1>9 DEF HandleInv, Attached
    <2>7. LookInv'
      <3>1. /\ mainpc = "attach" /\ mutex /\ n > Len(hlist) /\ cdpc \in Waiting /\ mainpc' = "run"
            /\ UNCHANGED <<cdpc, present, power, device, rmv, usage, scan>>
        BY <1>9 DEF Attached, ThreadInv, cardv, cdv, handle, flagv
      <3>2. device => present
        BY <3>1 DEF HandleInv
      <3>3. scan /\ present => device
        <4> SUFFICES ASSUME scan, present PROVE device
          OBVIOUS
        <4>1. up
          BY <3>1 DEF UpInv, Waiting
        <4>2. PICK i \in 1 .. Len(hlist) : ~hlist[i].emb
          BY <4>1 DEF UpInv
        <4>3. i < n
          BY <3>1 DEF TypeInv
        <4> QED BY <3>1, <4>2, <4>3 DEF HandleInv
      <3> QED BY <3>1, <3>2, <3>3 DEF LookInv, Waiting
    <2>8. NothingLeft'
      BY <1>9 DEF NothingLeft, Attached
    <2> QED BY <2>1, <2>2, <2>3, <2>4, <2>5, <2>6, <2>7, <2>8 DEF ConnInv
  <1>10. CASE CdDinit
    <2>1. TypeInv'
      BY <1>10 DEF TypeInv, Mains, CdDinit, cdv, handle
    <2>2. ListInv'
      BY <1>10 DEF ListInv, CdDinit
    <2>3. ThreadInv'
      BY <1>10 DEF ThreadInv, CdDinit, cdv
    <2>4. UpInv'
      <3>1. /\ mainpc' = "join" /\ (armed' => armed) /\ pulses' \in {pulses, 0}
            /\ UNCHANGED <<up, cdpc, device, present, mutex, hlist>>
        BY <1>10 DEF CdDinit, cdv, handle, flagv
      <3> QED BY <3>1 DEF UpInv
    <2>5. CountInv'
      BY <1>10 DEF CountInv, Busy, CdDinit, handle
    <2>6. HandleInv'
      BY <1>10 DEF HandleInv, CdDinit, handle
    <2>7. LookInv'
      BY <1>10 DEF LookInv, CdDinit, flagv, cdv, handle
    <2>8. NothingLeft'
      BY <1>10 DEF NothingLeft, CdDinit
    <2> QED BY <2>1, <2>2, <2>3, <2>4, <2>5, <2>6, <2>7, <2>8 DEF ConnInv
  <1>11. CASE CdJoin
    <2>1. TypeInv'
      BY <1>11 DEF TypeInv, Mains, CdJoin, handle, AfterCdDinit
    <2>2. ListInv'
      BY <1>11 DEF ListInv, CdJoin, AfterCdDinit
    <2>3. ThreadInv'
      BY <1>11 DEF ThreadInv, Looking, CdJoin, ctl, AfterCdDinit
    <2>4. UpInv'
      BY <1>11 DEF UpInv, Looking, CdJoin, flagv, handle, ctl, AfterCdDinit
    <2>5. CountInv'
      BY <1>11 DEF CountInv, Busy, CdJoin, handle
    <2>6. HandleInv'
      <3>1. mainpc = "join" /\ UNCHANGED <<device, hlist, mutex, present, scan, target>> /\ n' = 1
        BY <1>11 DEF CdJoin, handle, flagv, ctl
      <3>2. \/ why \in {"connect", "close"} /\ mainpc' = "free"
            \/ mainpc' = "unplug" \/ mainpc' = "ended"
            \/ mainpc' = "dinit" /\ why' = "close" /\ (why \in {"disconnect", "again"} => Handles = {})
        BY <1>11 DEF CdJoin, AfterCdDinit
      <3>3. why \in {"connect", "disconnect", "again", "close"}
        BY <3>1 DEF ThreadInv, TypeInv
      <3>4. \A i \in 1 .. Len(hlist) : ~(i < 1)
        OBVIOUS
      <3>5. CASE why \in {"connect", "close"} /\ mainpc' = "free"
        BY <3>1, <3>5 DEF HandleInv
      <3>6. CASE mainpc' = "unplug" \/ mainpc' = "ended"
        BY <3>1, <3>4, <3>6 DEF HandleInv
      <3>7. CASE mainpc' = "dinit" /\ why' = "close" /\ (why \in {"disconnect", "again"} => Handles = {})
        <4>1. ~device
          BY <3>1, <3>3, <3>7 DEF HandleInv, Handles
        <4> QED BY <3>1, <3>7, <4>1 DEF HandleInv
      <3> QED BY <3>2, <3>5, <3>6, <3>7
    <2>7. LookInv'
      BY <1>11 DEF LookInv, CdJoin, flagv, handle, AfterCdDinit
    <2>8. NothingLeft'
      BY <1>11
         DEF NothingLeft, Handles, ThreadInv, HandleInv, TypeInv, CdJoin, handle, AfterCdDinit
    <2> QED BY <2>1, <2>2, <2>3, <2>4, <2>5, <2>6, <2>7, <2>8 DEF ConnInv
  <1>12. CASE Unplug
    <2>1. TypeInv'
      <3>1. hlist' \in Seq(HostSet) /\ n' \in Nat \ {0}
        BY <1>12, UnplugStep DEF SameHosts, TypeInv
      <3>2. usage' \in Nat /\ io' \in [Io -> {"none", "ready", "busy"}]
        BY <1>12 DEF Unplug, TypeInv, handle
      <3> QED BY <1>12, <3>1, <3>2 DEF Unplug, TypeInv, cdv
    <2>2. ListInv'
      <3>1. /\ Len(hlist') = Len(hlist) /\ mainpc' = "unplug" /\ registered' = registered
            /\ \A i \in 1 .. Len(hlist) : /\ hlist'[i].emb = hlist[i].emb
                                          /\ hlist'[i].caps = hlist[i].caps
                                          /\ hlist'[i].path = hlist[i].path
        BY <1>12, UnplugStep DEF SameHosts, Unplug
      <3>a. n' <= Len(hlist') + 1
        <4>1. n \in 1 .. Len(hlist) /\ n' \in {n, n + 1} /\ Len(hlist) \in Nat
          BY <1>12, UnplugStep DEF TypeInv
        <4> QED BY <3>1, <4>1
      <3>2. registered' \subseteq {hlist'[i].path : i \in 1 .. Len(hlist')}
        BY <3>1 DEF ListInv
      <3> QED BY <3>1, <3>a, <3>2 DEF ListInv
    <2>3. ThreadInv'
      BY <1>12 DEF ThreadInv, Unplug, cdv, ctl
    <2>4. UpInv'
      <3>1. Len(hlist') = Len(hlist) /\ \A i \in 1 .. Len(hlist) : hlist'[i].emb = hlist[i].emb
        BY <1>12, UnplugStep DEF SameHosts
      <3>2. mainpc' = "unplug" /\ UNCHANGED <<up, pulses, cdpc, armed, present, mutex>>
        BY <1>12 DEF Unplug, cdv, flagv, ctl
      <3>3. device' => device
        BY <1>12 DEF Unplug, handle
      <3> QED BY <3>1, <3>2, <3>3 DEF UpInv
    <2>5. CountInv'
      <3>1. CASE UNCHANGED <<device, usage, io>>
        BY <3>1 DEF CountInv, Busy
      <3>2. CASE usage = 0 /\ usage' = 0
                 /\ io' = [t \in Io |-> IF io[t] = "ready" THEN "none" ELSE io[t]]
        <4>1. Busy = {}
          BY <3>2, BusyFinite DEF CountInv
        <4>2. \A t \in Io : io'[t] # "busy"
          BY <3>2, <4>1 DEF Busy
        <4> QED BY <3>2, <4>2, NobodyIn DEF CountInv
      <3> QED BY <1>12, <3>1, <3>2 DEF Unplug, handle
    <2>6. HandleInv'
      <3>1. /\ Len(hlist') = Len(hlist) /\ mainpc' = "unplug" /\ mainpc = "unplug"
            /\ n \in 1 .. Len(hlist) /\ n \in Nat /\ n' \in {n, n + 1}
            /\ hlist[n].emb => ~hlist'[n].handle
            /\ \A i \in 1 .. Len(hlist) : hlist'[i].emb = hlist[i].emb
            /\ \A i \in 1 .. Len(hlist) : i # n \/ ~hlist[i].emb => hlist'[i] = hlist[i]
            /\ UNCHANGED <<scan, target>>
        BY <1>12, UnplugStep DEF SameHosts, Unplug, ctl, TypeInv
      <3>2. \A i \in 1 .. Len(hlist') : i < n' /\ hlist'[i].emb => ~hlist'[i].handle
        BY <3>1 DEF HandleInv
      <3>3. \A i \in 1 .. Len(hlist') : hlist'[i].handle => hlist'[i].emb
        BY <3>1 DEF HandleInv
      <3> QED BY <3>1, <3>2, <3>3 DEF HandleInv
    <2>7. LookInv'
      BY <1>12 DEF LookInv, ThreadInv, Unplug, cdv
    <2>8. NothingLeft'
      BY <1>12 DEF NothingLeft, Unplug
    <2> QED BY <2>1, <2>2, <2>3, <2>4, <2>5, <2>6, <2>7, <2>8 DEF ConnInv
  <1>13. CASE Disconnect
    <2>1. TypeInv'
      BY <1>13 DEF TypeInv, Mains, Disconnect, cdv, handle, cardv
    <2>2. ListInv'
      BY <1>13 DEF ListInv, Disconnect
    <2>3. ThreadInv'
      BY <1>13 DEF ThreadInv, Disconnect, cdv, ctl, cardv
    <2>4. UpInv'
      BY <1>13 DEF UpInv, Disconnect, flagv, cdv, handle, ctl, cardv
    <2>5. CountInv'
      BY <1>13 DEF CountInv, Busy, Disconnect, handle, cardv
    <2>6. HandleInv'
      BY <1>13 DEF HandleInv, TypeInv, Disconnect, ctl
    <2>7. LookInv'
      BY <1>13 DEF LookInv, Disconnect, flagv, cdv, handle, cardv
    <2>8. NothingLeft'
      BY <1>13 DEF NothingLeft, Disconnect
    <2> QED BY <2>1, <2>2, <2>3, <2>4, <2>5, <2>6, <2>7, <2>8 DEF ConnInv
  <1>14. CASE FreeHost
    <2>1. TypeInv'
      <3>1. hlist' \in Seq(HostSet) /\ mainpc' \in Mains
        BY <1>14, FreeStep DEF Mains
      <3> QED BY <1>14, <3>1 DEF FreeHost, TypeInv, cdv, handle
    <2>2. ListInv'
      <3>1. /\ Len(hlist) \in Nat /\ Len(hlist') = Len(hlist) - 1 /\ mainpc' \in {"free", "abort"}
            /\ registered' \subseteq registered \ {hlist[1].path}
            /\ \A i \in 1 .. Len(hlist') : i + 1 \in 1 .. Len(hlist) /\ hlist'[i] = hlist[i + 1]
        BY <1>14, FreeStep DEF TypeInv
      <3>2. registered' \subseteq {hlist'[i].path : i \in 1 .. Len(hlist')}
        <4> SUFFICES ASSUME NEW r \in registered' PROVE \E i \in 1 .. Len(hlist') : r = hlist'[i].path
          OBVIOUS
        <4>1. PICK j \in 1 .. Len(hlist) : r = hlist[j].path
          BY <3>1 DEF ListInv
        <4>2. j # 1
          BY <3>1, <4>1
        <4>3. j - 1 \in 1 .. Len(hlist') /\ hlist'[j - 1] = hlist[j]
          BY <3>1, <4>2
        <4> QED BY <4>1, <4>3
      <3>3. \A i \in 1 .. Len(hlist') : hlist'[i].emb => "CD_INTR" \notin hlist'[i].caps
        BY <3>1 DEF ListInv
      <3>4. \A i, j \in 1 .. Len(hlist') : hlist'[i].emb \/ hlist'[j].emb \/ i = j
        BY <3>1 DEF ListInv
      <3> QED BY <3>1, <3>2, <3>3, <3>4 DEF ListInv
    <2>3. ThreadInv'
      <3>1. /\ mainpc = "free" /\ mainpc' \in {"free", "abort"}
            /\ UNCHANGED <<cdpc, ids, mutex, armed, chan, enum, why, enumerating, pulses>>
        BY <1>14, FreeStep DEF FreeHost, cdv
      <3> QED BY <3>1 DEF ThreadInv, Looking, Waiting
    <2>4. UpInv'
      <3>1. /\ Len(hlist) \in Nat /\ Len(hlist') = Len(hlist) - 1 /\ mainpc' \in {"free", "abort"}
            /\ \A i \in 1 .. Len(hlist') : i + 1 \in 1 .. Len(hlist) /\ hlist'[i] = hlist[i + 1]
            /\ up' = (up /\ hlist[1].emb)
        BY <1>14, FreeStep DEF TypeInv
      <3>2. /\ mainpc = "free" /\ ids = {} /\ cdpc = "none" /\ ~armed /\ ~chan /\ pulses = 0 /\ ~device
            /\ UNCHANGED <<cdpc, armed, pulses, device, present, mutex>>
        BY <1>14 DEF FreeHost, ThreadInv, HandleInv, cdv, handle
      <3>3. up' => \E i \in 1 .. Len(hlist') : ~hlist'[i].emb
        <4> SUFFICES ASSUME up, hlist[1].emb PROVE \E i \in 1 .. Len(hlist') : ~hlist'[i].emb
          BY <3>1
        <4>1. PICK j \in 1 .. Len(hlist) : ~hlist[j].emb
          BY DEF UpInv
        <4>2. j - 1 \in 1 .. Len(hlist') /\ hlist'[j - 1] = hlist[j]
          BY <3>1, <4>1
        <4> QED BY <4>1, <4>2
      <3> QED BY <3>1, <3>2, <3>3 DEF UpInv, Looking
    <2>5. CountInv'
      BY <1>14 DEF CountInv, Busy, FreeHost, handle
    <2>6. HandleInv'
      <3>1. /\ Len(hlist) \in Nat /\ mainpc' \in {"free", "abort"} /\ mainpc = "free"
            /\ \A i \in 1 .. Len(hlist') : i + 1 \in 1 .. Len(hlist) /\ hlist'[i] = hlist[i + 1]
        BY <1>14, FreeStep DEF TypeInv, FreeHost
      <3>2. \A i \in 1 .. Len(hlist') : hlist'[i].handle => hlist'[i].emb
        BY <3>1 DEF HandleInv
      <3>3. UNCHANGED <<device, scan, target, why>>
        BY <1>14 DEF FreeHost, handle
      <3> QED BY <3>1, <3>2, <3>3 DEF HandleInv
    <2>7. LookInv'
      <3>1. /\ mainpc = "free" /\ mainpc' \in {"free", "abort"} /\ cdpc = "none"
            /\ UNCHANGED cdpc
        BY <1>14, FreeStep DEF FreeHost, cdv, ThreadInv
      <3> QED BY <3>1 DEF LookInv
    <2>8. NothingLeft'
      <3>1. mainpc' \in {"free", "abort"}
        BY <1>14, FreeStep
      <3> QED BY <3>1 DEF NothingLeft
    <2> QED BY <2>1, <2>2, <2>3, <2>4, <2>5, <2>6, <2>7, <2>8 DEF ConnInv
  <1>15. CASE Freed
    <2>1. TypeInv'
      BY <1>15 DEF TypeInv, Mains, Freed, cdv, handle, cardv
    <2>2. ListInv'
      BY <1>15 DEF ListInv, Freed
    <2>3. ThreadInv'
      BY <1>15 DEF ThreadInv, Freed, cdv, ctl, cardv
    <2>4. UpInv'
      BY <1>15 DEF UpInv, Freed, flagv, cdv, handle, ctl, cardv
    <2>5. CountInv'
      BY <1>15 DEF CountInv, Busy, Freed, handle, cardv
    <2>6. HandleInv'
      BY <1>15 DEF HandleInv, Freed, handle, ctl, cardv
    <2>7. LookInv'
      BY <1>15 DEF LookInv, Freed, flagv, cdv, handle, cardv
    <2>8. NothingLeft'
      <3>1. /\ mainpc = "free" /\ hlist = <<>> /\ ids = {} /\ ~device /\ ~mutex'
            /\ UNCHANGED <<ids, chan, armed, cdpc, hlist, registered, up, device>>
        BY <1>15 DEF Freed, ThreadInv, HandleInv, cardv, cdv, ctl, handle
      <3>2. ~chan /\ ~armed /\ cdpc = "none"
        BY <3>1 DEF ThreadInv
      <3>3. 1 .. Len(hlist) = {} /\ DOMAIN hlist = {}
        BY <3>1
      <3>4. registered = {} /\ ~up
        BY <3>3 DEF ListInv, UpInv
      <3>5. Handles' = {}
        BY <3>1, <3>3 DEF Handles
      <3> QED BY <3>1, <3>2, <3>4, <3>5 DEF NothingLeft
    <2> QED BY <2>1, <2>2, <2>3, <2>4, <2>5, <2>6, <2>7, <2>8 DEF ConnInv
  <1>16. CASE SimDetach
    <2>1. TypeInv'
      BY <1>16 DEF TypeInv, Mains, SimDetach, cdv, handle, cardv
    <2>2. ListInv'
      BY <1>16 DEF ListInv, SimDetach
    <2>3. ThreadInv'
      BY <1>16 DEF ThreadInv, SimDetach, cdv, cardv
    <2>4. UpInv'
      BY <1>16 DEF UpInv, SimDetach, flagv, cdv, handle, cardv
    <2>5. CountInv'
      BY <1>16 DEF CountInv, Busy, SimDetach, handle, cardv
    <2>6. HandleInv'
      BY <1>16 DEF HandleInv, SimDetach
    <2>7. LookInv'
      BY <1>16 DEF LookInv, SimDetach, flagv, cdv, handle, cardv
    <2>8. NothingLeft'
      BY <1>16 DEF NothingLeft, SimDetach
    <2> QED BY <2>1, <2>2, <2>3, <2>4, <2>5, <2>6, <2>7, <2>8 DEF ConnInv
  <1> QED BY <1>1, <1>2, <1>3, <1>4, <1>5, <1>6, <1>7, <1>8, <1>9, <1>10, <1>11, <1>12, <1>13,
             <1>14, <1>15, <1>16
             DEF MainThread

LEMMA BesideNext ==
  ASSUME ConnInv, CardNext, UNCHANGED connv
  PROVE  ConnInv'
  <1>a. TypeInv /\ ListInv /\ ThreadInv /\ UpInv /\ CountInv /\ HandleInv /\ LookInv /\ NothingLeft /\ UNCHANGED connv
    BY DEF ConnInv
  <1> USE <1>a
  <1>0. ListInv'
    BY DEF ListInv, connv
  <1>1. CASE PlugIn
    <2>1. TypeInv'
      BY <1>1 DEF TypeInv, PlugIn, cdv, handle, connv
    <2>2. ThreadInv'
      BY <1>1 DEF ThreadInv, PlugIn, cdv, ctl, connv
    <2>3. UpInv'
      BY <1>1 DEF UpInv, PlugIn, flagv, cdv, handle, ctl, connv
    <2>4. CountInv'
      BY <1>1 DEF CountInv, Busy, PlugIn, handle
    <2>5. HandleInv'
      BY <1>1 DEF HandleInv, PlugIn, flagv, handle, ctl, connv
    <2>6. LookInv'
      BY <1>1 DEF LookInv, PlugIn, flagv, cdv, handle, ctl, connv
    <2>7. NothingLeft'
      BY <1>1 DEF NothingLeft, Handles, PlugIn, cdv, handle, ctl, connv
    <2> QED BY <2>1, <2>2, <2>3, <2>4, <2>5, <2>6, <2>7, <1>0 DEF ConnInv
  <1>2. CASE PullOut
    <2>1. TypeInv'
      BY <1>2 DEF TypeInv, PullOut, cdv, handle, connv
    <2>2. ThreadInv'
      BY <1>2 DEF ThreadInv, PullOut, cdv, ctl, connv
    <2>3. UpInv'
      BY <1>2 DEF UpInv, PullOut, flagv, cdv, handle, ctl, connv
    <2>4. CountInv'
      BY <1>2 DEF CountInv, Busy, PullOut, handle
    <2>5. HandleInv'
      BY <1>2 DEF HandleInv, PullOut, flagv, handle, ctl, connv
    <2>6. LookInv'
      BY <1>2 DEF LookInv, PullOut, flagv, cdv, handle, ctl, connv
    <2>7. NothingLeft'
      BY <1>2 DEF NothingLeft, Handles, PullOut, cdv, handle, ctl, connv
    <2> QED BY <2>1, <2>2, <2>3, <2>4, <2>5, <2>6, <2>7, <1>0 DEF ConnInv
  <1>3. CASE CdEvent
    <2>1. TypeInv'
      BY <1>3 DEF TypeInv, CdEvent, cdv, handle, connv
    <2>2. ThreadInv'
      BY <1>3 DEF ThreadInv, CdEvent, cdv, ctl, connv
    <2>3. UpInv'
      BY <1>3 DEF UpInv, CdEvent, cdv, handle, ctl, connv
    <2>4. CountInv'
      BY <1>3 DEF CountInv, Busy, CdEvent, handle
    <2>5. HandleInv'
      BY <1>3 DEF HandleInv, CdEvent, handle, ctl, connv
    <2>6. LookInv'
      BY <1>3 DEF LookInv, CdEvent, cdv, handle, ctl, connv
    <2>7. NothingLeft'
      BY <1>3 DEF NothingLeft, CdEvent, cdv, handle, connv
    <2> QED BY <2>1, <2>2, <2>3, <2>4, <2>5, <2>6, <2>7, <1>0 DEF ConnInv
  <1>4. CASE Timer
    <2>1. TypeInv'
      BY <1>4 DEF TypeInv, Timer, cdv, handle, connv
    <2>2. ThreadInv'
      BY <1>4 DEF ThreadInv, Timer, cdv, ctl, connv
    <2>3. UpInv'
      BY <1>4 DEF UpInv, Timer, cdv, handle, ctl, connv
    <2>4. CountInv'
      BY <1>4 DEF CountInv, Busy, Timer, handle
    <2>5. HandleInv'
      BY <1>4 DEF HandleInv, Timer, flagv, handle, ctl, connv
    <2>6. LookInv'
      BY <1>4 DEF LookInv, Timer, flagv, cdv, handle, ctl, connv
    <2>7. NothingLeft'
      BY <1>4 DEF NothingLeft, Timer, cdv, handle, connv
    <2> QED BY <2>1, <2>2, <2>3, <2>4, <2>5, <2>6, <2>7, <1>0 DEF ConnInv
  <1>5. CASE Receive
    <2>1. TypeInv'
      BY <1>5 DEF TypeInv, Waiting, Receive, handle, connv
    <2>2. ThreadInv'
      BY <1>5 DEF ThreadInv, Looking, Waiting, Receive, ctl, connv
    <2>3. UpInv'
      BY <1>5 DEF UpInv, Looking, Receive, handle, ctl, connv
    <2>4. CountInv'
      BY <1>5 DEF CountInv, Busy, Receive, handle
    <2>5. HandleInv'
      BY <1>5 DEF HandleInv, Receive, flagv, handle, ctl, connv
    <2>6. LookInv'
      BY <1>5 DEF LookInv, Receive, flagv, handle, ctl, connv
    <2>7. NothingLeft'
      BY <1>5 DEF NothingLeft, Receive, connv
    <2> QED BY <2>1, <2>2, <2>3, <2>4, <2>5, <2>6, <2>7, <1>0 DEF ConnInv
  <1>6. CASE CdEnum
    <2>1. TypeInv'
      BY <1>6 DEF TypeInv, Looking, CdEnum, handle, connv
    <2>2. ThreadInv'
      BY <1>6 DEF ThreadInv, Looking, CdEnum, ctl, connv
    <2>3. UpInv'
      BY <1>6 DEF UpInv, ThreadInv, CdEnum, ctl, connv
    <2>4. CountInv'
      BY <1>6 DEF CountInv, Busy, CdEnum, handle
    <2>5. HandleInv'
      BY <1>6 DEF HandleInv, CdEnum, flagv, handle, ctl, connv
    <2>6. LookInv'
      BY <1>6 DEF LookInv, CdEnum, flagv, handle, ctl, connv
    <2>7. NothingLeft'
      BY <1>6 DEF NothingLeft, CdEnum, connv
    <2> QED BY <2>1, <2>2, <2>3, <2>4, <2>5, <2>6, <2>7, <1>0 DEF ConnInv
  <1>7. CASE CdEnd
    <2>1. TypeInv'
      BY <1>7 DEF TypeInv, CdEnd, handle, connv
    <2>2. ThreadInv'
      BY <1>7 DEF ThreadInv, Looking, CdEnd, ctl, connv
    <2>3. UpInv'
      BY <1>7 DEF UpInv, Looking, CdEnd, flagv, handle, ctl, connv
    <2>4. CountInv'
      BY <1>7 DEF CountInv, Busy, CdEnd, handle
    <2>5. HandleInv'
      BY <1>7 DEF HandleInv, CdEnd, flagv, handle, ctl, connv
    <2>6. LookInv'
      BY <1>7 DEF LookInv, CdEnd, flagv, connv
    <2>7. NothingLeft'
      BY <1>7 DEF NothingLeft, CdEnd, connv
    <2> QED BY <2>1, <2>2, <2>3, <2>4, <2>5, <2>6, <2>7, <1>0 DEF ConnInv
  <1>8. CASE Detect
    <2>1. TypeInv'
      BY <1>8 DEF TypeInv, Looking, Detect, handle, connv
    <2>2. ThreadInv'
      BY <1>8 DEF ThreadInv, Looking, Detect, ctl, connv
    <2>3. UpInv'
      BY <1>8 DEF UpInv, Looking, Detect, ctl, connv
    <2>4. CountInv'
      BY <1>8 DEF CountInv, Busy, Detect, handle
    <2>5. HandleInv'
      BY <1>8 DEF HandleInv, ThreadInv, Waiting, Detect, handle, ctl, connv
    <2>6. LookInv'
      BY <1>8 DEF LookInv, Detect, handle, ctl, connv
    <2>7. NothingLeft'
      BY <1>8 DEF NothingLeft, Detect, connv
    <2> QED BY <2>1, <2>2, <2>3, <2>4, <2>5, <2>6, <2>7, <1>0 DEF ConnInv
  <1>9. CASE Mark
    <2>1. TypeInv'
      BY <1>9 DEF TypeInv, Looking, Mark, connv
    <2>2. ThreadInv'
      BY <1>9 DEF ThreadInv, Looking, Mark, ctl, connv
    <2>3. UpInv'
      BY <1>9 DEF UpInv, Looking, Mark, ctl, connv
    <2>4. CountInv'
      BY <1>9 DEF CountInv, Busy, Mark
    <2>5. HandleInv'
      BY <1>9 DEF HandleInv, Mark, ctl, connv
    <2>6. LookInv'
      BY <1>9 DEF LookInv, Mark
    <2>7. NothingLeft'
      BY <1>9 DEF NothingLeft, Mark, connv
    <2> QED BY <2>1, <2>2, <2>3, <2>4, <2>5, <2>6, <2>7, <1>0 DEF ConnInv
  <1>10. CASE Close
    <2>1. TypeInv'
      BY <1>10 DEF TypeInv, Looking, Close, connv
    <2>2. ThreadInv'
      BY <1>10 DEF ThreadInv, Looking, Close, ctl, connv
    <2>3. UpInv'
      BY <1>10 DEF UpInv, Looking, Close, ctl, connv
    <2>4. CountInv'
      BY <1>10 DEF CountInv, Busy, Close
    <2>5. HandleInv'
      BY <1>10 DEF HandleInv, Close, ctl, connv
    <2>6. LookInv'
      BY <1>10 DEF LookInv, ThreadInv, Close, connv
    <2>7. NothingLeft'
      BY <1>10 DEF NothingLeft, Close, connv
    <2> QED BY <2>1, <2>2, <2>3, <2>4, <2>5, <2>6, <2>7, <1>0 DEF ConnInv
  <1>11. CASE Join
    <2>1. TypeInv'
      BY <1>11 DEF TypeInv, Looking, Join, handle, connv
    <2>2. ThreadInv'
      BY <1>11 DEF ThreadInv, Looking, Join, ctl, connv
    <2>3. UpInv'
      BY <1>11 DEF UpInv, Looking, Join, ctl, connv
    <2>4. CountInv'
      BY <1>11 DEF CountInv, Busy, Join, handle
    <2>5. HandleInv'
      BY <1>11 DEF HandleInv, Join, flagv, handle, ctl, connv
    <2>6. LookInv'
      BY <1>11 DEF LookInv, Join, flagv, handle
    <2>7. NothingLeft'
      BY <1>11 DEF NothingLeft, Join, connv
    <2> QED BY <2>1, <2>2, <2>3, <2>4, <2>5, <2>6, <2>7, <1>0 DEF ConnInv
  <1>12. CASE Detach
    <2>1. TypeInv'
      BY <1>12 DEF TypeInv, Looking, Detach, connv
    <2>2. ThreadInv'
      BY <1>12 DEF ThreadInv, Looking, Detach, ctl, connv
    <2>3. UpInv'
      BY <1>12 DEF UpInv, Looking, Detach, ctl, connv
    <2>4. CountInv'
      <3>1. CASE usage = 0
        <4>1. Busy = {}
          BY <3>1, BusyFinite DEF CountInv
        <4>2. usage' = 0 /\ \A t \in Io : io'[t] # "busy"
          BY <1>12, <3>1, <4>1 DEF Detach, Busy
        <4> QED BY <4>2, NobodyIn DEF CountInv
      <3>2. CASE usage # 0
        BY <1>12, <3>2 DEF Detach, CountInv, Busy
      <3> QED BY <3>1, <3>2
    <2>5. HandleInv'
      BY <1>12 DEF HandleInv, LookInv, Detach, ctl, connv
    <2>6. LookInv'
      BY <1>12 DEF LookInv, Detach
    <2>7. NothingLeft'
      BY <1>12 DEF NothingLeft, Detach, connv
    <2> QED BY <2>1, <2>2, <2>3, <2>4, <2>5, <2>6, <2>7, <1>0 DEF ConnInv
  <1>13. CASE InsertCard
    <2>1. TypeInv'
      BY <1>13 DEF TypeInv, Looking, Waiting, InsertCard, handle, connv
    <2>2. ThreadInv'
      BY <1>13 DEF ThreadInv, Looking, Waiting, InsertCard, ctl, connv
    <2>3. UpInv'
      BY <1>13 DEF UpInv, Looking, InsertCard, ctl, connv
    <2>4. CountInv'
      BY <1>13 DEF CountInv, Busy, InsertCard, handle
    <2>5. HandleInv'
      BY <1>13 DEF HandleInv, InsertCard, flagv, handle, ctl, connv
    <2>6. LookInv'
      BY <1>13 DEF LookInv, InsertCard, flagv, handle, ctl, connv
    <2>7. NothingLeft'
      BY <1>13 DEF NothingLeft, InsertCard, connv
    <2> QED BY <2>1, <2>2, <2>3, <2>4, <2>5, <2>6, <2>7, <1>0 DEF ConnInv
  <1>14. CASE Ident
    <2>1. TypeInv'
      BY <1>14 DEF TypeInv, Looking, Waiting, Ident, handle, connv
    <2>2. ThreadInv'
      BY <1>14 DEF ThreadInv, Looking, Waiting, Ident, ctl, connv
    <2>3. UpInv'
      BY <1>14 DEF UpInv, Looking, Ident, ctl, connv
    <2>4. CountInv'
      BY <1>14 DEF CountInv, Busy, Ident, handle
    <2>5. HandleInv'
      BY <1>14 DEF HandleInv, LookInv, Ident, handle, ctl, connv
    <2>6. LookInv'
      BY <1>14 DEF LookInv, Ident, handle, connv
    <2>7. NothingLeft'
      BY <1>14 DEF NothingLeft, Ident, connv
    <2> QED BY <2>1, <2>2, <2>3, <2>4, <2>5, <2>6, <2>7, <1>0 DEF ConnInv
  <1>15. CASE ReadFlags
    <2>1. TypeInv'
      BY <1>15 DEF TypeInv, Looking, ReadFlags, handle, connv
    <2>2. ThreadInv'
      BY <1>15 DEF ThreadInv, Looking, ReadFlags, ctl, connv
    <2>3. UpInv'
      BY <1>15 DEF UpInv, Looking, ReadFlags, ctl, connv
    <2>4. CountInv'
      BY <1>15 DEF CountInv, Busy, ReadFlags, handle
    <2>5. HandleInv'
      BY <1>15 DEF HandleInv, ReadFlags, flagv, handle, ctl, connv
    <2>6. LookInv'
      BY <1>15 DEF LookInv, ReadFlags, flagv, handle, connv
    <2>7. NothingLeft'
      BY <1>15 DEF NothingLeft, ReadFlags, connv
    <2> QED BY <2>1, <2>2, <2>3, <2>4, <2>5, <2>6, <2>7, <1>0 DEF ConnInv
  <1>16. CASE SetPresent
    <2>1. TypeInv'
      BY <1>16 DEF TypeInv, Looking, SetPresent, handle, connv
    <2>2. ThreadInv'
      BY <1>16 DEF ThreadInv, Looking, SetPresent, ctl, connv
    <2>3. UpInv'
      BY <1>16 DEF UpInv, Looking, SetPresent, ctl, connv
    <2>4. CountInv'
      BY <1>16 DEF CountInv, Busy, SetPresent, handle
    <2>5. HandleInv'
      BY <1>16 DEF HandleInv, ThreadInv, Waiting, SetPresent, handle, ctl, connv
    <2>6. LookInv'
      BY <1>16 DEF LookInv, ThreadInv, SetPresent, handle, connv
    <2>7. NothingLeft'
      BY <1>16 DEF NothingLeft, SetPresent, connv
    <2> QED BY <2>1, <2>2, <2>3, <2>4, <2>5, <2>6, <2>7, <1>0 DEF ConnInv
  <1>17. CASE InsertionCallback
    <2>1. TypeInv'
      BY <1>17 DEF TypeInv, Waiting, InsertionCallback, handle, AttachSlot, connv
    <2>2. ThreadInv'
      BY <1>17 DEF ThreadInv, Looking, Waiting, InsertionCallback, ctl, connv
    <2>3. UpInv'
      BY <1>17 DEF UpInv, Looking, InsertionCallback, ctl, connv
    <2>4. CountInv'
      <3>1. CASE scan /\ ~enumerating /\ present
        <4>1. usage' = 0 /\ device' /\ \A t \in Io : io'[t] = "ready"
          BY <1>17, <3>1 DEF InsertionCallback, AttachSlot
        <4> QED BY <4>1, NobodyIn DEF CountInv
      <3>2. CASE ~(scan /\ ~enumerating /\ present)
        BY <1>17, <3>2 DEF InsertionCallback, AttachSlot, CountInv, Busy, handle
      <3> QED BY <3>1, <3>2
    <2>5. HandleInv'
      BY <1>17 DEF HandleInv, ThreadInv, InsertionCallback, flagv, handle, ctl, connv
    <2>6. LookInv'
      BY <1>17 DEF LookInv, ThreadInv, InsertionCallback, flagv, ctl, AttachSlot, connv
    <2>7. NothingLeft'
      BY <1>17 DEF NothingLeft, InsertionCallback, connv
    <2> QED BY <2>1, <2>2, <2>3, <2>4, <2>5, <2>6, <2>7, <1>0 DEF ConnInv
  <1>18. CASE DriverExit
    <2>1. TypeInv'
      BY <1>18 DEF TypeInv, DriverExit, cdv, handle, connv
    <2>2. ThreadInv'
      BY <1>18 DEF ThreadInv, DriverExit, cdv, ctl, connv
    <2>3. UpInv'
      BY <1>18 DEF UpInv, DriverExit, flagv, cdv, handle, ctl, connv
    <2>4. CountInv'
      BY <1>18 DEF CountInv, Busy, TypeInv, DriverExit, handle
    <2>5. HandleInv'
      BY <1>18 DEF HandleInv, DriverExit, flagv, handle, ctl, connv
    <2>6. LookInv'
      BY <1>18 DEF LookInv, DriverExit, flagv, cdv, handle, ctl, connv
    <2>7. NothingLeft'
      BY <1>18 DEF NothingLeft, Handles, DriverExit, cdv, handle, ctl, connv
    <2> QED BY <2>1, <2>2, <2>3, <2>4, <2>5, <2>6, <2>7, <1>0 DEF ConnInv
  <1>19. ASSUME NEW t \in Io, Enter(t)
         PROVE  ConnInv'
    <2>1. TypeInv'
      BY <1>19 DEF TypeInv, Enter, cdv, connv
    <2>2. ThreadInv'
      BY <1>19 DEF ThreadInv, Enter, cdv, ctl, connv
    <2>3. UpInv'
      BY <1>19 DEF UpInv, Enter, ctl, connv
    <2>4. CountInv'
      <3>1. usage' = usage + 1 /\ device' /\ io[t] = "ready" /\ io' = [io EXCEPT ![t] = "busy"]
        BY <1>19 DEF Enter
      <3> QED BY <3>1, OneMore DEF CountInv
    <2>5. HandleInv'
      BY <1>19 DEF HandleInv, Enter, flagv, ctl, connv
    <2>6. LookInv'
      BY <1>19 DEF LookInv, Enter, flagv, cdv, connv
    <2>7. NothingLeft'
      BY <1>19 DEF NothingLeft, UpInv, Enter, cdv, connv
    <2> QED BY <2>1, <2>2, <2>3, <2>4, <2>5, <2>6, <2>7, <1>0 DEF ConnInv
  <1>20. ASSUME NEW t \in Io, Command(t)
         PROVE  ConnInv'
    <2>1. TypeInv'
      BY <1>20 DEF TypeInv, Command, cdv, handle, connv
    <2>2. ThreadInv'
      BY <1>20 DEF ThreadInv, Command, cdv, ctl, connv
    <2>3. UpInv'
      BY <1>20 DEF UpInv, Command, flagv, cdv, handle, ctl, connv
    <2>4. CountInv'
      BY <1>20 DEF CountInv, Busy, Command, handle
    <2>5. HandleInv'
      BY <1>20 DEF HandleInv, Command, flagv, handle, ctl, connv
    <2>6. LookInv'
      BY <1>20 DEF LookInv, Command, flagv, cdv, handle, ctl, connv
    <2>7. NothingLeft'
      BY <1>20 DEF NothingLeft, Handles, Command, cdv, handle, ctl, connv
    <2> QED BY <2>1, <2>2, <2>3, <2>4, <2>5, <2>6, <2>7, <1>0 DEF ConnInv
  <1>21. ASSUME NEW t \in Io, Leave(t)
         PROVE  ConnInv'
    <2>1. TypeInv'
      <3>1. usage' = usage - 1 /\ io[t] = "busy" /\ io' = [io EXCEPT ![t] = "ready"]
        BY <1>21 DEF Leave
      <3>2. usage > 0 /\ device
        BY <3>1, OneLess DEF CountInv

      <3>3. usage' \in Nat
        BY <3>1, <3>2 DEF TypeInv
      <3>4. io' \in [Io -> {"none", "ready", "busy"}]
        BY <3>1 DEF TypeInv
      <3> QED BY <1>21, <3>3, <3>4 DEF TypeInv, Leave, Looking, connv
    <2>2. ThreadInv'
      BY <1>21 DEF ThreadInv, Looking, Leave, ctl, connv
    <2>3. UpInv'
      BY <1>21 DEF UpInv, Looking, Leave, flagv, ctl, connv
    <2>4. CountInv'
      <3>1. usage' = usage - 1 /\ io[t] = "busy" /\ io' = [io EXCEPT ![t] = "ready"]
        BY <1>21 DEF Leave
      <3>2. usage > 0 /\ device
        BY <3>1, OneLess DEF CountInv

      <3> QED BY <1>21, <3>1, <3>2, OneLess DEF CountInv, Leave
    <2>5. HandleInv'
      BY <1>21 DEF HandleInv, Leave, flagv, ctl, connv
    <2>6. LookInv'
      <3>1. usage' = usage - 1 /\ io[t] = "busy" /\ io' = [io EXCEPT ![t] = "ready"]
        BY <1>21 DEF Leave
      <3>2. usage > 0 /\ device
        BY <3>1, OneLess DEF CountInv

      <3>3. cdpc \notin {"close", "join", "free"} /\ usage \in Nat
        BY <3>2 DEF LookInv, TypeInv
      <3> QED BY <1>21, <3>1, <3>2, <3>3 DEF LookInv, Leave, flagv, connv
    <2>7. NothingLeft'
      BY <1>21 DEF NothingLeft, Handles, Leave, ctl, connv
    <2> QED BY <2>1, <2>2, <2>3, <2>4, <2>5, <2>6, <2>7, <1>0 DEF ConnInv
  <1> QED BY <1>1, <1>2, <1>3, <1>4, <1>5, <1>6, <1>7, <1>8, <1>9, <1>10, <1>11, <1>12, <1>13,
             <1>14, <1>15, <1>16, <1>17, <1>18, <1>19, <1>20, <1>21
             DEF CardNext, CdThread, SdioCd

LEMMA ConnNext ==
  ASSUME ConnInv, [ConnectNext]_connVars
  PROVE  ConnInv'
  <1>1. CASE MainThread \/ SimDetach
    BY <1>1, MainNext
  <1>2. CASE Beside(CardNext)
    BY <1>2, BesideNext DEF Beside
  <1>3. CASE UNCHANGED connVars
    <2>1. UNCHANGED <<cardv, ctl, connv>>
      BY <1>3 DEF connVars
    <2>2. UNCHANGED <<card, cards, latch, media, present, invalid, power, pulses, cdpc, cd, flags,
                      ident, device, rmv, usage, closed, io, mode, lost>>
      BY <2>1 DEF cardv, slotv, flagv, cdv, handle, hist
    <2>3. UNCHANGED <<chan, armed, enum, enumerating, scan, up>>
      BY <2>1 DEF ctl
    <2>4. UNCHANGED <<mainpc, cmdline, target, n, sdioscan, hlist, ids, mutex, registered, why, cstatus>>
      BY <2>1 DEF connv
    <2>5. TypeInv' /\ ListInv'
      BY <2>2, <2>3, <2>4 DEF ConnInv, TypeInv, ListInv
    <2>6. ThreadInv' /\ UpInv'
      BY <2>2, <2>3, <2>4 DEF ConnInv, ThreadInv, UpInv
    <2>7. CountInv' /\ HandleInv'
      BY <2>2, <2>3, <2>4 DEF ConnInv, CountInv, Busy, HandleInv
    <2>8. LookInv' /\ NothingLeft'
      BY <2>2, <2>3, <2>4 DEF ConnInv, LookInv, NothingLeft, Handles
    <2> QED BY <2>5, <2>6, <2>7, <2>8 DEF ConnInv
  <1> QED BY <1>1, <1>2, <1>3 DEF ConnectNext

\* An empty process has nothing yet.
LEMMA ConnInit == ConnectInit => ConnInv
  <1> SUFFICES ASSUME ConnectInit PROVE ConnInv
    OBVIOUS
  <1>1. hlist = <<>> /\ Len(hlist) = 0 /\ hlist \in Seq(HostSet)
    BY DEF ConnectInit
  <1>2. io \in [Io -> {"none", "ready", "busy"}] /\ Busy = {} /\ Cardinality(Busy) = 0
    BY FS_EmptySet DEF ConnectInit, Busy
  <1>3. TypeInv
    BY <1>1, <1>2 DEF ConnectInit, TypeInv, Mains
  <1>4. ListInv
    BY <1>1 DEF ConnectInit, ListInv
  <1>5. ThreadInv /\ UpInv
    BY <1>1 DEF ConnectInit, ThreadInv, UpInv, Looking
  <1>6. CountInv
    BY <1>2 DEF ConnectInit, CountInv
  <1>7. scan <=> target = 0
    BY DEF ConnectInit
  <1>8. HandleInv
    BY <1>1, <1>7 DEF ConnectInit, HandleInv
  <1>9. LookInv /\ NothingLeft
    BY DEF ConnectInit, LookInv, NothingLeft
  <1> QED BY <1>3, <1>4, <1>5, <1>6, <1>8, <1>9 DEF ConnInv

\* A request has its handle and is counted, there is one handle per card, and no
\* handle, thread or look at the slot outlives the controller, whatever the
\* threads, the user, the command line and the failures of _sdio_connect() do.
THEOREM HandlesStaySound == ConnectSpec => []HandlesSound
  <1>1. ConnInv => HandlesSound
    <2> SUFFICES ASSUME ConnInv PROVE HandlesSound
      OBVIOUS
    <2>0. TypeInv /\ ThreadInv /\ UpInv /\ CountInv /\ LookInv
      BY DEF ConnInv
    <2>1. IoHasDevice
      BY <2>0 DEF IoHasDevice, CountInv, Busy
    <2>2. OneHandlePerCard
      BY <2>0 DEF OneHandlePerCard, LookInv
    <2>3. HostOutlivesUsers
      <3> SUFFICES ASSUME InSdioCd \/ device PROVE up /\ Slot # {} /\ mutex
        BY DEF HostOutlivesUsers
      <3>1. cdpc \in Looking \/ device
        BY <2>0 DEF InSdioCd, TypeInv, Waiting
      <3>2. up /\ mutex
        BY <2>0, <3>1 DEF UpInv
      <3>3. PICK i \in 1 .. Len(hlist) : ~hlist[i].emb
        BY <2>0, <3>2 DEF UpInv
      <3>4. i \in Slot
        BY <2>0, <3>3 DEF Slot, TypeInv
      <3> QED BY <3>2, <3>4
    <2> QED BY <2>1, <2>2, <2>3 DEF HandlesSound
  <1> QED BY <1>1, ConnInit, ConnNext, PTL DEF ConnectSpec

\* When main() has given up or detached, what it built is gone, except for the
\* two leftovers that NothingLeft names.
THEOREM NothingStaysLeft == ConnectSpec => []NothingLeft
  <1>1. ConnInv => NothingLeft
    BY DEF ConnInv
  <1> QED BY <1>1, ConnInit, ConnNext, PTL DEF ConnectSpec

------------------------------------------------------------------------------
(***************************************************************************)
(* CardInit: the CID of the device.  Every operation is a composition of   *)
(* calls, each with a set of outcomes; one lemma per call says what its    *)
(* outcomes keep.                                                          *)
(***************************************************************************)

\* The card in the slot is i, and k is the CID the device has.
Holds(t, i, k) == {"cid", "info"} \subseteq DOMAIN t /\ t.info = i /\ t.cid = k

\* Of every outcome.
All(O, i, k) == \A o \in O : Holds(o[1], i, k)

\* A failure that is spent on a command (Spend) touches neither card nor CID.
LEMMA SpendHolds == ASSUME NEW t, NEW i, NEW k, Holds(t, i, k), NEW tags PROVE Holds(Spend(t, tags), i, k)
  BY DEF Holds, Spend

\* A call with one outcome.
LEMMA RetHolds == ASSUME NEW t, NEW i, NEW k, Holds(t, i, k), NEW st PROVE All(Ret(t, st), i, k)
  BY DEF All, Ret

\* A command, answered or not, with data or without: the outcomes are t or d, with a
\* failure spent.
LEMMA CmdHolds ==
    ASSUME NEW t, NEW i, NEW k, Holds(t, i, k), NEW where, NEW d, Holds(d, i, k)
    PROVE  All(Cmd(t, where, d), i, k) /\ All(DataCmd(t, where, d), i, k)
  BY SpendHolds DEF All, Cmd, DataCmd, Either, Ret

\* The settings of the controller, sdhci.c: power, bus mode, width, clock, timing and
\* presets leave card and CID alone.
LEMMA HostHolds ==
    ASSUME NEW t, NEW i, NEW k, Holds(t, i, k), NEW x
    PROVE  /\ All(sdio_pwr(t, x), i, k)
           /\ Holds(sdio_bus_mode(t, x), i, k) /\ Holds(sdio_bus_width(t, x), i, k)
           /\ Holds(sdio_clock(t, x), i, k) /\ Holds(sdio_timing(t, x), i, k)
           /\ Holds(sdio_preset(t, x), i, k)
  <1>1. All(sdio_pwr(t, x), i, k)
    <2> DEFINE u == IF t.vdd # 0 /\ x # 0 THEN t
                    ELSE [t EXCEPT !.mode = "LS", !.sig18 = FALSE, !.preset = FALSE, !.tuned = FALSE]
    <2>1. Holds(u, i, k) BY DEF Holds
    <2>2. sdio_pwr(t, x) = CASE x = 0 -> Ret([u EXCEPT !.vdd = 0, !.c = Off], "EOK")
            [] x \in {17, 29, 30, 32, 33} ->
                 Ret([u EXCEPT !.vdd = x, !.c = IF @.st = "off" THEN Idle(t.info, 33) ELSE @], "EOK")
            [] OTHER -> Ret(u, "EINVAL")
      BY DEF sdio_pwr, sdhci_pwr
    <2> HIDE DEF u
    <2>4. CASE x = 0
      <3>1. sdio_pwr(t, x) = Ret([u EXCEPT !.vdd = 0, !.c = Off], "EOK") BY <2>2, <2>4
      <3>2. Holds([u EXCEPT !.vdd = 0, !.c = Off], i, k) BY <2>1 DEF Holds
      <3> QED BY <3>1, <3>2, RetHolds
    <2>5. CASE x \in {17, 29, 30, 32, 33}
      <3>1. sdio_pwr(t, x) = Ret([u EXCEPT !.vdd = x, !.c = IF @.st = "off" THEN Idle(t.info, 33) ELSE @], "EOK")
        BY <2>2, <2>5
      <3>2. Holds([u EXCEPT !.vdd = x, !.c = IF @.st = "off" THEN Idle(t.info, 33) ELSE @], i, k)
        BY <2>1 DEF Holds
      <3> QED BY <3>1, <3>2, RetHolds
    <2>6. CASE x \notin {0, 17, 29, 30, 32, 33} BY <2>1, <2>2, <2>6 DEF All, Ret
    <2> QED BY <2>4, <2>5, <2>6
  <1>2. Holds(sdio_bus_mode(t, x), i, k) /\ Holds(sdio_bus_width(t, x), i, k)
    BY DEF Holds, sdio_bus_mode, sdhci_bus_mode, sdio_bus_width, sdhci_bus_width
  <1>3. \A u, y : Holds(u, i, k) => Holds(sdhci_clk(u, y), i, k) BY DEF Holds, sdhci_clk
  <1>4. Holds(sdio_clock(t, x), i, k) BY <1>3 DEF sdio_clock
  <1>5. Holds(sdio_timing(t, x), i, k)
    <2> DEFINE m == CASE x = "HS400ES" -> "LS"
             [] x \notin {"LS", "HS400ES"} /\ t.hc.ver < 3 -> "HS"
             [] OTHER -> x
    <2>1. Holds([t EXCEPT !.timing = x, !.mode = m], i, k) BY DEF Holds
    <2> QED BY <1>3, <2>1 DEF sdio_timing, sdhci_timing
  <1>6. Holds(sdio_preset(t, x), i, k) BY DEF Holds, sdio_preset, sdhci_preset
  <1> QED BY <1>1, <1>2, <1>4, <1>5, <1>6

\* ... and so does the switch of the signal voltage, the mailbox's failures included.
LEMMA SignalHolds ==
    ASSUME NEW t, NEW i, NEW k, Holds(t, i, k), NEW v
    PROVE  All(sdio_signal_voltage(t, v), i, k)
  <1>1. \A u : Holds(u, i, k) => All(sdhci_signal_voltage(u, v), i, k) /\ All(sdhci_signal_voltage(u, 33), i, k)
    <2> SUFFICES ASSUME NEW u, Holds(u, i, k), NEW y PROVE All(sdhci_signal_voltage(u, y), i, k)
      OBVIOUS
    <2>1. \A w, a, b : Holds(w, i, k) => /\ Holds([w EXCEPT !.sv = a], i, k)
                                         /\ Holds([w EXCEPT !.sig18 = a], i, k)
                                         /\ Holds([w EXCEPT !.sig18 = a, !.c = b], i, k)
      BY DEF Holds
    <2> DEFINE O == sdhci_signal_voltage(u, y)
               gone == [Spend(u, {"fault", "power"}) EXCEPT !.sig18 = TRUE, !.c = Idle(u.info, 33)]
    <2>2. \/ O = Ret(u, "EOK") \/ O = Ret([u EXCEPT !.sv = y], "EOK")
          \/ O = Either([[u EXCEPT !.sig18 = FALSE] EXCEPT !.sv = y], u, Spend(u, {"fault"}), "EIO")
          \/ O = Either([[u EXCEPT !.sig18 = TRUE] EXCEPT !.sv = y], u, gone, "EIO")
      BY DEF sdhci_signal_voltage
    <2>3. /\ Holds([[u EXCEPT !.sig18 = FALSE] EXCEPT !.sv = y], i, k)
          /\ Holds([[u EXCEPT !.sig18 = TRUE] EXCEPT !.sv = y], i, k)
          /\ Holds([u EXCEPT !.sv = y], i, k) /\ Holds(Spend(u, {"fault"}), i, k) /\ Holds(gone, i, k)
      BY <2>1, SpendHolds
    <2> HIDE DEF O, gone
    <2>4. All(O, i, k) BY <2>2, <2>3 DEF All, Either, Ret
    <2> QED BY <2>4 DEF O
  <1>2. \A u : Holds(u, i, k) => All(get_vdd_sd_io_state(u), i, k) /\ All(set_vdd_sd_io_state(u, v), i, k)
    BY SpendHolds DEF Holds, All, get_vdd_sd_io_state, set_vdd_sd_io_state, mbox_send_msg_gpio_state, Either, Ret
  <1>3. \A u : Holds(u, i, k) => Holds([u EXCEPT !.sv = 0], i, k)
                /\ Holds([u EXCEPT !.hcaps = @ \ {"SV_1_8V"}], i, k)
    BY DEF Holds
  <1> SUFFICES ASSUME NEW o \in sdio_signal_voltage(t, v) PROVE Holds(o[1], i, k) BY DEF All
  <1>4. PICK a \in get_vdd_sd_io_state(t) :
          o \in IF a[2] # "EOK"
                THEN IF v = 18 THEN sdhci_signal_voltage([a[1] EXCEPT !.hcaps = @ \ {"SV_1_8V"}], 33)
                     ELSE sdhci_signal_voltage(a[1], v)
                ELSE IF v \in {33, 18} /\ a[1].rail # v
                     THEN Anyway(set_vdd_sd_io_state(a[1], v), LAMBDA u :
                            sdhci_signal_voltage([u EXCEPT !.sv = 0], v))
                     ELSE sdhci_signal_voltage(a[1], v)
    BY DEF sdio_signal_voltage, bcm2711_signal_voltage, Look
  <1>5. Holds(a[1], i, k) BY <1>2 DEF All
  <1>6. All(Anyway(set_vdd_sd_io_state(a[1], v), LAMBDA u :
              sdhci_signal_voltage([u EXCEPT !.sv = 0], v)), i, k)
    BY <1>1, <1>2, <1>3, <1>5 DEF All, Anyway
  <1> QED BY <1>1, <1>3, <1>4, <1>5, <1>6 DEF All

\* ... and tuning.
LEMMA TuneHolds ==
    ASSUME NEW t, NEW i, NEW k, Holds(t, i, k)
    PROVE  All(sdio_tune(t), i, k)
  <1>1. All(sdhci_tune(t), i, k)
    BY SpendHolds DEF Holds, All, sdhci_tune, Either, Ret
  <1> QED BY <1>1 DEF Holds, All, sdio_tune, bcm2711_sdhci_tune, Look, Ret

\* ... power on, power off and the choice of the supply voltage (base.c).
LEMMA PowerHolds ==
    ASSUME NEW t, NEW i, NEW k, Holds(t, i, k)
    PROVE  /\ All(sdio_power_on(t), i, k) /\ Holds(sdio_power_off(t), i, k)
           /\ \A ocr : All(sdio_select_voltage(t, ocr), i, k)
  <1>1. Holds([t EXCEPT !.hclk = t.clkInit, !.timing = "LS", !.width = 1, !.push = FALSE, !.sv = 33], i, k)
    BY DEF Holds
  <1>2. All(sdio_power_on(t), i, k)
    <2> DEFINE set(u) == sdio_bus_mode(sdio_timing(sdio_preset(sdio_bus_width(
                           sdio_clock(u, t.clkInit), 1), FALSE), "LS"), FALSE)
               on == [t EXCEPT !.hclk = t.clkInit, !.timing = "LS", !.width = 1, !.push = FALSE, !.sv = 33]
    <2>1. \A u : Holds(u, i, k) => All(sdio_signal_voltage(set(u), 33), i, k)
      BY HostHolds, SignalHolds
    <2>2. All(sdio_pwr(on, Max(t.hc.ocr)), i, k) BY <1>1, HostHolds
    <2>3. sdio_power_on(t) = Anyway(sdio_pwr(on, Max(t.hc.ocr)), LAMBDA u : As(sdio_signal_voltage(set(u), 33), "EOK"))
      BY DEF sdio_power_on
    <2> HIDE DEF set, on
    <2> QED BY <2>1, <2>2, <2>3 DEF All, Anyway, As
  <1>3. Holds(sdio_power_off(t), i, k)
    <2>1. sdio_pwr(t, 0) # {} BY DEF sdio_pwr, sdhci_pwr, Ret
    <2>2. \A o \in sdio_pwr(t, 0) : Holds([o[1] EXCEPT !.ev = {}], i, k)
      BY HostHolds DEF All, Holds
    <2> QED BY <2>1, <2>2 DEF sdio_power_off
  <1>4. \A ocr : All(sdio_select_voltage(t, ocr), i, k)
    <2>1. \A x : Holds([t EXCEPT !.ocr = x], i, k) BY DEF Holds
    <2> QED BY <2>1, HostHolds DEF All, sdio_select_voltage, Ret
  <1> QED BY <1>2, <1>3, <1>4

\* The commands and the registers read that MMC and SD share, and the commands of mmc.c:
\* they change what the device knows of the card, never its CID.
LEMMA DeviceHolds ==
    ASSUME NEW t, NEW i, NEW k, Holds(t, i, k), NEW x
    PROVE  /\ Holds(Flag(t, x), i, k) /\ Holds(Unflag(t, x), i, k) /\ Holds(Drop(t, x), i, k)
           /\ All(sdio_go_idle(t), i, k) /\ All(sdio_send_csd(t), i, k) /\ All(sdio_select_card(t), i, k)
           /\ All(_sdio_set_block_length(t, x), i, k) /\ All(_sdio_wait_card_status(t), i, k)
           /\ Holds(sdio_reconcile_errata(t), i, k) /\ Holds(mmc_parse_csd(t), i, k)
           /\ Holds(mmc_parse_ext_csd(t), i, k) /\ All(mmc_send_ext_csd(t), i, k)
           /\ All(mmc_set_relative_addr(t), i, k) /\ All(mmc_send_op_cond(t, x), i, k)
           /\ All(SwitchTiming(t, x), i, k) /\ All(SwitchWidth(t, x), i, k)
  <1>1. \A u : Holds(u, i, k) => \A y : Holds([u EXCEPT !.c = y], i, k) BY DEF Holds
  <1>2. Holds(Flag(t, x), i, k) /\ Holds(Unflag(t, x), i, k) /\ Holds(Drop(t, x), i, k)
    BY DEF Holds, Flag, Unflag, Drop
  <1>3. All(sdio_go_idle(t), i, k) BY CmdHolds, <1>1 DEF sdio_go_idle
  <1>4. All(sdio_send_csd(t), i, k) /\ All(_sdio_wait_card_status(t), i, k) /\ All(mmc_send_ext_csd(t), i, k)
    BY CmdHolds DEF sdio_send_csd, _sdio_wait_card_status, mmc_send_ext_csd
  <1>5. Holds([t EXCEPT !.c.st = "tran"], i, k) /\ Holds([t EXCEPT !.c.st = "stby"], i, k)
        /\ Holds([t EXCEPT !.c.st = "ready"], i, k) /\ Holds([t EXCEPT !.c.blk = x], i, k)
        /\ Holds([t EXCEPT !.c.timing = x], i, k)
        /\ Holds([t EXCEPT !.c.width = x.width, !.c.ddr = x.ddr, !.c.es = x.es], i, k)
    BY DEF Holds
  <1>6. All(sdio_select_card(t), i, k)
    <2>1. All(Cmd(t, {"stby"}, [t EXCEPT !.c.st = "tran"]), i, k) BY <1>5, CmdHolds
    <2>2. \A u : Holds(u, i, k) => Holds(Flag(u, "LOCKED"), i, k) BY DEF Holds, Flag
    <2> QED BY <2>1, <2>2 DEF All, sdio_select_card, OnOk, Ret
  <1>7. All(_sdio_set_block_length(t, x), i, k)
    <2>1. All(Cmd(t, {"tran"}, [t EXCEPT !.c.blk = x]), i, k) BY <1>5, CmdHolds
    <2>2. \A u : Holds(u, i, k) => Holds([u EXCEPT !.blk = x], i, k) BY DEF Holds
    <2> QED BY <2>1, <2>2 DEF All, _sdio_set_block_length, OnOk, Ret
  <1>8. Holds(sdio_reconcile_errata(t), i, k) BY DEF Holds, sdio_reconcile_errata
  <1>9. Holds(mmc_parse_csd(t), i, k) BY DEF Holds, mmc_parse_csd
  <1>10. Holds(mmc_parse_ext_csd(t), i, k)
    <2>1. /\ DOMAIN mmc_parse_ext_csd(t) = DOMAIN t
          /\ \A y \in DOMAIN t \ {"dtrHs", "dcaps"} : mmc_parse_ext_csd(t)[y] = t[y]
      BY DEF mmc_parse_ext_csd
    <2> QED BY <2>1 DEF Holds
  <1>11. All(mmc_set_relative_addr(t), i, k) BY <1>5, CmdHolds DEF mmc_set_relative_addr
  <1>12. All(mmc_send_op_cond(t, x), i, k) BY <1>5, CmdHolds, RetHolds DEF mmc_send_op_cond
  <1>13. All(SwitchTiming(t, x), i, k) /\ All(SwitchWidth(t, x), i, k)
    BY <1>5, CmdHolds DEF SwitchTiming, SwitchWidth, mmc_switch
  <1> QED BY <1>2, <1>3, <1>4, <1>6, <1>7, <1>8, <1>9, <1>10, <1>11, <1>12, <1>13

\* The flags and capabilities alone, as the next lemmas need them.
LEMMA FlagHolds ==
    ASSUME NEW t, NEW i, NEW k, Holds(t, i, k), NEW x
    PROVE  Holds(Flag(t, x), i, k) /\ Holds(Unflag(t, x), i, k) /\ Holds(Drop(t, x), i, k)
  BY DeviceHolds

\* CMD6 of an MMC and the wait for its end alone.
LEMMA SwitchHolds ==
    ASSUME NEW t, NEW i, NEW k, Holds(t, i, k), NEW x
    PROVE  /\ All(SwitchTiming(t, x), i, k) /\ All(SwitchWidth(t, x), i, k)
           /\ All(_sdio_wait_card_status(t), i, k)
  BY DeviceHolds

\* CMD16 alone.
LEMMA LengthHolds ==
    ASSUME NEW t, NEW i, NEW k, Holds(t, i, k), NEW x
    PROVE  All(_sdio_set_block_length(t, x), i, k)
  BY DeviceHolds

\* The modes an MMC is taken to, mmc.c: high speed,
LEMMA HsHolds ==
    ASSUME NEW t, NEW i, NEW k, Holds(t, i, k)
    PROVE  All(mmc_init_hs(t), i, k)
  <1> DEFINE a == [t EXCEPT !.dtrHs = Least(@, HS52)]
  <1>1. Holds(a, i, k) BY DEF Holds
  <1>2. mmc_init_hs(t) = OnOk(SwitchTiming(a, "HS"), LAMBDA u :
          Ret(Flag(sdio_clock(sdio_timing(u, "HS"), u.dtrHs), "HS"), "EOK"))
    BY DEF mmc_init_hs
  <1> HIDE DEF a
  <1> QED BY <1>1, <1>2, SwitchHolds, FlagHolds, HostHolds DEF All, OnOk, Ret

\* HS200 without the choice of the voltage,
LEMMA Hs200Holds ==
    ASSUME NEW t, NEW i, NEW k, Holds(t, i, k), NEW w
    PROVE  All(_mmc_init_hs200(t, w), i, k)
  <1>1. \A u : Holds(u, i, k) => All(sdio_tune(sdio_clock(sdio_timing(u, "HS200"), u.dtrHs)), i, k)
    BY HostHolds, TuneHolds
  <1>2. \A u : Holds(u, i, k) => All(SwitchTiming(sdio_bus_width(u, w), "HS200"), i, k)
    BY HostHolds, SwitchHolds
  <1>3. All(SwitchWidth(t, BusWidth(w, FALSE, FALSE)), i, k) BY SwitchHolds
  <1>4. \A u : Holds(u, i, k) => All(OnOk(SwitchTiming(sdio_bus_width(u, w), "HS200"), LAMBDA v :
          sdio_tune(sdio_clock(sdio_timing(v, "HS200"), v.dtrHs))), i, k)
    BY <1>1, <1>2 DEF All, OnOk
  <1> QED BY <1>3, <1>4 DEF All, _mmc_init_hs200, OnOk

\* the voltages tried in turn,
LEMMA SelectSignalHolds ==
    ASSUME NEW t, NEW i, NEW k, Holds(t, i, k), NEW m
    PROVE  All(SelectSignal(t, m), i, k)
  BY SignalHolds DEF All, SelectSignal, Look, Ret

\* HS200 with it,
LEMMA InitHs200Holds ==
    ASSUME NEW t, NEW i, NEW k, Holds(t, i, k), NEW w
    PROVE  All(mmc_init_hs200(t, w), i, k)
  BY Hs200Holds, SelectSignalHolds, FlagHolds DEF All, mmc_init_hs200, OnOk, Ret

\* HS400 with enhanced strobe, six calls of which each may fail,
LEMMA Hs400esHolds ==
    ASSUME NEW t, NEW i, NEW k, Holds(t, i, k), NEW w
    PROVE  All(mmc_init_hs400es(t, w), i, k)
  <1> DEFINE wes == BusWidth(8, TRUE, TRUE)
             wsdr == BusWidth(w, FALSE, FALSE)
             e(y) == Ret(Flag(sdio_clock(sdio_timing(y, "HS400ES"), y.dtrHs), "HS400ES"), "EOK")
             d(x) == OnOk(SwitchTiming(x, "HS400"), LAMBDA y : e(y))
             c(v) == OnOk(SwitchWidth(sdio_clock(sdio_timing(v, "HS"), HS52), wes), LAMBDA x : d(x))
             b(u) == OnOk(SwitchTiming(sdio_bus_width(u, w), "HS"), LAMBDA v : c(v))
             a(u) == OnOk(SwitchWidth(u, wsdr), LAMBDA v : b(v))
  <1> HIDE DEF wes, wsdr
  <1>1. \A y : Holds(y, i, k) => All(e(y), i, k) BY FlagHolds, HostHolds, RetHolds
  <1> HIDE DEF e
  <1>2. \A y : Holds(y, i, k) => All(d(y), i, k) BY <1>1, SwitchHolds DEF All, OnOk
  <1> HIDE DEF d
  <1>3. \A y : Holds(y, i, k) => All(c(y), i, k) BY <1>2, HostHolds, SwitchHolds DEF All, OnOk
  <1> HIDE DEF c
  <1>4. \A y : Holds(y, i, k) => All(b(y), i, k) BY <1>3, HostHolds, SwitchHolds DEF All, OnOk
  <1> HIDE DEF b
  <1>5. \A y : Holds(y, i, k) => All(a(y), i, k) BY <1>4, SwitchHolds DEF All, OnOk
  <1> HIDE DEF a
  <1>6. mmc_init_hs400es(t, w) = OnOk(SelectSignal(t, {"HS400"}), LAMBDA u : a(u))
    BY DEF mmc_init_hs400es, a, b, c, d, e, wes, wsdr
  <1> QED BY <1>5, <1>6, SelectSignalHolds DEF All, OnOk

\* the way from HS200 to HS400,
LEMMA ToHs400Holds ==
    ASSUME NEW t, NEW i, NEW k, Holds(t, i, k)
    PROVE  All(mmc_hs200_to_hs400(t), i, k)
  <1> DEFINE wddr == BusWidth(8, TRUE, FALSE)
             d(x) == OnOk(_sdio_wait_card_status(sdio_clock(sdio_timing(x, "HS400"), x.dtrHs)),
                       LAMBDA y : Ret(Flag(Unflag(y, "HS200"), "HS400"), "EOK"))
             c(v) == OnOk(SwitchTiming(v, "HS400"), LAMBDA x : d(x))
             b(u) == OnOk(SwitchWidth(u, wddr), LAMBDA v : c(v))
             a(u) == Anyway(_sdio_wait_card_status(sdio_clock(sdio_timing(u, "HS"), HS52)), LAMBDA v : b(v))
  <1> HIDE DEF wddr
  <1>1. \A y : Holds(y, i, k) => All(d(y), i, k)
    <2>1. \A y : Holds(y, i, k) => All(_sdio_wait_card_status(sdio_clock(sdio_timing(y, "HS400"), y.dtrHs)), i, k)
      BY HostHolds, SwitchHolds
    <2>2. \A y : Holds(y, i, k) => Holds(Flag(Unflag(y, "HS200"), "HS400"), i, k) BY FlagHolds
    <2> QED BY <2>1, <2>2 DEF All, OnOk, Ret
  <1> HIDE DEF d
  <1>2. \A y : Holds(y, i, k) => All(c(y), i, k) BY <1>1, SwitchHolds DEF All, OnOk
  <1> HIDE DEF c
  <1>3. \A y : Holds(y, i, k) => All(b(y), i, k) BY <1>2, SwitchHolds DEF All, OnOk
  <1> HIDE DEF b
  <1>4. \A y : Holds(y, i, k) => All(a(y), i, k) BY <1>3, HostHolds, SwitchHolds DEF All, Anyway
  <1> HIDE DEF a
  <1>5. mmc_hs200_to_hs400(t) = OnOk(SwitchTiming(t, "HS"), LAMBDA u : a(u))
    BY DEF mmc_hs200_to_hs400, a, b, c, d, wddr
  <1> QED BY <1>4, <1>5, SwitchHolds DEF All, OnOk

\* HS400 by way of HS200, which may have failed,
LEMMA Hs400Holds ==
    ASSUME NEW t, NEW i, NEW k, Holds(t, i, k), NEW w
    PROVE  All(mmc_init_hs400(t, w), i, k)
  <1> DEFINE a(v) == Look(_mmc_init_hs200(v, w), LAMBDA u, st :
                       mmc_hs200_to_hs400(IF st = "EOK" THEN Flag(u, "HS200") ELSE u))
  <1>1. \A y : Holds(y, i, k) => All(a(y), i, k) BY Hs200Holds, ToHs400Holds, FlagHolds DEF All, Look
  <1>2. mmc_init_hs400(t, w) = OnOk(SelectSignal(t, {"HS400", "HS200"}), LAMBDA u : a(u))
    BY DEF mmc_init_hs400
  <1> HIDE DEF a
  <1> QED BY <1>1, <1>2, SelectSignalHolds DEF All, OnOk

\* the way back,
LEMMA ToHs200Holds ==
    ASSUME NEW t, NEW i, NEW k, Holds(t, i, k)
    PROVE  All(mmc_hs400_to_hs200(t), i, k)
  <1> DEFINE wsdr == BusWidth(8, FALSE, FALSE)
             e(y) == OnOk(_sdio_wait_card_status(sdio_timing(y, "HS200")), LAMBDA z :
                       Ret(Unflag(Flag(sdio_clock(z, z.dtrHs), "HS200"), "HS400"), "EOK"))
             d(x) == OnOk(SwitchTiming(sdio_timing(x, "HS"), "HS200"), LAMBDA y : e(y))
             c(v) == OnOk(_sdio_wait_card_status(v), LAMBDA x : d(x))
             b(u) == OnOk(SwitchWidth(u, wsdr), LAMBDA v : c(v))
             a(u) == OnOk(_sdio_wait_card_status(sdio_timing(u, "DDR50")), LAMBDA v : b(v))
  <1> HIDE DEF wsdr
  <1>1. \A y : Holds(y, i, k) => All(e(y), i, k) BY FlagHolds, HostHolds, SwitchHolds DEF All, OnOk, Ret
  <1> HIDE DEF e
  <1>2. \A y : Holds(y, i, k) => All(d(y), i, k) BY <1>1, HostHolds, SwitchHolds DEF All, OnOk
  <1> HIDE DEF d
  <1>3. \A y : Holds(y, i, k) => All(c(y), i, k) BY <1>2, SwitchHolds DEF All, OnOk
  <1> HIDE DEF c
  <1>4. \A y : Holds(y, i, k) => All(b(y), i, k) BY <1>3, SwitchHolds DEF All, OnOk
  <1> HIDE DEF b
  <1>5. \A y : Holds(y, i, k) => All(a(y), i, k) BY <1>4, HostHolds, SwitchHolds DEF All, OnOk
  <1> HIDE DEF a
  <1>6. mmc_hs400_to_hs200(t) = OnOk(SwitchTiming(sdio_clock(t, HS52), "HS"), LAMBDA u : a(u))
    BY DEF mmc_hs400_to_hs200, a, b, c, d, e, wsdr
  <1> QED BY <1>5, <1>6, HostHolds, SwitchHolds DEF All, OnOk

\* the tuning of a card in use, from HS400 and back to it for an MMC,
LEMMA RetuneHolds ==
    ASSUME NEW t, NEW i, NEW k, Holds(t, i, k)
    PROVE  All(_sdio_retune(t), i, k)
  <1>1. \A u : Holds(u, i, k) => All(OnOk(sdio_tune(u), LAMBDA v : mmc_hs200_to_hs400(v)), i, k)
    BY TuneHolds, ToHs400Holds DEF All, OnOk
  <1>2. All(mmc_retune(t), i, k) BY <1>1, TuneHolds, ToHs200Holds DEF All, mmc_retune, OnOk
  <1> QED BY <1>2, TuneHolds DEF _sdio_retune

\* and DDR.
LEMMA DdrHolds ==
    ASSUME NEW t, NEW i, NEW k, Holds(t, i, k), NEW w
    PROVE  All(mmc_init_ddr(t, w), i, k)
  <1> DEFINE wddr == BusWidth(w, TRUE, FALSE)
             a(v) == OnOk(SwitchWidth(v, wddr), LAMBDA u :
                       Ret(Flag(sdio_timing(sdio_bus_width(u, w), "DDR50"), "DDR"), "EOK"))
             low == <<"DDR", 12>> \in t.info.types /\ "SV_1_2V" \in t.hcaps
             O == IF low THEN sdio_signal_voltage(t, 12) ELSE Ret(t, "EOK")
  <1>1. \A y : Holds(y, i, k) => All(a(y), i, k)
    <2> HIDE DEF wddr
    <2>1. \A u : Holds(u, i, k) => Holds(Flag(sdio_timing(sdio_bus_width(u, w), "DDR50"), "DDR"), i, k)
      BY FlagHolds, HostHolds
    <2> QED BY <2>1, SwitchHolds DEF All, OnOk, Ret
  <1>2. All(O, i, k) BY SignalHolds, RetHolds
  <1>3. mmc_init_ddr(t, w) = OnOk(O, LAMBDA v : a(v)) BY DEF mmc_init_ddr
  <1> HIDE DEF a, O
  <1> QED BY <1>1, <1>2, <1>3 DEF All, OnOk

\* mmc_init_bus(): the modes from the fastest down, whatever fails.
LEMMA MmcBusHolds ==
    ASSUME NEW t, NEW i, NEW k, Holds(t, i, k)
    PROVE  All(mmc_init_bus(t), i, k)
  <1> DEFINE w == mmc_bus_width(t)
             has(u, F) == u.flags \cap F # {}
             fast(u, f, least) == f \in u.dcaps /\ u.dtrHs > HS52 /\ w >= least
             es(u) == Where(fast(u, "HS400ES", 8), u, mmc_init_hs400es(u, w))
             h4(u) == Where(~has(u, {"HS400ES"}) /\ fast(u, "HS400", 8), u, mmc_init_hs400(u, w))
             h2(u) == Where(~has(u, {"HS400", "HS400ES"}) /\ fast(u, "HS200", 4), u, mmc_init_hs200(u, w))
             hs(u) == Where(~has(u, {"HS200", "HS400", "HS400ES"}) /\ "HS" \in u.dcaps, u, mmc_init_hs(u))
             ddr(u) == Where(has(u, {"HS"}) /\ w >= 4 /\ "DDR50" \in u.dcaps, u, mmc_init_ddr(u, w))
             wsdr == BusWidth(w, FALSE, FALSE)
             to4(u) == OnOk(SwitchWidth(u, wsdr), LAMBDA v : Ret(sdio_bus_width(v, w), "EOK"))
             wide(u) == Where(has(u, {"HS"}) /\ w >= 4 /\ ~has(u, {"DDR"}), u, to4(u))
             slow(u) == IF has(u, {"HS", "HS200", "HS400", "HS400ES"}) THEN u
                        ELSE sdio_clock(sdio_timing(u, "LS"), u.dtrLs)
             g(u) == _sdio_set_block_length(slow(u), 512)
             f(u) == Anyway(wide(u), LAMBDA v : g(v))
             e(u) == Anyway(ddr(u), LAMBDA v : f(v))
             d(u) == Anyway(hs(u), LAMBDA v : e(v))
             c(u) == Anyway(h2(u), LAMBDA v : d(v))
             b(u) == Anyway(h4(u), LAMBDA v : c(v))
  <1>1. \A u : Holds(u, i, k) => All(es(u), i, k) BY Hs400esHolds, RetHolds DEF Where
  <1>2. \A u : Holds(u, i, k) => All(h4(u), i, k) BY Hs400Holds, RetHolds DEF Where
  <1>3. \A u : Holds(u, i, k) => All(h2(u), i, k) BY InitHs200Holds, RetHolds DEF Where
  <1>4. \A u : Holds(u, i, k) => All(hs(u), i, k)
    <2> SUFFICES ASSUME NEW u, Holds(u, i, k) PROVE All(hs(u), i, k) OBVIOUS
    <2>1. All(mmc_init_hs(u), i, k) /\ All(Ret(u, "EOK"), i, k) BY HsHolds, RetHolds
    <2>2. hs(u) = mmc_init_hs(u) \/ hs(u) = Ret(u, "EOK") BY DEF Where
    <2> QED BY <2>1, <2>2
  <1>5. \A u : Holds(u, i, k) => All(ddr(u), i, k) BY DdrHolds, RetHolds DEF Where
  <1> HIDE DEF wsdr
  <1>6. \A u : Holds(u, i, k) => All(to4(u), i, k) BY SwitchHolds, HostHolds DEF All, OnOk, Ret
  <1> HIDE DEF to4
  <1>7. \A u : Holds(u, i, k) => All(wide(u), i, k) BY <1>6, RetHolds DEF Where
  <1>8. \A u : Holds(u, i, k) => All(g(u), i, k)
    <2>1. \A u : Holds(u, i, k) => Holds(slow(u), i, k) BY HostHolds
    <2> QED BY <2>1, DeviceHolds
  <1> HIDE DEF es, h4, h2, hs, ddr, wide, g
  <1>9. \A u : Holds(u, i, k) => All(f(u), i, k) BY <1>7, <1>8 DEF All, Anyway
  <1> HIDE DEF f
  <1>10. \A u : Holds(u, i, k) => All(e(u), i, k) BY <1>5, <1>9 DEF All, Anyway
  <1> HIDE DEF e
  <1>11. \A u : Holds(u, i, k) => All(d(u), i, k) BY <1>4, <1>10 DEF All, Anyway
  <1> HIDE DEF d
  <1>12. \A u : Holds(u, i, k) => All(c(u), i, k) BY <1>3, <1>11 DEF All, Anyway
  <1> HIDE DEF c
  <1>13. \A u : Holds(u, i, k) => All(b(u), i, k) BY <1>2, <1>12 DEF All, Anyway
  <1> HIDE DEF b
  <1>14. mmc_init_bus(t) = Anyway(es(t), LAMBDA v : b(v))
    BY DEF mmc_init_bus, es, h4, h2, hs, ddr, wide, to4, wsdr, b, c, d, e, f, g
  <1> QED BY <1>1, <1>13, <1>14 DEF All, Anyway

\* mmc_bus_error(): a step down, and the bus set up again.
LEMMA MmcBusErrorHolds ==
    ASSUME NEW t, NEW i, NEW k, Holds(t, i, k)
    PROVE  All(mmc_bus_error(t), i, k)
  <1>1. \A u, x : Holds(u, i, k) => Holds([u EXCEPT !.dtrHs = x], i, k) BY DEF Holds
  <1>2. \A x : Holds([t EXCEPT !.dtrLs = x], i, k) BY DEF Holds
  <1> QED BY <1>1, <1>2, FlagHolds, MmcBusHolds DEF mmc_bus_error

\* The commands of sd.c before a card is selected.
LEMMA SdCmdHolds ==
    ASSUME NEW t, NEW i, NEW k, Holds(t, i, k)
    PROVE  /\ All(sd_send_if_cond(t), i, k) /\ All(sd_voltage_switch(t), i, k)
           /\ \A b \in BOOLEAN : All(sd_app_send_op_cond(t, b), i, k)
           /\ All(sdio_send_relative_addr(t), i, k) /\ Holds(sd_parse_csd(t), i, k)
           /\ Holds([t EXCEPT !.rca = 0], i, k) /\ Holds([t EXCEPT !.rca = 1], i, k)
  <1>1. All(sd_send_if_cond(t), i, k)
    <2>1. All(Cmd(t, {"idle"}, t), i, k) BY CmdHolds
    <2> QED BY <2>1, RetHolds DEF All, sd_send_if_cond, As, Ret
  <1>2. Holds([t EXCEPT !.c.sv = 18], i, k) /\ Holds([t EXCEPT !.c.st = "ready"], i, k)
        /\ Holds([t EXCEPT !.rca = 0, !.c.st = "stby"], i, k)
        /\ Holds([t EXCEPT !.rca = 0], i, k) /\ Holds([t EXCEPT !.rca = 1], i, k)
    BY DEF Holds
  <1>3. All(sd_voltage_switch(t), i, k) BY <1>2, CmdHolds DEF sd_voltage_switch
  <1>4. \A b \in BOOLEAN : All(sd_app_send_op_cond(t, b), i, k)
    <2> SUFFICES ASSUME NEW b \in BOOLEAN PROVE All(sd_app_send_op_cond(t, b), i, k) OBVIOUS
    <2> DEFINE d == IF b THEN t ELSE [t EXCEPT !.c.st = "ready"]
    <2>1. Holds(d, i, k) BY <1>2
    <2>2. sd_app_send_op_cond(t, b) = Ret(t, "ETIMEDOUT")
          \/ sd_app_send_op_cond(t, b) = Cmd(t, {"idle", "ready"}, d)
      BY DEF sd_app_send_op_cond
    <2> HIDE DEF d
    <2> QED BY <2>1, <2>2, CmdHolds, RetHolds
  <1>5. All(sdio_send_relative_addr(t), i, k)
    <2>1. All(Cmd([t EXCEPT !.rca = 0], {"ident"}, [t EXCEPT !.rca = 0, !.c.st = "stby"]), i, k)
      BY <1>2, CmdHolds
    <2>2. \A u : Holds(u, i, k) => Holds([u EXCEPT !.rca = 1], i, k) BY DEF Holds
    <2> QED BY <2>1, <2>2 DEF All, sdio_send_relative_addr, OnOk, Ret
  <1>6. Holds(sd_parse_csd(t), i, k) BY DEF Holds, sd_parse_csd
  <1> QED BY <1>1, <1>2, <1>3, <1>4, <1>5, <1>6

\* CMD6 of an SD card.
LEMMA SdSwitchHolds ==
    ASSUME NEW t, NEW i, NEW k, Holds(t, i, k), NEW p \in BOOLEAN, NEW d, Holds(d, i, k)
    PROVE  All(sd_switch(t, p, d), i, k)
  <1>1. All(DataCmd(t, {"tran"}, IF p THEN d ELSE t), i, k) BY CmdHolds
  <1> QED BY <1>1 DEF All, sd_switch, OnOk, Ret

\* What is read with it.
LEMMA ReadSwitchHolds ==
    ASSUME NEW t, NEW i, NEW k, Holds(t, i, k)
    PROVE  All(sd_read_switch(t), i, k)
  <1> DEFINE seen(u) == IF u.c.sv = 18 THEN u.info.modes ELSE u.info.modes \ UHS
             uhs(u) == "SPEC3" \in u.info.has /\ seen(u) \cap UHS # {}
             hs(u) == "HS" \in u.info.has
             r(u) == [u EXCEPT !.dtrHs = IF hs(u) THEN 500 ELSE @,
                          !.modes = IF "SPEC3" \in u.info.has THEN seen(u) ELSE @,
                          !.dcaps = @ \cup (IF hs(u) /\ "HS" \in u.hcaps THEN {"HS"} ELSE {})
                                      \cup (IF uhs(u) THEN {"UHS"} ELSE {})
                                      \cup (u.info.has \cap {"ASSD"})]
  <1>1. \A u : Holds(u, i, k) => Holds(r(u), i, k)
    <2> SUFFICES ASSUME NEW u, Holds(u, i, k) PROVE Holds(r(u), i, k) OBVIOUS
    <2>1. DOMAIN r(u) = DOMAIN u /\ \A y \in DOMAIN u \ {"dtrHs", "modes", "dcaps"} : r(u)[y] = u[y] OBVIOUS
    <2> HIDE DEF r
    <2> QED BY <2>1 DEF Holds
  <1>2. \/ sd_read_switch(t) = Ret(t, "EOK")
        \/ sd_read_switch(t) = OnOk(DataCmd(t, {"tran"}, t), LAMBDA u : Ret(r(u), "EOK"))
    BY DEF sd_read_switch
  <1> HIDE DEF r
  <1> QED BY <1>1, <1>2, CmdHolds, RetHolds DEF All, OnOk, Ret

\* SCR, status and switch functions of an SD card.
LEMMA CapabilitiesHolds ==
    ASSUME NEW t, NEW i, NEW k, Holds(t, i, k)
    PROVE  All(sd_capabilities(t), i, k)
  <1>1. \A u : Holds(u, i, k) => All(sd_app_send_scr(u), i, k) /\ All(sd_read_status(u), i, k)
    BY CmdHolds DEF sd_app_send_scr, sd_read_status
  <1>2. \A u : Holds(u, i, k) => All(OnOk(sd_read_status(u), LAMBDA v : sd_read_switch(v)), i, k)
    BY <1>1, ReadSwitchHolds DEF All, OnOk
  <1> QED BY <1>1, <1>2 DEF All, sd_capabilities, OnOk

\* The modes of an SD card, its width, current limit and ASSD.
LEMMA SdModeHolds ==
    ASSUME NEW t, NEW i, NEW k, Holds(t, i, k)
    PROVE  /\ All(sd_switch_hs(t), i, k) /\ All(sd_set_bus_width(t), i, k)
           /\ \A m : All(sd_set_bus_speed_mode(t, m), i, k)
           /\ All(sd_set_current_limit(t), i, k) /\ All(sd_init_assd(t), i, k)
  <1>1. Holds([t EXCEPT !.c.timing = "HS"], i, k) /\ Holds([t EXCEPT !.c.width = 4], i, k) BY DEF Holds
  <1>2. All(sd_switch_hs(t), i, k)
    <2>1. \A p \in BOOLEAN : All(sd_switch(t, p, [t EXCEPT !.c.timing = "HS"]), i, k) BY <1>1, SdSwitchHolds
    <2> QED BY <2>1, ("HS" \in t.info.has) \in BOOLEAN DEF sd_switch_hs
  <1>3. All(sd_set_bus_width(t), i, k)
    <2>1. All(Cmd(t, {"tran"}, [t EXCEPT !.c.width = 4]), i, k) BY <1>1, CmdHolds
    <2> QED BY <2>1, HostHolds, RetHolds DEF All, sd_set_bus_width, OnOk, Ret
  <1>4. ASSUME NEW m PROVE All(sd_set_bus_speed_mode(t, m), i, k)
    <2> DEFINE p == t.c.sv = 18 /\ m \in t.info.modes \cup {"SDR12"}
               d == [t EXCEPT !.c.timing = m]
    <2>1. Holds(d, i, k) BY DEF Holds
    <2>2. All(sd_switch(t, p, d), i, k) BY <2>1, SdSwitchHolds, p \in BOOLEAN
    <2>3. \A u : Holds(u, i, k) => Holds(sdio_clock(sdio_timing(u, m), Dtr(m)), i, k) BY HostHolds
    <2>4. sd_set_bus_speed_mode(t, m) = OnOk(sd_switch(t, p, d), LAMBDA u :
            Ret(sdio_clock(sdio_timing(u, m), Dtr(m)), "EOK"))
      BY DEF sd_set_bus_speed_mode
    <2> HIDE DEF p, d
    <2> QED BY <2>2, <2>3, <2>4 DEF All, OnOk, Ret
  <1>5. All(sd_set_current_limit(t), i, k) /\ All(sd_init_assd(t), i, k)
    BY SdSwitchHolds DEF sd_set_current_limit, sd_init_assd
  <1> QED BY <1>2, <1>3, <1>4, <1>5

\* sd_init_uhs(): width, current, mode and tuning.
LEMMA UhsHolds ==
    ASSUME NEW t, NEW i, NEW k, Holds(t, i, k)
    PROVE  All(sd_init_uhs(t), i, k)
  <1> DEFINE c(v) == Anyway(sdio_tune(sdio_preset(v, TRUE)), LAMBDA x : Ret(Flag(x, "UHS"), "EOK"))
             b(u) == OnOk(sd_set_bus_speed_mode(u, sd_select_bus_mode(u)), LAMBDA v : c(v))
             a(u) == OnOk(sd_set_current_limit(u), LAMBDA v : b(v))
  <1>1. \A u : Holds(u, i, k) => All(c(u), i, k)
    <2>1. \A u : Holds(u, i, k) => All(sdio_tune(sdio_preset(u, TRUE)), i, k) BY HostHolds, TuneHolds
    <2>2. \A u : Holds(u, i, k) => All(Ret(Flag(u, "UHS"), "EOK"), i, k) BY FlagHolds, RetHolds
    <2> QED BY <2>1, <2>2 DEF All, Anyway
  <1> HIDE DEF c
  <1>2. \A u : Holds(u, i, k) => All(b(u), i, k) BY <1>1, SdModeHolds DEF All, OnOk
  <1> HIDE DEF b
  <1>3. \A u : Holds(u, i, k) => All(a(u), i, k) BY <1>2, SdModeHolds DEF All, OnOk
  <1> HIDE DEF a
  <1>4. sd_init_uhs(t) = OnOk(sd_set_bus_width(t), LAMBDA u : a(u)) BY DEF sd_init_uhs, a, b, c
  <1> QED BY <1>3, <1>4, SdModeHolds DEF All, OnOk

\* sd_init_bus(): UHS at 1.8 V, else high or low speed.
LEMMA SdBusHolds ==
    ASSUME NEW t, NEW i, NEW k, Holds(t, i, k)
    PROVE  All(sd_init_bus(t), i, k)
  <1> DEFINE hs(u) == OnOk(sd_switch_hs(u), LAMBDA v : Ret(Flag(v, "HS"), "EOK"))
             wide(u) == Where("BW4" \in u.hcaps \cap u.info.has, u, sd_set_bus_width(u))
             fast == "HS" \in t.dcaps
             paced(u) == IF fast THEN sdio_clock(sdio_timing(u, "HS"), u.dtrHs)
                        ELSE sdio_clock(sdio_timing(u, "LS"), u.dtrLs)
             len(u) == _sdio_set_block_length(paced(u), 512)
             rest(u) == OnOk(wide(u), LAMBDA v : len(v))
             one == Where(fast, t, hs(t))
             plain == OnOk(one, LAMBDA u : rest(u))
             assd(u) == Where("ASSD" \in u.dcaps, u, sd_init_assd(u))
             both == IF t.sv = 18 THEN sd_init_uhs(t) ELSE plain
  <1>1. All(hs(t), i, k) BY SdModeHolds, FlagHolds DEF All, OnOk, Ret
  <1> HIDE DEF hs
  <1>2. All(one, i, k) BY <1>1, RetHolds DEF Where
  <1>3. \A u : Holds(u, i, k) => All(wide(u), i, k) BY SdModeHolds, RetHolds DEF Where
  <1>4. \A u : Holds(u, i, k) => All(len(u), i, k)
    <2>1. \A u : Holds(u, i, k) => Holds(paced(u), i, k) BY HostHolds
    <2> HIDE DEF paced
    <2> QED BY <2>1, LengthHolds
  <1> HIDE DEF one, wide, len, paced
  <1>5. \A u : Holds(u, i, k) => All(rest(u), i, k) BY <1>3, <1>4 DEF All, OnOk
  <1> HIDE DEF rest
  <1>6. All(plain, i, k) BY <1>2, <1>5 DEF All, OnOk
  <1> HIDE DEF plain
  <1>7. All(both, i, k) BY <1>6, UhsHolds
  <1>8. \A u : Holds(u, i, k) => All(assd(u), i, k) BY SdModeHolds, RetHolds DEF Where
  <1> HIDE DEF both, assd
  <1>9. sd_init_bus(t) = OnOk(both, LAMBDA u : assd(u))
    BY DEF sd_init_bus, both, assd, plain, rest, one, wide, len, paced, hs
  <1> QED BY <1>7, <1>8, <1>9 DEF All, OnOk

\* sd_bus_error(): a step down, and the bus set up again.
LEMMA SdBusErrorHolds ==
    ASSUME NEW t, NEW i, NEW k, Holds(t, i, k)
    PROVE  All(sd_bus_error(t), i, k)
  <1>1. \A u, x : Holds(u, i, k) => Holds([u EXCEPT !.dtrHs = x], i, k) BY DEF Holds
  <1>2. \A x : Holds([t EXCEPT !.dtrLs = x], i, k) BY DEF Holds
  <1>3. \A u, x : Holds(u, i, k) => Holds([u EXCEPT !.modes = x], i, k) BY DEF Holds
  <1> QED BY <1>1, <1>2, <1>3, FlagHolds, SdBusHolds DEF sd_bus_error

\* _sdio_lock_unlock(): CMD42 between two changes of the block length.
LEMMA UnlockHolds ==
    ASSUME NEW t, NEW i, NEW k, Holds(t, i, k), NEW pwd, NEW lock \in BOOLEAN
    PROVE  All(_sdio_lock_unlock(t, pwd, lock), i, k)
  <1> DEFINE len(u, st) == As(_sdio_set_block_length(u, 512), st)
             set(u) == IF pwd = "right" THEN [u EXCEPT !.c.locked = lock] ELSE u
             a(u) == Look(DataCmd(u, {"tran"}, set(u)), LAMBDA v, st : len(v, st))
             first == OnOk(_sdio_set_block_length(t, 4), LAMBDA u : a(u))
             mark(u) == IF u.c.locked THEN Flag(u, "LOCKED") ELSE Unflag(u, "LOCKED")
             ask(u) == OnOk(Cmd(u, {"tran"}, u), LAMBDA v : Ret(mark(v), "EOK"))
             b(u, st) == IF st # "EOK" THEN Ret(u, st) ELSE ask(u)
  <1>1. \A u, st : Holds(u, i, k) => All(len(u, st), i, k) BY LengthHolds DEF All, As
  <1>2. \A u : Holds(u, i, k) => Holds(set(u), i, k) BY DEF Holds
  <1> HIDE DEF len, set
  <1>3. \A u : Holds(u, i, k) => All(a(u), i, k) BY <1>1, <1>2, CmdHolds DEF All, Look
  <1> HIDE DEF a
  <1>4. All(first, i, k) BY <1>3, LengthHolds DEF All, OnOk
  <1>5. \A u : Holds(u, i, k) => Holds(mark(u), i, k) BY FlagHolds
  <1> HIDE DEF mark
  <1>6. \A u : Holds(u, i, k) => All(ask(u), i, k) BY <1>5, CmdHolds DEF All, OnOk, Ret
  <1> HIDE DEF ask
  <1>7. \A u, st : Holds(u, i, k) => All(b(u, st), i, k) BY <1>6, RetHolds
  <1> HIDE DEF first, b
  <1>8. _sdio_lock_unlock(t, pwd, lock) = Look(first, LAMBDA u, st : b(u, st))
    BY DEF _sdio_lock_unlock, first, b, a, len, set, ask, mark
  <1> QED BY <1>4, <1>7, <1>8 DEF All, Look

\* sdio_lock_unlock(): a card that is no longer locked has its bus set up.
LEMMA SdLockHolds ==
    ASSUME NEW t, NEW i, NEW k, Holds(t, i, k), NEW pwd, NEW lock \in BOOLEAN
    PROVE  All(sdio_lock_unlock(t, pwd, lock), i, k)
  <1> DEFINE c(u) == OnOk(sd_capabilities(u), LAMBDA v : sd_init_bus(v))
             b(u, st) == IF "LOCKED" \in u.flags THEN Ret(u, IF lock THEN st ELSE "EACCES")
                         ELSE IF "LOCKED" \notin t.flags THEN Ret(u, st) ELSE c(u)
             v0 == [t EXCEPT !.pwd = pwd]
  <1>1. \A u : Holds(u, i, k) => All(c(u), i, k) BY CapabilitiesHolds, SdBusHolds DEF All, OnOk
  <1> HIDE DEF c
  <1>2. \A u, st : Holds(u, i, k) => All(b(u, st), i, k) BY <1>1, RetHolds
  <1>3. Holds(v0, i, k) BY DEF Holds
  <1>4. sd_lock_unlock(t, pwd, lock) = Look(_sdio_lock_unlock(v0, pwd, lock), LAMBDA u, st : b(u, st))
    BY DEF sd_lock_unlock, c
  <1> HIDE DEF b, v0
  <1>5. All(_sdio_lock_unlock(v0, pwd, lock), i, k) BY <1>3, UnlockHolds
  <1>6. All(sd_lock_unlock(t, pwd, lock), i, k) BY <1>2, <1>4, <1>5 DEF All, Look
  <1> QED BY <1>6, RetHolds DEF sdio_lock_unlock

\* _sdio_bus_error() of either kind of card.
LEMMA BusErrorHolds ==
    ASSUME NEW t, NEW i, NEW k, Holds(t, i, k)
    PROVE  All(_sdio_bus_error(t), i, k)
  <1> DEFINE O == IF t.dtype = "MMC" THEN mmc_bus_error(t) ELSE sd_bus_error(t)
  <1>1. All(O, i, k) BY MmcBusErrorHolds, SdBusErrorHolds
  <1>2. \A u : Holds(u, i, k) => Holds([u EXCEPT !.busErrs = 0], i, k) BY DEF Holds
  <1>3. All({<<[o[1] EXCEPT !.busErrs = 0], o[2]>> : o \in O}, i, k) BY <1>1, <1>2 DEF All
  <1>4. Holds([t EXCEPT !.busErrs = @ + 1], i, k) BY DEF Holds
  <1> QED BY <1>3, <1>4, RetHolds DEF _sdio_bus_error

\* The outcomes of a set-up: a device that is set up with success has the CID of
\* the card.
Known(O, i) == \A o \in O : Holds(o[1], i, o[1].cid) /\ (o[2] = "EOK" => o[1].cid = i.cid)

\* CMD2, sdio_all_send_cid(): a fresh device takes the card's CID; one set up again
\* compares, and another card is ENXIO.
LEMMA CidKnown ==
    ASSUME NEW t, NEW i, NEW k, Holds(t, i, k), NEW again \in BOOLEAN
    PROVE  Known(sdio_all_send_cid(t, again), i)
  <1>1. Holds([t EXCEPT !.c.st = "ident"], i, k) BY DEF Holds
  <1>2. All(Cmd(t, {"ready"}, [t EXCEPT !.c.st = "ident"]), i, k) BY <1>1, CmdHolds
  <1>3. \A u : Holds(u, i, k) => /\ Holds([u EXCEPT !.cid = u.info.cid], i, i.cid)
                                 /\ [u EXCEPT !.cid = u.info.cid].cid = i.cid
    BY DEF Holds
  <1>4. \A o \in Cmd(t, {"ready"}, [t EXCEPT !.c.st = "ident"]) : Holds(o[1], i, o[1].cid) /\ Holds(o[1], i, k)
    BY <1>2 DEF All, Holds
  <1> SUFFICES ASSUME NEW o \in sdio_all_send_cid(t, again)
               PROVE  Holds(o[1], i, o[1].cid) /\ (o[2] = "EOK" => o[1].cid = i.cid)
    BY DEF Known
  <1>5. PICK a \in Cmd(t, {"ready"}, [t EXCEPT !.c.st = "ident"]) :
          IF a[2] = "EOK"
          THEN o \in IF again /\ a[1].cid # a[1].info.cid THEN Ret(a[1], "ENXIO")
                     ELSE Ret([a[1] EXCEPT !.cid = a[1].info.cid], "EOK")
          ELSE o = a
    BY DEF sdio_all_send_cid, OnOk
  <1>6. (o = a /\ a[2] # "EOK") \/ o = <<a[1], "ENXIO">> \/ o = <<[a[1] EXCEPT !.cid = a[1].info.cid], "EOK">>
    BY <1>5 DEF Ret
  <1>7. CASE o = <<[a[1] EXCEPT !.cid = a[1].info.cid], "EOK">> BY <1>3, <1>4, <1>7
  <1>8. CASE (o = a /\ a[2] # "EOK") \/ o = <<a[1], "ENXIO">> BY <1>4, <1>8
  <1> QED BY <1>6, <1>7, <1>8

\* What fails before the card was identified: the CID is what it was.
LEMMA HoldsOwn == ASSUME NEW t, NEW i, NEW k, Holds(t, i, k) PROVE Holds(t, i, t.cid)
  BY DEF Holds

\* The part of mmc_init_device() for a card of version 4.
LEMMA ExtHolds ==
    ASSUME NEW t, NEW i, NEW k, Holds(t, i, k), NEW again \in BOOLEAN
    PROVE  LET grp(u) == Where("ERASE_GRP" \in u.info.has, u,
                           OnOk(mmc_switch(u, u), LAMBDA v : Ret([v EXCEPT !.egd = TRUE], "EOK")))
               hpi(u) == Where("HPI" \in u.info.has, u, mmc_switch(u, u))
           IN  All(IF ~t.info.v4 THEN Ret(t, "EOK")
                   ELSE OnOk(IF again THEN Ret(t, "EOK")
                             ELSE OnOk(mmc_send_ext_csd(t), LAMBDA u : Ret(mmc_parse_ext_csd(u), "EOK")),
                          LAMBDA u : OnOk(grp(u), LAMBDA v :
                            hpi(IF "HC" \in v.info.has THEN [v EXCEPT !.dcaps = @ \cup {"HC"}] ELSE v))), i, k)
  <1> DEFINE set(u) == OnOk(mmc_switch(u, u), LAMBDA v : Ret([v EXCEPT !.egd = TRUE], "EOK"))
             grp(u) == Where("ERASE_GRP" \in u.info.has, u, set(u))
             hpi(u) == Where("HPI" \in u.info.has, u, mmc_switch(u, u))
             high(v) == IF "HC" \in v.info.has THEN [v EXCEPT !.dcaps = @ \cup {"HC"}] ELSE v
             read == OnOk(mmc_send_ext_csd(t), LAMBDA u : Ret(mmc_parse_ext_csd(u), "EOK"))
             first == IF again THEN Ret(t, "EOK") ELSE read
             last(v) == hpi(high(v))
             rest(u) == OnOk(grp(u), LAMBDA v : last(v))
  <1>1. \A u : Holds(u, i, k) => Holds([u EXCEPT !.egd = TRUE], i, k) BY DEF Holds
  <1>2. \A u : Holds(u, i, k) => Holds(high(u), i, k) BY DEF Holds
  <1>3. \A u : Holds(u, i, k) => All(mmc_switch(u, u), i, k) BY CmdHolds DEF mmc_switch
  <1>4. \A u : Holds(u, i, k) => All(set(u), i, k) BY <1>1, <1>3 DEF All, OnOk, Ret
  <1> HIDE DEF set, high
  <1>5. \A u : Holds(u, i, k) => All(grp(u), i, k) BY <1>4, RetHolds DEF Where
  <1>6. \A u : Holds(u, i, k) => All(hpi(u), i, k) BY <1>3, RetHolds DEF Where
  <1> HIDE DEF grp, hpi
  <1>7. \A u : Holds(u, i, k) => All(last(u), i, k) BY <1>2, <1>6
  <1> HIDE DEF last
  <1>8. \A u : Holds(u, i, k) => All(rest(u), i, k) BY <1>5, <1>7 DEF All, OnOk
  <1>9. All(read, i, k) BY DeviceHolds DEF All, OnOk, Ret
  <1> HIDE DEF read, rest
  <1>10. All(first, i, k) BY <1>9, RetHolds
  <1> HIDE DEF first
  <1>11. All(OnOk(first, LAMBDA u : rest(u)), i, k) BY <1>8, <1>10 DEF All, OnOk
  <1>12. All(IF ~t.info.v4 THEN Ret(t, "EOK") ELSE OnOk(first, LAMBDA u : rest(u)), i, k) BY <1>11, RetHolds
  <1> QED BY <1>12 DEF first, rest, read, last, hpi, grp, high, set

\* mmc_init_device(): up to CMD2 the CID is the old one and only failure can
\* end the set-up; from CMD2 on it is the card's.
LEMMA MmcDeviceKnown ==
    ASSUME NEW t, NEW i, NEW k, Holds(t, i, k), NEW again \in BOOLEAN
    PROVE  Known(mmc_init_device(t, again), i)
  <1> DEFINE own == i.cid
             grp(u) == Where("ERASE_GRP" \in u.info.has, u,
                  OnOk(mmc_switch(u, u), LAMBDA v : Ret([v EXCEPT !.egd = TRUE], "EOK")))
             hpi(u) == Where("HPI" \in u.info.has, u, mmc_switch(u, u))
             ext(u) == IF ~u.info.v4 THEN Ret(u, "EOK")
                ELSE OnOk(IF again THEN Ret(u, "EOK")
                          ELSE OnOk(mmc_send_ext_csd(u), LAMBDA v : Ret(mmc_parse_ext_csd(v), "EOK")),
                       LAMBDA v : OnOk(grp(v), LAMBDA x :
                         hpi(IF "HC" \in x.info.has THEN [x EXCEPT !.dcaps = @ \cup {"HC"}] ELSE x)))
             g(u) == mmc_init_bus(IF again THEN u ELSE sdio_reconcile_errata(u))
             h(u) == OnOk(ext(u), LAMBDA v : g(v))
             f(u) == IF "LOCKED" \in u.flags THEN Ret(u, "EOK") ELSE h(u)
             sel(u) == sdio_select_card(sdio_bus_mode(IF again THEN u ELSE mmc_parse_csd(u), TRUE))
             e(u) == OnOk(sel(u), LAMBDA v : f(v))
             csd(u) == Where(~again, u, sdio_send_csd(sdio_bus_mode(u, TRUE)))
             d(u) == OnOk(csd(u), LAMBDA v : e(v))
             c(u) == OnOk(mmc_set_relative_addr([u EXCEPT !.rca = 1]), LAMBDA v : d(v))
             b(u) == OnOk(sdio_all_send_cid(u, again), LAMBDA v : c(v))
             a(u) == OnOk(mmc_send_op_cond(u, FALSE), LAMBDA v : b(v))
             first == IF t.skip THEN Ret(t, "EOK") ELSE sdio_go_idle(t)
  <1>1. \A u : Holds(u, i, own) => All(ext(u), i, own) BY ExtHolds
  <1>2. \A u : Holds(u, i, own) => All(g(u), i, own) BY DeviceHolds, MmcBusHolds
  <1> HIDE DEF ext, g
  <1>3. \A u : Holds(u, i, own) => All(h(u), i, own) BY <1>1, <1>2 DEF All, OnOk
  <1> HIDE DEF h
  <1>4. \A u : Holds(u, i, own) => All(f(u), i, own) BY <1>3, RetHolds
  <1> HIDE DEF f
  <1>5. \A u : Holds(u, i, own) => All(sel(u), i, own)
    <2> SUFFICES ASSUME NEW u, Holds(u, i, own) PROVE All(sel(u), i, own) OBVIOUS
    <2> DEFINE v == IF again THEN u ELSE mmc_parse_csd(u)
    <2>1. Holds(v, i, own) BY DeviceHolds
    <2> HIDE DEF v
    <2>2. Holds(sdio_bus_mode(v, TRUE), i, own) BY <2>1, HostHolds
    <2>3. All(sdio_select_card(sdio_bus_mode(v, TRUE)), i, own) BY <2>2, DeviceHolds
    <2> QED BY <2>3 DEF v
  <1> HIDE DEF sel
  <1>6. \A u : Holds(u, i, own) => All(e(u), i, own) BY <1>4, <1>5 DEF All, OnOk
  <1> HIDE DEF e
  <1>7. \A u : Holds(u, i, own) => All(csd(u), i, own)
    <2> SUFFICES ASSUME NEW u, Holds(u, i, own) PROVE All(csd(u), i, own) OBVIOUS
    <2>1. Holds(sdio_bus_mode(u, TRUE), i, own) BY HostHolds
    <2>2. All(sdio_send_csd(sdio_bus_mode(u, TRUE)), i, own) BY <2>1, DeviceHolds
    <2> QED BY <2>2, RetHolds DEF Where
  <1> HIDE DEF csd
  <1>8. \A u : Holds(u, i, own) => All(d(u), i, own) BY <1>6, <1>7 DEF All, OnOk
  <1> HIDE DEF d
  <1>9. \A u : Holds(u, i, own) => All(c(u), i, own)
    <2>1. \A u : Holds(u, i, own) => All(mmc_set_relative_addr([u EXCEPT !.rca = 1]), i, own)
      <3> SUFFICES ASSUME NEW u, Holds(u, i, own) PROVE All(mmc_set_relative_addr([u EXCEPT !.rca = 1]), i, own)
        OBVIOUS
      <3>1. Holds([u EXCEPT !.rca = 1], i, own) BY SdCmdHolds
      <3> QED BY <3>1, DeviceHolds
    <2> QED BY <1>8, <2>1 DEF All, OnOk
  <1> HIDE DEF c
  <1>10. \A u : Holds(u, i, k) => Known(b(u), i) BY <1>9, CidKnown DEF Known, All, OnOk, Holds
  <1> HIDE DEF b
  <1>11. \A u : Holds(u, i, k) => All(mmc_send_op_cond(u, FALSE), i, k) BY DeviceHolds
  <1>12. \A u : Holds(u, i, k) => Known(a(u), i) BY <1>10, <1>11, HoldsOwn DEF Known, All, OnOk
  <1> HIDE DEF a
  <1>13. All(first, i, k) BY DeviceHolds, RetHolds
  <1> HIDE DEF first
  <1>14. mmc_init_device(t, again) = OnOk(first, LAMBDA u : a(u))
    BY DEF mmc_init_device, first, a, b, c, d, e, f, g, h, sel, csd, ext
  <1> QED BY <1>12, <1>13, <1>14, HoldsOwn DEF Known, All, OnOk

\* mmc_ident(): the set-up left by the boot loader is tried first, if it may be used.
LEMMA MmcIdentKnown ==
    ASSUME NEW t, NEW i, NEW k, Holds(t, i, k)
    PROVE  Known(mmc_ident(t), i)
  <1> DEFINE dev(u) == mmc_init_device(u, FALSE)
             c(v) == OnOk(sdio_select_voltage(v, v.info.ocr), LAMBDA x : dev(x))
             b(u) == OnOk(mmc_send_op_cond(u, TRUE), LAMBDA v : c(v))
             a(u) == OnOk(sdio_go_idle(u), LAMBDA v : b(v))
             first == IF t.skip THEN dev(t) ELSE Ret(t, "EAGAIN")
             next(u, st) == IF st = "EOK" THEN Ret(u, st) ELSE a(u)
  <1>1. \A u : Holds(u, i, u.cid) => Known(dev(u), i) BY MmcDeviceKnown
  <1>1a. \A u : Holds(u, i, u.cid) => \A o \in mmc_send_op_cond(u, TRUE) : Holds(o[1], i, o[1].cid)
    BY DeviceHolds, HoldsOwn DEF All
  <1>1b. \A u : Holds(u, i, u.cid) => \A o \in sdio_go_idle(u) : Holds(o[1], i, o[1].cid)
    BY DeviceHolds, HoldsOwn DEF All
  <1>1c. \A u : Holds(u, i, u.cid) => \A o \in sdio_select_voltage(u, u.info.ocr) : Holds(o[1], i, o[1].cid)
    BY PowerHolds, HoldsOwn DEF All
  <1> HIDE DEF dev
  <1>2. \A u : Holds(u, i, u.cid) => Known(c(u), i) BY <1>1, <1>1c DEF Known, OnOk
  <1> HIDE DEF c
  <1>3. \A u : Holds(u, i, u.cid) => Known(b(u), i) BY <1>2, <1>1a DEF Known, OnOk
  <1> HIDE DEF b
  <1>4. \A u : Holds(u, i, u.cid) => Known(a(u), i) BY <1>3, <1>1b DEF Known, OnOk
  <1> HIDE DEF a
  <1>5. Known(first, i) BY <1>1, HoldsOwn DEF Known, Ret
  <1> HIDE DEF first
  <1>6. mmc_ident(t) = Look(first, LAMBDA u, st : next(u, st)) BY DEF mmc_ident, first, next, a, b, c, dev
  <1> QED BY <1>4, <1>5, <1>6 DEF Known, Look, Ret

\* ACMD41 and the voltage switch that may follow it.
LEMMA OpCondHolds ==
    ASSUME NEW t, NEW i, NEW k, Holds(t, i, k), NEW s18r \in BOOLEAN, NEW hcap \in BOOLEAN
    PROVE  All(OpCond(t, s18r, hcap), i, k)
  <1> DEFINE s18a(u) == hcap /\ "HCS" \in u.info.has /\ "S18" \in u.info.has /\ u.c.sv = 33
             err(u, st) == IF st = "EOK" THEN u ELSE Flag(u, "SIG_ERR")
             signal(u) == Look(sdio_signal_voltage(u, 18), LAMBDA v, st : Ret(err(v, st), st))
             after(u, st) == IF st = "EOK" THEN signal(u) ELSE sd_app_send_op_cond(u, FALSE)
             cmd11(u) == Look(sd_voltage_switch(u), LAMBDA v, st : after(v, st))
             rest(u) == IF ~(s18r /\ s18a(u)) THEN Ret(u, "EOK") ELSE cmd11(u)
  <1>1. \A u, st : Holds(u, i, k) => Holds(err(u, st), i, k) BY FlagHolds
  <1> HIDE DEF err
  <1>2. \A u : Holds(u, i, k) => All(signal(u), i, k) BY <1>1, SignalHolds DEF All, Look, Ret
  <1> HIDE DEF signal
  <1>3. \A u : Holds(u, i, k) => All(sd_app_send_op_cond(u, FALSE), i, k) BY SdCmdHolds
  <1>4. \A u, st : Holds(u, i, k) => All(after(u, st), i, k) BY <1>2, <1>3
  <1> HIDE DEF after
  <1>5. \A u : Holds(u, i, k) => All(cmd11(u), i, k) BY <1>4, SdCmdHolds DEF All, Look
  <1> HIDE DEF cmd11
  <1>6. \A u : Holds(u, i, k) => All(rest(u), i, k) BY <1>5, RetHolds
  <1>7. OpCond(t, s18r, hcap) = OnOk(sd_app_send_op_cond(t, FALSE), LAMBDA u : rest(u))
    BY DEF OpCond, cmd11, after, signal, err
  <1> HIDE DEF rest
  <1> QED BY <1>3, <1>6, <1>7 DEF All, OnOk

\* The check for a card still at 1.8 V.
LEMMA StillHolds ==
    ASSUME NEW t, NEW i, NEW k, Holds(t, i, k)
    PROVE  All(Still18V(t), i, k)
  <1> DEFINE a(u, st) == IF st = "EOK" /\ u.modes \cap UHS # {} THEN As(sdio_signal_voltage(u, 18), "EOK")
                         ELSE Ret(u, "EOK")
  <1>1. \A u, st : Holds(u, i, k) => All(a(u, st), i, k)
    <2>1. \A u : Holds(u, i, k) => All(As(sdio_signal_voltage(u, 18), "EOK"), i, k) BY SignalHolds DEF All, As
    <2> QED BY <2>1, RetHolds
  <1>2. Still18V(t) = Ret(t, "EOK") \/ Still18V(t) = Look(sd_read_switch(t), LAMBDA u, st : a(u, st))
    BY DEF Still18V
  <1> HIDE DEF a
  <1>3. All(Look(sd_read_switch(t), LAMBDA u, st : a(u, st)), i, k) BY <1>1, ReadSwitchHolds DEF All, Look
  <1> QED BY <1>2, <1>3, RetHolds

\* sd_init_device(), as for an MMC: CMD2 divides it.
LEMMA SdDeviceKnown ==
    ASSUME NEW t, NEW i, NEW k, Holds(t, i, k), NEW again \in BOOLEAN
    PROVE  Known(sd_init_device(t, again), i)
  <1> DEFINE own == i.cid
             s18r(u) == /\ "SIG_ERR" \notin u.flags /\ "SV_1_8V" \in u.hcaps
                        /\ u.hcaps \cap (UHS \cup {"SDR12", "SDR25"}) # {} /\ (again => u.modes # {})
             a12(y) == OnOk(Still18V(y), LAMBDA z : sd_init_bus(z))
             able(u) == Where(~again, u, sd_capabilities(u))
             a11(u) == OnOk(able(u), LAMBDA v : a12(v))
             a10(u) == IF "LOCKED" \in u.flags THEN Ret(u, "EOK") ELSE a11(u)
             a9(u) == OnOk(sd_unlock(u), LAMBDA v : a10(v))
             sel(u) == sdio_select_card(sdio_bus_mode(IF again THEN u ELSE sd_parse_csd(u), TRUE))
             a8(u) == OnOk(sel(u), LAMBDA v : a9(v))
             csd(u) == Where(~again, u, sdio_send_csd(sdio_bus_mode(u, TRUE)))
             a7(u) == OnOk(csd(u), LAMBDA v : a8(v))
             a6(u) == OnOk(sdio_send_relative_addr(u), LAMBDA v : a7(v))
             a5(u) == OnOk(sdio_all_send_cid(u, again), LAMBDA v : a6(v))
             opc(u, st) == IF st = "EIO" THEN Ret(u, "EIO") ELSE OpCond(u, s18r(u), st = "EOK")
             a4(u, st) == OnOk(opc(u, st), LAMBDA v : a5(v))
             a3(u) == Look(sd_send_if_cond(u), LAMBDA v, st : a4(v, st))
             a2(u) == Anyway(sdio_go_idle(u), LAMBDA v : a3(v))
             t0 == [t EXCEPT !.rca = 0]
  <1>1. \A u : Holds(u, i, own) => All(a12(u), i, own) BY StillHolds, SdBusHolds DEF All, OnOk
  <1> HIDE DEF a12
  <1>2. \A u : Holds(u, i, own) => All(able(u), i, own) BY CapabilitiesHolds, RetHolds DEF Where
  <1> HIDE DEF able
  <1>3. \A u : Holds(u, i, own) => All(a11(u), i, own) BY <1>1, <1>2 DEF All, OnOk
  <1> HIDE DEF a11
  <1>4. \A u : Holds(u, i, own) => All(a10(u), i, own) BY <1>3, RetHolds
  <1> HIDE DEF a10
  <1>5. \A u : Holds(u, i, own) => All(sd_unlock(u), i, own) BY UnlockHolds, RetHolds DEF sd_unlock
  <1>6. \A u : Holds(u, i, own) => All(a9(u), i, own) BY <1>4, <1>5 DEF All, OnOk
  <1> HIDE DEF a9
  <1>7. \A u : Holds(u, i, own) => All(sel(u), i, own)
    <2> SUFFICES ASSUME NEW u, Holds(u, i, own) PROVE All(sel(u), i, own) OBVIOUS
    <2> DEFINE v == IF again THEN u ELSE sd_parse_csd(u)
    <2>1. Holds(v, i, own) BY SdCmdHolds
    <2> HIDE DEF v
    <2>2. Holds(sdio_bus_mode(v, TRUE), i, own) BY <2>1, HostHolds
    <2>3. All(sdio_select_card(sdio_bus_mode(v, TRUE)), i, own) BY <2>2, DeviceHolds
    <2> QED BY <2>3 DEF v
  <1> HIDE DEF sel
  <1>8. \A u : Holds(u, i, own) => All(a8(u), i, own) BY <1>6, <1>7 DEF All, OnOk
  <1> HIDE DEF a8
  <1>9. \A u : Holds(u, i, own) => All(csd(u), i, own)
    <2> SUFFICES ASSUME NEW u, Holds(u, i, own) PROVE All(csd(u), i, own) OBVIOUS
    <2>1. Holds(sdio_bus_mode(u, TRUE), i, own) BY HostHolds
    <2>2. All(sdio_send_csd(sdio_bus_mode(u, TRUE)), i, own) BY <2>1, DeviceHolds
    <2> QED BY <2>2, RetHolds DEF Where
  <1> HIDE DEF csd
  <1>10. \A u : Holds(u, i, own) => All(a7(u), i, own) BY <1>8, <1>9 DEF All, OnOk
  <1> HIDE DEF a7
  <1>11. \A u : Holds(u, i, own) => All(a6(u), i, own) BY <1>10, SdCmdHolds DEF All, OnOk
  <1> HIDE DEF a6
  <1>12. \A u : Holds(u, i, k) => Known(a5(u), i) BY <1>11, CidKnown DEF Known, All, OnOk, Holds
  <1> HIDE DEF a5
  <1>13. \A u, st : Holds(u, i, k) => All(opc(u, st), i, k)
    <2> SUFFICES ASSUME NEW u, NEW st, Holds(u, i, k) PROVE All(opc(u, st), i, k) OBVIOUS
    <2>1. \A p, q \in BOOLEAN : All(OpCond(u, p, q), i, k) BY OpCondHolds
    <2>2. All(OpCond(u, s18r(u), st = "EOK"), i, k) BY <2>1, s18r(u) \in BOOLEAN, (st = "EOK") \in BOOLEAN
    <2> HIDE DEF s18r
    <2> QED BY <2>2, RetHolds
  <1> HIDE DEF opc
  <1>14. \A u, st : Holds(u, i, k) => Known(a4(u, st), i) BY <1>12, <1>13, HoldsOwn DEF Known, All, OnOk
  <1> HIDE DEF a4
  <1>15. \A u : Holds(u, i, k) => Known(a3(u), i)
    <2>1. \A u : Holds(u, i, k) => All(sd_send_if_cond(u), i, k) BY SdCmdHolds
    <2> QED BY <1>14, <2>1 DEF Known, All, Look
  <1> HIDE DEF a3
  <1>16. \A u : Holds(u, i, k) => Known(a2(u), i) BY <1>15, DeviceHolds DEF Known, All, Anyway
  <1> HIDE DEF a2
  <1>17. All(sd_send_if_cond(t0), i, k) BY SdCmdHolds
  <1> HIDE DEF t0, s18r
  <1>18. sd_init_device(t, again) = Anyway(sd_send_if_cond(t0), LAMBDA u : a2(u))
    BY DEF sd_init_device, a2, a3, a4, opc, s18r, a5, a6, a7, csd, a8, sel, a9, a10, a11, able, a12, t0
  <1> QED BY <1>16, <1>17, <1>18 DEF Known, All, Anyway

\* sd_ident().
LEMMA SdIdentKnown ==
    ASSUME NEW t, NEW i, NEW k, Holds(t, i, k)
    PROVE  Known(sd_ident(t), i)
  <1> DEFINE dev(u) == sd_init_device(u, FALSE)
             c(v) == OnOk(sdio_select_voltage(v, v.info.ocr), LAMBDA x : dev(x))
             b(u) == OnOk(sd_app_send_op_cond(u, TRUE), LAMBDA v : c(v))
             a(u) == Anyway(sd_send_if_cond(u), LAMBDA v : b(v))
             t0 == [t EXCEPT !.rca = 0]
  <1>1. \A u : Holds(u, i, k) => Known(dev(u), i) BY SdDeviceKnown
  <1> HIDE DEF dev
  <1>2. \A u : Holds(u, i, k) => Known(c(u), i)
    <2>1. \A u : Holds(u, i, k) => All(sdio_select_voltage(u, u.info.ocr), i, k) BY PowerHolds
    <2> QED BY <1>1, <2>1, HoldsOwn DEF Known, All, OnOk
  <1> HIDE DEF c
  <1>3. \A u : Holds(u, i, k) => All(sd_app_send_op_cond(u, TRUE), i, k) BY SdCmdHolds
  <1>4. \A u : Holds(u, i, k) => Known(b(u), i) BY <1>2, <1>3, HoldsOwn DEF Known, All, OnOk
  <1> HIDE DEF b
  <1>5. \A u : Holds(u, i, k) => Known(a(u), i) BY <1>4, SdCmdHolds DEF Known, All, Anyway
  <1> HIDE DEF a
  <1>6. Holds(t0, i, k) BY SdCmdHolds
  <1>7. sd_ident(t) = Anyway(sdio_go_idle(t0), LAMBDA u : a(u)) BY DEF sd_ident, a, b, c, dev
  <1> HIDE DEF t0
  <1>8. All(sdio_go_idle(t0), i, k) BY <1>6, DeviceHolds
  <1> QED BY <1>5, <1>7, <1>8 DEF Known, All, Anyway

\* One attempt of _sdio_attach(): SD, then MMC; what fails is powered off.
LEMMA AttachAtKnown ==
    ASSUME NEW t, NEW i, NEW k, Holds(t, i, k), NEW clk
    PROVE  Known(AttachAt(t, clk), i)
  <1> DEFINE u == [t EXCEPT !.clkInit = Max({clk, t.hc.clkMin})]
             found(O, type) == {IF o[2] = "EOK" THEN <<Flag([o[1] EXCEPT !.dtype = type], "PRESENT"), "EOK">>
                             ELSE o : o \in O}
             sd(x) == IF x.only = "MMC" THEN Ret(x, "ENODEV") ELSE found(sd_ident(x), "SD")
             mmc(x) == IF x.only = "SD" THEN Ret(x, "ENODEV") ELSE found(mmc_ident(x), "MMC")
             first == IF t.skip THEN Ret(u, "EOK") ELSE sdio_power_on(u)
             b(x, st) == IF st = "EOK" THEN Ret(x, st) ELSE mmc(x)
             off(x) == sdio_power_off([x EXCEPT !.skip = FALSE])
             c(x, st) == IF st = "EOK" THEN Ret(x, st) ELSE Ret(off(x), st)
             both(v) == Look(sd(v), LAMBDA x, st : b(x, st))
             a(v) == Look(both(v), LAMBDA x, st : c(x, st))
  <1>1. \A O, type : Known(O, i) => Known(found(O, type), i)
    <2> SUFFICES ASSUME NEW O, NEW type, Known(O, i), NEW q \in found(O, type)
                 PROVE  Holds(q[1], i, q[1].cid) /\ (q[2] = "EOK" => q[1].cid = i.cid)
      BY DEF Known
    <2>0. PICK o \in O : q = IF o[2] = "EOK" THEN <<Flag([o[1] EXCEPT !.dtype = type], "PRESENT"), "EOK">> ELSE o
      OBVIOUS
    <2> HIDE DEF found
    <2>1. CASE o[2] # "EOK" BY <2>0, <2>1 DEF Known
    <2>2. CASE o[2] = "EOK"
      <3>1. Holds([o[1] EXCEPT !.dtype = type], i, i.cid) BY <2>2 DEF Known, Holds
      <3>2. Holds(Flag([o[1] EXCEPT !.dtype = type], "PRESENT"), i, i.cid) BY <3>1, FlagHolds
      <3>3. Flag([o[1] EXCEPT !.dtype = type], "PRESENT").cid = i.cid BY <3>2 DEF Holds
      <3> QED BY <2>0, <2>2, <3>2, <3>3
    <2> QED BY <2>1, <2>2
  <1> HIDE DEF found
  <1>2. \A x : Holds(x, i, x.cid) => Known(sd_ident(x), i) /\ Known(mmc_ident(x), i)
    BY SdIdentKnown, MmcIdentKnown
  <1>3. \A x, st : Holds(x, i, x.cid) /\ st # "EOK" => Known(Ret(x, st), i) BY DEF Known, Ret
  <1>4. \A x : Holds(x, i, x.cid) => Known(sd(x), i) /\ Known(mmc(x), i) BY <1>1, <1>2, <1>3
  <1> HIDE DEF sd, mmc
  <1>5. \A x, st : Holds(x, i, x.cid) /\ (st = "EOK" => x.cid = i.cid) => Known(b(x, st), i)
    BY <1>4 DEF Known, Ret
  <1> HIDE DEF b
  <1>6. \A v : Holds(v, i, v.cid) => Known(both(v), i) BY <1>4, <1>5 DEF Known, Look
  <1> HIDE DEF both
  <1>7. \A x : Holds(x, i, x.cid) => Holds(off(x), i, off(x).cid)
    <2> SUFFICES ASSUME NEW x, Holds(x, i, x.cid) PROVE Holds(off(x), i, off(x).cid) OBVIOUS
    <2>1. Holds([x EXCEPT !.skip = FALSE], i, x.cid) BY DEF Holds
    <2>2. Holds(off(x), i, x.cid) BY <2>1, PowerHolds
    <2> HIDE DEF off
    <2> QED BY <2>2, HoldsOwn
  <1> HIDE DEF off
  <1>8. \A x, st : Holds(x, i, x.cid) /\ (st = "EOK" => x.cid = i.cid) => Known(c(x, st), i)
    BY <1>7 DEF Known, Ret
  <1> HIDE DEF c
  <1>9. \A v : Holds(v, i, v.cid) => Known(a(v), i) BY <1>6, <1>8 DEF Known, Look
  <1> HIDE DEF a
  <1>10. Holds(u, i, k) BY DEF Holds
  <1> HIDE DEF u
  <1>11. All(first, i, k) BY <1>10, PowerHolds, RetHolds
  <1>12. AttachAt(t, clk) = Anyway(first, LAMBDA v : a(v))
    BY DEF AttachAt, a, both, c, off, b, sd, mmc, found, u
  <1> HIDE DEF first
  <1> QED BY <1>9, <1>11, <1>12, HoldsOwn DEF Known, All, Anyway

\* _sdio_attach(): up to four attempts; one that succeeds ends it.
LEMMA AttachKnown ==
    ASSUME NEW t, NEW i, NEW k, Holds(t, i, k)
    PROVE  Known(_sdio_attach(t), i)
  <1> DEFINE u == [Blank(t) EXCEPT !.busErrs = 0]
             v == IF t.skip THEN u ELSE sdio_power_off(u)
             try(O, clk) == Look(O, LAMBDA x, st : IF st = "EOK" THEN Ret(x, st) ELSE AttachAt(x, clk))
             off == Ret(v, "ENODEV")
  <1>1. \A O, clk : Known(O, i) => Known(try(O, clk), i)
    <2> SUFFICES ASSUME NEW O, NEW clk, Known(O, i) PROVE Known(try(O, clk), i) OBVIOUS
    <2> SUFFICES ASSUME NEW o \in O
                 PROVE  Known(IF o[2] = "EOK" THEN Ret(o[1], o[2]) ELSE AttachAt(o[1], clk), i)
      BY DEF Known, Look
    <2>1. Holds(o[1], i, o[1].cid) /\ (o[2] = "EOK" => o[1].cid = i.cid) BY DEF Known
    <2>2. o[2] = "EOK" => Known(Ret(o[1], o[2]), i) BY <2>1 DEF Known, Ret
    <2>3. Known(AttachAt(o[1], clk), i) BY <2>1, AttachAtKnown
    <2> QED BY <2>2, <2>3
  <1>2. Holds(u, i, 0) BY DEF Holds, Blank
  <1> HIDE DEF u
  <1>3. Holds(v, i, 0) BY <1>2, PowerHolds
  <1> HIDE DEF v
  <1>4. Known(off, i) BY <1>3, HoldsOwn DEF Known, Ret
  <1>5. _sdio_attach(t) = try(try(try(try(off, 4), 3), 2), 1) BY DEF _sdio_attach, u, v
  <1> HIDE DEF try, off
  <1> QED BY <1>1, <1>4, <1>5

\* _sdio_reset(): up to three attempts, with the CID known from before.
LEMMA ResetKnown ==
    ASSUME NEW t, NEW i, NEW k, Holds(t, i, k)
    PROVE  Known(_sdio_reset(t), i)
  <1> DEFINE u == [t EXCEPT !.rst = TRUE, !.skip = FALSE, !.rca = 0]
             try(O) == Look(O, LAMBDA x, st : IF st \in {"EOK", "ENXIO"} THEN Ret(x, st) ELSE ResetOnce(x))
             done(O) == {<<[o[1] EXCEPT !.rst = FALSE], o[2]>> : o \in O}
  <1>1. \A x : Holds(x, i, x.cid) => Known(ResetOnce(x), i)
    <2> SUFFICES ASSUME NEW x, Holds(x, i, x.cid) PROVE Known(ResetOnce(x), i) OBVIOUS
    <2> DEFINE own == x.cid
               dev(y) == IF y.dtype = "MMC" THEN mmc_init_device(y, TRUE) ELSE sd_init_device(y, TRUE)
               p == sdio_power_off(x)
    <2>1. Holds(p, i, own) BY PowerHolds
    <2> HIDE DEF p
    <2>2. All(sdio_power_on(p), i, own) BY <2>1, PowerHolds
    <2>3. \A y : Holds(y, i, own) => Known(dev(y), i) BY MmcDeviceKnown, SdDeviceKnown
    <2>4. ResetOnce(x) = OnOk(sdio_power_on(p), LAMBDA y : dev(y)) BY DEF ResetOnce, p
    <2> HIDE DEF dev, own
    <2> QED BY <2>2, <2>3, <2>4, HoldsOwn DEF Known, All, OnOk
  <1>2. \A O : Known(O, i) => Known(try(O), i)
    <2> SUFFICES ASSUME NEW O, Known(O, i) PROVE Known(try(O), i) OBVIOUS
    <2> SUFFICES ASSUME NEW o \in O
                 PROVE  Known(IF o[2] \in {"EOK", "ENXIO"} THEN Ret(o[1], o[2]) ELSE ResetOnce(o[1]), i)
      BY DEF Known, Look
    <2>1. Holds(o[1], i, o[1].cid) /\ (o[2] = "EOK" => o[1].cid = i.cid) BY DEF Known
    <2>2. Known(Ret(o[1], o[2]), i) BY <2>1 DEF Known, Ret
    <2>3. Known(ResetOnce(o[1]), i) BY <1>1, <2>1
    <2> QED BY <2>2, <2>3
  <1>3. \A O : Known(O, i) => Known(done(O), i)
    <2> SUFFICES ASSUME NEW O, Known(O, i), NEW q \in done(O)
                 PROVE  Holds(q[1], i, q[1].cid) /\ (q[2] = "EOK" => q[1].cid = i.cid)
      BY DEF Known
    <2>1. PICK o \in O : q = <<[o[1] EXCEPT !.rst = FALSE], o[2]>> OBVIOUS
    <2>2. Holds(o[1], i, o[1].cid) /\ (o[2] = "EOK" => o[1].cid = i.cid) BY DEF Known
    <2> QED BY <2>1, <2>2 DEF Holds
  <1>4. Holds(u, i, k) BY DEF Holds
  <1> HIDE DEF u
  <1>5. Known(Ret(u, "EAGAIN"), i) /\ Known(Ret(t, "EBUSY"), i) BY <1>4, HoldsOwn DEF Known, Ret
  <1>6. \/ _sdio_reset(t) = Ret(t, "EBUSY")
        \/ _sdio_reset(t) = done(try(try(try(Ret(u, "EAGAIN")))))
    BY DEF _sdio_reset, u
  <1> HIDE DEF try, done
  <1> QED BY <1>2, <1>3, <1>5, <1>6

\* The record of the slot has these fields, and SameCard.
CardInv == Holds(s, s.info, s.cid) /\ SameCard

\* A reset that succeeds has found the card that was identified, and attach
\* identifies the card that is there: for every host, every set of cards, any
\* number of operations and of failures of commands and settings.  What makes it
\* true is that every way to success leads through CMD2 and that the CID is never
\* written elsewhere.
THEOREM CardStaysSame == SlotSpec => []SameCard
  <1>1. SlotInit => CardInv BY DEF SlotInit, CardInv, Holds, SameCard
  <1>2. CardInv /\ [SlotNext]_slotVars => CardInv'
    <2> SUFFICES ASSUME CardInv, [SlotNext]_slotVars PROVE CardInv' OBVIOUS
    <2> DEFINE i == s.info
               k == s.cid
    <2>1. Holds(s, i, k) BY DEF CardInv
    <2>2. ASSUME NEW O, NEW name, Do(name, O), Known(O, i) PROVE CardInv'
      <3>1. PICK o \in O : s' = o[1] /\ rc' = o[2] BY <2>2 DEF Do
      <3>2. Holds(s', i, s'.cid) /\ (rc' = "EOK" => s'.cid = i.cid) BY <2>2, <3>1 DEF Known
      <3>3. s'.info = i BY <3>2 DEF Holds
      <3> QED BY <3>2, <3>3 DEF CardInv, SameCard
    <2>3. ASSUME NEW O, NEW name, name \notin {"attach", "reset"}, Do(name, O), All(O, i, k) PROVE CardInv'
      <3>1. PICK o \in O : s' = o[1] BY <2>3 DEF Do
      <3>2. Holds(s', i, k) BY <2>3, <3>1 DEF All
      <3>3. Holds(s', s'.info, s'.cid) BY <3>2 DEF Holds
      <3>4. op' = name BY <2>3 DEF Do
      <3> QED BY <2>3, <3>3, <3>4 DEF CardInv, SameCard
    <2>4. CASE Attach BY <2>1, <2>2, <2>4, AttachKnown DEF Attach
    <2>5. CASE Reset BY <2>1, <2>2, <2>5, ResetKnown DEF Reset
    <2>6. CASE Retune BY <2>1, <2>3, <2>6, RetuneHolds DEF Retune
    <2>7. CASE BusError
      <3> DEFINE u == [s EXCEPT !.busErrs = SDIO_MAX_BUS_ERRS]
      <3>1. Holds(u, i, k) BY <2>1 DEF Holds
      <3>2. Do("bus_error", _sdio_bus_error(u)) BY <2>7 DEF BusError
      <3> HIDE DEF u
      <3>3. All(_sdio_bus_error(u), i, k) BY <3>1, BusErrorHolds
      <3> QED BY <2>3, <3>2, <3>3
    <2>8. CASE Lock
      <3>1. PICK p \in {"right", "wrong"}, l \in BOOLEAN : Do("lock", sdio_lock_unlock(s, p, l)) BY <2>8 DEF Lock
      <3>2. All(sdio_lock_unlock(s, p, l), i, k) BY <2>1, SdLockHolds
      <3> QED BY <2>3, <3>1, <3>2
    <2>9. CASE Insert
      <3>1. PICK j \in Cards :
              s' = [s EXCEPT !.info = j, !.c = IF s.vdd = 0 THEN Off ELSE Idle(j, 33), !.ev = {"swap"}]
        BY <2>9 DEF Insert
      <3>2. Holds(s', s'.info, s'.cid) BY <2>1, <3>1 DEF Holds
      <3> QED BY <2>9, <3>2 DEF Insert, CardInv, SameCard
    <2>10. CASE UNCHANGED slotVars BY <2>10 DEF slotVars, CardInv, SameCard, Identified
    <2> QED BY <2>4, <2>5, <2>6, <2>7, <2>8, <2>9, <2>10 DEF SlotNext
  <1>3. CardInv => SameCard BY DEF CardInv
  <1> QED BY <1>1, <1>2, <1>3, PTL DEF SlotSpec
=============================================================================
