------------------------------ MODULE Dma_proofs -----------------------------
(***************************************************************************)
(* Proofs about the DMA library.                                           *)
(*                                                                         *)
(* DmaSync, for every number of processes and channels and with crashes:   *)
(* the shared mutex excludes, a handle is good for the channel the         *)
(* resource database assigned to its process, and DMA_ENABLE and           *)
(* process_cnt are right, when no process opens the shared object while    *)
(* another one is creating it.                                             *)
(*                                                                         *)
(* DmaChannel, for every client: its type invariant.  For clients that     *)
(* serialise their calls and release idle channels: the engine runs only   *)
(* while DMACH_BUSY is set, and DMACH_BUSY goes only with the control      *)
(* block (BusyInv).  If moreover every event is handled before the next    *)
(* one can come: a transfer reported complete is complete, and the channel *)
(* implements DmaApi, step by step (HonestInv).                            *)
(***************************************************************************)
EXTENDS DmaSync, DmaChannel, FiniteSetTheorems, SequenceTheorems, TLAPS

InitSteps == {"shm", "truncate", "map", "mutex_init", "init_lock", "incr",
              "first", "create", "init_unlock"}

ChanSteps == {"att_lock", "att_read", "att_write", "att_unlock", "att_irq",
              "rel_lock", "rel_read", "rel_write", "rel_unlock", "detach"}

\* The process has not opened the shared object, or is done with it.
Early(p) == pc[p] \in {"shm", "dead", "null"} \/ (pc[p] = "idle" /\ users[p] = 0)

\* The process is about to initialise the mutex of the object it created.
Creator(p) == creator[p] /\ pc[p] \in {"truncate", "map", "mutex_init"}

SyncType ==
  /\ pc \in [Procs -> Steps] /\ users \in [Procs -> Nat]
  /\ creator \in [Procs -> BOOLEAN]
  /\ owner \in [Channels -> Procs \cup {None}]
  /\ chan \in [Procs -> Channels \cup {None}]
  /\ held \in [Procs -> SUBSET Channels]

\* What users counts: nothing in a process that is dead, one in a process
\* that is initialising, something in one that has channels.
UsersInv ==
  \A p \in Procs :
    /\ pc[p] \in {"dead", "null"} => users[p] = 0
    /\ pc[p] \in InitSteps => users[p] = 1 /\ held[p] = {}
    /\ (pc[p] \in ChanSteps \/ held[p] # {}) => users[p] > 0

\* While the object does not exist, or its creator has not initialised the
\* mutex, no other process has got at it.
CreatorInv ==
  /\ \A p \in Procs : pc[p] = "mutex_init" => creator[p]
  /\ shm = "absent" => \A p \in Procs : Early(p)
  /\ \A p, q \in Procs : (Creator(q) /\ p # q) => Early(p)

HolderInv == \A p \in Procs : InCs(p) => mutex = p

\* A handle, and a channel that is being attached or released, belongs to
\* its process in the resource database.
OwnerInv ==
  \A p \in Procs :
    /\ \A c \in held[p] : owner[c] = p
    /\ pc[p] \in ChanSteps => /\ chan[p] \in Channels \ held[p]
                               /\ owner[chan[p]] = p

SyncInv == SyncType /\ UsersInv /\ CreatorInv /\ HolderInv /\ OwnerInv

-----------------------------------------------------------------------------
\* The inductive step: every step of every process, crashes and error paths
\* included, keeps SyncInv (sync.c, dma_init, dma_channel_attach/release).
LEMMA SyncNext ==
  ASSUME Staggered = TRUE, SyncInv, [Next]_vars
  PROVE  SyncInv'
  <1> USE DEF SyncInv
  <1>1. ASSUME NEW p \in Procs, LockStep(p) \/ LibStep(p) \/ Call(p) \/ Fault(p)
        PROVE  SyncInv'
    <2>1. CASE LockStep(p)
      <3>1. SyncType'
        BY <2>1
           DEF SyncType, Steps, UsersInv, InitSteps, OwnerInv, ChanSteps, LockStep,
               InitLock, AttachLock, ReleaseLock, FiniLock, Lock, From, Goto, locals
      <3>2. UsersInv'
        BY <2>1
           DEF SyncType, UsersInv, InitSteps, ChanSteps, LockStep, InitLock, AttachLock,
               ReleaseLock, FiniLock, Lock, From, Goto, locals
      <3>3. CreatorInv'
        BY <2>1
           DEF SyncType, UsersInv, CreatorInv, Early, Creator, InitSteps, ChanSteps,
               Creating, LockStep, InitLock, AttachLock, ReleaseLock, FiniLock, Lock, From,
               Goto, locals
      <3>4. HolderInv'
        BY <2>1, ProcsAssumption
           DEF SyncType, HolderInv, CreatorInv, Early, Creator, InCs, LockStep, InitLock,
               AttachLock, ReleaseLock, FiniLock, Lock, From, Goto, locals
      <3>5. OwnerInv'
        BY <2>1, ProcsAssumption
           DEF SyncType, UsersInv, OwnerInv, InitSteps, ChanSteps, LockStep, InitLock,
               AttachLock, ReleaseLock, FiniLock, Lock, From, Goto, locals
      <3> QED BY <3>1, <3>2, <3>3, <3>4, <3>5
    <2>2. CASE ShmOpen(p) \/ Truncate(p) \/ Map(p) \/ MutexInit(p)
      <3>1. SyncType'
        BY <2>2, ZenonT(60)
           DEF SyncType, Steps, UsersInv, InitSteps, OwnerInv, ChanSteps, ShmOpen, Truncate,
               Map, MutexInit, From, Goto, shared, locals
      <3>2. UsersInv'
        BY <2>2
           DEF SyncType, UsersInv, InitSteps, ChanSteps, ShmOpen, Truncate, Map, MutexInit,
               From, Goto, shared, locals
      <3>3. CreatorInv'
        BY <2>2
           DEF SyncType, UsersInv, CreatorInv, Early, Creator, InitSteps, ChanSteps,
               Creating, ShmOpen, Truncate, Map, MutexInit, From, Goto, shared, locals
      <3>4. HolderInv'
        BY <2>2, ProcsAssumption
           DEF SyncType, HolderInv, CreatorInv, Early, Creator, InCs, ShmOpen, Truncate,
               Map, MutexInit, From, Goto, shared, locals
      <3>5. OwnerInv'
        BY <2>2, ProcsAssumption
           DEF SyncType, UsersInv, OwnerInv, InitSteps, ChanSteps, ShmOpen, Truncate, Map,
               MutexInit, From, Goto, shared, locals
      <3> QED BY <3>1, <3>2, <3>3, <3>4, <3>5
    <2>3. CASE Incr(p)
      <3>1. SyncType'
        BY <2>3
           DEF SyncType, Steps, UsersInv, InitSteps, OwnerInv, ChanSteps, Incr, From, Goto,
               locals
      <3>2. UsersInv'
        BY <2>3 DEF SyncType, UsersInv, InitSteps, ChanSteps, Incr, From, Goto, locals
      <3>3. CreatorInv'
        BY <2>3
           DEF SyncType, UsersInv, CreatorInv, Early, Creator, InitSteps, ChanSteps,
               Creating, Incr, From, Goto, locals
      <3>4. HolderInv'
        BY <2>3, ProcsAssumption
           DEF SyncType, HolderInv, CreatorInv, Early, Creator, InCs, Incr, From, Goto,
               locals
      <3>5. OwnerInv'
        BY <2>3, ProcsAssumption
           DEF SyncType, UsersInv, OwnerInv, InitSteps, ChanSteps, Incr, From, Goto, locals
      <3> QED BY <3>1, <3>2, <3>3, <3>4, <3>5
    <2>4. CASE First(p)
      <3>1. SyncType'
        BY <2>4
           DEF SyncType, Steps, UsersInv, InitSteps, OwnerInv, ChanSteps, First, From, Goto,
               locals
      <3>2. UsersInv'
        BY <2>4 DEF SyncType, UsersInv, InitSteps, ChanSteps, First, From, Goto, locals
      <3>3. CreatorInv'
        BY <2>4
           DEF SyncType, UsersInv, CreatorInv, Early, Creator, InitSteps, ChanSteps,
               Creating, First, From, Goto, locals
      <3>4. HolderInv'
        BY <2>4, ProcsAssumption
           DEF SyncType, HolderInv, CreatorInv, Early, Creator, InCs, First, From, Goto,
               locals
      <3>5. OwnerInv'
        BY <2>4, ProcsAssumption
           DEF SyncType, UsersInv, OwnerInv, InitSteps, ChanSteps, First, From, Goto, locals
      <3> QED BY <3>1, <3>2, <3>3, <3>4, <3>5
    <2>5. CASE Create(p) \/ InitUnlock(p)
      <3>1. SyncType'
        BY <2>5
           DEF SyncType, Steps, UsersInv, InitSteps, OwnerInv, ChanSteps, Create,
               InitUnlock, Unlock, From, Goto, locals
      <3>2. UsersInv'
        BY <2>5
           DEF SyncType, UsersInv, InitSteps, ChanSteps, Create, InitUnlock, Unlock, From,
               Goto, locals
      <3>3. CreatorInv'
        BY <2>5
           DEF SyncType, UsersInv, CreatorInv, Early, Creator, InitSteps, ChanSteps,
               Creating, Create, InitUnlock, Unlock, From, Goto, locals
      <3>4. HolderInv'
        BY <2>5, ProcsAssumption
           DEF SyncType, HolderInv, CreatorInv, Early, Creator, InCs, Create, InitUnlock,
               Unlock, From, Goto, locals
      <3>5. OwnerInv'
        BY <2>5, ProcsAssumption
           DEF SyncType, UsersInv, OwnerInv, InitSteps, ChanSteps, Create, InitUnlock,
               Unlock, From, Goto, locals
      <3> QED BY <3>1, <3>2, <3>3, <3>4, <3>5
    <2>6. CASE AttachRead(p) \/ AttachWrite(p)
      <3>1. SyncType'
        BY <2>6
           DEF SyncType, Steps, UsersInv, InitSteps, OwnerInv, ChanSteps, AttachRead,
               AttachWrite, From, Goto, shared, locals
      <3>2. UsersInv'
        BY <2>6
           DEF SyncType, UsersInv, InitSteps, ChanSteps, AttachRead, AttachWrite, From,
               Goto, shared, locals
      <3>3. CreatorInv'
        BY <2>6
           DEF SyncType, UsersInv, CreatorInv, Early, Creator, InitSteps, ChanSteps,
               Creating, AttachRead, AttachWrite, From, Goto, shared, locals
      <3>4. HolderInv'
        BY <2>6, ProcsAssumption
           DEF SyncType, HolderInv, CreatorInv, Early, Creator, InCs, AttachRead,
               AttachWrite, From, Goto, shared, locals
      <3>5. OwnerInv'
        BY <2>6, ProcsAssumption
           DEF SyncType, UsersInv, OwnerInv, InitSteps, ChanSteps, AttachRead, AttachWrite,
               From, Goto, shared, locals
      <3> QED BY <3>1, <3>2, <3>3, <3>4, <3>5
    <2>7. CASE AttachUnlock(p) \/ AttachDone(p)
      <3>1. SyncType'
        BY <2>7
           DEF SyncType, Steps, UsersInv, InitSteps, OwnerInv, ChanSteps, AttachUnlock,
               AttachDone, Unlock, From, Goto, shared, locals
      <3>2. UsersInv'
        BY <2>7
           DEF SyncType, UsersInv, InitSteps, ChanSteps, AttachUnlock, AttachDone, Unlock,
               From, Goto, shared, locals
      <3>3. CreatorInv'
        BY <2>7
           DEF SyncType, UsersInv, CreatorInv, Early, Creator, InitSteps, ChanSteps,
               Creating, AttachUnlock, AttachDone, Unlock, From, Goto, shared, locals
      <3>4. HolderInv'
        BY <2>7, ProcsAssumption
           DEF SyncType, HolderInv, CreatorInv, Early, Creator, InCs, AttachUnlock,
               AttachDone, Unlock, From, Goto, shared, locals
      <3>5. OwnerInv'
        BY <2>7, ProcsAssumption
           DEF SyncType, UsersInv, OwnerInv, InitSteps, ChanSteps, AttachUnlock, AttachDone,
               Unlock, From, Goto, shared, locals
      <3> QED BY <3>1, <3>2, <3>3, <3>4, <3>5
    <2>8. CASE ReleaseRead(p) \/ ReleaseWrite(p)
      <3>1. SyncType'
        BY <2>8
           DEF SyncType, Steps, UsersInv, InitSteps, OwnerInv, ChanSteps, ReleaseRead,
               ReleaseWrite, From, Goto, shared, locals
      <3>2. UsersInv'
        BY <2>8
           DEF SyncType, UsersInv, InitSteps, ChanSteps, ReleaseRead, ReleaseWrite, From,
               Goto, shared, locals
      <3>3. CreatorInv'
        BY <2>8
           DEF SyncType, UsersInv, CreatorInv, Early, Creator, InitSteps, ChanSteps,
               Creating, ReleaseRead, ReleaseWrite, From, Goto, shared, locals
      <3>4. HolderInv'
        BY <2>8, ProcsAssumption
           DEF SyncType, HolderInv, CreatorInv, Early, Creator, InCs, ReleaseRead,
               ReleaseWrite, From, Goto, shared, locals
      <3>5. OwnerInv'
        BY <2>8, ProcsAssumption
           DEF SyncType, UsersInv, OwnerInv, InitSteps, ChanSteps, ReleaseRead,
               ReleaseWrite, From, Goto, shared, locals
      <3> QED BY <3>1, <3>2, <3>3, <3>4, <3>5
    <2>9. CASE ReleaseUnlock(p) \/ Detach(p)
      <3>1. SyncType'
        BY <2>9
           DEF SyncType, Steps, UsersInv, InitSteps, OwnerInv, ChanSteps, ReleaseUnlock,
               Detach, Unlock, From, Goto, locals
      <3>2. UsersInv'
        BY <2>9
           DEF SyncType, UsersInv, InitSteps, ChanSteps, ReleaseUnlock, Detach, Unlock,
               From, Goto, locals
      <3>3. CreatorInv'
        BY <2>9
           DEF SyncType, UsersInv, CreatorInv, Early, Creator, InitSteps, ChanSteps,
               Creating, ReleaseUnlock, Detach, Unlock, From, Goto, locals
      <3>4. HolderInv'
        BY <2>9, ProcsAssumption
           DEF SyncType, HolderInv, CreatorInv, Early, Creator, InCs, ReleaseUnlock, Detach,
               Unlock, From, Goto, locals
      <3>5. OwnerInv'
        BY <2>9, ProcsAssumption
           DEF SyncType, UsersInv, OwnerInv, InitSteps, ChanSteps, ReleaseUnlock, Detach,
               Unlock, From, Goto, locals
      <3> QED BY <3>1, <3>2, <3>3, <3>4, <3>5
    <2>10. CASE Decr(p)
      <3>1. SyncType'
        BY <2>10
           DEF SyncType, Steps, UsersInv, InitSteps, OwnerInv, ChanSteps, Decr, From, Goto,
               locals
      <3>2. UsersInv'
        BY <2>10 DEF SyncType, UsersInv, InitSteps, ChanSteps, Decr, From, Goto, locals
      <3>3. CreatorInv'
        BY <2>10
           DEF SyncType, UsersInv, CreatorInv, Early, Creator, InitSteps, ChanSteps,
               Creating, Decr, From, Goto, locals
      <3>4. HolderInv'
        BY <2>10, ProcsAssumption
           DEF SyncType, HolderInv, CreatorInv, Early, Creator, InCs, Decr, From, Goto,
               locals
      <3>5. OwnerInv'
        BY <2>10, ProcsAssumption
           DEF SyncType, UsersInv, OwnerInv, InitSteps, ChanSteps, Decr, From, Goto, locals
      <3> QED BY <3>1, <3>2, <3>3, <3>4, <3>5
    <2>11. CASE FiniUnlock(p) \/ Dinit(p)
      <3>1. SyncType'
        BY <2>11
           DEF SyncType, Steps, UsersInv, InitSteps, OwnerInv, ChanSteps, FiniUnlock, Dinit,
               Unlock, From, Goto, shared, locals
      <3>2. UsersInv'
        BY <2>11
           DEF SyncType, UsersInv, InitSteps, ChanSteps, FiniUnlock, Dinit, Unlock, From,
               Goto, shared, locals
      <3>3. CreatorInv'
        BY <2>11
           DEF SyncType, UsersInv, CreatorInv, Early, Creator, InitSteps, ChanSteps,
               Creating, FiniUnlock, Dinit, Unlock, From, Goto, shared, locals
      <3>4. HolderInv'
        BY <2>11, ProcsAssumption
           DEF SyncType, HolderInv, CreatorInv, Early, Creator, InCs, FiniUnlock, Dinit,
               Unlock, From, Goto, shared, locals
      <3>5. OwnerInv'
        BY <2>11, ProcsAssumption
           DEF SyncType, UsersInv, OwnerInv, InitSteps, ChanSteps, FiniUnlock, Dinit,
               Unlock, From, Goto, shared, locals
      <3> QED BY <3>1, <3>2, <3>3, <3>4, <3>5
    <2>12. CASE NullDeref(p)
      <3>1. SyncType'
        BY <2>12
           DEF SyncType, Steps, UsersInv, InitSteps, OwnerInv, ChanSteps, NullDeref, From,
               Goto, shared
      <3>2. UsersInv'
        BY <2>12 DEF SyncType, UsersInv, InitSteps, ChanSteps, NullDeref, From, Goto, shared
      <3>3. CreatorInv'
        BY <2>12
           DEF SyncType, UsersInv, CreatorInv, Early, Creator, InitSteps, ChanSteps,
               Creating, NullDeref, From, Goto, shared
      <3>4. HolderInv'
        BY <2>12, ProcsAssumption
           DEF SyncType, HolderInv, CreatorInv, Early, Creator, InCs, NullDeref, From, Goto,
               shared
      <3>5. OwnerInv'
        BY <2>12, ProcsAssumption
           DEF SyncType, UsersInv, OwnerInv, InitSteps, ChanSteps, NullDeref, From, Goto,
               shared
      <3> QED BY <3>1, <3>2, <3>3, <3>4, <3>5
    <2>13. CASE InitEnter(p) \/ Fini(p)
      <3>1. SyncType'
        BY <2>13
           DEF SyncType, Steps, UsersInv, InitSteps, OwnerInv, ChanSteps, InitEnter, Fini,
               Goto, shared
      <3>2. UsersInv'
        BY <2>13 DEF SyncType, UsersInv, InitSteps, ChanSteps, InitEnter, Fini, Goto, shared
      <3>3. CreatorInv'
        BY <2>13
           DEF SyncType, UsersInv, CreatorInv, Early, Creator, InitSteps, ChanSteps,
               Creating, InitEnter, Fini, Goto, shared
      <3>4. HolderInv'
        BY <2>13, ProcsAssumption
           DEF SyncType, HolderInv, CreatorInv, Early, Creator, InCs, InitEnter, Fini, Goto,
               shared
      <3>5. OwnerInv'
        BY <2>13, ProcsAssumption
           DEF SyncType, UsersInv, OwnerInv, InitSteps, ChanSteps, InitEnter, Fini, Goto,
               shared
      <3> QED BY <3>1, <3>2, <3>3, <3>4, <3>5
    <2>14. CASE \E c \in Channels : Attach(p, c) \/ Release(p, c)
      <3>1. SyncType'
        BY <2>14
           DEF SyncType, Steps, UsersInv, InitSteps, OwnerInv, ChanSteps, Attach, Release,
               Goto, shared
      <3>2. UsersInv'
        BY <2>14 DEF SyncType, UsersInv, InitSteps, ChanSteps, Attach, Release, Goto, shared
      <3>3. CreatorInv'
        BY <2>14
           DEF SyncType, UsersInv, CreatorInv, Early, Creator, InitSteps, ChanSteps,
               Creating, Attach, Release, Goto, shared
      <3>4. HolderInv'
        BY <2>14, ProcsAssumption
           DEF SyncType, HolderInv, CreatorInv, Early, Creator, InCs, Attach, Release, Goto,
               shared
      <3>5. OwnerInv'
        BY <2>14, ProcsAssumption
           DEF SyncType, UsersInv, OwnerInv, InitSteps, ChanSteps, Attach, Release, Goto,
               shared
      <3> QED BY <3>1, <3>2, <3>3, <3>4, <3>5
    <2>15. CASE InitFail(p)
      <3>1. SyncType'
        BY <2>15
           DEF SyncType, Steps, UsersInv, InitSteps, OwnerInv, ChanSteps, InitFail, Goto
      <3>2. UsersInv'
        BY <2>15 DEF SyncType, UsersInv, InitSteps, ChanSteps, InitFail, Goto
      <3>3. CreatorInv'
        BY <2>15
           DEF SyncType, UsersInv, CreatorInv, Early, Creator, InitSteps, ChanSteps,
               Creating, InitFail, Goto
      <3>4. HolderInv'
        BY <2>15, ProcsAssumption
           DEF SyncType, HolderInv, CreatorInv, Early, Creator, InCs, InitFail, Goto
      <3>5. OwnerInv'
        BY <2>15, ProcsAssumption
           DEF SyncType, UsersInv, OwnerInv, InitSteps, ChanSteps, InitFail, Goto
      <3> QED BY <3>1, <3>2, <3>3, <3>4, <3>5
    <2>16. CASE AttachFail(p)
      <3>1. SyncType'
        BY <2>16
           DEF SyncType, Steps, UsersInv, InitSteps, OwnerInv, ChanSteps, AttachFail, From,
               Goto
      <3>2. UsersInv'
        BY <2>16 DEF SyncType, UsersInv, InitSteps, ChanSteps, AttachFail, From, Goto
      <3>3. CreatorInv'
        BY <2>16
           DEF SyncType, UsersInv, CreatorInv, Early, Creator, InitSteps, ChanSteps,
               Creating, AttachFail, From, Goto
      <3>4. HolderInv'
        BY <2>16, ProcsAssumption
           DEF SyncType, HolderInv, CreatorInv, Early, Creator, InCs, AttachFail, From, Goto
      <3>5. OwnerInv'
        BY <2>16, ProcsAssumption
           DEF SyncType, UsersInv, OwnerInv, InitSteps, ChanSteps, AttachFail, From, Goto
      <3> QED BY <3>1, <3>2, <3>3, <3>4, <3>5
    <2>17. CASE Crash(p)
      <3>1. SyncType'
        BY <2>17 DEF SyncType, Steps, UsersInv, InitSteps, OwnerInv, ChanSteps, Crash, Goto
      <3>2. UsersInv'
        BY <2>17 DEF SyncType, UsersInv, InitSteps, ChanSteps, Crash, Goto
      <3>3. CreatorInv'
        BY <2>17
           DEF SyncType, UsersInv, CreatorInv, Early, Creator, InitSteps, ChanSteps,
               Creating, Crash, Goto
      <3>4. HolderInv'
        BY <2>17, ProcsAssumption
           DEF SyncType, HolderInv, CreatorInv, Early, Creator, InCs, Crash, Goto
      <3>5. OwnerInv'
        BY <2>17, ProcsAssumption
           DEF SyncType, UsersInv, OwnerInv, InitSteps, ChanSteps, Crash, Goto
      <3> QED BY <3>1, <3>2, <3>3, <3>4, <3>5
    <2>18. CASE Restart(p)
      <3>1. SyncType'
        BY <2>18
           DEF SyncType, Steps, UsersInv, InitSteps, OwnerInv, ChanSteps, Restart, From,
               Goto, shared
      <3>2. UsersInv'
        BY <2>18 DEF SyncType, UsersInv, InitSteps, ChanSteps, Restart, From, Goto, shared
      <3>3. CreatorInv'
        BY <2>18
           DEF SyncType, UsersInv, CreatorInv, Early, Creator, InitSteps, ChanSteps,
               Creating, Restart, From, Goto, shared
      <3>4. HolderInv'
        BY <2>18, ProcsAssumption
           DEF SyncType, HolderInv, CreatorInv, Early, Creator, InCs, Restart, From, Goto,
               shared
      <3>5. OwnerInv'
        BY <2>18, ProcsAssumption
           DEF SyncType, UsersInv, OwnerInv, InitSteps, ChanSteps, Restart, From, Goto,
               shared
      <3> QED BY <3>1, <3>2, <3>3, <3>4, <3>5
    <2> QED
      BY <1>1, <2>1, <2>2, <2>3, <2>4, <2>5, <2>6, <2>7, <2>8, <2>9, <2>10, <2>11,
         <2>12, <2>13, <2>14, <2>15, <2>16, <2>17, <2>18
         DEF LibStep, Call, Fault
  <1>2. CASE UNCHANGED vars
    BY <1>2 DEF vars, shared, locals, SyncType, UsersInv, CreatorInv, HolderInv, OwnerInv,
                Early, Creator, InCs
  <1> QED BY <1>1, <1>2 DEF Next

\* Before the first dma_init() there is no object, no holder and no owner.
LEMMA SyncInit == Init => SyncInv
  BY DEF Init, SyncInv, SyncType, UsersInv, CreatorInv, HolderInv, OwnerInv, Early,
         Creator, InCs, Steps, InitSteps, ChanSteps

\* At most one process works on the process count, the resource database or
\* DMA_ENABLE, for any number of processes and through crashes and failing
\* initialisations, when the creation of the shared object is not raced
\* (sync.c:50-107, dma_channel_attach, dma_channel_release).
THEOREM MutexExcludes ==
  ASSUME Staggered = TRUE
  PROVE  Spec => []MutexExclusive
  <1>1. Init => SyncInv
    BY SyncInit
  <1>2. SyncInv /\ [Next]_vars => SyncInv'
    BY SyncNext
  <1>3. SyncInv => MutexExclusive
    BY DEF SyncInv, HolderInv, MutexExclusive
  <1> QED BY <1>1, <1>2, <1>3, PTL DEF Spec

\* A handle is good for a channel the database assigns to its process, hence
\* no channel is in the hands of two processes, also when processes die
\* while they attach or release (rsrcdb_attach_channel, rsrcdb_detach).
THEOREM HandlesOwned ==
  ASSUME Staggered = TRUE
  PROVE  Spec => []HeldIsOwned
  <1>1. Init => SyncInv
    BY SyncInit
  <1>2. SyncInv /\ [Next]_vars => SyncInv'
    BY SyncNext
  <1>3. SyncInv => HeldIsOwned
    BY DEF SyncInv, OwnerInv, HeldIsOwned
  <1> QED BY <1>1, <1>2, <1>3, PTL DEF Spec

-----------------------------------------------------------------------------
\* The holder of the mutex is inside its section while nobody has died.
WaitInv ==
  /\ pc \in [Procs -> Steps] /\ crashes \in Nat
  /\ mutex \in Procs \cup {None}
  /\ HolderIsInside

\* Every step that leaves a guarded section unlocks the mutex, and a death is
\* counted (dma_init, dma_channel_attach, dma_channel_release, cleanup).
LEMMA WaitNext ==
  ASSUME WaitInv, [Next]_vars
  PROVE  WaitInv'
  <1> USE ProcsAssumption DEF WaitInv, HolderIsInside, InCs, Steps
  <1>1. ASSUME NEW p \in Procs, LockStep(p)
        PROVE  WaitInv'
    BY <1>1 DEF LockStep, InitLock, AttachLock, ReleaseLock, FiniLock, Lock, From, Goto
  <1>2. ASSUME NEW p \in Procs, LibStep(p)
        PROVE  WaitInv'
    <2>1. CASE ShmOpen(p) \/ Truncate(p) \/ Map(p) \/ MutexInit(p)
      BY <2>1 DEF ShmOpen, Truncate, Map, MutexInit, From, Goto, shared
    <2>2. CASE Incr(p) \/ First(p) \/ Create(p) \/ InitUnlock(p)
      BY <2>2 DEF Incr, First, Create, InitUnlock, Unlock, From, Goto
    <2>3. CASE AttachRead(p) \/ AttachWrite(p) \/ AttachUnlock(p) \/ AttachDone(p)
      BY <2>3 DEF AttachRead, AttachWrite, AttachUnlock, AttachDone, Unlock, From, Goto, shared
    <2>4. CASE ReleaseRead(p) \/ ReleaseWrite(p) \/ ReleaseUnlock(p) \/ Detach(p)
      BY <2>4 DEF ReleaseRead, ReleaseWrite, ReleaseUnlock, Detach, Unlock, From, Goto, shared
    <2>5. CASE Decr(p) \/ FiniUnlock(p) \/ Dinit(p) \/ NullDeref(p)
      BY <2>5 DEF Decr, FiniUnlock, Dinit, NullDeref, Unlock, From, Goto, shared
    <2> QED BY <1>2, <2>1, <2>2, <2>3, <2>4, <2>5 DEF LibStep
  <1>3. ASSUME NEW p \in Procs, Call(p)
        PROVE  WaitInv'
    BY <1>3 DEF Call, InitEnter, Fini, Attach, Release, Goto, shared
  <1>4. ASSUME NEW p \in Procs, Fault(p)
        PROVE  WaitInv'
    BY <1>4 DEF Fault, InitFail, AttachFail, Crash, Restart, From, Goto, shared
  <1>5. CASE UNCHANGED vars
    BY <1>5 DEF vars, shared
  <1> QED BY <1>1, <1>2, <1>3, <1>4, <1>5 DEF Next

\* A process that waits for the mutex waits behind one that is inside its
\* section, as long as none has died: no path through dma_init(), its failing
\* ones included, dma_channel_attach(), dma_channel_release() or dma_fini()
\* forgets the mutex, however the creation of the shared object is raced.
THEOREM HolderComesOut == Spec => []HolderIsInside
  <1>1. Init => WaitInv
    BY ProcsAssumption DEF Init, WaitInv, HolderIsInside, InCs, Steps
  <1>2. WaitInv /\ [Next]_vars => WaitInv'
    BY WaitNext
  <1>3. WaitInv => HolderIsInside
    BY DEF WaitInv
  <1> QED BY <1>1, <1>2, <1>3, PTL DEF Spec

-----------------------------------------------------------------------------
(* DMA_ENABLE and process_cnt.                                             *)

\* The process has counted itself in process_cnt and not yet out of it.
Counting(p) ==
  \/ pc[p] \in {"first", "create", "init_unlock", "fini_lock", "decr"} \cup ChanSteps
  \/ pc[p] = "idle" /\ users[p] > 0

\* process_cnt covers every process that ever counted itself in; while nobody
\* has died it is exact.
CountInv ==
  /\ counted \subseteq Procs /\ cnt \in Nat /\ crashes \in Nat
  /\ \A p \in Procs : Counting(p) => p \in counted
  /\ \A p \in Procs : pc[p] \in {"fini_lock", "decr", "fini_unlock", "dinit"} => users[p] = 0
  /\ cnt >= Cardinality(counted)
  /\ crashes = 0 => /\ cnt = Cardinality(counted)
                    /\ \A p \in counted : Counting(p) \/ pc[p] = "null"

\* Nobody counts or locks before the mutex has been initialised.
FreshInv ==
  (shm = "absent" \/ \E q \in Procs : Creator(q)) => cnt = 0 /\ mutex = None

\* The copy of DMA_ENABLE in the hands of a process is up to date, and the bit
\* of the channel it is at has the value it gave it.
RegInv ==
  \A p \in Procs :
    /\ pc[p] = "att_write" => reg[p] = enable \cup {chan[p]}
    /\ pc[p] = "rel_write" => reg[p] = enable \ {chan[p]}
    /\ pc[p] \in {"att_unlock", "att_irq"} => chan[p] \in enable
    /\ pc[p] \in {"rel_unlock", "detach"} => chan[p] \notin enable
    /\ held[p] \subseteq enable
    /\ held[p] # {} => pc[p] \in ChanSteps \cup {"idle"}

\* EnabledIsOwned also holds within the sections, except while the first
\* process is about to reset the register and behind a holder that died.
OwnedInv ==
  (cnt > 0 /\ (mutex = None \/ (InCs(mutex) /\ (pc[mutex] = "first" => cnt > 1))))
    => \A c \in enable \ left : owner[c] # None

EnableInv == SharedTypeOK /\ CountInv /\ FreshInv /\ RegInv /\ OwnedInv

\* A process that is counted finds at least 1, and 1 only if it is alone.
LEMMA OnlyOne ==
  ASSUME NEW S \in SUBSET Procs, NEW p \in S, NEW n \in Nat, n >= Cardinality(S)
  PROVE  n > 0 /\ (n = 1 => S = {p})
  <1>1. IsFiniteSet(S) /\ Cardinality(S) \in Nat /\ IsFiniteSet(S \ {p})
    BY ProcsAssumption, FS_Subset, FS_CardinalityType
  <1>2. Cardinality(S \ {p}) = Cardinality(S) - 1 /\ Cardinality(S \ {p}) \in Nat
    BY <1>1, FS_RemoveElement, FS_CardinalityType
  <1>3. n = 1 => Cardinality(S \ {p}) = 0
    BY <1>1, <1>2
  <1>4. n = 1 => S \ {p} = {}
    BY <1>1, <1>3, FS_EmptySet
  <1> QED BY <1>1, <1>2, <1>4

\* The inductive step for DMA_ENABLE and process_cnt (sync.c, dma_init,
\* dma_channel_attach, dma_channel_release, cleanup_resources).
LEMMA EnableNext ==
  ASSUME Staggered = TRUE, SyncInv, EnableInv, [Next]_vars
  PROVE  EnableInv'
  <1> USE ProcsAssumption DEF SyncInv, EnableInv
  <1>1. ASSUME NEW p \in Procs, LockStep(p) \/ LibStep(p) \/ Call(p) \/ Fault(p)
        PROVE  EnableInv'
    <2>1. CASE LockStep(p)
      <3>1. SharedTypeOK'
        BY <2>1
           DEF SharedTypeOK, Steps, UsersInv, InitSteps, OwnerInv, ChanSteps, LockStep, InitLock,
               AttachLock, ReleaseLock, FiniLock, Lock, From, Goto, locals
      <3>2. CountInv'
        BY <2>1
           DEF CountInv, Counting, ChanSteps, InitSteps, UsersInv, SyncType, LockStep,
               InitLock, AttachLock, ReleaseLock, FiniLock, Lock, From, Goto, locals
      <3>3. FreshInv'
        BY <2>1
           DEF FreshInv, CreatorInv, Creator, Early, InCs, SyncType, Creating, HolderInv,
               LockStep, InitLock, AttachLock, ReleaseLock, FiniLock, Lock, From, Goto,
               locals
      <3>4. RegInv'
        BY <2>1
           DEF RegInv, HolderInv, InCs, OwnerInv, UsersInv, ChanSteps, InitSteps, SyncType,
               SharedTypeOK, LockStep, InitLock, AttachLock, ReleaseLock, FiniLock, Lock, From,
               Goto, locals
      <3>5. OwnedInv'
        BY <2>1
           DEF OwnedInv, RegInv, HolderInv, FreshInv, CreatorInv, InCs, OwnerInv, ChanSteps,
               SyncType, SharedTypeOK, Creator, CountInv, LockStep, InitLock, AttachLock,
               ReleaseLock, FiniLock, Lock, From, Goto, locals
      <3> QED BY <3>1, <3>2, <3>3, <3>4, <3>5
    <2>2. CASE ShmOpen(p) \/ Truncate(p) \/ Map(p) \/ MutexInit(p)
      <3>1. SharedTypeOK'
        <4>1. CASE ShmOpen(p)
          BY <4>1, ZenonT(60) DEF SharedTypeOK, Steps, ShmOpen, From, Goto, locals
        <4>2. CASE Truncate(p)
          BY <4>2 DEF SharedTypeOK, Steps, Truncate, From, Goto, locals
        <4>3. CASE Map(p)
          BY <4>3 DEF SharedTypeOK, Steps, Map, From, Goto, shared
        <4>4. CASE MutexInit(p)
          BY <4>4 DEF SharedTypeOK, Steps, MutexInit, From, Goto, locals
        <4> QED BY <2>2, <4>1, <4>2, <4>3, <4>4
      <3>2. CountInv'
        BY <2>2
           DEF CountInv, Counting, ChanSteps, InitSteps, UsersInv, SyncType, ShmOpen,
               Truncate, Map, MutexInit, From, Goto, shared, locals
      <3>3. FreshInv'
        BY <2>2
           DEF FreshInv, CreatorInv, Creator, Early, InCs, SyncType, Creating, HolderInv,
               ShmOpen, Truncate, Map, MutexInit, From, Goto, shared, locals
      <3>4. RegInv'
        BY <2>2
           DEF RegInv, HolderInv, InCs, OwnerInv, UsersInv, ChanSteps, InitSteps, SyncType,
               SharedTypeOK, ShmOpen, Truncate, Map, MutexInit, From, Goto, shared, locals
      <3>5. OwnedInv'
        BY <2>2
           DEF OwnedInv, RegInv, HolderInv, FreshInv, CreatorInv, InCs, OwnerInv, ChanSteps,
               SyncType, SharedTypeOK, Creator, CountInv, ShmOpen, Truncate, Map, MutexInit, From,
               Goto, shared, locals
      <3> QED BY <3>1, <3>2, <3>3, <3>4, <3>5
    <2>3. CASE Incr(p)
      <3>1. SharedTypeOK'
        BY <2>3
           DEF SharedTypeOK, Steps, UsersInv, InitSteps, OwnerInv, ChanSteps, Incr, From, Goto,
               locals
      <3>2. CountInv'
        <4>1. /\ IsFiniteSet(counted) /\ Cardinality(counted) \in Nat
              /\ Cardinality(counted \cup {p}) =
                   IF p \in counted THEN Cardinality(counted) ELSE Cardinality(counted) + 1
          BY FS_Subset, FS_AddElement, FS_CardinalityType DEF CountInv
        <4>2. crashes = 0 => p \notin counted
          BY <2>3 DEF CountInv, Counting, ChanSteps, Incr, From
        <4> QED BY <2>3, <4>1, <4>2 DEF CountInv, Counting, ChanSteps, SyncType, Incr, From, Goto, locals
      <3>3. FreshInv'
        BY <2>3
           DEF FreshInv, CreatorInv, Creator, Early, InCs, SyncType, Creating, HolderInv,
               Incr, From, Goto, locals
      <3>4. RegInv'
        BY <2>3
           DEF RegInv, HolderInv, InCs, OwnerInv, UsersInv, ChanSteps, InitSteps, SyncType,
               SharedTypeOK, Incr, From, Goto, locals
      <3>5. OwnedInv'
        BY <2>3
           DEF OwnedInv, RegInv, HolderInv, FreshInv, CreatorInv, InCs, OwnerInv, ChanSteps,
               SyncType, SharedTypeOK, Creator, CountInv, Incr, From, Goto, locals
      <3> QED BY <3>1, <3>2, <3>3, <3>4, <3>5
    <2>4. CASE First(p)
      <3>1. SharedTypeOK'
        BY <2>4
           DEF SharedTypeOK, Steps, UsersInv, InitSteps, OwnerInv, ChanSteps, First, From, Goto,
               locals
      <3>2. CountInv'
        BY <2>4
           DEF CountInv, Counting, ChanSteps, InitSteps, UsersInv, SyncType, First, From,
               Goto, locals
      <3>3. FreshInv'
        BY <2>4
           DEF FreshInv, CreatorInv, Creator, Early, InCs, SyncType, Creating, HolderInv,
               First, From, Goto, locals
      <3>4. RegInv'
        <4>1. CASE cnt = 1
          <5>1. p \in counted
            BY <2>4 DEF CountInv, Counting, First, From
          <5>2. counted = {p}
            BY <4>1, <5>1, OnlyOne DEF CountInv
          <5>3. \A q \in Procs : q # p => ~Counting(q) /\ held[q] = {}
            BY <5>2 DEF CountInv, RegInv, Counting, UsersInv
          <5> QED BY <2>4, <4>1, <5>3 DEF RegInv, UsersInv, Counting, ChanSteps, InitSteps, SyncType, First, From, Goto, locals
        <4>2. CASE cnt # 1
          BY <2>4, <4>2 DEF RegInv, ChanSteps, SyncType, First, From, Goto, locals
        <4> QED BY <4>1, <4>2
      <3>5. OwnedInv'
        BY <2>4
           DEF OwnedInv, RegInv, HolderInv, FreshInv, CreatorInv, InCs, OwnerInv, ChanSteps,
               SyncType, SharedTypeOK, Creator, CountInv, First, From, Goto, locals
      <3> QED BY <3>1, <3>2, <3>3, <3>4, <3>5
    <2>5. CASE Create(p) \/ InitUnlock(p)
      <3>1. SharedTypeOK'
        <4>1. CASE Create(p)
          BY <4>1 DEF SharedTypeOK, Steps, Create, From, Goto, locals
        <4>2. CASE InitUnlock(p)
          BY <4>2 DEF SharedTypeOK, Steps, InitUnlock, Unlock, From, Goto, locals
        <4> QED BY <2>5, <4>1, <4>2
      <3>2. CountInv'
        BY <2>5
           DEF CountInv, Counting, ChanSteps, InitSteps, UsersInv, SyncType, Create,
               InitUnlock, Unlock, From, Goto, locals
      <3>3. FreshInv'
        BY <2>5
           DEF FreshInv, CreatorInv, Creator, Early, InCs, SyncType, Creating, HolderInv,
               Create, InitUnlock, Unlock, From, Goto, locals
      <3>4. RegInv'
        BY <2>5
           DEF RegInv, HolderInv, InCs, OwnerInv, UsersInv, ChanSteps, InitSteps, SyncType,
               SharedTypeOK, Create, InitUnlock, Unlock, From, Goto, locals
      <3>5. OwnedInv'
        BY <2>5
           DEF OwnedInv, RegInv, HolderInv, FreshInv, CreatorInv, InCs, OwnerInv, ChanSteps,
               SyncType, SharedTypeOK, Creator, CountInv, Create, InitUnlock, Unlock, From, Goto,
               locals
      <3> QED BY <3>1, <3>2, <3>3, <3>4, <3>5
    <2>6. CASE AttachRead(p) \/ AttachWrite(p)
      <3>1. SharedTypeOK'
        BY <2>6
           DEF SharedTypeOK, Steps, UsersInv, InitSteps, OwnerInv, ChanSteps, AttachRead,
               AttachWrite, From, Goto, shared, locals
      <3>2. CountInv'
        BY <2>6
           DEF CountInv, Counting, ChanSteps, InitSteps, UsersInv, SyncType, AttachRead,
               AttachWrite, From, Goto, shared, locals
      <3>3. FreshInv'
        BY <2>6
           DEF FreshInv, CreatorInv, Creator, Early, InCs, SyncType, Creating, HolderInv,
               AttachRead, AttachWrite, From, Goto, shared, locals
      <3>4. RegInv'
        BY <2>6
           DEF RegInv, HolderInv, InCs, OwnerInv, UsersInv, ChanSteps, InitSteps, SyncType,
               SharedTypeOK, AttachRead, AttachWrite, From, Goto, shared, locals
      <3>5. OwnedInv'
        BY <2>6
           DEF OwnedInv, RegInv, HolderInv, FreshInv, CreatorInv, InCs, OwnerInv, ChanSteps,
               SyncType, SharedTypeOK, Creator, CountInv, AttachRead, AttachWrite, From, Goto,
               shared, locals
      <3> QED BY <3>1, <3>2, <3>3, <3>4, <3>5
    <2>7. CASE AttachUnlock(p) \/ AttachDone(p)
      <3>1. SharedTypeOK'
        BY <2>7
           DEF SharedTypeOK, Steps, UsersInv, InitSteps, OwnerInv, ChanSteps, AttachUnlock,
               AttachDone, Unlock, From, Goto, shared, locals
      <3>2. CountInv'
        BY <2>7
           DEF CountInv, Counting, ChanSteps, InitSteps, UsersInv, SyncType, AttachUnlock,
               AttachDone, Unlock, From, Goto, shared, locals
      <3>3. FreshInv'
        BY <2>7
           DEF FreshInv, CreatorInv, Creator, Early, InCs, SyncType, Creating, HolderInv,
               AttachUnlock, AttachDone, Unlock, From, Goto, shared, locals
      <3>4. RegInv'
        BY <2>7
           DEF RegInv, HolderInv, InCs, OwnerInv, UsersInv, ChanSteps, InitSteps, SyncType,
               SharedTypeOK, AttachUnlock, AttachDone, Unlock, From, Goto, shared, locals
      <3>5. OwnedInv'
        BY <2>7
           DEF OwnedInv, RegInv, HolderInv, FreshInv, CreatorInv, InCs, OwnerInv, ChanSteps,
               SyncType, SharedTypeOK, Creator, CountInv, AttachUnlock, AttachDone, Unlock, From,
               Goto, shared, locals
      <3> QED BY <3>1, <3>2, <3>3, <3>4, <3>5
    <2>8. CASE ReleaseRead(p) \/ ReleaseWrite(p)
      <3>1. SharedTypeOK'
        BY <2>8
           DEF SharedTypeOK, Steps, UsersInv, InitSteps, OwnerInv, ChanSteps, ReleaseRead,
               ReleaseWrite, From, Goto, shared, locals
      <3>2. CountInv'
        BY <2>8
           DEF CountInv, Counting, ChanSteps, InitSteps, UsersInv, SyncType, ReleaseRead,
               ReleaseWrite, From, Goto, shared, locals
      <3>3. FreshInv'
        BY <2>8
           DEF FreshInv, CreatorInv, Creator, Early, InCs, SyncType, Creating, HolderInv,
               ReleaseRead, ReleaseWrite, From, Goto, shared, locals
      <3>4. RegInv'
        BY <2>8
           DEF RegInv, HolderInv, InCs, OwnerInv, UsersInv, ChanSteps, InitSteps, SyncType,
               SharedTypeOK, ReleaseRead, ReleaseWrite, From, Goto, shared, locals
      <3>5. OwnedInv'
        BY <2>8
           DEF OwnedInv, RegInv, HolderInv, FreshInv, CreatorInv, InCs, OwnerInv, ChanSteps,
               SyncType, SharedTypeOK, Creator, CountInv, ReleaseRead, ReleaseWrite, From, Goto,
               shared, locals
      <3> QED BY <3>1, <3>2, <3>3, <3>4, <3>5
    <2>9. CASE ReleaseUnlock(p) \/ Detach(p)
      <3>1. SharedTypeOK'
        BY <2>9
           DEF SharedTypeOK, Steps, UsersInv, InitSteps, OwnerInv, ChanSteps, ReleaseUnlock,
               Detach, Unlock, From, Goto, locals
      <3>2. CountInv'
        BY <2>9
           DEF CountInv, Counting, ChanSteps, InitSteps, UsersInv, SyncType, ReleaseUnlock,
               Detach, Unlock, From, Goto, locals
      <3>3. FreshInv'
        BY <2>9
           DEF FreshInv, CreatorInv, Creator, Early, InCs, SyncType, Creating, HolderInv,
               ReleaseUnlock, Detach, Unlock, From, Goto, locals
      <3>4. RegInv'
        BY <2>9
           DEF RegInv, HolderInv, InCs, OwnerInv, UsersInv, ChanSteps, InitSteps, SyncType,
               SharedTypeOK, ReleaseUnlock, Detach, Unlock, From, Goto, locals
      <3>5. OwnedInv'
        BY <2>9
           DEF OwnedInv, RegInv, HolderInv, FreshInv, CreatorInv, InCs, OwnerInv, ChanSteps,
               SyncType, SharedTypeOK, Creator, CountInv, ReleaseUnlock, Detach, Unlock, From,
               Goto, locals
      <3> QED BY <3>1, <3>2, <3>3, <3>4, <3>5
    <2>10. CASE Decr(p)
      <3>1. SharedTypeOK'
        <4>1. p \in counted /\ cnt > 0
          BY <2>10, OnlyOne DEF CountInv, Counting, Decr, From
        <4> QED BY <2>10, <4>1 DEF SharedTypeOK, Steps, CountInv, Decr, From, Goto, locals
      <3>2. CountInv'
        <4>1. p \in counted /\ cnt > 0
          BY <2>10, OnlyOne DEF CountInv, Counting, Decr, From
        <4>2. /\ IsFiniteSet(counted) /\ Cardinality(counted) \in Nat
              /\ Cardinality(counted \ {p}) = Cardinality(counted) - 1
          BY <4>1, FS_Subset, FS_RemoveElement, FS_CardinalityType DEF CountInv
        <4> QED BY <2>10, <4>1, <4>2 DEF CountInv, Counting, ChanSteps, SyncType, Decr, From, Goto, locals
      <3>3. FreshInv'
        BY <2>10
           DEF FreshInv, CreatorInv, Creator, Early, InCs, SyncType, Creating, HolderInv,
               Decr, From, Goto, locals
      <3>4. RegInv'
        BY <2>10
           DEF RegInv, HolderInv, InCs, OwnerInv, UsersInv, ChanSteps, InitSteps, SyncType,
               SharedTypeOK, Decr, From, Goto, locals
      <3>5. OwnedInv'
        BY <2>10
           DEF OwnedInv, RegInv, HolderInv, FreshInv, CreatorInv, InCs, OwnerInv, ChanSteps,
               SyncType, SharedTypeOK, Creator, CountInv, Decr, From, Goto, locals
      <3> QED BY <3>1, <3>2, <3>3, <3>4, <3>5
    <2>11. CASE FiniUnlock(p) \/ Dinit(p)
      <3>1. SharedTypeOK'
        <4>1. CASE FiniUnlock(p)
          BY <4>1 DEF SharedTypeOK, Steps, FiniUnlock, Unlock, From, Goto, locals
        <4>2. CASE Dinit(p)
          BY <4>2 DEF SharedTypeOK, Steps, Dinit, From, Goto, shared
        <4> QED BY <2>11, <4>1, <4>2
      <3>2. CountInv'
        BY <2>11
           DEF CountInv, Counting, ChanSteps, InitSteps, UsersInv, SyncType, FiniUnlock,
               Dinit, Unlock, From, Goto, shared, locals
      <3>3. FreshInv'
        BY <2>11
           DEF FreshInv, CreatorInv, Creator, Early, InCs, SyncType, Creating, HolderInv,
               FiniUnlock, Dinit, Unlock, From, Goto, shared, locals
      <3>4. RegInv'
        BY <2>11
           DEF RegInv, HolderInv, InCs, OwnerInv, UsersInv, ChanSteps, InitSteps, SyncType,
               SharedTypeOK, FiniUnlock, Dinit, Unlock, From, Goto, shared, locals
      <3>5. OwnedInv'
        BY <2>11
           DEF OwnedInv, RegInv, HolderInv, FreshInv, CreatorInv, InCs, OwnerInv, ChanSteps,
               SyncType, SharedTypeOK, Creator, CountInv, FiniUnlock, Dinit, Unlock, From, Goto,
               shared, locals
      <3> QED BY <3>1, <3>2, <3>3, <3>4, <3>5
    <2>12. CASE NullDeref(p)
      <3>1. SharedTypeOK'
        BY <2>12
           DEF SharedTypeOK, Steps, UsersInv, InitSteps, OwnerInv, ChanSteps, NullDeref, From,
               Goto, shared
      <3>2. CountInv'
        BY <2>12
           DEF CountInv, Counting, ChanSteps, InitSteps, UsersInv, SyncType, NullDeref,
               From, Goto, shared
      <3>3. FreshInv'
        BY <2>12
           DEF FreshInv, CreatorInv, Creator, Early, InCs, SyncType, Creating, HolderInv,
               NullDeref, From, Goto, shared
      <3>4. RegInv'
        BY <2>12
           DEF RegInv, HolderInv, InCs, OwnerInv, UsersInv, ChanSteps, InitSteps, SyncType,
               SharedTypeOK, NullDeref, From, Goto, shared
      <3>5. OwnedInv'
        BY <2>12
           DEF OwnedInv, RegInv, HolderInv, FreshInv, CreatorInv, InCs, OwnerInv, ChanSteps,
               SyncType, SharedTypeOK, Creator, CountInv, NullDeref, From, Goto, shared
      <3> QED BY <3>1, <3>2, <3>3, <3>4, <3>5
    <2>13. CASE InitEnter(p) \/ Fini(p)
      <3>1. SharedTypeOK'
        BY <2>13
           DEF SharedTypeOK, Steps, UsersInv, InitSteps, OwnerInv, ChanSteps, InitEnter, Fini,
               Goto, shared
      <3>2. CountInv'
        BY <2>13
           DEF CountInv, Counting, ChanSteps, InitSteps, UsersInv, SyncType, InitEnter,
               Fini, Goto, shared
      <3>3. FreshInv'
        BY <2>13
           DEF FreshInv, CreatorInv, Creator, Early, InCs, SyncType, Creating, HolderInv,
               InitEnter, Fini, Goto, shared
      <3>4. RegInv'
        BY <2>13
           DEF RegInv, HolderInv, InCs, OwnerInv, UsersInv, ChanSteps, InitSteps, SyncType,
               SharedTypeOK, InitEnter, Fini, Goto, shared
      <3>5. OwnedInv'
        BY <2>13
           DEF OwnedInv, RegInv, HolderInv, FreshInv, CreatorInv, InCs, OwnerInv, ChanSteps,
               SyncType, SharedTypeOK, Creator, CountInv, InitEnter, Fini, Goto, shared
      <3> QED BY <3>1, <3>2, <3>3, <3>4, <3>5
    <2>14. CASE \E c \in Channels : Attach(p, c) \/ Release(p, c)
      <3>1. SharedTypeOK'
        BY <2>14
           DEF SharedTypeOK, Steps, UsersInv, InitSteps, OwnerInv, ChanSteps, Attach, Release,
               Goto, shared
      <3>2. CountInv'
        BY <2>14
           DEF CountInv, Counting, ChanSteps, InitSteps, UsersInv, SyncType, Attach,
               Release, Goto, shared
      <3>3. FreshInv'
        BY <2>14
           DEF FreshInv, CreatorInv, Creator, Early, InCs, SyncType, Creating, HolderInv,
               Attach, Release, Goto, shared
      <3>4. RegInv'
        BY <2>14
           DEF RegInv, HolderInv, InCs, OwnerInv, UsersInv, ChanSteps, InitSteps, SyncType,
               SharedTypeOK, Attach, Release, Goto, shared
      <3>5. OwnedInv'
        BY <2>14
           DEF OwnedInv, RegInv, HolderInv, FreshInv, CreatorInv, InCs, OwnerInv, ChanSteps,
               SyncType, SharedTypeOK, Creator, CountInv, Attach, Release, Goto, shared
      <3> QED BY <3>1, <3>2, <3>3, <3>4, <3>5
    <2>15. CASE InitFail(p)
      <3>1. SharedTypeOK'
        BY <2>15 DEF SharedTypeOK, Steps, UsersInv, InitSteps, OwnerInv, ChanSteps, InitFail, Goto
      <3>2. CountInv'
        BY <2>15
           DEF CountInv, Counting, ChanSteps, InitSteps, UsersInv, SyncType, InitFail, Goto
      <3>3. FreshInv'
        BY <2>15
           DEF FreshInv, CreatorInv, Creator, Early, InCs, SyncType, Creating, HolderInv,
               InitFail, Goto
      <3>4. RegInv'
        BY <2>15
           DEF RegInv, HolderInv, InCs, OwnerInv, UsersInv, ChanSteps, InitSteps, SyncType,
               SharedTypeOK, InitFail, Goto
      <3>5. OwnedInv'
        BY <2>15
           DEF OwnedInv, RegInv, HolderInv, FreshInv, CreatorInv, InCs, OwnerInv, ChanSteps,
               SyncType, SharedTypeOK, Creator, CountInv, InitFail, Goto
      <3> QED BY <3>1, <3>2, <3>3, <3>4, <3>5
    <2>16. CASE AttachFail(p)
      <3>1. SharedTypeOK'
        BY <2>16
           DEF SharedTypeOK, Steps, UsersInv, InitSteps, OwnerInv, ChanSteps, AttachFail, From,
               Goto
      <3>2. CountInv'
        BY <2>16
           DEF CountInv, Counting, ChanSteps, InitSteps, UsersInv, SyncType, AttachFail,
               From, Goto
      <3>3. FreshInv'
        BY <2>16
           DEF FreshInv, CreatorInv, Creator, Early, InCs, SyncType, Creating, HolderInv,
               AttachFail, From, Goto
      <3>4. RegInv'
        BY <2>16
           DEF RegInv, HolderInv, InCs, OwnerInv, UsersInv, ChanSteps, InitSteps, SyncType,
               SharedTypeOK, AttachFail, From, Goto
      <3>5. OwnedInv'
        BY <2>16
           DEF OwnedInv, RegInv, HolderInv, FreshInv, CreatorInv, InCs, OwnerInv, ChanSteps,
               SyncType, SharedTypeOK, Creator, CountInv, AttachFail, From, Goto
      <3> QED BY <3>1, <3>2, <3>3, <3>4, <3>5
    <2>17. CASE Crash(p)
      <3>1. SharedTypeOK'
        BY <2>17 DEF SharedTypeOK, Steps, UsersInv, InitSteps, OwnerInv, ChanSteps, Crash, Goto
      <3>2. CountInv'
        BY <2>17
           DEF CountInv, Counting, ChanSteps, InitSteps, UsersInv, SyncType, Crash, Goto
      <3>3. FreshInv'
        BY <2>17
           DEF FreshInv, CreatorInv, Creator, Early, InCs, SyncType, Creating, HolderInv,
               Crash, Goto
      <3>4. RegInv'
        BY <2>17
           DEF RegInv, HolderInv, InCs, OwnerInv, UsersInv, ChanSteps, InitSteps, SyncType,
               SharedTypeOK, Crash, Goto
      <3>5. OwnedInv'
        BY <2>17
           DEF OwnedInv, RegInv, HolderInv, FreshInv, CreatorInv, InCs, OwnerInv, ChanSteps,
               SyncType, SharedTypeOK, Creator, CountInv, Crash, Goto
      <3> QED BY <3>1, <3>2, <3>3, <3>4, <3>5
    <2>18. CASE Restart(p)
      <3>1. SharedTypeOK'
        BY <2>18
           DEF SharedTypeOK, Steps, UsersInv, InitSteps, OwnerInv, ChanSteps, Restart, From, Goto,
               shared
      <3>2. CountInv'
        BY <2>18
           DEF CountInv, Counting, ChanSteps, InitSteps, UsersInv, SyncType, Restart, From,
               Goto, shared
      <3>3. FreshInv'
        BY <2>18
           DEF FreshInv, CreatorInv, Creator, Early, InCs, SyncType, Creating, HolderInv,
               Restart, From, Goto, shared
      <3>4. RegInv'
        BY <2>18
           DEF RegInv, HolderInv, InCs, OwnerInv, UsersInv, ChanSteps, InitSteps, SyncType,
               SharedTypeOK, Restart, From, Goto, shared
      <3>5. OwnedInv'
        BY <2>18
           DEF OwnedInv, RegInv, HolderInv, FreshInv, CreatorInv, InCs, OwnerInv, ChanSteps,
               SyncType, SharedTypeOK, Creator, CountInv, Restart, From, Goto, shared
      <3> QED BY <3>1, <3>2, <3>3, <3>4, <3>5
    <2> QED
      BY <1>1, <2>1, <2>2, <2>3, <2>4, <2>5, <2>6, <2>7, <2>8, <2>9, <2>10, <2>11,
         <2>12, <2>13, <2>14, <2>15, <2>16, <2>17, <2>18
         DEF LibStep, Call, Fault
  <1>2. CASE UNCHANGED vars
    BY <1>2 DEF vars, shared, locals, SharedTypeOK, CountInv, Counting, FreshInv, Creator, RegInv, OwnedInv, InCs
  <1> QED BY <1>1, <1>2 DEF Next

\* A channel whose handle is held is enabled, only claimed channels are
\* enabled, and process_cnt never lets a second process believe it is the
\* first, for any number of processes and channels, through deaths, restarts
\* and failing calls, when the creation of the shared object is not raced
\* (dma_init:1312, dma_channel_attach:1185, dma_channel_release:1239).
THEOREM EnableStaysRight ==
  ASSUME Staggered = TRUE
  PROVE  Spec => []EnableIsRight
  <1>1. Init => SyncInv /\ EnableInv
    <2>1. Init => SharedTypeOK
      <3>1. Init => mapped \in [Procs -> BOOLEAN] /\ creator \in [Procs -> BOOLEAN] /\ db \in BOOLEAN
        BY Zenon DEF Init
      <3> QED BY <3>1, ProcsAssumption DEF Init, SharedTypeOK, Steps
    <2>2. Init => CountInv
      BY FS_EmptySet DEF Init, CountInv, Counting, ChanSteps
    <2>3. Init => FreshInv /\ RegInv /\ OwnedInv
      BY DEF Init, FreshInv, RegInv, OwnedInv, ChanSteps
    <2> QED BY <2>1, <2>2, <2>3, SyncInit DEF EnableInv
  <1>2. SyncInv /\ EnableInv /\ [Next]_vars => (SyncInv /\ EnableInv)'
    BY SyncNext, EnableNext
  <1>3. EnableInv => EnableIsRight
    <2> SUFFICES ASSUME EnableInv PROVE EnableIsRight
      OBVIOUS
    <2> USE DEF EnableInv
    <2>1. AttachedIsEnabled
      BY DEF RegInv, AttachedIsEnabled
    <2>2. EnabledIsOwned
      BY OnlyOne DEF OwnedInv, CountInv, EnabledIsOwned
    <2>3. CountCoversUsers
      <3> DEFINE live == {p \in counted : pc[p] # "dead"}
      <3>1. IsFiniteSet(counted)
        BY ProcsAssumption, FS_Subset DEF CountInv
      <3>2. Cardinality(live) <= Cardinality(counted) /\ Cardinality(live) \in Nat
            /\ Cardinality(counted) \in Nat
        BY <3>1, FS_Subset, FS_CardinalityType
      <3> QED BY <3>2 DEF CountInv, CountCoversUsers
    <2> QED BY <2>1, <2>2, <2>3 DEF EnableIsRight
  <1> QED BY <1>1, <1>2, <1>3, PTL DEF Spec

-----------------------------------------------------------------------------
\* The decrement of frg_count stays a uint32_t, also at zero.
LEMMA CountWraps ==
  ASSUME NEW n \in 0 .. CountMod - 1
  PROVE  (n + CountMod - 1) % CountMod \in 0 .. CountMod - 1
  <1>1. CountMod \in Nat /\ CountMod > 0
    BY BoundsAssumption
  <1>2. n + CountMod - 1 \in Nat
    BY <1>1
  <1> QED BY <1>1, <1>2

\* dma_setup_cbs() writes a chain whose links stay inside of it.
LEMMA ControlBlocksType ==
  ASSUME NEW n \in Nat \ {0}, NEW f, NEW r \in BOOLEAN
  PROVE  /\ ControlBlocks(n, f, r) \in Seq([next : Nat, inten : BOOLEAN])
         /\ Len(ControlBlocks(n, f, r)) = n
         /\ \A i \in DOMAIN ControlBlocks(n, f, r) :
              ControlBlocks(n, f, r)[i].next \in {0} \cup DOMAIN ControlBlocks(n, f, r)
  <1> DEFINE cb == ControlBlocks(n, f, r)
  <1>1. cb \in [1 .. n -> [next : Nat, inten : BOOLEAN]]
    BY DEF ControlBlocks
  <1>3. DOMAIN cb = 1 .. n
    BY DEF ControlBlocks
  <1>2. cb \in Seq([next : Nat, inten : BOOLEAN]) /\ Len(cb) = n
    <2> HIDE DEF cb
    <2>1. cb \in Seq([next : Nat, inten : BOOLEAN])
      <3> DEFINE R == [next : Nat, inten : BOOLEAN]
      <3> HIDE DEF R
      <3>1. cb \in [1 .. n -> R]
        BY <1>1 DEF R
      <3>2. cb \in UNION {[1 .. m -> R] : m \in Nat}
        BY <3>1
      <3>3. cb \in Seq(R)
        BY <3>2, SeqDef, Zenon
      <3> QED BY <3>3 DEF R
    <2>2. Len(cb) \in Nat /\ 1 .. Len(cb) = 1 .. n
      BY <2>1, <1>3, LenProperties
    <2> QED BY <2>1, <2>2
  <1>4. ASSUME NEW i \in 1 .. n
        PROVE  cb[i].next \in {0} \cup 1 .. n
    BY DEF ControlBlocks
  <1> QED BY <1>2, <1>3, <1>4

-----------------------------------------------------------------------------
\* A library nobody has called yet is well typed.
LEMMA TypeInit == ChanInit => TypeOK
  <1> SUFFICES ASSUME ChanInit PROVE TypeOK
    OBVIOUS
  <1>1. mode \in Modes
    BY ClientAssumption DEF ChanInit
  <1>2. 0 \in 0 .. CountMod - 1
    BY BoundsAssumption
  <1>3. chain \in Seq([next : Nat, inten : BOOLEAN]) /\ Len(chain) = 0 /\ DOMAIN chain = {}
    BY DEF ChanInit
  <1>4. Len(chain) <= NumCbs
    BY <1>3, BoundsAssumption
  <1>5. /\ cpc \in [Threads -> ThreadSteps] /\ op \in [Threads -> {"none", "start", "abort", "complete", "release"}]
        /\ prev \in [Threads -> 0 .. CountMod - 1] /\ err \in [Threads -> BOOLEAN]
        /\ callId \in [Threads -> Nat]
    BY <1>2 DEF ChanInit, ThreadSteps
  <1> QED BY <1>1, <1>2, <1>3, <1>4, <1>5 DEF ChanInit, TypeOK

\* Every entry point, the engine and the interrupt keep the types: the control
\* block address stays a link of the chain and frg_count a uint32_t.
LEMMA TypeNext == TypeOK /\ [ChanNext]_chanVars => TypeOK'
  <1> SUFFICES ASSUME TypeOK, [ChanNext]_chanVars PROVE TypeOK'
    OBVIOUS
  <1> USE DEF TypeOK, Threads
  <1>1. CASE ChannelAttach
    <2>1. /\ mode' \in Modes
          /\ 0 \in 0 .. CountMod - 1 /\ NumCbs \in Nat
      BY <1>1, BoundsAssumption, ClientAssumption DEF ChannelAttach
    <2>2. /\ chain' \in Seq([next : Nat, inten : BOOLEAN])
          /\ Len(chain') <= NumCbs
          /\ \A i \in DOMAIN chain' : chain'[i].next \in {0} \cup DOMAIN chain'
      BY <1>1, <2>1 DEF ChannelAttach
    <2> QED BY <1>1, <2>1, <2>2 DEF ChannelAttach, calls
  <1>2. CASE ChannelRelease
    BY <1>2 DEF ChannelRelease, Enter, ThreadSteps, soft, engine, irq, hist
  <1>3. CASE ReleasePause
    BY <1>3, ZenonT(60) DEF ReleasePause, GotoStep, ThreadSteps, soft, irq, hist
  <1>4. CASE ReleaseFree
    <2>1. /\ chain' \in Seq([next : Nat, inten : BOOLEAN])
          /\ Len(chain') <= NumCbs
          /\ \A i \in DOMAIN chain' : chain'[i].next \in {0} \cup DOMAIN chain'
      BY <1>4, BoundsAssumption DEF ReleaseFree
    <2>2. cpc' \in [Threads -> ThreadSteps] /\ op' \in [Threads -> {"none", "start", "abort", "complete", "release"}]
      BY <1>4 DEF ReleaseFree, Leave, ThreadSteps
    <2> QED BY <1>4, <2>1, <2>2 DEF ReleaseFree, engine
  <1>5. CASE Start
    BY <1>5 DEF Start, Enter, ThreadSteps, engine, irq
  <1>6. CASE StartCb
    BY <1>6 DEF StartCb, GotoStep, ThreadSteps, soft, irq, hist
  <1>7. CASE StartCs
    BY <1>7 DEF StartCs, Leave, ThreadSteps, soft, irq, hist
  <1>8. CASE XferAbort
    BY <1>8 DEF XferAbort, Enter, ThreadSteps, soft, engine, irq, hist
  <1>9. ASSUME NEW k \in 1 .. MaxFrags, NEW rep \in RepeatModes, SetupXfer(k, rep)
        PROVE  TypeOK'
    <2>1. /\ k \in Nat \ {0} /\ rep \in BOOLEAN
          /\ k \in 0 .. CountMod - 1
      BY <1>9, BoundsAssumption, ClientAssumption DEF SetupXfer
    <2>2. chain' = ControlBlocks(k, mode.flags, rep)
      BY <1>9 DEF SetupXfer
    <2>3. /\ chain' \in Seq([next : Nat, inten : BOOLEAN]) /\ Len(chain') <= NumCbs
          /\ \A i \in DOMAIN chain' : chain'[i].next \in {0} \cup DOMAIN chain'
      BY <1>9, <2>1, <2>2, ControlBlocksType DEF SetupXfer
    <2> QED BY <1>9, <2>1, <2>3 DEF SetupXfer, engine, irq, calls
  <1>10. ASSUME NEW k \in 1 .. MaxFrags, NEW rep \in RepeatModes, SetupXferFails(k, rep)
        PROVE  TypeOK'
    BY <1>10, ClientAssumption DEF SetupXferFails, engine, irq, calls, hist
  <1>11. CASE CompleteOnEvent
    <2>1. (frg_count + CountMod - 1) % CountMod \in 0 .. CountMod - 1
      BY CountWraps
    <2> QED BY <1>11, <2>1, ZenonT(60) DEF CompleteOnEvent, CompleteBegin, Enter, ThreadSteps, engine, hist
  <1>12. CASE CompleteOnPoll
    <2>1. (frg_count + CountMod - 1) % CountMod \in 0 .. CountMod - 1
      BY CountWraps
    <2> QED BY <1>12, <2>1 DEF CompleteOnPoll, CompleteBegin, Enter, ThreadSteps, engine, irq, hist
  <1>13. ASSUME NEW t \in Threads, ThreadStep(t)
        PROVE  TypeOK'
    <2>1. CASE AbortConblk(t)
      BY <2>1 DEF AbortConblk, GotoStep, ThreadSteps, soft, engine, irq, hist
    <2>2. CASE AbortPause(t)
      BY <2>2, ZenonT(60) DEF AbortPause, GotoStep, ThreadSteps, soft, irq, hist
    <2>3. CASE AbortReset(t)
      BY <2>3 DEF AbortReset, GotoStep, ThreadSteps, soft, irq, hist
    <2>4. CASE AbortClear(t)
      BY <2>4, ZenonT(60) DEF AbortClear, Leave, Outcome, ThreadSteps, engine, irq
    <2>5. CASE CompleteReadCs(t)
      BY <2>5 DEF CompleteReadCs, GotoStep, ThreadSteps, soft, engine, irq, hist
    <2>6. CASE CompleteAck(t)
      BY <2>6, ZenonT(60) DEF CompleteAck, GotoStep, ThreadSteps, soft, irq, hist
    <2>7. CASE CompleteUnmask(t)
      <3>1. cpc' \in [Threads -> ThreadSteps]
        BY <2>7 DEF CompleteUnmask, GotoStep, Leave, ThreadSteps
      <3>2. op' \in [Threads -> {"none", "start", "abort", "complete", "release"}]
        BY <2>7 DEF CompleteUnmask, Leave
      <3>3. masked' \in BOOLEAN
        BY <2>7 DEF CompleteUnmask
      <3> QED BY <2>7, <3>1, <3>2, <3>3, ZenonT(60) DEF CompleteUnmask, soft, engine, hist
    <2> QED BY <1>13, <2>1, <2>2, <2>3, <2>4, <2>5, <2>6, <2>7 DEF ThreadStep
  <1>14. CASE EngineStep
    <2>1. conblk \in DOMAIN chain /\ Len(chain) \in Nat
      BY <1>14, LenProperties DEF EngineStep
    <2>2. chain[conblk] \in [next : Nat, inten : BOOLEAN]
      <3> DEFINE R == [next : Nat, inten : BOOLEAN]
      <3> HIDE DEF R
      <3>1. chain \in Seq(R)
        BY DEF R
      <3>2. chain \in [1 .. Len(chain) -> R] /\ conblk \in 1 .. Len(chain)
        BY <3>1, <2>1, LenProperties
      <3>3. chain[conblk] \in R
        BY <3>2
      <3> QED BY <3>3 DEF R
    <2>3. conblk' \in Nat /\ int' \in BOOLEAN
      BY <1>14, <2>2 DEF EngineStep
    <2> QED BY <1>14, <2>3 DEF EngineStep, soft, irq, calls
  <1>15. CASE InterruptEvent
    BY <1>15 DEF InterruptEvent, soft, engine, calls, hist
  <1>16. CASE UNCHANGED chanVars
    BY <1>16 DEF chanVars, soft, engine, irq, calls, hist
  <1> QED
    BY <1>1, <1>2, <1>3, <1>4, <1>5, <1>6, <1>7, <1>8, <1>9, <1>10, <1>11, <1>12, <1>13,
       <1>14, <1>15, <1>16
       DEF ChanNext, ClientCall, InFlight

\* Every reachable state of a channel is well typed, whatever its client does:
\* frg_count wraps inside its width and the control blocks link inside the
\* channel's array (bcm2711_dmac.c:690-1070).
THEOREM TypeCorrect == ChanSpec => []TypeOK
  <1>1. ChanInit => TypeOK
    BY TypeInit
  <1>2. TypeOK /\ [ChanNext]_chanVars => TypeOK'
    BY TypeNext
  <1> QED BY <1>1, <1>2, PTL DEF ChanSpec

-----------------------------------------------------------------------------
(* EngineImpliesBusy is not inductive: an acknowledging xfer_complete() sets *)
(* ACTIVE, and a release or an abort clears DMACH_BUSY, in states that only  *)
(* the order of the library's own steps rules out.  BusyInv says which.      *)

\* The client's two threads take turns in the library.
Serial == cpc["client"] = "idle" \/ cpc["handler"] = "idle"

\* The engine has a control block only while the channel is busy, running or
\* paused; DMACH_BUSY is cleared behind an idle engine; a start has set it
\* before it writes the control block; a release begins on an idle channel.
BusyInv ==
  /\ cpc \in [Threads -> ThreadSteps]
  /\ Serial
  /\ conblk # 0 => busy
  /\ \A t \in Threads : cpc[t] = "clear" => conblk = 0
  /\ cpc["client"] \in {"start_cb", "start_cs"} => busy
  /\ cpc["client"] \in {"rel_pause", "release"} => ~busy
  /\ ~attached => ~busy

\* The inductive step of EngineIsBusy: BusyInv says where the threads may be
\* while the engine has a control block (dma_start, dma_abort, xfer_complete).
LEMMA BusyNext ==
  ASSUME Threaded = FALSE, ReleaseBusy = FALSE, BusyInv, [ChanNext]_chanVars
  PROVE  BusyInv'
  <1> USE DEF BusyInv, Serial, Threads
  <1>1. CASE ChannelAttach
    BY <1>1 DEF ChannelAttach, calls
  <1>2. CASE ChannelRelease
    BY <1>2 DEF ChannelRelease, Enter, ThreadSteps, soft, engine
  <1>3. CASE ReleasePause
    BY <1>3 DEF ReleasePause, GotoStep, ThreadSteps, soft
  <1>4. CASE ReleaseFree
    BY <1>4 DEF ReleaseFree, Leave, engine
  <1>5. CASE Start
    BY <1>5 DEF Start, ClientMayCall, Enter, ThreadSteps
  <1>6. CASE StartCb
    BY <1>6 DEF StartCb, GotoStep, ThreadSteps, soft
  <1>7. CASE StartCs
    BY <1>7 DEF StartCs, Leave, soft
  <1>8. CASE XferAbort
    BY <1>8 DEF XferAbort, ClientMayCall, Enter, ThreadSteps, soft, engine
  <1>9. ASSUME NEW k \in 1 .. MaxFrags, NEW rep \in RepeatModes,
               SetupXfer(k, rep) \/ SetupXferFails(k, rep)
        PROVE  BusyInv'
    BY <1>9 DEF SetupXfer, SetupXferFails, engine, calls
  <1>10. CASE CompleteOnEvent
    BY <1>10 DEF CompleteOnEvent, HandlerMayCall, CompleteBegin, Enter, ThreadSteps, engine
  <1>11. CASE CompleteOnPoll
    BY <1>11 DEF CompleteOnPoll, ClientMayCall, CompleteBegin, Enter, ThreadSteps
  <1>12. ASSUME NEW t \in Threads, ThreadStep(t)
        PROVE  BusyInv'
    <2>1. CASE AbortConblk(t)
      BY <2>1 DEF AbortConblk, GotoStep, ThreadSteps, soft, engine
    <2>2. CASE AbortPause(t)
      BY <2>2 DEF AbortPause, GotoStep, ThreadSteps, soft
    <2>3. CASE AbortReset(t)
      BY <2>3 DEF AbortReset, GotoStep, ThreadSteps, soft
    <2>4. CASE AbortClear(t)
      BY <2>4 DEF AbortClear, Leave, engine
    <2>5. CASE CompleteReadCs(t)
      BY <2>5 DEF CompleteReadCs, GotoStep, ThreadSteps, soft, engine
    <2>6. CASE CompleteAck(t)
      BY <2>6 DEF CompleteAck, GotoStep, ThreadSteps, soft
    <2>7. CASE CompleteUnmask(t)
      BY <2>7 DEF CompleteUnmask, GotoStep, Leave, ThreadSteps, soft, engine
    <2> QED BY <1>12, <2>1, <2>2, <2>3, <2>4, <2>5, <2>6, <2>7 DEF ThreadStep
  <1>13. CASE EngineStep
    BY <1>13 DEF EngineStep, soft, calls
  <1>14. CASE InterruptEvent
    BY <1>14 DEF InterruptEvent, soft, engine, calls
  <1>15. CASE UNCHANGED chanVars
    BY <1>15 DEF chanVars, soft, engine, calls
  <1> QED
    BY <1>1, <1>2, <1>3, <1>4, <1>5, <1>6, <1>7, <1>8, <1>9, <1>10, <1>11, <1>12, <1>13,
       <1>14, <1>15
       DEF ChanNext, ClientCall, InFlight

\* For every number of fragments, control blocks and transfers: a channel
\* whose client serialises its calls and releases it idle never has its
\* engine running without DMACH_BUSY, so setup_xfer() never rewrites control
\* blocks in use and xfer_start() never reprograms a running engine
\* (dma_start, dma_abort, xfer_complete, dma_channel_release).
THEOREM EngineIsBusy ==
  ASSUME Threaded = FALSE, ReleaseBusy = FALSE
  PROVE  ChanSpec => []EngineImpliesBusy
  <1>1. ChanInit => BusyInv
    BY DEF ChanInit, BusyInv, Serial, Threads, ThreadSteps
  <1>2. BusyInv /\ [ChanNext]_chanVars => BusyInv'
    BY BusyNext
  <1>3. BusyInv => EngineImpliesBusy
    BY DEF BusyInv, EngineImpliesBusy, Running
  <1> QED BY <1>1, <1>2, <1>3, PTL DEF ChanSpec

\* From the same invariant: a step of xfer_abort() or xfer_complete() clears
\* DMACH_BUSY, and channel_release() gives the channel back, only with an
\* engine that has no control block left (dma_abort, dma4_abort).
THEOREM IdleBehindBusy ==
  ASSUME Threaded = FALSE, ReleaseBusy = FALSE
  PROVE  ChanSpec => [][(busy /\ ~busy') => conblk' = 0]_chanVars
  <1>1. ChanInit => BusyInv
    BY DEF ChanInit, BusyInv, Serial, Threads, ThreadSteps
  <1>2. BusyInv /\ [ChanNext]_chanVars => BusyInv'
    BY BusyNext
  <1>3. BusyInv' => [(busy /\ ~busy') => conblk' = 0]_chanVars
    BY DEF BusyInv
  <1> QED BY <1>1, <1>2, <1>3, PTL DEF ChanSpec

-----------------------------------------------------------------------------
(* What an event-driven transfer has moved when it ends.  A completion event *)
(* ends a transfer whatever it is about, so the invariant has to show that   *)
(* every event, mask and count is about the transfer under way.              *)

\* Clients whose completions can be trusted: one event at the end, or one per
\* fragment with a set-up before each start, no repetition, and an engine that
\* does not finish a fragment before the event of the last one is handled.
Honest(m) ==
  m.iid => \/ m.flags = "complete"
           \/ m.flags = "segment" /\ ~Coalesce /\ ReSetup /\ RepeatModes \subseteq {FALSE}

\* xfer_complete() has been called and the interrupt is still masked; the
\* transfer is being ended.
Serving == cpc["handler"] \in {"read_cs", "ack", "unmask"}
Ending  == cpc["handler"] \in {"conblk", "pause", "reset", "clear"}

\* The chain leads from the first block to the last and asks for the
\* interrupts of the mode; it is there before a transfer can be started.
LinkInv ==
  \A i \in 1 .. Len(chain) :
    /\ i < Len(chain) => chain[i].next = i + 1
    /\ (i = Len(chain) /\ (busy \/ ready)) => chain[i].next = IF repeat THEN 1 ELSE 0
    /\ chain[i].inten <=>
         mode.flags = "segment" \/ (i = Len(chain) /\ mode.flags = "complete")

ModeInv == mode \in AttachModes /\ repeat \in RepeatModes \cup {FALSE}

ChainInv ==
  /\ (ready \/ busy) => Len(chain) > 0
  /\ conblk \in 0 .. Len(chain)

\* Nobody uses a channel that is not attached.
FreeInv ==
  ~attached => /\ ~ready /\ ~pulse /\ ~masked /\ chain = << >>
               /\ cpc["client"] = "idle" /\ cpc["handler"] = "idle"

\* The interrupt is masked from its event to InterruptUnmask(), so a client
\* that may call finds nothing outstanding.
MaskInv ==
  /\ (masked <=> pulse \/ Serving) /\ ~(pulse /\ Serving)
  /\ cpc["client"] \notin {"read_cs", "ack", "unmask"}
  /\ cpc["client"] \in {"conblk", "pause", "reset", "clear"} => op["client"] = "abort"
  /\ cpc["client"] = "start_cb" =>
       conblk = 0 /\ moved = 0 /\ ~int /\ ~pulse /\ cpc["handler"] = "idle"

\* How far the transfer is: no event comes before the last block, except in
\* repeat mode and per segment; per segment frg_count is what is still to come
\* and to be reported.
Unreported == pulse \/ (int /\ cpc["handler"] \notin {"read_cs", "ack"})

ProgressInv ==
  /\ busy => moved <= Len(chain)
  /\ (~repeat /\ conblk # 0) => moved = conblk - 1
  /\ (busy /\ repeat /\ conblk = 0) => cpc["client"] \in {"start_cb", "clear"} \/ cpc["handler"] = "clear"
  /\ (busy /\ conblk = 0 /\ cpc["client"] \notin {"start_cb", "clear"}) =>
       int \/ pulse \/ Serving \/ Ending
  /\ (busy /\ ~repeat /\ conblk = 0 /\ cpc["client"] \notin {"start_cb", "clear"}) =>
       moved = Len(chain) \/ (cpc["handler"] = "clear" /\ err["handler"])
  /\ (mode.flags = "complete" /\ busy /\ ~repeat /\ (int \/ pulse \/ Serving)) =>
       conblk = 0 /\ (moved = Len(chain) \/ cpc["client"] = "clear")
  /\ (Ending /\ busy) => err["handler"] \/ (conblk = 0 /\ moved = Len(chain))

TallyInv ==
  mode.flags = "segment" =>
    /\ ready => /\ ~busy /\ frg_count = Len(chain) /\ ~int /\ ~pulse
                /\ cpc["handler"] = "idle"
    /\ (busy /\ cpc["client"] # "clear") =>
         frg_count + moved = Len(chain) + (IF Unreported THEN 1 ELSE 0)
    /\ (busy /\ Serving) => prev["handler"] = frg_count + 1
    /\ cpc["handler"] # "idle" => ~int \/ cpc["handler"] \in {"read_cs", "ack"}

\* How it ended.
ResultInv ==
  /\ busy => result = "none"
  /\ result = "ok" => moved = Len(chain)

Moving ==
  /\ LinkInv /\ ModeInv /\ ChainInv /\ FreeInv
  /\ (mode.iid => MaskInv /\ ProgressInv /\ TallyInv /\ ResultInv)

HonestInv == TypeOK /\ BusyInv /\ Moving

\* The decrement of a count that is not zero.
LEMMA CountDown ==
  ASSUME NEW n \in 1 .. CountMod - 1
  PROVE  (n + CountMod - 1) % CountMod = n - 1
  <1> DEFINE q == (n + CountMod - 1) \div CountMod
             r == (n + CountMod - 1) % CountMod
  <1>1. CountMod \in Nat /\ CountMod > 0 /\ n \in Nat /\ n >= 1
    BY BoundsAssumption
  <1>2. q \in Int /\ r \in Int /\ 0 <= r /\ r < CountMod /\ n + CountMod - 1 = CountMod * q + r
    BY <1>1, SMTT(30)
  <1> HIDE DEF q, r
  <1>3. q = 1
    BY <1>1, <1>2, SMTT(30)
  <1> QED BY <1>1, <1>2, <1>3 DEF r

\* What the engine does with the control block it is at.
LEMMA BlockDone ==
  ASSUME TypeOK, BusyInv, LinkInv, ChainInv, EngineStep
  PROVE  /\ attached /\ busy /\ Len(chain) \in Nat /\ conblk \in 1 .. Len(chain)
         /\ conblk < Len(chain) => conblk' = conblk + 1
         /\ (conblk = Len(chain) /\ repeat) => conblk' = 1
         /\ (conblk = Len(chain) /\ ~repeat) => conblk' = 0
         /\ int' <=> int \/ mode.flags = "segment"
                         \/ (conblk = Len(chain) /\ mode.flags = "complete")
         /\ moved < Len(chain) => moved' = moved + 1
         /\ moved >= Len(chain) => moved' = moved
         /\ Coalesce \/ (~int /\ ~pulse /\ cpc["handler"] = "idle")
         /\ UNCHANGED <<soft, active, irq, calls, started, result>>
  <1>1. attached /\ busy /\ Len(chain) \in Nat /\ conblk \in 1 .. Len(chain)
    BY DEF EngineStep, BusyInv
  <1>2. /\ conblk < Len(chain) => chain[conblk].next = conblk + 1
        /\ conblk = Len(chain) => chain[conblk].next = IF repeat THEN 1 ELSE 0
    BY <1>1 DEF LinkInv
  <1>3. chain[conblk].inten <=> mode.flags = "segment"
                                  \/ (conblk = Len(chain) /\ mode.flags = "complete")
    BY <1>1 DEF LinkInv
  <1>4. int' <=> int \/ chain[conblk].inten
    BY DEF EngineStep
  <1>5. moved \in Nat
    BY DEF TypeOK
  <1>6. /\ conblk' = chain[conblk].next
        /\ moved' = IF moved < Len(chain) THEN moved + 1 ELSE moved
        /\ Coalesce \/ (~int /\ ~pulse /\ cpc["handler"] = "idle")
        /\ UNCHANGED <<soft, active, irq, calls, started, result>>
    BY DEF EngineStep
  <1> QED BY <1>1, <1>2, <1>3, <1>4, <1>5, <1>6

\* The inductive step: what each entry point, the engine and the interrupt do
\* to the transfer under way.
LEMMA HonestNext ==
  ASSUME Threaded = FALSE, ReleaseBusy = FALSE, \A m \in AttachModes : Honest(m),
         HonestInv, [ChanNext]_chanVars
  PROVE  HonestInv'
  <1>1. /\ TypeOK /\ BusyInv /\ TypeOK' /\ LinkInv /\ ModeInv /\ ChainInv /\ FreeInv
        /\ mode.iid => MaskInv /\ ProgressInv /\ TallyInv /\ ResultInv
    BY TypeNext DEF HonestInv, Moving
  <1>2. ASSUME ChanNext PROVE Moving'
    <2> USE <1>1
    <2>0. mode.flags = "segment" /\ mode.iid => ~Coalesce /\ ReSetup /\ RepeatModes \subseteq {FALSE}
      BY DEF ModeInv, Honest
    <2>1. CASE ChannelAttach
      <3>1. LinkInv'
        <4>1. Len(chain') = 0
          BY <2>1 DEF ChannelAttach
        <4>2. 1 .. Len(chain') = {}
          BY <4>1
        <4> QED BY <4>2, Zenon DEF LinkInv
      <3>2. ModeInv'
        BY <2>1 DEF ModeInv, ChannelAttach
      <3>3. ChainInv'
        BY <2>1 DEF ChainInv, BusyInv, ChannelAttach
      <3>4. FreeInv'
        BY <2>1 DEF FreeInv, ChannelAttach
      <3>5. (mode.iid => MaskInv)'
        BY <2>1 DEF MaskInv, Serving, Threads, ChannelAttach, calls
      <3>6. (mode.iid => ProgressInv)'
        BY <2>1 DEF ProgressInv, ChainInv, FreeInv, ChannelAttach
      <3>7. (mode.iid => TallyInv)'
        BY <2>1, BoundsAssumption DEF TallyInv, Threads, ChannelAttach, calls
      <3>8. (mode.iid => ResultInv)'
        BY <2>1 DEF ResultInv, ChannelAttach
      <3> QED BY <3>1, <3>2, <3>3, <3>4, <3>5, <3>6, <3>7, <3>8 DEF Moving
    <2>2. CASE ChannelRelease
      <3>1. LinkInv'
        BY <2>2 DEF LinkInv, ChannelRelease, soft
      <3>2. ModeInv'
        BY <2>2 DEF ModeInv, ChannelRelease, soft
      <3>3. ChainInv'
        BY <2>2 DEF ChainInv, ChannelRelease, soft, engine
      <3>4. FreeInv'
        BY <2>2 DEF FreeInv, ChannelRelease, ClientMayCall, soft
      <3>5. (mode.iid => MaskInv)'
        BY <2>2 DEF MaskInv, Serving, ChannelRelease, ClientMayCall, Enter, soft, irq
      <3>6. (mode.iid => ProgressInv)'
        BY <2>2 DEF ProgressInv, ChannelRelease, soft, engine, hist
      <3>7. (mode.iid => TallyInv)'
        BY <2>2, BoundsAssumption DEF TallyInv, ChannelRelease, Enter, soft, engine, irq
      <3>8. (mode.iid => ResultInv)'
        BY <2>2 DEF ResultInv, ChannelRelease, soft, hist
      <3> QED BY <3>1, <3>2, <3>3, <3>4, <3>5, <3>6, <3>7, <3>8 DEF Moving
    <2>3. CASE ReleasePause
      <3>1. LinkInv'
        BY <2>3 DEF LinkInv, ReleasePause, soft
      <3>2. ModeInv'
        BY <2>3 DEF ModeInv, ReleasePause, soft
      <3>3. ChainInv'
        BY <2>3 DEF ChainInv, ReleasePause, soft
      <3>4. FreeInv'
        BY <2>3 DEF FreeInv, ReleasePause, soft
      <3>5. (mode.iid => MaskInv)'
        BY <2>3 DEF MaskInv, Serving, ReleasePause, GotoStep, soft, irq
      <3>6. (mode.iid => ProgressInv)'
        BY <2>3 DEF ProgressInv, Serving, Ending, ReleasePause, GotoStep, soft, irq, hist
      <3>7. (mode.iid => TallyInv)'
        BY <2>3, BoundsAssumption
           DEF TallyInv, Serving, Unreported, ReleasePause, GotoStep, soft, irq, hist
      <3>8. (mode.iid => ResultInv)'
        BY <2>3 DEF ResultInv, ReleasePause, soft, hist
      <3> QED BY <3>1, <3>2, <3>3, <3>4, <3>5, <3>6, <3>7, <3>8 DEF Moving
    <2>4. CASE ReleaseFree
      <3>1. LinkInv'
        <4>1. Len(chain') = 0
          BY <2>4 DEF ReleaseFree
        <4>2. 1 .. Len(chain') = {}
          BY <4>1
        <4> QED BY <4>2, Zenon DEF LinkInv
      <3>2. ModeInv'
        BY <2>4 DEF ModeInv, ReleaseFree
      <3>3. ChainInv'
        <4>2. conblk' = 0 /\ Len(chain') = 0 /\ ~ready' /\ ~busy'
          BY <2>4 DEF BusyInv, ReleaseFree, engine
        <4> QED BY <4>2 DEF ChainInv
      <3>4. FreeInv'
        BY <2>4 DEF FreeInv, BusyInv, Serial, Threads, ReleaseFree, Leave
      <3>5. (mode.iid => MaskInv)'
        BY <2>4 DEF MaskInv, BusyInv, Serving, Serial, ReleaseFree, Leave
      <3>6. (mode.iid => ProgressInv)'
        BY <2>4 DEF ProgressInv, ReleaseFree, engine
      <3>7. (mode.iid => TallyInv)'
        BY <2>4, BoundsAssumption DEF TallyInv, ReleaseFree, Leave, engine
      <3>8. (mode.iid => ResultInv)'
        BY <2>4 DEF ResultInv, ReleaseFree
      <3> QED BY <3>1, <3>2, <3>3, <3>4, <3>5, <3>6, <3>7, <3>8 DEF Moving
    <2>5. CASE Start
      <3>1. LinkInv'
        BY <2>5 DEF LinkInv, Start
      <3>2. ModeInv'
        BY <2>5 DEF ModeInv, Start
      <3>3. ChainInv'
        BY <2>5 DEF ChainInv, Start, engine
      <3>4. FreeInv'
        BY <2>5 DEF FreeInv, Start
      <3>5. (mode.iid => MaskInv)'
        BY <2>5
           DEF MaskInv, BusyInv, Serving, Start, ClientMayCall, Raised, Enter, engine, irq
      <3>6. (mode.iid => ProgressInv)'
        BY <2>5
           DEF ProgressInv, MaskInv, BusyInv, Serving, Ending, Threads, Start, ClientMayCall,
               Raised, Enter, engine, irq
      <3>7. (mode.iid => TallyInv)'
        <4> SUFFICES ASSUME mode'.iid, mode'.flags = "segment" PROVE TallyInv'
          BY DEF TallyInv
        <4>1. /\ UNCHANGED <<mode, chain, frg_count, int, pulse>> /\ moved' = 0
              /\ cpc'["handler"] = "idle" /\ cpc'["client"] = "start_cb"
              /\ ready /\ ready' = ~ReSetup
          BY <2>5 DEF Start, ClientMayCall, Enter, engine, irq, TypeOK
        <4>2. ~ready'
          BY <2>0, <4>1, Zenon
        <4>3. ~int' /\ ~pulse' /\ frg_count' = Len(chain') /\ Len(chain') \in Nat
          BY <4>1 DEF TallyInv, TypeOK
        <4> QED BY <4>1, <4>2, <4>3 DEF TallyInv, Serving, Unreported
      <3>8. (mode.iid => ResultInv)'
        BY <2>5 DEF ResultInv, Start
      <3> QED BY <3>1, <3>2, <3>3, <3>4, <3>5, <3>6, <3>7, <3>8 DEF Moving
    <2>6. CASE StartCb
      <3>1. LinkInv'
        BY <2>6 DEF LinkInv, StartCb, soft
      <3>2. ModeInv'
        BY <2>6 DEF ModeInv, StartCb, soft
      <3>3. ChainInv'
        <4>2. conblk' = 1 /\ Len(chain') \in Nat /\ Len(chain') > 0
          BY <2>6 DEF ChainInv, BusyInv, StartCb, soft
        <4> QED BY <4>2 DEF ChainInv
      <3>4. FreeInv'
        BY <2>6 DEF FreeInv, StartCb, soft
      <3>5. (mode.iid => MaskInv)'
        BY <2>6 DEF MaskInv, Serving, TypeOK, StartCb, GotoStep, soft, irq
      <3>6. (mode.iid => ProgressInv)'
        BY <2>6 DEF ProgressInv, MaskInv, Serving, Ending, StartCb, GotoStep, soft, irq, hist
      <3>7. (mode.iid => TallyInv)'
        BY <2>6, BoundsAssumption
           DEF TallyInv, Serving, Unreported, StartCb, GotoStep, soft, irq, hist
      <3>8. (mode.iid => ResultInv)'
        BY <2>6 DEF ResultInv, StartCb, soft, hist
      <3> QED BY <3>1, <3>2, <3>3, <3>4, <3>5, <3>6, <3>7, <3>8 DEF Moving
    <2>7. CASE StartCs
      <3>1. LinkInv'
        BY <2>7 DEF LinkInv, StartCs, soft
      <3>2. ModeInv'
        BY <2>7 DEF ModeInv, StartCs, soft
      <3>3. ChainInv'
        BY <2>7 DEF ChainInv, StartCs, soft
      <3>4. FreeInv'
        BY <2>7 DEF FreeInv, StartCs, soft
      <3>5. (mode.iid => MaskInv)'
        BY <2>7 DEF MaskInv, Serving, StartCs, Leave, soft, irq
      <3>6. (mode.iid => ProgressInv)'
        BY <2>7 DEF ProgressInv, Serving, Ending, StartCs, Leave, soft, irq, hist
      <3>7. (mode.iid => TallyInv)'
        BY <2>7, BoundsAssumption
           DEF TallyInv, Serving, Unreported, StartCs, Leave, soft, irq, hist
      <3>8. (mode.iid => ResultInv)'
        BY <2>7 DEF ResultInv, StartCs, soft, hist
      <3> QED BY <3>1, <3>2, <3>3, <3>4, <3>5, <3>6, <3>7, <3>8 DEF Moving
    <2>8. CASE XferAbort
      <3>1. LinkInv'
        BY <2>8 DEF LinkInv, XferAbort, soft
      <3>2. ModeInv'
        BY <2>8 DEF ModeInv, XferAbort, soft
      <3>3. ChainInv'
        BY <2>8 DEF ChainInv, XferAbort, soft, engine
      <3>4. FreeInv'
        BY <2>8 DEF FreeInv, XferAbort, ClientMayCall, soft
      <3>5. (mode.iid => MaskInv)'
        BY <2>8 DEF MaskInv, Serving, TypeOK, XferAbort, Enter, soft, irq
      <3>6. (mode.iid => ProgressInv)'
        BY <2>8
           DEF ProgressInv, Serving, Ending, XferAbort, ClientMayCall, Enter, soft, engine,
               irq, hist
      <3>7. (mode.iid => TallyInv)'
        BY <2>8, BoundsAssumption
           DEF TallyInv, Serving, Unreported, XferAbort, ClientMayCall, Enter, soft, engine,
               irq, hist
      <3>8. (mode.iid => ResultInv)'
        BY <2>8 DEF ResultInv, XferAbort, soft, hist
      <3> QED BY <3>1, <3>2, <3>3, <3>4, <3>5, <3>6, <3>7, <3>8 DEF Moving
    <2>9. ASSUME NEW k \in 1 .. MaxFrags, NEW rep \in RepeatModes, SetupXfer(k, rep)
          PROVE  Moving'
      <3>1. LinkInv'
        <4> DEFINE cb == ControlBlocks(k, mode.flags, rep)
        <4>1. chain' = cb /\ repeat' = rep /\ UNCHANGED mode
          BY <2>9 DEF SetupXfer
        <4>2. k \in Nat \ {0} /\ rep \in BOOLEAN
          BY <2>9, ClientAssumption, BoundsAssumption
        <4>3. Len(cb) = k
          BY <4>2, ControlBlocksType
        <4>4. \A i \in 1 .. k :
                 /\ i < k => cb[i].next = i + 1
                 /\ i = k => cb[i].next = IF rep THEN 1 ELSE 0
          BY <4>2 DEF ControlBlocks
        <4>5. \A i \in 1 .. k : cb[i].inten <=>
                 mode.flags = "segment" \/ (i = k /\ mode.flags = "complete")
          BY DEF ControlBlocks
        <4> HIDE DEF cb
        <4> SUFFICES ASSUME NEW i \in 1 .. k
                     PROVE  /\ i < k => cb[i].next = i + 1
                            /\ i = k => cb[i].next = IF rep THEN 1 ELSE 0
                            /\ cb[i].inten <=> mode.flags = "segment" \/ (i = k /\ mode.flags = "complete")
          BY <4>1, <4>3, Zenon DEF LinkInv
        <4> QED BY <4>4, <4>5
      <3>2. ModeInv'
        BY <2>9 DEF ModeInv, SetupXfer
      <3>3. ChainInv'
        <4>1. chain' = ControlBlocks(k, mode.flags, rep) /\ repeat' = rep /\ UNCHANGED <<mode, conblk>>
          BY <2>9 DEF SetupXfer, engine
        <4>2. k \in Nat \ {0} /\ rep \in BOOLEAN
          BY <2>9, ClientAssumption, BoundsAssumption
        <4>3. Len(chain') = k
          BY <4>1, <4>2, ControlBlocksType
        <4>4. conblk = 0
          BY <2>9 DEF SetupXfer, BusyInv
        <4> QED BY <4>1, <4>2, <4>3, <4>4 DEF ChainInv
      <3>4. FreeInv'
        BY <2>9 DEF FreeInv, SetupXfer, ClientMayCall
      <3>5. (mode.iid => MaskInv)'
        BY <2>9 DEF MaskInv, Serving, SetupXfer, engine, irq, calls
      <3>6. (mode.iid => ProgressInv)'
        BY <2>9 DEF ProgressInv, BusyInv, SetupXfer, engine
      <3>7. (mode.iid => TallyInv)'
        <4> SUFFICES ASSUME mode'.iid, mode'.flags = "segment" PROVE TallyInv'
          BY DEF TallyInv
        <4>1. /\ UNCHANGED <<mode, int, pulse, cpc>> /\ frg_count' = k /\ ~busy'
              /\ chain' = ControlBlocks(k, mode.flags, rep)
          BY <2>9 DEF SetupXfer, engine, irq, calls
        <4>2. ~int /\ ~pulse /\ cpc["handler"] = "idle"
          BY <2>9, <4>1 DEF SetupXfer, ClientMayCall, Raised, MaskInv, Serving
        <4>3. Len(chain') = k
          BY <2>9, <4>1, ControlBlocksType, ClientAssumption, BoundsAssumption
        <4> QED BY <4>1, <4>2, <4>3 DEF TallyInv, Serving
      <3>8. (mode.iid => ResultInv)'
        BY <2>9 DEF ResultInv, SetupXfer
      <3> QED BY <3>1, <3>2, <3>3, <3>4, <3>5, <3>6, <3>7, <3>8 DEF Moving
    <2>10. ASSUME NEW k \in 1 .. MaxFrags, NEW rep \in RepeatModes, SetupXferFails(k, rep)
           PROVE  Moving'
      <3>1. LinkInv'
        BY <2>10 DEF LinkInv, SetupXferFails
      <3>2. ModeInv'
        BY <2>10 DEF ModeInv, SetupXferFails
      <3>3. ChainInv'
        BY <2>10 DEF ChainInv, SetupXferFails, engine
      <3>4. FreeInv'
        BY <2>10 DEF FreeInv, SetupXferFails, irq, calls
      <3>5. (mode.iid => MaskInv)'
        BY <2>10 DEF MaskInv, Serving, SetupXferFails, engine, irq, calls, hist
      <3>6. (mode.iid => ProgressInv)'
        BY <2>10 DEF ProgressInv, BusyInv, SetupXferFails, engine
      <3>7. (mode.iid => TallyInv)'
        BY <2>10, BoundsAssumption DEF TallyInv, SetupXferFails, engine, calls
      <3>8. (mode.iid => ResultInv)'
        BY <2>10 DEF ResultInv, SetupXferFails, hist
      <3> QED BY <3>1, <3>2, <3>3, <3>4, <3>5, <3>6, <3>7, <3>8 DEF Moving
    <2>11. CASE CompleteOnEvent
      <3>1. LinkInv'
        BY <2>11 DEF LinkInv, CompleteOnEvent, CompleteBegin
      <3>2. ModeInv'
        BY <2>11 DEF ModeInv, CompleteOnEvent, CompleteBegin
      <3>3. ChainInv'
        BY <2>11 DEF ChainInv, CompleteOnEvent, CompleteBegin, engine
      <3>4. FreeInv'
        BY <2>11 DEF FreeInv, CompleteOnEvent, CompleteBegin
      <3>5. (mode.iid => MaskInv)'
        BY <2>11 DEF MaskInv, Serving, TypeOK, CompleteOnEvent, Enter, CompleteBegin
      <3>6. (mode.iid => ProgressInv)'
        BY <2>11
           DEF ProgressInv, Serving, Ending, TypeOK, CompleteOnEvent, HandlerMayCall, Enter,
               CompleteBegin, engine, hist
      <3>7. (mode.iid => TallyInv)'
        <4> SUFFICES ASSUME mode'.iid, mode'.flags = "segment"
                     PROVE  TallyInv'
          BY DEF TallyInv
        <4>1. UNCHANGED <<mode, busy, chain, ready, int, moved>> /\ pulse /\ ~pulse'
          BY <2>11 DEF CompleteOnEvent, CompleteBegin, engine, hist
        <4>2. /\ cpc["handler"] = "idle" /\ cpc'["handler"] = "read_cs" /\ cpc["client"] = "idle"
              /\ cpc'["client"] = "idle" /\ prev'["handler"] = frg_count
          BY <2>11 DEF CompleteOnEvent, CompleteBegin, HandlerMayCall, Enter, TypeOK
        <4>3. ASSUME busy PROVE frg_count' = frg_count - 1 /\ frg_count + moved = Len(chain) + 1
          <5>1. frg_count + moved = Len(chain) + 1
            BY <4>1, <4>2, <4>3 DEF TallyInv, Unreported
          <5>2. frg_count >= 1
            BY <5>1, <4>1, <4>3 DEF ProgressInv, TypeOK
          <5>3. frg_count \in 1 .. CountMod - 1
            BY <5>2 DEF TypeOK
          <5> QED BY <2>11, <5>1, <5>3, CountDown DEF CompleteOnEvent, CompleteBegin
        <4>4. frg_count \in Nat /\ moved \in Nat /\ Len(chain) \in Nat
          BY DEF TypeOK
        <4>5. ~ready /\ ~Unreported'
          BY <4>1, <4>2 DEF TallyInv, Unreported
        <4> QED BY <4>1, <4>2, <4>3, <4>4, <4>5 DEF TallyInv, Serving
      <3>8. (mode.iid => ResultInv)'
        BY <2>11 DEF ResultInv, CompleteOnEvent, CompleteBegin, hist
      <3> QED BY <3>1, <3>2, <3>3, <3>4, <3>5, <3>6, <3>7, <3>8 DEF Moving
    <2>12. CASE CompleteOnPoll
      <3>1. LinkInv'
        BY <2>12 DEF LinkInv, CompleteOnPoll, CompleteBegin
      <3>2. ModeInv'
        BY <2>12 DEF ModeInv, CompleteOnPoll, CompleteBegin
      <3>3. ChainInv'
        BY <2>12 DEF ChainInv, CompleteOnPoll, CompleteBegin, engine
      <3>4. FreeInv'
        BY <2>12 DEF FreeInv, CompleteOnPoll, ClientMayCall, CompleteBegin
      <3>5. (mode.iid => MaskInv)'
        BY <2>12 DEF CompleteOnPoll, CompleteBegin
      <3>6. (mode.iid => ProgressInv)'
        BY <2>12 DEF CompleteOnPoll, CompleteBegin
      <3>7. (mode.iid => TallyInv)'
        BY <2>12, BoundsAssumption DEF CompleteOnPoll, CompleteBegin
      <3>8. (mode.iid => ResultInv)'
        BY <2>12 DEF CompleteOnPoll, CompleteBegin
      <3> QED BY <3>1, <3>2, <3>3, <3>4, <3>5, <3>6, <3>7, <3>8 DEF Moving
    <2>13. ASSUME NEW t \in Threads, AbortConblk(t)
           PROVE  Moving'
      <3>1. LinkInv'
        BY <2>13 DEF LinkInv, AbortConblk, soft
      <3>2. ModeInv'
        BY <2>13 DEF ModeInv, AbortConblk, soft
      <3>3. ChainInv'
        BY <2>13 DEF ChainInv, AbortConblk, soft, engine
      <3>4. FreeInv'
        BY <2>13 DEF FreeInv, AbortConblk, GotoStep, soft, irq
      <3>5. (mode.iid => MaskInv)'
        BY <2>13 DEF MaskInv, Serving, AbortConblk, GotoStep, soft, engine, irq, hist
      <3>6. (mode.iid => ProgressInv)'
        BY <2>13 DEF ProgressInv, Serving, Ending, AbortConblk, GotoStep, soft, engine, irq, hist
      <3>7. (mode.iid => TallyInv)'
        BY <2>13, BoundsAssumption
           DEF TallyInv, Serving, Unreported, AbortConblk, GotoStep, soft, engine, irq, hist
      <3>8. (mode.iid => ResultInv)'
        BY <2>13 DEF ResultInv, AbortConblk, soft, hist
      <3> QED BY <3>1, <3>2, <3>3, <3>4, <3>5, <3>6, <3>7, <3>8 DEF Moving
    <2>14. ASSUME NEW t \in Threads, AbortPause(t)
           PROVE  Moving'
      <3>1. LinkInv'
        BY <2>14 DEF LinkInv, AbortPause, soft
      <3>2. ModeInv'
        BY <2>14 DEF ModeInv, AbortPause, soft
      <3>3. ChainInv'
        BY <2>14 DEF ChainInv, AbortPause, soft
      <3>4. FreeInv'
        BY <2>14 DEF FreeInv, AbortPause, GotoStep, soft, irq
      <3>5. (mode.iid => MaskInv)'
        BY <2>14 DEF MaskInv, Serving, AbortPause, GotoStep, soft, irq, hist
      <3>6. (mode.iid => ProgressInv)'
        BY <2>14 DEF ProgressInv, Serving, Ending, AbortPause, GotoStep, soft, irq, hist
      <3>7. (mode.iid => TallyInv)'
        BY <2>14, BoundsAssumption
           DEF TallyInv, Serving, Unreported, AbortPause, GotoStep, soft, irq, hist
      <3>8. (mode.iid => ResultInv)'
        BY <2>14 DEF ResultInv, AbortPause, soft, hist
      <3> QED BY <3>1, <3>2, <3>3, <3>4, <3>5, <3>6, <3>7, <3>8 DEF Moving
    <2>15. ASSUME NEW t \in Threads, AbortReset(t)
           PROVE  Moving'
      <3>1. LinkInv'
        BY <2>15 DEF LinkInv, AbortReset, soft
      <3>2. ModeInv'
        BY <2>15 DEF ModeInv, AbortReset, soft
      <3>3. ChainInv'
        <4>2. conblk' = 0 /\ Len(chain') \in Nat /\ (ready' \/ busy' => Len(chain') > 0)
          BY <2>15 DEF ChainInv, AbortReset, soft
        <4> QED BY <4>2 DEF ChainInv
      <3>4. FreeInv'
        BY <2>15 DEF FreeInv, AbortReset, GotoStep, soft, irq
      <3>5. (mode.iid => MaskInv)'
        BY <2>15 DEF MaskInv, Serving, AbortReset, GotoStep, soft, irq, hist
      <3>6. (mode.iid => ProgressInv)'
        BY <2>15
           DEF ProgressInv, Serving, Ending, TypeOK, Threads, AbortReset, GotoStep, soft, irq,
               hist
      <3>7. (mode.iid => TallyInv)'
        BY <2>15, BoundsAssumption
           DEF TallyInv, Serving, Unreported, TypeOK, Threads, AbortReset, GotoStep, soft, irq,
               hist
      <3>8. (mode.iid => ResultInv)'
        BY <2>15 DEF ResultInv, AbortReset, soft, hist
      <3> QED BY <3>1, <3>2, <3>3, <3>4, <3>5, <3>6, <3>7, <3>8 DEF Moving
    <2>16. ASSUME NEW t \in Threads, AbortClear(t)
           PROVE  Moving'
      <3>1. LinkInv'
        BY <2>16 DEF LinkInv, AbortClear
      <3>2. ModeInv'
        BY <2>16 DEF ModeInv, AbortClear
      <3>3. ChainInv'
        BY <2>16 DEF ChainInv, AbortClear, engine
      <3>4. FreeInv'
        BY <2>16 DEF FreeInv, AbortClear, Leave, irq
      <3>5. (mode.iid => MaskInv)'
        BY <2>16 DEF MaskInv, Serving, TypeOK, AbortClear, Leave, engine, irq
      <3>6. (mode.iid => ProgressInv)'
        BY <2>16 DEF ProgressInv, AbortClear, engine
      <3>7. (mode.iid => TallyInv)'
        BY <2>16, BoundsAssumption DEF TallyInv, AbortClear, Leave, engine, irq
      <3>8. (mode.iid => ResultInv)'
        BY <2>16 DEF ResultInv, ProgressInv, MaskInv, Ending, Threads, AbortClear, Outcome
      <3> QED BY <3>1, <3>2, <3>3, <3>4, <3>5, <3>6, <3>7, <3>8 DEF Moving
    <2>17. ASSUME NEW t \in Threads, CompleteReadCs(t)
           PROVE  Moving'
      <3>1. LinkInv'
        BY <2>17 DEF LinkInv, CompleteReadCs, soft
      <3>2. ModeInv'
        BY <2>17 DEF ModeInv, CompleteReadCs, soft
      <3>3. ChainInv'
        BY <2>17 DEF ChainInv, CompleteReadCs, soft, engine
      <3>4. FreeInv'
        BY <2>17 DEF FreeInv, CompleteReadCs, GotoStep, soft, irq
      <3>5. (mode.iid => MaskInv)'
        BY <2>17 DEF MaskInv, Serving, CompleteReadCs, GotoStep, soft, engine, irq, hist
      <3>6. (mode.iid => ProgressInv)'
        BY <2>17
           DEF ProgressInv, Serving, Ending, CompleteReadCs, GotoStep, soft, engine, irq, hist
      <3>7. (mode.iid => TallyInv)'
        BY <2>17, BoundsAssumption
           DEF TallyInv, Serving, Unreported, CompleteReadCs, GotoStep, soft, engine, irq, hist
      <3>8. (mode.iid => ResultInv)'
        BY <2>17 DEF ResultInv, CompleteReadCs, soft, hist
      <3> QED BY <3>1, <3>2, <3>3, <3>4, <3>5, <3>6, <3>7, <3>8 DEF Moving
    <2>18. ASSUME NEW t \in Threads, CompleteAck(t)
           PROVE  Moving'
      <3>1. LinkInv'
        BY <2>18 DEF LinkInv, CompleteAck, soft
      <3>2. ModeInv'
        BY <2>18 DEF ModeInv, CompleteAck, soft
      <3>3. ChainInv'
        BY <2>18 DEF ChainInv, CompleteAck, soft
      <3>4. FreeInv'
        BY <2>18 DEF FreeInv, CompleteAck, GotoStep, soft, irq
      <3>5. (mode.iid => MaskInv)'
        BY <2>18 DEF MaskInv, Serving, CompleteAck, GotoStep, soft, irq, hist
      <3>6. (mode.iid => ProgressInv)'
        BY <2>18
           DEF ProgressInv, MaskInv, Serving, Ending, Threads, CompleteAck, GotoStep, soft, hist
      <3>7. (mode.iid => TallyInv)'
        BY <2>18, BoundsAssumption
           DEF TallyInv, MaskInv, Serving, Unreported, Threads, CompleteAck, GotoStep, soft, irq,
               hist
      <3>8. (mode.iid => ResultInv)'
        BY <2>18 DEF ResultInv, CompleteAck, soft, hist
      <3> QED BY <3>1, <3>2, <3>3, <3>4, <3>5, <3>6, <3>7, <3>8 DEF Moving
    <2>19. ASSUME NEW t \in Threads, CompleteUnmask(t)
           PROVE  Moving'
      <3>1. LinkInv'
        BY <2>19 DEF LinkInv, CompleteUnmask, soft
      <3>2. ModeInv'
        BY <2>19 DEF ModeInv, CompleteUnmask, soft
      <3>3. ChainInv'
        BY <2>19 DEF ChainInv, CompleteUnmask, soft, engine
      <3>4. FreeInv'
        BY <2>19 DEF FreeInv, Threads, CompleteUnmask, soft
      <3>5. (mode.iid => MaskInv)'
        BY <2>19 DEF MaskInv, Serving, TypeOK, Threads, CompleteUnmask, Leave, GotoStep, soft
      <3>6. (mode.iid => ProgressInv)'
        <4> SUFFICES ASSUME mode'.iid PROVE ProgressInv'
          OBVIOUS
        <4>1. UNCHANGED <<mode, busy, repeat, chain, conblk, int, moved, pulse, err>> /\ mode.iid
          BY <2>19 DEF CompleteUnmask, soft, engine, hist
        <4>2. t = "handler" /\ cpc["handler"] = "unmask" /\ cpc["client"] = "idle" /\ cpc'["client"] = "idle"
          BY <2>19, <4>1 DEF CompleteUnmask, MaskInv, BusyInv, Serial, Threads, GotoStep, Leave
        <4>3. cpc'["handler"] = IF EndsTransfer("handler") THEN "conblk" ELSE "idle"
          BY <2>19, <4>2 DEF CompleteUnmask, BusyInv, GotoStep, Leave
        <4>4. ~pulse /\ frg_count \in Nat /\ moved \in Nat /\ Len(chain) \in Nat /\ conblk \in Nat
          BY <4>1, <4>2 DEF MaskInv, Serving, TypeOK
        <4>5. mode.flags = "complete" \/ mode.flags = "segment"
          BY <4>1 DEF ModeInv, Honest
        <4>6. CASE mode.flags = "complete"
          BY <4>1, <4>2, <4>3, <4>4, <4>6 DEF ProgressInv, EndsTransfer, Serving, Ending
        <4>7. CASE mode.flags = "segment"
          <5>1. ~repeat
            BY <2>0, <4>1, <4>7, Zenon DEF ModeInv
          <5>2. ~int /\ (busy => prev["handler"] = frg_count + 1 /\ frg_count + moved = Len(chain))
            BY <4>1, <4>2, <4>4, <4>7 DEF TallyInv, Serving, Unreported
          <5> QED BY <4>1, <4>2, <4>3, <4>4, <4>7, <5>1, <5>2
                     DEF ProgressInv, ChainInv, EndsTransfer, Ending
        <4> QED BY <4>5, <4>6, <4>7
      <3>7. (mode.iid => TallyInv)'
        BY <2>19, BoundsAssumption
           DEF TallyInv, BusyInv, Serving, Unreported, Threads, CompleteUnmask, Leave, GotoStep,
               soft, engine, hist
      <3>8. (mode.iid => ResultInv)'
        BY <2>19 DEF ResultInv, CompleteUnmask, soft, hist
      <3> QED BY <3>1, <3>2, <3>3, <3>4, <3>5, <3>6, <3>7, <3>8 DEF Moving
    <2>20. CASE EngineStep
      <3>1. LinkInv'
        BY <2>20 DEF LinkInv, EngineStep, soft
      <3>2. ModeInv'
        BY <2>20 DEF ModeInv, EngineStep, soft
      <3>3. ChainInv'
        BY <2>20, BlockDone DEF ChainInv, soft
      <3>4. FreeInv'
        BY <2>20 DEF FreeInv, EngineStep, soft
      <3>5. (mode.iid => MaskInv)'
        BY <2>20 DEF MaskInv, Serving, EngineStep, soft, irq, calls
      <3>6. (mode.iid => ProgressInv)'
        <4> SUFFICES ASSUME mode'.iid PROVE ProgressInv'
          OBVIOUS
        <4>1. UNCHANGED <<mode, busy, repeat, chain, pulse, cpc, err>> /\ mode.iid
          BY <2>20, BlockDone DEF soft, irq, calls
        <4>2. mode.flags = "complete" \/ mode.flags = "segment"
          BY <4>1 DEF ModeInv, Honest
        <4>3. conblk \in Nat /\ moved \in Nat /\ cpc["client"] # "clear" /\ cpc["handler"] # "clear"
          <5>1. conblk \in Nat /\ conblk # 0
            BY <2>20, BlockDone
          <5>2. moved \in Nat
            BY DEF TypeOK
          <5> QED BY <5>1, <5>2 DEF BusyInv, Threads
        <4> QED BY <2>20, <4>1, <4>2, <4>3, BlockDone DEF ProgressInv, Serving, Ending
      <3>7. (mode.iid => TallyInv)'
        <4> SUFFICES ASSUME mode'.iid, mode'.flags = "segment" PROVE TallyInv'
          BY DEF TallyInv
        <4>1. UNCHANGED <<mode, busy, repeat, chain, frg_count, ready, pulse, cpc, prev>> /\ mode.iid
          BY <2>20, BlockDone DEF soft, irq, calls
        <4>2. ~repeat /\ ~Coalesce
          BY <2>0, <4>1, Zenon DEF ModeInv
        <4>3. conblk \in Nat /\ moved \in Nat /\ frg_count \in Nat /\ cpc["client"] # "clear"
          <5>1. conblk \in Nat /\ conblk # 0
            BY <2>20, BlockDone
          <5>2. moved \in Nat /\ frg_count \in Nat
            BY DEF TypeOK
          <5> QED BY <5>1, <5>2 DEF BusyInv, Threads
        <4>4. moved' = moved + 1
          BY <2>20, <4>1, <4>2, <4>3, BlockDone DEF ProgressInv
        <4> QED BY <2>20, <4>1, <4>2, <4>3, <4>4, BlockDone DEF TallyInv, Serving, Unreported
      <3>8. (mode.iid => ResultInv)'
        BY <2>20 DEF ResultInv, EngineStep, soft
      <3> QED BY <3>1, <3>2, <3>3, <3>4, <3>5, <3>6, <3>7, <3>8 DEF Moving
    <2>21. CASE InterruptEvent
      <3>1. LinkInv'
        BY <2>21 DEF LinkInv, InterruptEvent, soft
      <3>2. ModeInv'
        BY <2>21 DEF ModeInv, InterruptEvent, soft
      <3>3. ChainInv'
        BY <2>21 DEF ChainInv, InterruptEvent, soft, engine
      <3>4. FreeInv'
        BY <2>21 DEF FreeInv, InterruptEvent, Raised, soft
      <3>5. (mode.iid => MaskInv)'
        BY <2>21 DEF MaskInv, Serving, InterruptEvent, Raised, calls
      <3>6. (mode.iid => ProgressInv)'
        BY <2>21 DEF ProgressInv, Ending, InterruptEvent, Raised, soft, engine, calls, hist
      <3>7. (mode.iid => TallyInv)'
        BY <2>21, BoundsAssumption
           DEF TallyInv, MaskInv, Serving, Unreported, InterruptEvent, Raised, soft, calls,
               hist
      <3>8. (mode.iid => ResultInv)'
        BY <2>21 DEF ResultInv, InterruptEvent, soft, hist
      <3> QED BY <3>1, <3>2, <3>3, <3>4, <3>5, <3>6, <3>7, <3>8 DEF Moving
    <2> QED BY <1>2, <2>1, <2>2, <2>3, <2>4, <2>5, <2>6, <2>7, <2>8, <2>9, <2>10, <2>11,
               <2>12, <2>13, <2>14, <2>15, <2>16, <2>17, <2>18, <2>19, <2>20, <2>21
               DEF ChanNext, ClientCall, InFlight, ThreadStep
  <1>3. ASSUME UNCHANGED chanVars PROVE Moving'
    <2> USE <1>1, <1>3 DEF chanVars, soft, engine, irq, calls, hist
    <2>1. LinkInv' /\ ModeInv' /\ ChainInv'
      BY DEF LinkInv, ModeInv, ChainInv
    <2>2. FreeInv' /\ (mode.iid => MaskInv)' /\ (mode.iid => ResultInv)'
      BY DEF FreeInv, MaskInv, ResultInv, Serving
    <2>3. (mode.iid => ProgressInv)'
      BY DEF ProgressInv, Serving, Ending
    <2>4. (mode.iid => TallyInv)'
      BY DEF TallyInv, Serving, Unreported
    <2> QED BY <2>1, <2>2, <2>3, <2>4 DEF Moving
  <1>4. BusyInv'
    BY <1>1, BusyNext
  <1> QED BY <1>1, <1>2, <1>3, <1>4 DEF HonestInv

LEMMA HonestInit == ChanInit => HonestInv
  <1> SUFFICES ASSUME ChanInit PROVE HonestInv
    OBVIOUS
  <1>1. TypeOK /\ BusyInv
    BY TypeInit DEF ChanInit, BusyInv, Serial, Threads, ThreadSteps
  <1>2. Len(chain) = 0 /\ 1 .. Len(chain) = {}
    BY DEF ChanInit
  <1>3. LinkInv
    BY <1>2, Zenon DEF LinkInv
  <1>4. ModeInv
    BY DEF ChanInit, ModeInv
  <1>5. ChainInv
    BY <1>2 DEF ChanInit, ChainInv
  <1>6. FreeInv /\ MaskInv /\ ResultInv
    BY <1>2 DEF ChanInit, FreeInv, MaskInv, ResultInv, Serving, Threads
  <1>7. ProgressInv
    BY <1>2 DEF ChanInit, ProgressInv
  <1>8. TallyInv
    BY DEF ChanInit, TallyInv
  <1> QED BY <1>1, <1>3, <1>4, <1>5, <1>6, <1>7, <1>8 DEF HonestInv, Moving

\* A completion is what it says, for every number of fragments, control blocks
\* and transfers, and for clients with an event on completion (repeating or not,
\* set up again or not) as well as per segment: a transfer that xfer_complete()
\* ended without an error has moved all of its blocks, also after aborts, errors
\* and events of earlier transfers, and a channel whose engine is done and that
\* has nothing outstanding is not left in DMACH_BUSY (xfer_complete, frg_count).
THEOREM CompletionStaysHonest ==
  ASSUME Threaded = FALSE, ReleaseBusy = FALSE, \A m \in AttachModes : Honest(m)
  PROVE  ChanSpec => []CompletionIsHonest
  <1>1. ChanInit => HonestInv
    BY HonestInit
  <1>2. HonestInv /\ [ChanNext]_chanVars => HonestInv'
    BY HonestNext
  <1>3. HonestInv => CompletionIsHonest
    BY DEF HonestInv, Moving, ResultInv, ProgressInv, Serving, Ending, Threads,
           CompletionIsHonest, CompletedMovedAll, NoOrphanBusy
  <1> QED BY <1>1, <1>2, <1>3, PTL DEF ChanSpec

-----------------------------------------------------------------------------
(* The refinement of dma_api.README's channel, step by step.               *)

\* A step that touches none of the handle, DMACH_BUSY, the control blocks, the
\* blocks moved and the result is invisible through the API.
LEMMA ApiStutter ==
  ASSUME UNCHANGED <<attached, busy, chain, moved, result>>
  PROVE  UNCHANGED Api!vars
  BY DEF Api!vars

\* Every step of the library, the engine and the interrupt is a step of the
\* API's channel or invisible through it.
LEMMA ApiStep ==
  ASSUME Threaded = FALSE, \A m \in AttachModes : m.iid, HonestInv, [ChanNext]_chanVars
  PROVE  [Api!Next]_(Api!vars)
  <1>1. /\ TypeOK /\ BusyInv /\ LinkInv /\ ModeInv /\ ChainInv /\ FreeInv
        /\ MaskInv /\ ProgressInv /\ ResultInv
    BY DEF HonestInv, Moving, ModeInv
  <1> USE <1>1
  <1>2. CASE ChannelAttach
    <2>1. Api!Attach
      BY <1>2 DEF ChannelAttach, Api!Attach
    <2> QED BY <2>1 DEF Api!Next
  <1>3. CASE ReleaseFree
    <2>1. attached /\ ~busy
      BY <1>3 DEF ReleaseFree, FreeInv, BusyInv
    <2>2. Api!Release
      BY <1>3, <2>1 DEF ReleaseFree, Api!Release
    <2> QED BY <2>2 DEF Api!Next
  <1>4. ASSUME NEW k \in 1 .. MaxFrags, NEW rep \in RepeatModes, SetupXfer(k, rep)
        PROVE  Api!Next
    <2>1. Len(chain') = k /\ k \in 1 .. NumCbs
      BY <1>4, ControlBlocksType, BoundsAssumption, ClientAssumption DEF SetupXfer
    <2>2. Api!Setup
      BY <1>4, <2>1 DEF SetupXfer, ClientMayCall, Api!Setup
    <2> QED BY <2>2 DEF Api!Next
  <1>5. CASE Start
    <2>1. Len(chain) > 0
      BY <1>5 DEF Start, ChainInv
    <2>2. Api!Start
      BY <1>5, <2>1 DEF Start, ClientMayCall, Api!Start
    <2> QED BY <2>2 DEF Api!Next
  <1>6. CASE EngineStep
    <2>1. attached /\ busy /\ UNCHANGED <<attached, busy, chain, result>>
      BY <1>6, BlockDone DEF soft
    <2>2. CASE moved < Len(chain)
      <3>1. moved' = moved + 1
        BY <1>6, <2>2, BlockDone
      <3>2. Api!Move
        BY <2>1, <2>2, <3>1 DEF Api!Move
      <3> QED BY <3>2 DEF Api!Next
    <2>3. CASE ~(moved < Len(chain))
      <3>1. moved' = moved
        BY <1>6, <2>3, BlockDone DEF TypeOK
      <3> QED BY <2>1, <3>1, ApiStutter
    <2> QED BY <2>2, <2>3
  <1>7. ASSUME NEW t \in Threads, AbortClear(t)
        PROVE  [Api!Next]_(Api!vars)
    <2>1. attached /\ UNCHANGED <<attached, chain, moved>> /\ ~busy'
      BY <1>7 DEF AbortClear, FreeInv, Threads
    <2>2. CASE ~busy
      <3>1. UNCHANGED <<busy, result>>
        BY <1>7, <2>2 DEF AbortClear, Outcome, TypeOK
      <3> QED BY <2>1, <3>1, ApiStutter
    <2>3. CASE busy
      <3>1. result' \in {"failed", "stopped"} \/ (result' = "ok" /\ moved = Len(chain))
        BY <1>7, <2>3 DEF AbortClear, Outcome, MaskInv, ProgressInv, Ending, Threads
      <3>2. Api!Finish
        BY <2>1, <2>3, <3>1 DEF Api!Finish
      <3> QED BY <3>2 DEF Api!Next
    <2> QED BY <2>2, <2>3
  <1>8. CASE ChannelRelease \/ ReleasePause \/ StartCb \/ StartCs \/ XferAbort
    <2>1. UNCHANGED <<attached, busy, chain, moved, result>>
      BY <1>8 DEF ChannelRelease, ReleasePause, StartCb, StartCs, XferAbort, soft, hist
    <2> QED BY <2>1, ApiStutter
  <1>9. ASSUME NEW k \in 1 .. MaxFrags, NEW rep \in RepeatModes, SetupXferFails(k, rep)
        PROVE  UNCHANGED Api!vars
    <2>1. UNCHANGED <<attached, busy, chain, moved, result>>
      BY <1>9 DEF SetupXferFails, hist
    <2> QED BY <2>1, ApiStutter
  <1>10. CASE CompleteOnEvent \/ CompleteOnPoll \/ InterruptEvent
    <2>1. UNCHANGED <<attached, busy, chain, moved, result>>
      BY <1>10 DEF CompleteOnEvent, CompleteOnPoll, CompleteBegin, InterruptEvent, soft, hist
    <2> QED BY <2>1, ApiStutter
  <1>11. ASSUME NEW t \in Threads,
                \/ AbortConblk(t) \/ AbortPause(t) \/ AbortReset(t)
                \/ CompleteReadCs(t) \/ CompleteAck(t) \/ CompleteUnmask(t)
         PROVE  UNCHANGED Api!vars
    <2>1. UNCHANGED <<attached, busy, chain, moved, result>>
      BY <1>11
         DEF AbortConblk, AbortPause, AbortReset, CompleteReadCs, CompleteAck, CompleteUnmask,
             soft, hist
    <2> QED BY <2>1, ApiStutter
  <1>12. CASE UNCHANGED chanVars
    <2>1. UNCHANGED <<attached, busy, chain, moved, result>>
      BY <1>12 DEF chanVars, soft, hist
    <2> QED BY <2>1, ApiStutter
  <1> QED
    BY <1>2, <1>3, <1>4, <1>5, <1>6, <1>7, <1>8, <1>9, <1>10, <1>11, <1>12
       DEF ChanNext, ClientCall, InFlight, ThreadStep

\* With completion events the library and the engine implement the channel of
\* dma_api.README, for every number of fragments, control blocks and transfers:
\* control blocks change and handles go only while no transfer is outstanding,
\* data moves only in between xfer_start() and its end, and success means that
\* everything was moved (all of bcm2711_dmac.c:690-1070).
THEOREM ChannelImplementsApi ==
  ASSUME Threaded = FALSE, ReleaseBusy = FALSE,
         \A m \in AttachModes : m.iid /\ Honest(m)
  PROVE  ChanSpec => ImplementsApi
  <1>1. ChanInit => HonestInv
    BY HonestInit
  <1>2. HonestInv /\ [ChanNext]_chanVars => HonestInv'
    BY HonestNext
  <1>3. HonestInv /\ [ChanNext]_chanVars => [Api!Next]_(Api!vars)
    BY ApiStep
  <1>4. ChanInit => Api!Init
    BY DEF ChanInit, Api!Init
  <1> QED BY <1>1, <1>2, <1>3, <1>4, PTL DEF ChanSpec, ImplementsApi, Api!Spec
=============================================================================
