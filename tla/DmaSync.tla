------------------------------ MODULE DmaSync -------------------------------
(***************************************************************************)
(* The processes that use the DMA library side by side                     *)
(* (src/lib/dma/bcm2711/sync.c, dma_init, dma_fini, dma_channel_attach and *)
(* dma_channel_release): the shared memory object with the inter-process   *)
(* mutex and the process count, the resource database that hands out the   *)
(* channels, and the DMA_ENABLE register all of them read and write.       *)
(*                                                                         *)
(* procs_init_mutex serialises init and fini inside a process, so one      *)
(* thread stands for each process.  A process may die between any two      *)
(* steps and be started again.                                             *)
(***************************************************************************)
EXTENDS Naturals, FiniteSets

CONSTANTS
  Procs,          \* the processes that use the library
  Channels,       \* the DMA channels of the controller
  None,           \* no process, no channel
  MaxUsers,       \* bound: users of the library in one process
  MaxCrashes,     \* bound: processes that die in one behaviour
  Staggered,      \* no process opens the shared object while another one
                  \* is still creating it
  InitMayFail,    \* slog2, shm_open, mmap and the resource manager may fail
  IrqMayFail      \* InterruptAttachEvent() may fail

ASSUME ProcsAssumption ==
  /\ IsFiniteSet(Procs) /\ None \notin Procs /\ None \notin Channels
  /\ MaxUsers \in Nat /\ MaxCrashes \in Nat
  /\ {Staggered, InitMayFail, IrqMayFail} \subseteq BOOLEAN

VARIABLES
  pc,        \* where each process is in the library
  users,     \* n_users_in_process
  mapped,    \* shmem_ptr # NULL
  creator,   \* shmem_created
  shm,       \* the object /bcm2711_dmac_mutex
  mutex,     \* who holds shmem_ptr->mutex
  cnt,       \* shmem_ptr->process_cnt
  db,        \* the DMA channels exist in the resource database
  owner,     \* the process a channel is attached to in the database
  enable,    \* the DMA_ENABLE register
  reg,       \* the copy of DMA_ENABLE a process works on
  chan,      \* the channel a process is attaching or releasing
  held,      \* the channels each process has attached
  counted,   \* history: the processes that process_cnt counts
  left,      \* history: the channels a failed attach or a death left enabled
  crashes    \* processes that have died

shared == <<shm, mutex, cnt, db, owner, enable>>
locals == <<users, mapped, creator, reg, chan, held>>
vars   == <<pc, shared, locals, counted, left, crashes>>

\* The mutex is held from "incr", "att_read", "rel_read" and "decr" on.
InCs(p) ==
  pc[p] \in {"incr", "first", "create", "init_unlock",
             "att_read", "att_write", "att_unlock",
             "rel_read", "rel_write", "rel_unlock", "decr", "fini_unlock"}

Steps == {"idle", "shm", "truncate", "map", "mutex_init", "init_lock", "incr",
          "first", "create", "init_unlock", "att_lock", "att_read", "att_write",
          "att_unlock", "att_irq", "rel_lock", "rel_read", "rel_write",
          "rel_unlock", "detach", "fini_lock", "decr", "fini_unlock",
          "dinit", "null", "dead"}

SharedTypeOK ==
  /\ pc \in [Procs -> Steps]
  /\ users \in [Procs -> Nat] /\ mapped \in [Procs -> BOOLEAN]
  /\ creator \in [Procs -> BOOLEAN]
  /\ shm \in {"absent", "empty", "sized"}
  /\ mutex \in Procs \cup {None} /\ cnt \in Nat /\ db \in BOOLEAN
  /\ owner \in [Channels -> Procs \cup {None}]
  /\ enable \subseteq Channels /\ reg \in [Procs -> SUBSET Channels]
  /\ chan \in [Procs -> Channels \cup {None}]
  /\ held \in [Procs -> SUBSET Channels]
  /\ counted \subseteq Procs /\ left \subseteq Channels /\ crashes \in Nat

Init ==
  /\ pc = [p \in Procs |-> "idle"]
  /\ users = [p \in Procs |-> 0] /\ mapped = [p \in Procs |-> FALSE]
  /\ creator = [p \in Procs |-> FALSE]
  /\ shm = "absent" /\ mutex = None /\ cnt = 0 /\ db = FALSE
  /\ owner = [c \in Channels |-> None] /\ enable \in SUBSET Channels
  /\ reg = [p \in Procs |-> {}] /\ chan = [p \in Procs |-> None]
  /\ held = [p \in Procs |-> {}]
  /\ counted = {} /\ left = {} /\ crashes = 0

-----------------------------------------------------------------------------
Goto(p, step) == pc' = [pc EXCEPT ![p] = step]

From(p, step, to) == pc[p] = step /\ Goto(p, to)

\* pthread_mutex_lock() on the shared mutex.  Memory that ftruncate() has
\* just zeroed reads as a free mutex.
Lock(p) == mutex = None /\ mutex' = p

Unlock == mutex' = None

-----------------------------------------------------------------------------
\* dma_init(): only the first user of the process initialises it.
InitEnter(p) ==
  /\ pc[p] = "idle" /\ users[p] < MaxUsers
  /\ users' = [users EXCEPT ![p] = @ + 1]
  /\ Goto(p, IF users[p] = 0 THEN "shm" ELSE "idle")
  /\ UNCHANGED <<shared, mapped, creator, reg, chan, held, counted, left, crashes>>

\* Some process is between creating the object and initialising the mutex.
Creating ==
  \E q \in Procs : creator[q] /\ pc[q] \in {"truncate", "map", "mutex_init"}

\* bcm2711_dmac_sync_init(): create the object, or open the existing one.
ShmOpen(p) ==
  /\ Staggered => ~Creating
  /\ IF shm = "absent"
       THEN /\ From(p, "shm", "truncate") /\ shm' = "empty"
            /\ creator' = [creator EXCEPT ![p] = TRUE]
       ELSE /\ From(p, "shm", "map")
            /\ creator' = [creator EXCEPT ![p] = FALSE]
            /\ UNCHANGED shm
  /\ UNCHANGED <<mutex, cnt, db, owner, enable, users, mapped, reg, chan, held,
                 counted, left, crashes>>

Truncate(p) ==
  /\ From(p, "truncate", "map")
  /\ shm' = "sized"
  /\ UNCHANGED <<mutex, cnt, db, owner, enable, locals, counted, left, crashes>>

\* The object is mapped; one that has no size yet cannot be used.
Map(p) ==
  /\ shm = "sized"
  /\ From(p, "map", IF creator[p] THEN "mutex_init" ELSE "init_lock")
  /\ mapped' = [mapped EXCEPT ![p] = TRUE]
  /\ UNCHANGED <<shared, users, creator, reg, chan, held, counted, left, crashes>>

MutexInit(p) ==
  /\ From(p, "mutex_init", "init_lock")
  /\ mutex' = None
  /\ UNCHANGED <<shm, cnt, db, owner, enable, locals, counted, left, crashes>>

\* Faulty variant: a failing rsrcdb_create_resources() keeps the mutex.
InitFailLocked(p) ==
  /\ crashes < MaxCrashes
  /\ \/ InitMayFail /\ pc[p] \in {"shm", "truncate", "map", "init_lock"}
     \/ pc[p] = "map" /\ shm = "empty"
     \/ InitMayFail /\ pc[p] = "create" /\ mutex = p
  /\ mapped' = [mapped EXCEPT ![p] = FALSE]
  /\ users' = [users EXCEPT ![p] = @ - 1]
  /\ Goto(p, IF users[p] = 1 THEN "null" ELSE "idle")
  /\ UNCHANGED <<shm, mutex, cnt, db, owner, enable, creator, reg, chan, held,
                 counted, left, crashes>>

\* The error paths of dma_init(): the mapping of the first user is undone,
\* the user is taken back, and cleanup_resources() runs for the last user.
InitFail(p) ==
  /\ crashes < MaxCrashes
  /\ \/ InitMayFail /\ pc[p] \in {"shm", "truncate", "map", "init_lock"}
     \/ pc[p] = "map" /\ shm = "empty"
     \/ InitMayFail /\ pc[p] = "create" /\ mutex = p
  /\ mutex' = IF pc[p] = "create" THEN None ELSE mutex
  /\ mapped' = [mapped EXCEPT ![p] = FALSE]
  /\ users' = [users EXCEPT ![p] = @ - 1]
  /\ Goto(p, IF users[p] = 1 THEN "null" ELSE "idle")
  /\ UNCHANGED <<shm, cnt, db, owner, enable, creator, reg, chan, held,
                 counted, left, crashes>>

\* cleanup_resources() takes the mutex through shmem_ptr, which is NULL.
NullDeref(p) ==
  /\ From(p, "null", "dead")
  /\ held' = [held EXCEPT ![p] = {}] /\ users' = [users EXCEPT ![p] = 0]
  /\ crashes' = crashes + 1
  /\ UNCHANGED <<shared, mapped, creator, reg, chan, counted, left>>

InitLock(p) ==
  /\ From(p, "init_lock", "incr")
  /\ Lock(p)
  /\ UNCHANGED <<shm, cnt, db, owner, enable, locals, counted, left, crashes>>

Incr(p) ==
  /\ From(p, "incr", "first")
  /\ cnt' = cnt + 1 /\ counted' = counted \cup {p}
  /\ UNCHANGED <<shm, mutex, db, owner, enable, locals, left, crashes>>

\* Faulty variant: every process disables all channels.
FirstAlways(p) ==
  /\ From(p, "first", "create")
  /\ enable' = {}
  /\ UNCHANGED <<shm, mutex, cnt, db, owner, locals, counted, left, crashes>>

\* The first process disables all channels.
First(p) ==
  /\ From(p, "first", "create")
  /\ enable' = IF cnt = 1 THEN {} ELSE enable
  /\ UNCHANGED <<shm, mutex, cnt, db, owner, locals, counted, left, crashes>>

\* rsrcdb_create_resources(): EALREADY when the channels exist.
Create(p) ==
  /\ From(p, "create", "init_unlock")
  /\ db' = TRUE
  /\ UNCHANGED <<shm, mutex, cnt, owner, enable, locals, counted, left, crashes>>

InitUnlock(p) ==
  /\ From(p, "init_unlock", "idle")
  /\ Unlock
  /\ UNCHANGED <<shm, cnt, db, owner, enable, locals, counted, left, crashes>>

-----------------------------------------------------------------------------
\* Faulty variant: a channel is reserved without RSRCDBMGR exclusion.
AttachShared(p, c) ==
  /\ pc[p] = "idle" /\ users[p] > 0
  /\ db
  /\ owner' = [owner EXCEPT ![c] = p]
  /\ chan' = [chan EXCEPT ![p] = c]
  /\ Goto(p, "att_lock")
  /\ UNCHANGED <<shm, mutex, cnt, db, enable, users, mapped, creator, reg, held,
                 counted, left, crashes>>

\* dma_channel_attach(): a free channel from the resource database ...
Attach(p, c) ==
  /\ pc[p] = "idle" /\ users[p] > 0
  /\ db /\ owner[c] = None
  /\ owner' = [owner EXCEPT ![c] = p]
  /\ chan' = [chan EXCEPT ![p] = c]
  /\ Goto(p, "att_lock")
  /\ UNCHANGED <<shm, mutex, cnt, db, enable, users, mapped, creator, reg, held,
                 counted, left, crashes>>

\* Faulty variant: DMA_ENABLE is changed without the mutex.
AttachNoLock(p) ==
  /\ From(p, "att_lock", "att_read")
  /\ UNCHANGED <<shared, locals, counted, left, crashes>>

\* ... and its bit in DMA_ENABLE, under the mutex: lock,
AttachLock(p) ==
  /\ From(p, "att_lock", "att_read")
  /\ Lock(p)
  /\ UNCHANGED <<shm, cnt, db, owner, enable, locals, counted, left, crashes>>

\* read,
AttachRead(p) ==
  /\ From(p, "att_read", "att_write")
  /\ reg' = [reg EXCEPT ![p] = enable \cup {chan[p]}]
  /\ UNCHANGED <<shared, users, mapped, creator, chan, held, counted, left, crashes>>

\* write,
AttachWrite(p) ==
  /\ From(p, "att_write", "att_unlock")
  /\ enable' = reg[p]
  /\ UNCHANGED <<shm, mutex, cnt, db, owner, locals, counted, left, crashes>>

\* unlock.
AttachUnlock(p) ==
  /\ From(p, "att_unlock", "att_irq")
  /\ Unlock
  /\ UNCHANGED <<shm, cnt, db, owner, enable, locals, counted, left, crashes>>

\* The handle is returned.
AttachDone(p) ==
  /\ From(p, "att_irq", "idle")
  /\ held' = [held EXCEPT ![p] = @ \cup {chan[p]}]
  /\ chan' = [chan EXCEPT ![p] = None]
  /\ UNCHANGED <<shared, users, mapped, creator, reg, counted, left, crashes>>

\* InterruptAttachEvent() fails: the channel goes back to the database and
\* stays enabled.
AttachFail(p) ==
  /\ IrqMayFail
  /\ From(p, "att_irq", "idle")
  /\ owner' = [owner EXCEPT ![chan[p]] = None]
  /\ left' = left \cup {chan[p]}
  /\ chan' = [chan EXCEPT ![p] = None]
  /\ UNCHANGED <<shm, mutex, cnt, db, enable, users, mapped, creator, reg, held,
                 counted, crashes>>

-----------------------------------------------------------------------------
\* dma_channel_release(): the handle is gone, lock,
Release(p, c) ==
  /\ pc[p] = "idle" /\ c \in held[p]
  /\ held' = [held EXCEPT ![p] = @ \ {c}]
  /\ chan' = [chan EXCEPT ![p] = c]
  /\ Goto(p, "rel_lock")
  /\ UNCHANGED <<shared, users, mapped, creator, reg, counted, left, crashes>>

ReleaseLock(p) ==
  /\ From(p, "rel_lock", "rel_read")
  /\ Lock(p)
  /\ UNCHANGED <<shm, cnt, db, owner, enable, locals, counted, left, crashes>>

\* clear the channel's bit in DMA_ENABLE,
ReleaseRead(p) ==
  /\ From(p, "rel_read", "rel_write")
  /\ reg' = [reg EXCEPT ![p] = enable \ {chan[p]}]
  /\ UNCHANGED <<shared, users, mapped, creator, chan, held, counted, left, crashes>>

\* Faulty variant: the channel is not disabled.
ReleaseWriteForgotten(p) ==
  /\ From(p, "rel_write", "rel_unlock")
  /\ UNCHANGED <<shared, locals, counted, left, crashes>>

ReleaseWrite(p) ==
  /\ From(p, "rel_write", "rel_unlock")
  /\ enable' = reg[p]
  /\ UNCHANGED <<shm, mutex, cnt, db, owner, locals, counted, left, crashes>>

ReleaseUnlock(p) ==
  /\ From(p, "rel_unlock", "detach")
  /\ Unlock
  /\ UNCHANGED <<shm, cnt, db, owner, enable, locals, counted, left, crashes>>

\* and detach the channel in the resource database.
Detach(p) ==
  /\ From(p, "detach", "idle")
  /\ owner' = [owner EXCEPT ![chan[p]] = None]
  /\ chan' = [chan EXCEPT ![p] = None]
  /\ UNCHANGED <<shm, mutex, cnt, db, enable, users, mapped, creator, reg, held,
                 counted, left, crashes>>

-----------------------------------------------------------------------------
\* Faulty variant: every dma_fini() cleans up.
FiniEveryUser(p) ==
  /\ pc[p] = "idle" /\ users[p] > 0
  /\ users[p] = 1 => held[p] = {}
  /\ users' = [users EXCEPT ![p] = @ - 1]
  /\ Goto(p, "fini_lock")
  /\ UNCHANGED <<shared, mapped, creator, reg, chan, held, counted, left, crashes>>

\* dma_fini(); the last user of a process has released its channels.
Fini(p) ==
  /\ pc[p] = "idle" /\ users[p] > 0
  /\ users[p] = 1 => held[p] = {}
  /\ users' = [users EXCEPT ![p] = @ - 1]
  /\ Goto(p, IF users[p] = 1 THEN "fini_lock" ELSE "idle")
  /\ UNCHANGED <<shared, mapped, creator, reg, chan, held, counted, left, crashes>>

\* cleanup_resources()
FiniLock(p) ==
  /\ From(p, "fini_lock", "decr")
  /\ Lock(p)
  /\ UNCHANGED <<shm, cnt, db, owner, enable, locals, counted, left, crashes>>

\* Faulty variant: process_cnt is not decremented.
DecrForgotten(p) ==
  /\ From(p, "decr", "fini_unlock")
  /\ counted' = counted \ {p}
  /\ UNCHANGED <<shm, mutex, cnt, db, owner, enable, locals, left, crashes>>

Decr(p) ==
  /\ From(p, "decr", "fini_unlock")
  /\ cnt' = cnt - 1 /\ counted' = counted \ {p}
  /\ UNCHANGED <<shm, mutex, db, owner, enable, locals, left, crashes>>

FiniUnlock(p) ==
  /\ From(p, "fini_unlock", "dinit")
  /\ Unlock
  /\ UNCHANGED <<shm, cnt, db, owner, enable, locals, counted, left, crashes>>

\* The mapping is given back; the object stays.
Dinit(p) ==
  /\ From(p, "dinit", "idle")
  /\ mapped' = [mapped EXCEPT ![p] = FALSE]
  /\ UNCHANGED <<shared, users, creator, reg, chan, held, counted, left, crashes>>

-----------------------------------------------------------------------------
\* A process dies: the resource manager takes its channels back; the mutex,
\* process_cnt and DMA_ENABLE stay as they are.
Crash(p) ==
  /\ crashes < MaxCrashes /\ pc[p] # "dead"
  /\ Goto(p, "dead") /\ crashes' = crashes + 1
  /\ owner' = [c \in Channels |-> IF owner[c] = p THEN None ELSE owner[c]]
  /\ left' = left \cup {c \in Channels : owner[c] = p}
  /\ held' = [held EXCEPT ![p] = {}] /\ users' = [users EXCEPT ![p] = 0]
  /\ UNCHANGED <<shm, mutex, cnt, db, enable, mapped, creator, reg, chan, counted>>

\* It is started again with fresh statics.
Restart(p) ==
  /\ From(p, "dead", "idle")
  /\ mapped' = [mapped EXCEPT ![p] = FALSE]
  /\ creator' = [creator EXCEPT ![p] = FALSE]
  /\ chan' = [chan EXCEPT ![p] = None] /\ reg' = [reg EXCEPT ![p] = {}]
  /\ UNCHANGED <<shared, users, held, counted, left, crashes>>

-----------------------------------------------------------------------------
\* Steps that wait for the mutex, and the other steps inside the library.
LockStep(p) == InitLock(p) \/ AttachLock(p) \/ ReleaseLock(p) \/ FiniLock(p)

LibStep(p) ==
  \/ ShmOpen(p) \/ Truncate(p) \/ Map(p) \/ MutexInit(p)
  \/ Incr(p) \/ First(p) \/ Create(p) \/ InitUnlock(p)
  \/ AttachRead(p) \/ AttachWrite(p) \/ AttachUnlock(p) \/ AttachDone(p)
  \/ ReleaseRead(p) \/ ReleaseWrite(p) \/ ReleaseUnlock(p) \/ Detach(p)
  \/ Decr(p) \/ FiniUnlock(p) \/ Dinit(p) \/ NullDeref(p)

Call(p) ==
  \/ InitEnter(p) \/ Fini(p)
  \/ \E c \in Channels : Attach(p, c) \/ Release(p, c)

Fault(p) == InitFail(p) \/ AttachFail(p) \/ Crash(p) \/ Restart(p)

Next == \E p \in Procs : LockStep(p) \/ LibStep(p) \/ Call(p) \/ Fault(p)

Spec == Init /\ [][Next]_vars

-----------------------------------------------------------------------------
(* Properties                                                              *)

\* sync.c:38: the mutex guards all global resources, so at most one process
\* is in a section that works on the count, the database or DMA_ENABLE.
MutexExclusive ==
  \A p, q \in Procs : (InCs(p) /\ InCs(q)) => p = q

\* A channel whose handle a driver holds is enabled: no read-modify-write of
\* another process and no "first process" reset switches it off
\* (dma_channel_attach:1185, dma_channel_release:1239, dma_init:1312).
AttachedIsEnabled ==
  \A p \in Procs : held[p] \subseteq enable

\* No channel belongs to two processes, and a handle is good for a channel
\* the database still assigns to its process (rsrcdb_attach_channel).
HeldIsOwned ==
  \A p \in Procs : \A c \in held[p] : owner[c] = p

\* Only channels some process has claimed are enabled once the library is in
\* use (dma_channel_release, dma_init): what was enabled before the first
\* process came, or by a process that released it, is off.  Only a failed
\* dma_channel_attach() and a death leave a channel enabled behind.
EnabledIsOwned ==
  (mutex = None /\ counted # {}) => \A c \in enable \ left : owner[c] # None

\* process_cnt is the number of processes that use the library, and never
\* falls below it even when some died: a process that finds 1 and resets
\* DMA_ENABLE is the only one (bcm2711_dmac_sync_is_first_process).
CountCoversUsers ==
  /\ cnt >= Cardinality({p \in counted : pc[p] # "dead"})
  /\ crashes = 0 => cnt = Cardinality(counted)

\* A process waits for the mutex only behind one that is inside its section
\* and comes out of it, unless that one died there: every path, the failing
\* ones of dma_init() included, unlocks what it locked, and no two processes
\* wait for each other (pthread_mutex_lock in dma_init, dma_channel_attach,
\* dma_channel_release, cleanup_resources).
HolderIsInside == (mutex # None /\ crashes = 0) => InCs(mutex)

\* DMA_ENABLE and process_cnt are right: what is in use is enabled and owned,
\* and only the first process ever resets them.
EnableIsRight == SharedTypeOK /\ AttachedIsEnabled /\ EnabledIsOwned /\ CountCoversUsers
=============================================================================
