----------------------------- MODULE CoreProofs -----------------------------
(***************************************************************************)
(* Theorems about the core of the server: Idempotency, for every set of    *)
(* requests, and Shutdown, for every set of requests, jobs and connections *)
(* and any number of calls of a handler.                                   *)
(*                                                                         *)
(* HolderInside: while no unlock took effect twice, a request whose        *)
(* handler runs holds the lock, and one that is to unlock holds it or has  *)
(* freed it before.  It is inductive for either store and gives OneInside. *)
(*                                                                         *)
(* MissedBehind is what the order of microtasks adds: while a response is  *)
(* stored, a request that missed is queued before the unlock of the one    *)
(* that stored it, so it finds the key locked.                             *)
(*                                                                         *)
(* ShutdownInv ties the connections to the handlers that work on them and  *)
(* the queue of the pool to those that wait, and says of each part that    *)
(* was closed who no longer is at work: beyond the close of the server,    *)
(* the requests whose client did not hang up.                              *)
(***************************************************************************)
EXTENDS Idempotency, Shutdown, FiniteSetTheorems, SequenceTheorems, TLAPS

HolderInside ==
    again = {} =>
        \A r \in Requests :
            /\ pc[r] = "handling" => lock = {r} /\ r \notin unlocked
            /\ pc[r] \in {"answering", "stored"} => lock = {r} \/ r \in unlocked

\* No call of the in-memory store rejects, so onSend runs once.
OnceInMemory ==
    inMemory =>
        /\ again = {}
        /\ \A r \in Requests :
              pc[r] # "answering" /\ (r \in unlocked => pc[r] \in {"sent", "stopped"})

\* A request that never reached its unlock did not free the key.
UnlockedLate ==
    \A r \in unlocked : pc[r] \in {"answering", "stored", "sent", "stopped"}

MissedBehind ==
    \A r \in Requests : pc[r] = "missed" /\ Stored # {} =>
        \E h \in Requests : pc[h] = "stored" /\ lock = {h} /\ r \in ahead[h]

HandlingBeforeStored == \A r \in Requests : pc[r] = "handling" => Stored = {}

IInv == IdemTypeOK /\ HolderInside /\ UnlockedLate /\ OnceInMemory

MemoryInv == IInv /\ (inMemory => MissedBehind /\ HandlingBeforeStored)

-----------------------------------------------------------------------------

\* What one call of a hook is: the disjuncts of IdemNext for a request.
RequestStep(r) ==
    \/ GetHit(r) \/ GetMiss(r) \/ TryLock(r) \/ LockRefused(r)
    \/ Set(r) \/ Unlock(r)
    \/ SetRejects(r) \/ UnlockRejects(r) \/ LockReplyLost(r) \/ Stop(r)

LEMMA NextIsStep ==
    ASSUME IdemNext
    PROVE (\E r \in Requests : RequestStep(r)) \/ Expire \/ LockLapses
BY DEF IdemNext, RequestStep

LEMMA SameStore ==
    ASSUME [IdemNext]_idemVars
    PROVE inMemory' = inMemory
BY DEF IdemNext, idemVars

\* The initial state satisfies both invariants.
LEMMA InitMemoryInv == IdemInit => MemoryInv
BY DEF IdemInit, MemoryInv, IInv, IdemTypeOK, HolderInside, UnlockedLate, OnceInMemory,
       MissedBehind, HandlingBeforeStored, Stored, States

\* Type correctness and HolderInside are preserved by every step, of either store.
LEMMA NextIInv == IInv /\ [IdemNext]_idemVars => IInv'
<1> SUFFICES ASSUME IInv, [IdemNext]_idemVars PROVE IInv'
  OBVIOUS
<1> USE SameStore DEF IInv
<1>1. CASE UNCHANGED idemVars
  BY <1>1 DEF idemVars, IdemTypeOK, HolderInside, UnlockedLate, OnceInMemory
<1>2. ASSUME NEW r \in Requests, RequestStep(r) PROVE IInv'
  <2>1. CASE GetHit(r)
    BY <2>1 DEF GetHit, States, store, unlocks,
                IdemTypeOK, HolderInside, UnlockedLate, OnceInMemory
  <2>2. CASE GetMiss(r)
    <3>1. /\ pc[r] = "idle"
          /\ pc' = [pc EXCEPT ![r] = "missed"]
          /\ lock' = lock /\ unlocked' = unlocked /\ again' = again
      BY <2>2 DEF GetMiss, Await, unlocks
    <3>2. IdemTypeOK'
      BY <2>2, <3>1 DEF GetMiss, Await, Awaiting, States, unlocks, IdemTypeOK
    <3> QED
      BY <3>1, <3>2 DEF IdemTypeOK, HolderInside, UnlockedLate, OnceInMemory
  <2>3. CASE TryLock(r)
    BY <2>3 DEF TryLock, Advance, LockGranted, States, unlocks,
                IdemTypeOK, HolderInside, UnlockedLate, OnceInMemory
  <2>4. CASE LockRefused(r)
    BY <2>4 DEF LockRefused, Advance, States, store, unlocks,
                IdemTypeOK, HolderInside, UnlockedLate, OnceInMemory
  <2>5. CASE Set(r)
    <3>1. /\ pc[r] \in {"handling", "answering"}
          /\ pc' = [pc EXCEPT ![r] = "stored"]
          /\ lock' = lock /\ unlocked' = unlocked /\ again' = again
      BY <2>5 DEF Set, Replying, Await, unlocks
    <3>2. IdemTypeOK'
      BY <2>5, <3>1 DEF Set, Stores, Replying, Await, Awaiting, States, unlocks, IdemTypeOK
    <3> QED
      BY <3>1, <3>2 DEF IdemTypeOK, HolderInside, UnlockedLate, OnceInMemory
  <2>6. CASE Unlock(r)
    BY <2>6 DEF Unlock, Unlocks, Advance, States,
                IdemTypeOK, HolderInside, UnlockedLate, OnceInMemory
  <2>7. CASE SetRejects(r)
    <3>1. /\ ~inMemory /\ pc[r] \in {"handling", "answering"}
          /\ pc' = [pc EXCEPT ![r] = "answering"]
          /\ lock' = lock /\ unlocked' = unlocked /\ again' = again
      BY <2>7 DEF SetRejects, Replying, Advance, unlocks
    <3>2. IdemTypeOK'
      BY <2>7, <3>1 DEF SetRejects, Stores, Replying, Advance, States, unlocks, IdemTypeOK
    <3> QED
      BY <3>1, <3>2 DEF IdemTypeOK, HolderInside, UnlockedLate, OnceInMemory
  <2>8. CASE UnlockRejects(r)
    BY <2>8 DEF UnlockRejects, Unlocks, Advance, States, unlocks,
                IdemTypeOK, HolderInside, UnlockedLate, OnceInMemory
  <2>9. CASE LockReplyLost(r)
    BY <2>9 DEF LockReplyLost, LockGranted, Advance, States, unlocks,
                IdemTypeOK, HolderInside, UnlockedLate, OnceInMemory
  <2>10. CASE Stop(r)
    BY <2>10 DEF Stop, Advance, States, store, unlocks,
                IdemTypeOK, HolderInside, UnlockedLate, OnceInMemory
  <2> QED
    BY <1>2, <2>1, <2>2, <2>3, <2>4, <2>5, <2>6, <2>7, <2>8, <2>9, <2>10 DEF RequestStep
<1>3. CASE Expire
  BY <1>3 DEF Expire, unlocks, IdemTypeOK, HolderInside, UnlockedLate, OnceInMemory
<1>4. CASE LockLapses
  BY <1>4 DEF LockLapses, unlocks, IdemTypeOK, HolderInside, UnlockedLate, OnceInMemory
<1> QED
  BY <1>1, <1>2, <1>3, <1>4, NextIsStep

\* The in-memory store preserves the order between a missed lookup and the unlock.
LEMMA NextMemoryInv ==
    ASSUME MemoryInv, [IdemNext]_idemVars
    PROVE MemoryInv'
<1> SUFFICES ASSUME inMemory PROVE MemoryInv'
  BY NextIInv, SameStore DEF MemoryInv
<1>0. IInv /\ IInv'
  BY NextIInv DEF MemoryInv
<1> USE SameStore DEF MemoryInv
<1>1. CASE UNCHANGED idemVars
  BY <1>0, <1>1 DEF idemVars, MissedBehind, HandlingBeforeStored, Stored
<1>2. ASSUME NEW r \in Requests, RequestStep(r) PROVE MemoryInv'
  <2>1. CASE GetHit(r)
    BY <1>0, <2>1 DEF GetHit, IInv, IdemTypeOK, MissedBehind, HandlingBeforeStored, Stored, store
  <2>2. CASE GetMiss(r)
    BY <1>0, <2>2 DEF GetMiss, MissedBehind, HandlingBeforeStored, Stored
  <2>3. CASE TryLock(r)
    <3>1. Stored = {}
      BY <2>3 DEF TryLock, LockGranted, MissedBehind
    <3> QED
      BY <1>0, <2>3, <3>1 DEF TryLock, MissedBehind, HandlingBeforeStored, Stored
  <2>4. CASE LockRefused(r)
    <3>1. pc' = [pc EXCEPT ![r] = "conflict"] /\ lock' = lock /\ Stored' = Stored
      BY <2>4 DEF LockRefused, Advance, store, Stored
    <3>2. \A h \in Requests : ahead'[h] = ahead[h] \ {r}
      BY <2>4 DEF LockRefused, Advance
    <3>3. MissedBehind'
      BY <1>0, <2>4, <3>1, <3>2 DEF LockRefused, MissedBehind, IInv, IdemTypeOK
    <3>4. HandlingBeforeStored'
      BY <1>0, <3>1 DEF HandlingBeforeStored, IInv, IdemTypeOK
    <3> QED
      BY <1>0, <3>3, <3>4
  <2>5. CASE Set(r)
    <3>1. lock = {r} /\ lock' = lock
      BY <1>0, <2>5 DEF Set, Replying, IInv, HolderInside, OnceInMemory
    <3>2. pc' = [pc EXCEPT ![r] = "stored"] /\ ahead'[r] = Awaiting
      BY <1>0, <2>5 DEF Set, Await, IInv, IdemTypeOK
    <3>3. MissedBehind'
      BY <1>0, <3>1, <3>2 DEF MissedBehind, Awaiting, IInv, IdemTypeOK
    <3>4. HandlingBeforeStored'
      BY <1>0, <3>1, <3>2 DEF HandlingBeforeStored, IInv, IdemTypeOK, HolderInside,
                             OnceInMemory
    <3> QED
      BY <1>0, <3>3, <3>4
  <2>6. CASE Unlock(r)
    <3>1. lock = {r} /\ ahead[r] = {}
      BY <1>0, <2>6 DEF Unlock, Resumes, IInv, HolderInside, OnceInMemory
    <3>2. pc' = [pc EXCEPT ![r] = "sent"] /\ Stored' = Stored
      BY <2>6 DEF Unlock, Advance, Stored
    <3>3. \A other \in Requests : pc[other] = "missed" => Stored = {}
      BY <3>1 DEF MissedBehind
    <3> QED
      BY <1>0, <3>2, <3>3 DEF MissedBehind, HandlingBeforeStored, IInv, IdemTypeOK
  <2>7. ~SetRejects(r) /\ ~UnlockRejects(r) /\ ~LockReplyLost(r) /\ ~Stop(r)
    BY DEF SetRejects, UnlockRejects, LockReplyLost, Stop
  <2> QED
    BY <1>2, <2>1, <2>2, <2>3, <2>4, <2>5, <2>6, <2>7 DEF RequestStep
<1>3. CASE Expire
  BY <1>0, <1>3 DEF Expire, MissedBehind, HandlingBeforeStored, Stored
<1>4. CASE LockLapses
  BY <1>4 DEF LockLapses
<1> QED
  BY <1>1, <1>2, <1>3, <1>4, NextIsStep

-----------------------------------------------------------------------------

\* The inductive invariant of either store holds in every reachable state.
THEOREM IdempotencyInvariant == IdemSpec => []IInv
<1>1. IdemInit => IInv
  BY InitMemoryInv DEF MemoryInv
<1>2. IInv /\ [IdemNext]_idemVars => IInv'
  BY NextIInv
<1> QED
  BY <1>1, <1>2, PTL DEF IdemSpec

\* Every reachable state has its shape, and a request that was answered does not hold
\* the lock.
THEOREM IdempotencyTypeCorrect == IdemSpec => []IdemTypeOK
<1>1. IInv => IdemTypeOK
  BY DEF IInv
<1> QED
  BY <1>1, IdempotencyInvariant, PTL

\* No two requests of one key are in the route's handler together while no unlock took
\* effect twice, and never on the in-memory store.
THEOREM IdempotencyOneInside == IdemSpec => []OneInside
<1>1. IInv => OneInside
  BY DEF IInv, HolderInside, OnceInMemory, OneInside
<1> QED
  BY <1>1, IdempotencyInvariant, PTL

\* With the in-memory store the handler never starts while a response is stored.
THEOREM IdempotencyReplayedNotRerun == IdemSpec => ReplayedNotRerun
<1> DEFINE NotRerun == \A r \in Requests :
                inMemory /\ pc[r] = "missed" /\ pc'[r] = "handling" => Stored = {}
<1>1. IdemInit => MemoryInv
  BY InitMemoryInv
<1>2. MemoryInv /\ [IdemNext]_idemVars => MemoryInv'
  BY NextMemoryInv
<1>3. MemoryInv /\ [IdemNext]_idemVars => [NotRerun]_idemVars
  <2> SUFFICES ASSUME MemoryInv, IdemNext, inMemory,
                      NEW r \in Requests, pc[r] = "missed", pc'[r] = "handling"
               PROVE Stored = {}
    BY DEF idemVars
  <2>1. ASSUME NEW q \in Requests, RequestStep(q) PROVE q = r
    BY <2>1 DEF RequestStep, GetHit, GetMiss, TryLock, LockRefused, Set, Unlock,
                SetRejects, UnlockRejects,
                LockReplyLost, Stop, Await, Advance, MemoryInv, IInv, IdemTypeOK
  <2>2. ~Expire /\ ~LockLapses
    BY DEF Expire, LockLapses
  <2>3. TryLock(r)
    BY <2>1, <2>2, NextIsStep DEF RequestStep, GetHit, GetMiss, LockRefused, Set, Unlock,
                SetRejects, UnlockRejects,
                LockReplyLost, Stop, Await, Advance, MemoryInv, IInv, IdemTypeOK
  <2> QED
    BY <2>3 DEF TryLock, LockGranted, MemoryInv, MissedBehind
<1> QED
  BY <1>1, <1>2, <1>3, PTL DEF IdemSpec, ReplayedNotRerun

\* With the in-memory store a stored response is not replaced before it expires.
THEOREM IdempotencyAnswerKept == IdemSpec => AnswerKept
<1> DEFINE Kept == inMemory /\ Stored # {} /\ ~expired' => cache' = cache
<1>1. IdemInit => MemoryInv
  BY InitMemoryInv
<1>2. MemoryInv /\ [IdemNext]_idemVars => MemoryInv'
  BY NextMemoryInv
<1>3. MemoryInv /\ [IdemNext]_idemVars => [Kept]_idemVars
  <2> SUFFICES ASSUME MemoryInv, IdemNext, inMemory, Stored # {}
               PROVE cache' = cache
    BY DEF idemVars
  <2>1. ASSUME NEW r \in Requests, RequestStep(r) PROVE cache' = cache
    BY <2>1 DEF RequestStep, GetHit, GetMiss, TryLock, LockRefused, Set, Unlock,
                SetRejects, UnlockRejects, LockReplyLost, Stop, Replying,
                MemoryInv, IInv, OnceInMemory, HandlingBeforeStored, store
  <2>2. Expire \/ LockLapses => cache' = cache
    BY DEF Expire, LockLapses
  <2> QED
    BY <2>1, <2>2, NextIsStep
<1> QED
  BY <1>1, <1>2, <1>3, PTL DEF IdemSpec, AnswerKept
-----------------------------------------------------------------------------
(* Shutdown.                                                                *)

\* A handler works on a connection in a transaction, for the statement it sent or
\* for the append of its audit entries.
OnConnection(h) == h \in tx \/ work[h] \in {"querying", "appending"}

\* Each connection has one owner and each owner one connection.
OwnersWork ==
    /\ \A h \in Handlers : OnConnection(h) <=> \E c \in Connections : owner[c] = h
    /\ \A c, d \in Connections : owner[c] = owner[d] /\ owner[c] # Nobody => c = d
    /\ \A h \in tx : work[h] = "running"

AuditStates ==
    /\ \A h \in Handlers : work[h] \in {"queued", "appending"} => h \in Served
    /\ \A h \in Handlers : work[h] = "unwritten" => h \in gone

\* The queue in front of the pool holds those who asked, once each, and is empty
\* while a connection is free.
QueueOfAsking ==
    /\ \A i \in DOMAIN waiting :
        work[waiting[i][1]] = IF waiting[i][2] = "append" THEN "queued" ELSE "asking"
    /\ \A i, k \in DOMAIN waiting : waiting[i][1] = waiting[k][1] => i = k
    /\ \A h \in Handlers :
        work[h] \in {"asking", "queued"} => \E i \in DOMAIN waiting : waiting[i][1] = h
    /\ waiting # <<>> /\ stage < 4 => \A c \in Connections : owner[c] # Nobody

\* What each closed part leaves behind.
ClosedInOrder ==
    /\ stage > 1 => \A r \in Served : Busy(r) => r \in gone
    /\ stage > 2 => \A j \in Jobs : ~Busy(j)
    /\ stage > 4 => \A c \in Connections : owner[c] = Nobody
    /\ exit = "clean" => stage > 5
    /\ ~called => stage = 0

\* Who held the connections when the pool was ended while an append waited.
CrowdOfAppends ==
    stage > 3 /\ (\E r \in Served : work[r] = "queued") =>
        crowd \subseteq Served /\ Cardinality(crowd) = Cardinality(Connections)

ShutdownInv ==
    /\ ShutdownTypeOK
    /\ OwnersWork
    /\ AuditStates
    /\ QueueOfAsking
    /\ ClosedInOrder
    /\ CrowdOfAppends
    /\ late \subseteq gone

\* The position of each part in the order of closing.
LEMMA Positions ==
    /\ Len(CloseOrder) = 5 /\ DOMAIN CloseOrder = 1..5
    /\ Index("http") = 1 /\ Index("workers") = 2 /\ Index("queues") = 3
    /\ Index("pool") = 4 /\ Index("redis") = 5
<1>1. /\ Len(CloseOrder) = 5 /\ DOMAIN CloseOrder = 1..5
      /\ CloseOrder[1] = "http" /\ CloseOrder[2] = "workers" /\ CloseOrder[3] = "queues"
      /\ CloseOrder[4] = "pool" /\ CloseOrder[5] = "redis"
  BY DEF CloseOrder
<1>2. ASSUME NEW i \in 1..5, NEW k \in 1..5, CloseOrder[i] = CloseOrder[k] PROVE i = k
  <2>1. /\ i = 1 \/ i = 2 \/ i = 3 \/ i = 4 \/ i = 5
        /\ k = 1 \/ k = 2 \/ k = 3 \/ k = 4 \/ k = 5
    BY SMT
  <2> QED
    BY <1>1, <1>2, <2>1, SMTT(30)
<1>3. ASSUME NEW i \in 1..5 PROVE Index(CloseOrder[i]) = i
  BY <1>1, <1>2 DEF Index
<1> QED
  BY <1>1, <1>3

\* The initial state satisfies the invariant.
LEMMA InitShutdownInv == ShutdownInit => ShutdownInv
<1> SUFFICES ASSUME ShutdownInit PROVE ShutdownInv
  OBVIOUS
<1> USE ShutdownConstants, Positions DEF ShutdownInit
<1>1. ShutdownTypeOK
  <2>0. called \in BOOLEAN
    BY Zenon
  <2>1. /\ exit \in {"alive", "clean", "forced", "failed"}
        /\ stage \in 0..Len(CloseOrder) + 1
        /\ tx \subseteq Handlers /\ late \subseteq Handlers /\ crowd \subseteq Handlers
        /\ gone \subseteq Served
    OBVIOUS
  <2>2. waiting \in Seq(Handlers \X {"begin", "statement", "append"})
    OBVIOUS
  <2>3. /\ work \in [Handlers -> {"idle", "running", "asking", "querying", "queued",
                                 "appending", "unwritten", "done"}]
        /\ owner \in [Connections -> Handlers \union {Nobody}]
        /\ calls \in [Handlers -> 0..MaxCalls]
    OBVIOUS
  <2> QED
    BY <2>0, <2>1, <2>2, <2>3 DEF ShutdownTypeOK
<1>2. OwnersWork
  BY DEF OwnersWork, OnConnection, Handlers
<1>3. AuditStates /\ ClosedInOrder /\ CrowdOfAppends
  BY DEF AuditStates, ClosedInOrder, CrowdOfAppends, Handlers
<1>4. QueueOfAsking
  BY DEF QueueOfAsking, Handlers
<1> QED
  BY <1>1, <1>2, <1>3, <1>4 DEF ShutdownInv

\* Whoever stays busy was busy: a part that was drained stays so.
LEMMA DrainedStays ==
    ASSUME ClosedInOrder, UNCHANGED process, \A h \in Handlers : Busy(h)' => Busy(h),
           stage > 4 => \A c \in Connections : owner'[c] = Nobody
    PROVE  ClosedInOrder'
BY DEF ClosedInOrder, process, Handlers, Busy

\* No new append waits once the pool was ended.
LEMMA CrowdStays ==
    ASSUME CrowdOfAppends, UNCHANGED process,
           stage > 3 => \A h \in Handlers : work'[h] = "queued" => work[h] = "queued"
    PROVE  CrowdOfAppends'
BY DEF CrowdOfAppends, process, Handlers

\* A handler outside of a transaction asks a pool that is open.
LEMMA ConnectKeeps ==
    ASSUME ShutdownInv, UNCHANGED <<process, late>>, calls' \in [Handlers -> 0..MaxCalls],
           NEW h \in Handlers, NEW purpose \in {"begin", "statement", "append"},
           work[h] = "running", h \notin tx, ~Closing("pool"),
           purpose = "append" => h \in Served,
           Connect(h, purpose)
    PROVE  ShutdownInv'
<1> USE ShutdownConstants DEF ShutdownInv
<1>0. /\ stage \in 0..3 /\ stage' = stage /\ UNCHANGED process /\ h # Nobody
      /\ gone' = gone /\ late' = late
      /\ ~OnConnection(h) /\ \A c \in Connections : owner[c] # h
      /\ work \in [Handlers -> {"idle", "running", "asking", "querying",
                                   "queued", "appending", "unwritten", "done"}]
      /\ owner \in [Connections -> Handlers \union {Nobody}]
      /\ tx \subseteq Handlers
      /\ waiting \in Seq(Handlers \X {"begin", "statement", "append"})
  <2>1. /\ ShutdownTypeOK /\ UNCHANGED process /\ stage' = stage
        /\ gone' = gone /\ late' = late
    BY DEF process
  <2>2. stage \in 0..3
    BY <2>1, Positions DEF Closing, ShutdownTypeOK
  <2>3. ~OnConnection(h)
    BY DEF OnConnection
  <2>4. \A c \in Connections : owner[c] # h
    BY <2>3 DEF OwnersWork
  <2> QED
    BY <2>1, <2>2, <2>3, <2>4 DEF ShutdownTypeOK
<1>1. CASE \E c \in Connections :
             /\ owner[c] = Nobody
             /\ owner' = [owner EXCEPT ![c] = h]
             /\ Go(h, Place(purpose))
             /\ tx' = Begun(tx, h, purpose)
             /\ UNCHANGED waiting
  <2> PICK c \in Connections : /\ owner[c] = Nobody
                               /\ owner' = [owner EXCEPT ![c] = h]
                               /\ Go(h, Place(purpose))
                               /\ tx' = Begun(tx, h, purpose)
                               /\ UNCHANGED waiting
    BY <1>1
  <2>0. /\ waiting = <<>>
        /\ Place(purpose) \in {"running", "querying", "appending"}
        /\ work' = [work EXCEPT ![h] = Place(purpose)]
        /\ purpose = "begin" => Place(purpose) = "running" /\ tx' = tx \union {h}
        /\ purpose = "statement" => Place(purpose) = "querying" /\ tx' = tx
        /\ purpose = "append" => Place(purpose) = "appending" /\ tx' = tx
    BY <1>0 DEF QueueOfAsking, Place, Go, Begun
  <2>1. ShutdownTypeOK'
    BY <1>0, <2>0 DEF ShutdownTypeOK, process
  <2>2. OwnersWork'
    <3>1. \A g \in Handlers : OnConnection(g)' <=> g = h \/ OnConnection(g)
      BY <1>0, <2>0 DEF OnConnection
    <3>2. \A g \in Handlers : (\E d \in Connections : owner'[d] = g) <=>
                              g = h \/ \E d \in Connections : owner[d] = g
      BY <1>0
    <3> QED
      BY <1>0, <2>0, <3>1, <3>2 DEF OwnersWork
  <2>3. AuditStates'
    BY <1>0, <2>0 DEF AuditStates
  <2>4. QueueOfAsking'
    BY <1>0, <2>0 DEF QueueOfAsking
  <2>5. ClosedInOrder'
    <3>1. \A g \in Handlers : Busy(g)' => Busy(g)
      BY <1>0, <2>0 DEF Busy
    <3> QED
      BY <1>0, <3>1, DrainedStays
  <2>6. CrowdOfAppends'
    BY <1>0, <2>0, CrowdStays
  <2> QED
    BY <1>0, <2>1, <2>2, <2>3, <2>4, <2>5, <2>6
<1>2. CASE /\ \A c \in Connections : owner[c] # Nobody
           /\ waiting' = Append(waiting, <<h, purpose>>)
           /\ Go(h, IF purpose = "append" THEN "queued" ELSE "asking")
           /\ UNCHANGED <<owner, tx>>
  <2>0. /\ work' = [work EXCEPT ![h] = IF purpose = "append" THEN "queued" ELSE "asking"]
        /\ waiting' \in Seq(Handlers \X {"begin", "statement", "append"})
        /\ Len(waiting') = Len(waiting) + 1
        /\ \A i \in 1..Len(waiting) : waiting'[i] = waiting[i]
        /\ waiting'[Len(waiting) + 1] = <<h, purpose>>
        /\ Len(waiting) \in Nat
        /\ DOMAIN waiting = 1..Len(waiting) /\ DOMAIN waiting' = 1..(Len(waiting) + 1)
    <3>1. <<h, purpose>> \in Handlers \X {"begin", "statement", "append"}
      OBVIOUS
    <3> QED
      BY <1>0, <1>2, <3>1, AppendProperties DEF Go
  <2>1. ShutdownTypeOK'
    BY <1>0, <1>2, <2>0 DEF ShutdownTypeOK, process
  <2>2. OwnersWork'
    BY <1>0, <1>2, <2>0 DEF OwnersWork, OnConnection
  <2>3. AuditStates'
    BY <1>0, <2>0 DEF AuditStates
  <2>4. QueueOfAsking'
    <3>1. \A i \in DOMAIN waiting : waiting[i][1] # h /\ waiting[i][1] \in Handlers
      BY <1>0 DEF QueueOfAsking
    <3>2. \A i \in DOMAIN waiting' :
            work'[waiting'[i][1]] = IF waiting'[i][2] = "append" THEN "queued" ELSE "asking"
      <4> TAKE i \in DOMAIN waiting'
      <4>1. CASE i = Len(waiting) + 1
        BY <1>0, <2>0, <4>1
      <4>2. CASE i \in 1..Len(waiting)
        BY <1>0, <2>0, <3>1, <4>2 DEF QueueOfAsking
      <4> QED
        BY <2>0, <4>1, <4>2
    <3>3. \A i, k \in DOMAIN waiting' : waiting'[i][1] = waiting'[k][1] => i = k
      <4> TAKE i, k \in DOMAIN waiting'
      <4> HAVE waiting'[i][1] = waiting'[k][1]
      <4>1. CASE i \in 1..Len(waiting) /\ k \in 1..Len(waiting)
        BY <2>0, <4>1 DEF QueueOfAsking
      <4>2. \A n \in 1..Len(waiting) : waiting'[n][1] # h
        BY <2>0, <3>1
      <4>3. waiting'[Len(waiting) + 1][1] = h
        BY <2>0
      <4>4. CASE i = Len(waiting) + 1 \/ k = Len(waiting) + 1
        BY <2>0, <4>2, <4>3, <4>4
      <4> QED
        BY <2>0, <4>1, <4>4
    <3>4. ASSUME NEW g \in Handlers, work'[g] \in {"asking", "queued"}
          PROVE  \E i \in DOMAIN waiting' : waiting'[i][1] = g
      <4>1. CASE g = h
        BY <2>0, <4>1
      <4>2. CASE g # h
        <5>1. work[g] \in {"asking", "queued"}
          BY <1>0, <2>0, <3>4, <4>2
        <5> PICK i \in 1..Len(waiting) : waiting[i][1] = g
          BY <2>0, <5>1 DEF QueueOfAsking
        <5>2. i \in DOMAIN waiting' /\ waiting'[i][1] = g
          <6> HIDE DEF ShutdownInv
          <6> QED
            BY <2>0
        <5> QED
          BY <5>2, Zenon
      <4> QED
        BY <4>1, <4>2
    <3> QED
      BY <1>2, <3>2, <3>3, <3>4 DEF QueueOfAsking
  <2>5. ClosedInOrder'
    <3>1. \A g \in Handlers : Busy(g)' => Busy(g)
      BY <1>0, <2>0 DEF Busy
    <3> QED
      BY <1>0, <3>1, DrainedStays
  <2>6. CrowdOfAppends'
    BY <1>0, CrowdStays
  <2> QED
    BY <1>0, <2>1, <2>2, <2>3, <2>4, <2>5, <2>6
<1> QED
  BY <1>1, <1>2 DEF Connect

\* Who works on a connection gives it back, to the pool or to who has waited longest.
LEMMA ReleaseKeeps ==
    ASSUME ShutdownInv, UNCHANGED <<process, late, calls>>,
           NEW h \in Handlers, NEW pc2 \in {"running", "done"}, OnConnection(h),
           pc2 = "running" => Busy(h),
           Release(h, pc2, tx \ {h})
    PROVE  ShutdownInv'
<1> USE ShutdownConstants DEF ShutdownInv
<1> DEFINE Purposes == {"begin", "statement", "append"}
           WorkStates == {"idle", "running", "asking", "querying", "queued", "appending",
                      "unwritten", "done"}
<1>0. /\ stage \in 0..6 /\ stage' = stage /\ UNCHANGED process /\ h # Nobody
      /\ gone' = gone /\ late' = late
      /\ work[h] \in {"running", "querying", "appending"}
      /\ work \in [Handlers -> WorkStates]
      /\ owner \in [Connections -> Handlers \union {Nobody}]
      /\ tx \subseteq Handlers
      /\ waiting \in Seq(Handlers \X Purposes)
      /\ UNCHANGED <<late, calls>>
      /\ \A i \in DOMAIN waiting : waiting[i][1] # h
  <2>1. /\ ShutdownTypeOK /\ UNCHANGED process /\ stage' = stage /\ UNCHANGED <<late, calls>>
        /\ gone' = gone /\ late' = late
    BY DEF process
  <2>2. work[h] \in {"running", "querying", "appending"}
    BY DEF OnConnection, OwnersWork
  <2>3. \A i \in DOMAIN waiting : waiting[i][1] # h
    BY <2>2 DEF QueueOfAsking
  <2> QED
    BY <2>1, <2>2, <2>3, Positions DEF ShutdownTypeOK
<1> PICK c \in Connections :
        /\ owner[c] = h
        /\ IF waiting = <<>> \/ Closing("pool")
             THEN /\ owner' = [owner EXCEPT ![c] = Nobody]
                  /\ Go(h, pc2)
                  /\ tx' = tx \ {h}
                  /\ UNCHANGED waiting
             ELSE LET next == Head(waiting)[1]
                      purpose == Head(waiting)[2]
                  IN /\ owner' = [owner EXCEPT ![c] = next]
                     /\ work' = [work EXCEPT ![h] = pc2, ![next] = Place(purpose)]
                     /\ tx' = Begun(tx \ {h}, next, purpose)
                     /\ waiting' = Tail(waiting)
  BY DEF Release
<1>a. \A d \in Connections : owner[d] = h => d = c
  BY <1>0 DEF OwnersWork
<1>b. /\ stage < 4 <=> ~Closing("pool")
      /\ stage < 5
  BY <1>0, Positions DEF Closing, ClosedInOrder
<1>1. CASE waiting = <<>> \/ Closing("pool")
  <2>0. /\ owner' = [owner EXCEPT ![c] = Nobody] /\ work' = [work EXCEPT ![h] = pc2]
        /\ tx' = tx \ {h} /\ waiting' = waiting
    BY <1>1 DEF Go
  <2>1. ShutdownTypeOK'
    BY <1>0, <2>0 DEF ShutdownTypeOK, process
  <2>2. OwnersWork'
    <3>1. \A g \in Handlers : OnConnection(g)' <=> g # h /\ OnConnection(g)
      BY <1>0, <2>0 DEF OnConnection
    <3>2. \A g \in Handlers : (\E d \in Connections : owner'[d] = g) <=>
                              g # h /\ \E d \in Connections : owner[d] = g
      BY <1>0, <1>a, <2>0
    <3> QED
      BY <1>0, <2>0, <3>1, <3>2 DEF OwnersWork
  <2>3. AuditStates'
    BY <1>0, <2>0 DEF AuditStates
  <2>4. QueueOfAsking'
    BY <1>0, <1>1, <1>b, <2>0 DEF QueueOfAsking
  <2>5. ClosedInOrder'
    <3>1. \A g \in Handlers : Busy(g)' => Busy(g)
      BY <1>0, <2>0 DEF Busy
    <3> QED
      BY <1>0, <1>b, <3>1, DrainedStays
  <2>6. CrowdOfAppends'
    <3>1. \A g \in Handlers : work'[g] = "queued" => work[g] = "queued"
      BY <1>0, <2>0
    <3> QED
      BY <1>0, <3>1, CrowdStays
  <2> QED
    BY <1>0, <2>1, <2>2, <2>3, <2>4, <2>5, <2>6
<1>2. CASE waiting # <<>> /\ ~Closing("pool")
  <2> DEFINE next == waiting[1][1]
             purpose == waiting[1][2]
  <2>a. /\ Len(waiting) \in Nat /\ Len(waiting) >= 1 /\ DOMAIN waiting = 1..Len(waiting)
        /\ Head(waiting) = waiting[1] /\ waiting[1] \in Handlers \X Purposes
        /\ next \in Handlers /\ purpose \in Purposes
    BY <1>0, <1>2
  <2>b. /\ Tail(waiting) \in Seq(Handlers \X Purposes)
        /\ Len(Tail(waiting)) = Len(waiting) - 1
        /\ \A i \in 1..(Len(waiting) - 1) : Tail(waiting)[i] = waiting[i + 1]
    BY <1>0, <1>2, HeadTailProperties
  <2>0. /\ owner' = [owner EXCEPT ![c] = next]
        /\ work' = [work EXCEPT ![h] = pc2, ![next] = Place(purpose)]
        /\ tx' = Begun(tx \ {h}, next, purpose)
        /\ waiting' \in Seq(Handlers \X Purposes)
        /\ DOMAIN waiting' = 1..(Len(waiting) - 1)
        /\ \A i \in 1..(Len(waiting) - 1) : waiting'[i] = waiting[i + 1]
    <3>1. /\ owner' = [owner EXCEPT ![c] = next]
          /\ work' = [work EXCEPT ![h] = pc2, ![next] = Place(purpose)]
          /\ tx' = Begun(tx \ {h}, next, purpose)
          /\ waiting' = Tail(waiting)
      BY <1>2, <2>a, Zenon
    <3> HIDE DEF next, purpose
    <3>2. Len(waiting') = Len(waiting) - 1 /\ waiting' \in Seq(Handlers \X Purposes)
      BY <2>b, <3>1
    <3>3. DOMAIN waiting' = 1..(Len(waiting) - 1)
      BY <3>2
    <3>4. \A i \in 1..(Len(waiting) - 1) : waiting'[i] = waiting[i + 1]
      BY <2>b, <3>1, Zenon
    <3> QED
      BY <3>1, <3>2, <3>3, <3>4
  <2>c. /\ next # h /\ next # Nobody
        /\ work[next] = IF purpose = "append" THEN "queued" ELSE "asking"
        /\ ~OnConnection(next)
        /\ \A d \in Connections : owner[d] # next
    <3>1. 1 \in DOMAIN waiting /\ next = waiting[1][1] /\ purpose = waiting[1][2]
      BY <2>a
    <3>2. next # h /\ next # Nobody
      BY <1>0, <2>a, <3>1
    <3>3. work[next] = IF purpose = "append" THEN "queued" ELSE "asking"
      BY <3>1 DEF QueueOfAsking
    <3> HIDE DEF next, purpose
    <3>4. ~OnConnection(next)
      BY <2>a, <3>3 DEF OwnersWork, OnConnection
    <3>5. \A d \in Connections : owner[d] # next
      BY <2>a, <3>4 DEF OwnersWork
    <3> QED
      BY <3>2, <3>3, <3>4, <3>5
  <2>d. /\ work'[h] = pc2 /\ work'[next] = Place(purpose)
        /\ \A g \in Handlers : g # h /\ g # next => work'[g] = work[g]
        /\ Place(purpose) \in {"running", "querying", "appending"}
        /\ purpose = "begin" => Place(purpose) = "running" /\ tx' = (tx \ {h}) \union {next}
        /\ purpose = "statement" => Place(purpose) = "querying" /\ tx' = tx \ {h}
        /\ purpose = "append" => Place(purpose) = "appending" /\ tx' = tx \ {h}
    BY <1>0, <2>0, <2>a, <2>c DEF Place, Begun
  <2>e. /\ owner'[c] = next
        /\ \A d \in Connections : d # c => owner'[d] = owner[d]
    BY <1>0, <2>0
  <2> HIDE DEF next, purpose
  <2>1. ShutdownTypeOK'
    <3>1. /\ work' \in [Handlers -> WorkStates]
          /\ owner' \in [Connections -> Handlers \union {Nobody}]
          /\ tx' \subseteq Handlers
      BY <1>0, <2>0, <2>a, <2>d
    <3> QED
      BY <1>0, <2>0, <3>1 DEF ShutdownTypeOK, process
  <2>2. OwnersWork'
    <3>1. \A g \in Handlers : OnConnection(g)' <=> g = next \/ (g # h /\ OnConnection(g))
      <4> TAKE g \in Handlers
      <4>1. CASE g = next
        BY <2>a, <2>d, <4>1 DEF OnConnection
      <4>2. CASE g = h
        BY <2>a, <2>c, <2>d, <4>2 DEF OnConnection
      <4>3. CASE g # next /\ g # h
        BY <2>a, <2>d, <4>3 DEF OnConnection
      <4> QED
        BY <4>1, <4>2, <4>3
    <3>2. \A g \in Handlers : (\E d \in Connections : owner'[d] = g) <=>
                     g = next \/ (g # h /\ \E d \in Connections : owner[d] = g)
      BY <1>a, <2>c, <2>e
    <3>3. \A d, e \in Connections : owner'[d] = owner'[e] /\ owner'[d] # Nobody => d = e
      BY <1>a, <2>c, <2>e DEF OwnersWork
    <3>4. \A g \in tx' : work'[g] = "running"
      <4> TAKE g \in tx'
      <4>1. CASE g = next
        <5>1. next \notin tx
          BY <2>c DEF OnConnection
        <5> QED
          BY <2>a, <2>d, <4>1, <5>1
      <4>2. CASE g # next
        <5>1. g \in tx /\ g # h /\ g \in Handlers
          BY <1>0, <2>a, <2>d, <4>2
        <5> QED
          BY <2>d, <4>2, <5>1 DEF OwnersWork
      <4> QED
        BY <4>1, <4>2
    <3>5. \A g \in Handlers : OnConnection(g)' <=> \E d \in Connections : owner'[d] = g
      BY <3>1, <3>2 DEF OwnersWork
    <3> QED
      BY <3>3, <3>4, <3>5 DEF OwnersWork
  <2>3. AuditStates'
    <3> SUFFICES ASSUME NEW g \in Handlers
                 PROVE  /\ work'[g] \in {"queued", "appending"} => g \in Served
                        /\ work'[g] = "unwritten" => g \in gone
      BY <1>0 DEF AuditStates
    <3>1. CASE g = next
      BY <2>a, <2>c, <2>d, <3>1 DEF AuditStates
    <3>2. CASE g = h
      BY <2>d, <3>2
    <3>3. CASE g # next /\ g # h
      BY <2>d, <3>3 DEF AuditStates
    <3> QED
      BY <3>1, <3>2, <3>3
  <2>4. QueueOfAsking'
    <3>1. \A i \in 1..(Len(waiting) - 1) :
            /\ i + 1 \in DOMAIN waiting /\ waiting[i + 1] \in Handlers \X Purposes
            /\ waiting[i + 1][1] \in Handlers
            /\ waiting[i + 1][1] # h /\ waiting[i + 1][1] # next
      <4> TAKE i \in 1..(Len(waiting) - 1)
      <4>1. i + 1 \in DOMAIN waiting /\ i + 1 # 1 /\ 1 \in DOMAIN waiting
        BY <2>a
      <4>2. waiting[i + 1] \in Handlers \X Purposes
        BY <1>0, <4>1
      <4>3. waiting[i + 1][1] # next
        BY <4>1 DEF QueueOfAsking, next
      <4> QED
        BY <1>0, <4>1, <4>2, <4>3
    <3>2. ASSUME NEW i \in DOMAIN waiting'
          PROVE  work'[waiting'[i][1]] =
                    IF waiting'[i][2] = "append" THEN "queued" ELSE "asking"
      <4>1. /\ i \in 1..(Len(waiting) - 1) /\ i + 1 \in DOMAIN waiting
            /\ waiting'[i] = waiting[i + 1]
            /\ work'[waiting[i + 1][1]] = work[waiting[i + 1][1]]
        BY <2>0, <2>d, <3>1
      <4> QED
        BY <4>1 DEF QueueOfAsking
    <3>3. ASSUME NEW i \in DOMAIN waiting', NEW k \in DOMAIN waiting',
                 waiting'[i][1] = waiting'[k][1]
          PROVE  i = k
      <4>1. /\ i \in 1..(Len(waiting) - 1) /\ i + 1 \in DOMAIN waiting
            /\ k \in 1..(Len(waiting) - 1) /\ k + 1 \in DOMAIN waiting
            /\ waiting[i + 1][1] = waiting[k + 1][1]
        BY <2>0, <3>1, <3>3
      <4>2. i + 1 = k + 1
        BY <4>1 DEF QueueOfAsking
      <4> QED
        BY <2>a, <4>1, <4>2
    <3>4. ASSUME NEW g \in Handlers, work'[g] \in {"asking", "queued"}
          PROVE  \E i \in DOMAIN waiting' : waiting'[i][1] = g
      <4>1. g # h /\ g # next
        BY <2>d, <3>4
      <4>2. PICK i \in DOMAIN waiting : waiting[i][1] = g
        BY <2>d, <3>4, <4>1 DEF QueueOfAsking
      <4>3. i # 1
        BY <4>1, <4>2 DEF next
      <4>4. i - 1 \in 1..(Len(waiting) - 1) /\ (i - 1) + 1 = i
        BY <2>a, <4>2, <4>3
      <4>5. waiting'[i - 1] = waiting[i]
        BY <2>0, <4>4
      <4> QED
        BY <2>0, <4>2, <4>4, <4>5
    <3>5. \A d \in Connections : owner'[d] # Nobody
      <4>1. stage < 4
        BY <1>2, <1>b
      <4> QED
        BY <1>2, <2>c, <2>e, <4>1 DEF QueueOfAsking
    <3> QED
      BY <3>2, <3>3, <3>4, <3>5 DEF QueueOfAsking
  <2>5. ClosedInOrder'
    <3>1. \A g \in Handlers : Busy(g)' => Busy(g)
      <4> TAKE g \in Handlers
      <4>1. CASE g = next
        BY <2>a, <2>c, <2>d, <4>1 DEF Busy
      <4>2. CASE g = h
        BY <2>d, <4>2 DEF Busy
      <4>3. CASE g # next /\ g # h
        BY <2>d, <4>3 DEF Busy
      <4> QED
        BY <4>1, <4>2, <4>3
    <3> QED
      BY <1>0, <1>b, <3>1, DrainedStays
  <2>6. CrowdOfAppends'
    BY <1>0, <1>2, <1>b, CrowdStays
  <2> QED
    BY <1>0, <2>1, <2>2, <2>3, <2>4, <2>5, <2>6
<1> QED
  BY <1>1, <1>2

\* A step that leaves the pool alone and makes nobody busy that was not.
LEMMA PoolAlone ==
    ASSUME ShutdownInv, UNCHANGED <<pool, tx, late, process>>,
           calls' \in [Handlers -> 0..MaxCalls],
           NEW h \in Handlers, NEW place \in {"running", "done", "unwritten"},
           work' = [work EXCEPT ![h] = place], ~OnConnection(h),
           work[h] \in {"idle", "running"}, place = "unwritten" => h \in gone,
           place = "running" /\ work[h] = "idle" =>
                IF h \in Served THEN stage < 1 ELSE stage < 2
    PROVE  ShutdownInv'
<1> USE DEF ShutdownInv
<1>0. /\ UNCHANGED <<owner, waiting>> /\ UNCHANGED <<tx, late>>
      /\ stage' = stage /\ exit' = exit /\ crowd' = crowd /\ called' = called
      /\ gone' = gone /\ stage \in 0..6
  BY Positions DEF pool, process, ShutdownTypeOK
<1>1. ShutdownTypeOK'
  BY <1>0 DEF ShutdownTypeOK
<1>2. \A g \in Handlers : OnConnection(g)' <=> OnConnection(g)
  BY <1>0 DEF OnConnection, ShutdownTypeOK
<1>3. OwnersWork' /\ AuditStates'
  BY <1>0, <1>2 DEF OwnersWork, OnConnection, AuditStates, ShutdownTypeOK
<1>4. QueueOfAsking'
  <2>1. work[h] \notin {"asking", "queued"} /\ place \notin {"asking", "queued"}
    OBVIOUS
  <2>2. \A i \in DOMAIN waiting : waiting[i][1] \in Handlers /\ waiting[i][1] # h
    <3> TAKE i \in DOMAIN waiting
    <3>1. waiting[i] \in Handlers \X {"begin", "statement", "append"}
      BY DEF ShutdownTypeOK
    <3>2. work[waiting[i][1]] \in {"asking", "queued"}
      BY DEF QueueOfAsking
    <3> QED
      BY <2>1, <3>1, <3>2
  <2>3. \A g \in Handlers : g # h => work'[g] = work[g]
    BY DEF ShutdownTypeOK
  <2>4. \A g \in Handlers : work'[g] \in {"asking", "queued"} => work[g] \in {"asking", "queued"}
    BY <2>1, <2>3 DEF ShutdownTypeOK
  <2> QED
    BY <1>0, <2>2, <2>3, <2>4 DEF QueueOfAsking
<1>5. ClosedInOrder'
  BY <1>0, ShutdownConstants DEF ClosedInOrder, ShutdownTypeOK, Busy, Handlers
<1>6. CrowdOfAppends'
  BY <1>0 DEF CrowdOfAppends, ShutdownTypeOK
<1> QED
  BY <1>0, <1>1, <1>3, <1>4, <1>5, <1>6

\* A handler runs before the parts it may call are closed, unless its client hung up,
\* and its connection is that of its transaction.
LEMMA RunningAt ==
    ASSUME ShutdownInv, NEW h \in Handlers, work[h] = "running"
    PROVE  /\ h \notin gone => stage < 3
           /\ OnConnection(h) <=> h \in tx
BY Positions DEF ShutdownInv, ShutdownTypeOK, ClosedInOrder, Busy, OnConnection, Handlers

\* A call that meets a closed part, or none: only the history of such calls changes.
LEMMA CallOnly ==
    ASSUME ShutdownInv, NEW h \in Handlers, UNCHANGED <<process, pool, work, tx>>,
           calls' \in [Handlers -> 0..MaxCalls],
           late' = late \/ (h \in gone /\ late' = late \union {h})
    PROVE  ShutdownInv'
<1> USE DEF ShutdownInv
<1>0. /\ UNCHANGED <<owner, waiting>> /\ UNCHANGED <<work, tx>>
      /\ stage' = stage /\ exit' = exit /\ crowd' = crowd /\ called' = called
      /\ gone' = gone /\ late' \subseteq gone' /\ late' \subseteq Handlers
  BY DEF pool, process, ShutdownTypeOK
<1>1. ShutdownTypeOK'
  BY <1>0 DEF ShutdownTypeOK
<1>2. OwnersWork' /\ AuditStates'
  BY <1>0 DEF OwnersWork, OnConnection, AuditStates
<1>3. QueueOfAsking' /\ ClosedInOrder' /\ CrowdOfAppends'
  BY <1>0 DEF QueueOfAsking, ClosedInOrder, CrowdOfAppends, Busy
<1> QED
  BY <1>0, <1>1, <1>2, <1>3

\* What a started handler does next.
LEMMA ProceedKeeps ==
    ASSUME ShutdownInv, NEW h \in Handlers, Proceed(h)
    PROVE  ShutdownInv'
<1> USE ShutdownConstants
<1>0. ShutdownTypeOK
  BY DEF ShutdownInv
<1>1. ASSUME NEW purpose \in {"begin", "statement"}, Ask(h, purpose) PROVE ShutdownInv'
  <2>1. /\ work[h] = "running" /\ calls' \in [Handlers -> 0..MaxCalls] /\ UNCHANGED process
        /\ Closing("pool") => h \in gone
    BY <1>0, <1>1, RunningAt, Positions DEF Ask, Calling, At, ShutdownTypeOK, Closing
  <2>2. CASE h \notin tx /\ ~Closing("pool")
    <3>1. Connect(h, purpose) /\ UNCHANGED <<process, late>>
      BY <1>1, <2>1, <2>2 DEF Ask, NeedsConnection
    <3> QED
      BY <2>1, <2>2, <3>1, ConnectKeeps
  <2>3. CASE h \notin tx /\ Closing("pool")
    <3>1. late' = late \union {h} /\ UNCHANGED <<pool, work, tx, process>>
      BY <1>1, <2>1, <2>3 DEF Ask, NeedsConnection
    <3>2. UNCHANGED <<process, pool, work, tx>>
      BY <3>1
    <3> QED
      BY <2>1, <2>3, <3>1, <3>2, CallOnly
  <2>4. CASE h \in tx
    <3>1. UNCHANGED <<process, pool, work, tx>> /\ late' = late
      BY <1>1, <2>4 DEF Ask, NeedsConnection
    <3> QED
      BY <2>1, <3>1, CallOnly
  <2> QED
    BY <2>2, <2>3, <2>4
<1>2. CASE Answered(h)
  <2>1. work[h] = "querying" /\ tx \ {h} = tx
    BY <1>2 DEF Answered, At, ShutdownInv, OwnersWork
  <2>2. UNCHANGED <<process, late, calls>> /\ Release(h, "running", tx \ {h})
    BY <1>2, <2>1 DEF Answered
  <2>3. OnConnection(h) /\ Busy(h)
    BY <2>1 DEF OnConnection, Busy
  <2> QED
    BY <2>2, <2>3, ReleaseKeeps
<1>3. CASE EndTransaction(h)
  <2>1. UNCHANGED <<process, late, calls>> /\ Release(h, "running", tx \ {h})
    BY <1>3 DEF EndTransaction
  <2>2. OnConnection(h) /\ Busy(h)
    BY <1>3 DEF EndTransaction, At, OnConnection, Busy
  <2> QED
    BY <2>1, <2>2, ReleaseKeeps
<1>4. ASSUME NEW resource \in {"queues", "redis"}, Use(h, resource) PROVE ShutdownInv'
  <2>1. /\ work[h] = "running" /\ calls' \in [Handlers -> 0..MaxCalls]
        /\ UNCHANGED <<process, pool, work, tx>>
    BY <1>0, <1>4 DEF Use, Calling, At, ShutdownTypeOK
  <2>2. Closing(resource) => h \in gone
    BY <1>0, <2>1, RunningAt, Positions DEF Closing, ShutdownTypeOK
  <2>3. late' = late \/ (h \in gone /\ late' = late \union {h})
    BY <1>4, <2>2 DEF Use
  <2> QED
    BY <2>1, <2>3, CallOnly
<1>5. CASE JobEnds(h) \/ Reply(h)
  <2>1. /\ work[h] = "running" /\ h \notin tx /\ UNCHANGED <<process, pool, tx, calls, late>>
        /\ work' = [work EXCEPT ![h] = "done"]
    BY <1>5 DEF JobEnds, Reply, At, Go
  <2>2. ~OnConnection(h) /\ calls' \in [Handlers -> 0..MaxCalls]
    BY <1>0, <2>1 DEF OnConnection, ShutdownTypeOK
  <2>3. UNCHANGED <<pool, tx, late, process>>
    BY <2>1
  <2> QED
    BY <2>1, <2>2, <2>3, PoolAlone
<1>6. CASE h \in Served /\ ReplyAudited(h)
  <2>1. /\ work[h] = "running" /\ h \notin tx /\ UNCHANGED <<process, late>>
        /\ calls' = calls /\ calls' \in [Handlers -> 0..MaxCalls]
    BY <1>0, <1>6 DEF ReplyAudited, At, ShutdownTypeOK
  <2>2. CASE ~Closing("pool")
    <3>1. Connect(h, "append")
      BY <1>6, <2>2 DEF ReplyAudited
    <3> QED
      BY <1>6, <2>1, <2>2, <3>1, ConnectKeeps
  <2>3. CASE Closing("pool")
    <3>1. /\ work' = [work EXCEPT ![h] = "unwritten"] /\ UNCHANGED <<pool, tx, late, process>>
          /\ h \in gone /\ ~OnConnection(h)
      BY <1>0, <1>6, <2>1, <2>3, RunningAt, Positions
         DEF ReplyAudited, Go, Closing, ShutdownTypeOK
    <3>2. UNCHANGED <<pool, tx, late, process>>
      BY <3>1
    <3> QED
      BY <2>1, <3>1, <3>2, PoolAlone
  <2> QED
    BY <2>2, <2>3
<1>7. CASE h \in Served /\ Appended(h)
  <2>1. work[h] = "appending" /\ tx \ {h} = tx
    BY <1>7 DEF Appended, At, ShutdownInv, OwnersWork
  <2>2. UNCHANGED <<process, late, calls>> /\ Release(h, "done", tx \ {h})
    BY <1>7, <2>1 DEF Appended
  <2>3. OnConnection(h)
    BY <2>1 DEF OnConnection
  <2> QED
    BY <2>2, <2>3, ReleaseKeeps
<1> QED
  BY <1>1, <1>2, <1>3, <1>4, <1>5, <1>6, <1>7 DEF Proceed, JobStep, ReplyStep

\* The owners are as many as the connections they hold, when none is free.
LEMMA CrowdCounts ==
    ASSUME ShutdownInv, \A c \in Connections : owner[c] # Nobody
    PROVE  Cardinality(Holders) = Cardinality(Connections)
<1>1. owner \in Bijection(Connections, Holders)
  BY DEF Holders, ShutdownInv, ShutdownTypeOK, OwnersWork, Bijection, Injection, Surjection,
         IsInjective
<1>2. IsFiniteSet(Connections)
  BY ShutdownConstants
<1> QED
  BY <1>1, <1>2, FS_Bijection DEF ExistsBijection

\* A part that was drained is closed, and the next one begins.
LEMMA CloseNextKeeps ==
    ASSUME ShutdownInv, CloseNext
    PROVE  ShutdownInv'
<1> USE Positions DEF ShutdownInv
<1>0. /\ stage \in 1..5 /\ stage' = stage + 1 /\ Drained(CloseOrder[stage])
      /\ UNCHANGED <<called, exit, gone, pool, work, tx, calls, late>>
      /\ UNCHANGED <<owner, waiting>> /\ exit' = exit
      /\ crowd' = IF stage' = 4 THEN Holders ELSE crowd
  BY DEF CloseNext, pool
<1>1. ShutdownTypeOK'
  <2>1. Holders \subseteq Handlers
    BY DEF Holders, ShutdownTypeOK
  <2> QED
    BY <1>0, <2>1 DEF ShutdownTypeOK
<1>2. OwnersWork' /\ AuditStates'
  BY <1>0 DEF OwnersWork, OnConnection, AuditStates
<1>3. QueueOfAsking'
  BY <1>0 DEF QueueOfAsking
<1>4. ClosedInOrder'
  <2>1. /\ stage = 1 => CloseOrder[stage] = "http"
        /\ stage = 2 => CloseOrder[stage] = "workers"
        /\ stage = 4 => CloseOrder[stage] = "pool"
    BY DEF CloseOrder
  <2>2. /\ stage = 1 => \A r \in Served : Busy(r) => r \in gone
        /\ stage = 2 => \A j \in Jobs : ~Busy(j)
        /\ stage = 4 => \A c \in Connections : owner[c] = Nobody
    BY <1>0, <2>1 DEF Drained
  <2>3. \A h \in Handlers : Busy(h)' <=> Busy(h)
    BY <1>0 DEF Busy
  <2> QED
    BY <1>0, <2>2, <2>3 DEF ClosedInOrder, Handlers
<1>5. CrowdOfAppends'
  <2> SUFFICES ASSUME stage' > 3, NEW r \in Served, work[r] = "queued"
               PROVE  crowd' \subseteq Served /\ Cardinality(crowd') = Cardinality(Connections)
    BY <1>0 DEF CrowdOfAppends
  <2>1. CASE stage > 3
    BY <1>0, <2>1 DEF CrowdOfAppends
  <2>2. CASE stage = 3
    <3>1. waiting # <<>>
      BY DEF QueueOfAsking, Handlers
    <3>2. \A c \in Connections : owner[c] # Nobody
      BY <2>2, <3>1 DEF QueueOfAsking
    <3>3. crowd' = Holders /\ Cardinality(Holders) = Cardinality(Connections)
      BY <1>0, <2>2, <3>2, CrowdCounts
    <3>4. ASSUME NEW c \in Connections PROVE owner[c] \in Served
      <4>1. owner[c] \in Handlers /\ OnConnection(owner[c])
        BY <3>2 DEF OwnersWork, ShutdownTypeOK
      <4>2. owner[c] \in Jobs => ~Busy(owner[c])
        BY <2>2, <4>1 DEF ClosedInOrder, Handlers
      <4>3. owner[c] \in Jobs => work[owner[c]] = "appending"
        BY <4>1, <4>2 DEF OnConnection, Busy, OwnersWork
      <4> QED
        BY <4>1, <4>3 DEF AuditStates, Handlers
    <3> QED
      BY <3>3, <3>4 DEF Holders
  <2> QED
    BY <1>0, <2>1, <2>2
<1> QED
  BY <1>0, <1>1, <1>2, <1>3, <1>4, <1>5

\* Every step of the shutdown, of a request or of a job preserves the invariant.
LEMMA NextShutdownInv == ShutdownInv /\ [ShutdownNext]_shutdownVars => ShutdownInv'
<1> SUFFICES ASSUME ShutdownInv, [ShutdownNext]_shutdownVars PROVE ShutdownInv'
  OBVIOUS
<1>0. ShutdownTypeOK
  BY DEF ShutdownInv
<1>1. CASE Signal
  <2>1. ClosedInOrder'
    BY <1>1 DEF Signal, ShutdownInv, ClosedInOrder, ShutdownTypeOK, pool, Busy
  <2>2. CrowdOfAppends' /\ ShutdownTypeOK'
    BY <1>1, Positions DEF Signal, ShutdownInv, CrowdOfAppends, ShutdownTypeOK, pool
  <2>3. OwnersWork' /\ AuditStates'
    BY <1>1 DEF Signal, ShutdownInv, OwnersWork, OnConnection, AuditStates, pool
  <2>4. QueueOfAsking'
    BY <1>1 DEF Signal, ShutdownInv, ClosedInOrder, QueueOfAsking, pool
  <2> QED
    BY <1>1, <2>1, <2>2, <2>3, <2>4 DEF Signal, ShutdownInv
<1>2. CASE CloseNext
  BY <1>2, CloseNextKeeps
<1>3. CASE ExitClean \/ ExitFailed \/ ForceExit \/ UNCHANGED shutdownVars
  <2>1. /\ UNCHANGED <<called, stage, crowd, gone, owner, waiting, work, tx, calls, late>>
        /\ exit' \in {exit, "clean", "forced", "failed"}
        /\ exit' = "clean" => exit = "clean" \/ stage > 5
    BY <1>3, Positions DEF ExitClean, ExitFailed, ForceExit, shutdownVars, process, pool
  <2> QED
    BY <2>1 DEF ShutdownInv, ShutdownTypeOK, OwnersWork, OnConnection, AuditStates,
           QueueOfAsking, ClosedInOrder, CrowdOfAppends, Busy
<1>4. ASSUME NEW h \in Handlers, Start(h) PROVE ShutdownInv'
  <2>1. /\ work[h] = "idle" /\ UNCHANGED <<pool, tx, late, process>>
        /\ work' = [work EXCEPT ![h] = "running"] /\ UNCHANGED calls
        /\ IF h \in Served THEN ~Closing("http") ELSE ~Closing("workers")
    BY <1>4 DEF Start, At, Go
  <2>2. IF h \in Served THEN stage < 1 ELSE stage < 2
    BY <1>0, <2>1, Positions DEF Closing, ShutdownTypeOK
  <2>3. ~OnConnection(h) /\ calls' \in [Handlers -> 0..MaxCalls]
    BY <2>1 DEF OnConnection, ShutdownInv, OwnersWork, ShutdownTypeOK
  <2> QED
    BY <2>1, <2>2, <2>3, PoolAlone
<1>5. ASSUME NEW h \in Handlers, Proceed(h) PROVE ShutdownInv'
  BY <1>5, ProceedKeeps
<1>6. ASSUME NEW r \in Served, HangUp(r) PROVE ShutdownInv'
  <2>1. /\ UNCHANGED <<called, stage, exit, crowd, owner, waiting, work, tx, calls, late>>
        /\ gone' = gone \union {r}
    BY <1>6 DEF HangUp, pool
  <2> QED
    BY <2>1 DEF ShutdownInv, ShutdownTypeOK, OwnersWork, OnConnection, AuditStates,
           QueueOfAsking, ClosedInOrder, CrowdOfAppends, Busy
<1> QED
  BY <1>1, <1>2, <1>3, <1>4, <1>5, <1>6 DEF ShutdownNext, Closes

\* The inductive invariant of the shutdown holds in every reachable state.
THEOREM ShutdownInvariant == ShutdownSpec => []ShutdownInv
<1> QED
  BY InitShutdownInv, NextShutdownInv, PTL DEF ShutdownSpec

\* Every reachable state of a process that ends has its shape.
THEOREM ShutdownTypeCorrect == ShutdownSpec => []ShutdownTypeOK
<1>1. ShutdownInv => ShutdownTypeOK
  BY DEF ShutdownInv
<1> QED
  BY <1>1, ShutdownInvariant, PTL

\* No job, and no request whose client did not hang up, calls a queue, the pool or
\* Redis after it was closed: those who use a part end before it is closed.
THEOREM ShutdownNothingUsesClosed == ShutdownSpec => []NothingUsesClosed
<1>1. ShutdownInv => NothingUsesClosed
  BY DEF ShutdownInv, NothingUsesClosed
<1> QED
  BY <1>1, ShutdownInvariant, PTL

\* Exit code 0 means that every request whose client waited was answered and every job
\* ended, that no transaction is open, and that the audit entries of such requests were
\* lost only behind requests that held every connection.
THEOREM ShutdownCleanExit == ShutdownSpec => []CleanExitLosesNothing
<1>1. ShutdownInv => CleanExitLosesNothing
  <2> SUFFICES ASSUME ShutdownInv, exit = "clean" PROVE CleanExitLosesNothing
    BY DEF CleanExitLosesNothing
  <2> USE DEF ShutdownInv
  <2>1. /\ stage > 5 /\ stage \in 0..6
        /\ \A h \in Handlers : Busy(h) => h \in gone
        /\ \A c \in Connections : owner[c] = Nobody
    BY Positions DEF ClosedInOrder, Handlers, ShutdownTypeOK
  <2>2. \A h \in Handlers : ~OnConnection(h)
    BY <2>1, ShutdownConstants DEF OwnersWork
  <2>3. tx = {}
    BY <2>2 DEF OnConnection, ShutdownTypeOK
  <2>4. \A h \in Handlers : work[h] \in {"idle", "done", "queued"} \/ h \in gone
    BY <2>1, <2>2 DEF OnConnection, Busy, AuditStates, ShutdownTypeOK
  <2>5. (\E r \in Served : At(r, "queued"))
          => crowd \subseteq Served /\ Cardinality(crowd) = Cardinality(Connections)
    BY <2>1 DEF CrowdOfAppends, At
  <2> QED
    BY <2>3, <2>4, <2>5 DEF CleanExitLosesNothing
<1> QED
  BY <1>1, ShutdownInvariant, PTL

=============================================================================
