---------------------------- MODULE Idempotency ----------------------------
(***************************************************************************)
(* withIdempotency of @kit/core: the preHandler and onSend hooks of a      *)
(* route around an IdempotencyStore (idempotency.ts), with the in-memory   *)
(* store of in-memory-idempotency-store.ts or a store behind a network.    *)
(*                                                                         *)
(* Keys never meet, so the module follows the requests that carry one key; *)
(* requests without a key never touch the store.  A hook awaits each store *)
(* call.  The in-memory store answers at once and the hook resumes from    *)
(* the microtask queue, which is first in, first out; ahead[r] is what was *)
(* queued before r.  A store behind a network answers in any order, may    *)
(* reject a call before or after it took effect, and outlives a process    *)
(* that dies in the middle.  What unlock frees is the key, whoever locked  *)
(* it: the interface of the store names no owner.                          *)
(*                                                                         *)
(* A behaviour of the in-memory store is one life of the process.  With a  *)
(* store behind a network ReplayedNotRerun does not hold: a lookup that    *)
(* missed may be followed by a tryLock after the first request's unlock.   *)
(***************************************************************************)
EXTENDS Naturals, FiniteSets

CONSTANT
    Requests        \* requests with one idempotency key, the client's retries included

VARIABLES
    inMemory,       \* the configured store: in memory, or behind a network; never changes
    cache,          \* the requests whose response is stored: none or one
    expired,        \* the stored response's expiresAt has passed
    lock,           \* the requests that hold the key's lock: none or one
    pc,             \* request -> where its hooks stand
    ahead,          \* request -> requests whose continuation is queued before its own
    unlocked,       \* history: the requests whose unlock took effect
    again           \* history: those whose unlock took effect a second time

idemVars == <<inMemory, cache, expired, lock, pc, ahead, unlocked, again>>

store == <<cache, expired, lock>>

unlocks == <<unlocked, again>>

IdemInit ==
    /\ inMemory \in BOOLEAN
    /\ cache = {}
    /\ expired = FALSE
    /\ lock = {}
    /\ pc = [r \in Requests |-> "idle"]
    /\ ahead = [r \in Requests |-> {}]
    /\ unlocked = {}
    /\ again = {}

(***************************************************************************)
(* Awaiting a store call.                                                  *)
(***************************************************************************)

Awaiting == {r \in Requests : pc[r] \in {"missed", "stored"}}

\* The hook of r awaits a store call: its continuation goes to the end of the queue.
Await(r, at) ==
    /\ pc' = [pc EXCEPT ![r] = at]
    /\ ahead' = [ahead EXCEPT ![r] = Awaiting]

\* The call r waits for has answered and r takes its next step.
Resumes(r) == inMemory => ahead[r] = {}

\* r goes on to "at" and is no longer before anyone in the queue.
Advance(r, at) ==
    /\ pc' = [pc EXCEPT ![r] = at]
    /\ ahead' = [other \in Requests |-> ahead[other] \ {r}]

(***************************************************************************)
(* preHandler: store.get, then store.tryLock.                              *)
(***************************************************************************)

Stored == IF expired THEN {} ELSE cache

\* evictExpired deletes the entry before it is looked up.
GetHit(r) ==
    /\ pc[r] = "idle"
    /\ Stored # {}
    /\ pc' = [pc EXCEPT ![r] = "replayed"]
    /\ UNCHANGED <<store, ahead, unlocks>>

GetMiss(r) ==
    /\ pc[r] = "idle"
    /\ Stored = {}
    /\ cache' = {}
    /\ expired' = FALSE
    /\ Await(r, "missed")
    /\ UNCHANGED <<lock, unlocks>>

\* Mutant: the lock is granted whoever holds it.
LockGrantedAlways == TRUE

\* "if (locks.has(key)) return false".
LockGranted == lock = {}

TryLock(r) ==
    /\ pc[r] = "missed"
    /\ Resumes(r)
    /\ LockGranted
    /\ lock' = {r}
    /\ Advance(r, "handling")
    /\ UNCHANGED <<cache, expired, unlocks>>

\* The request is answered 409; onSend returns at once because it is not active.
LockRefused(r) ==
    /\ pc[r] = "missed"
    /\ Resumes(r)
    /\ ~LockGranted
    /\ Advance(r, "conflict")
    /\ UNCHANGED <<store, unlocks>>

(***************************************************************************)
(* onSend of the request that holds the lock: store.set, then store.unlock *)
(* once the route's handler has replied, with whatever status.  A call of  *)
(* the store that rejects makes an error reply, which passes onSend again. *)
(***************************************************************************)

Replying(r) == pc[r] \in {"handling", "answering"}

Stores(r) ==
    /\ cache' = {r}
    /\ expired' = FALSE

\* store.unlock takes effect: locks.delete(key).
Unlocks(r) ==
    /\ lock' = {}
    /\ unlocked' = unlocked \cup {r}
    /\ again' = again \cup (unlocked \cap {r})

Set(r) ==
    /\ Replying(r)
    /\ Stores(r)
    /\ Await(r, "stored")
    /\ UNCHANGED <<lock, unlocks>>

\* Mutant: onSend returns without store.unlock.
UnlockForgotten(r) ==
    /\ pc[r] = "stored"
    /\ Resumes(r)
    /\ Advance(r, "sent")
    /\ UNCHANGED <<store, unlocks>>

Unlock(r) ==
    /\ pc[r] = "stored"
    /\ Resumes(r)
    /\ Unlocks(r)
    /\ Advance(r, "sent")
    /\ UNCHANGED <<cache, expired>>

(***************************************************************************)
(* Time, and failures of a store behind a network.                         *)
(***************************************************************************)

\* Date.now() reaches expiresAt.
Expire ==
    /\ cache # {}
    /\ ~expired
    /\ expired' = TRUE
    /\ UNCHANGED <<cache, lock, pc, ahead, unlocks>>

\* store.set rejects, before or after it took effect.
SetRejects(r) ==
    /\ ~inMemory
    /\ Replying(r)
    /\ Stores(r) \/ UNCHANGED <<cache, expired>>
    /\ Advance(r, "answering")
    /\ UNCHANGED <<lock, unlocks>>

\* store.unlock rejects, before or after it took effect: onSend will call it once more.
UnlockRejects(r) ==
    /\ ~inMemory
    /\ pc[r] = "stored"
    /\ Unlocks(r) \/ UNCHANGED <<lock, unlocks>>
    /\ Advance(r, "answering")
    /\ UNCHANGED <<cache, expired>>

\* store.tryLock rejects after it took effect: the request fails, and onSend passes its
\* error reply on because the request is not active.
LockReplyLost(r) ==
    /\ ~inMemory
    /\ pc[r] = "missed"
    /\ LockGranted
    /\ lock' = {r}
    /\ Advance(r, "stopped")
    /\ UNCHANGED <<cache, expired, unlocks>>

\* store.get or store.tryLock rejects, no error handler is left to reply, or the process
\* dies: the hooks go no further.
Stop(r) ==
    /\ ~inMemory
    /\ pc[r] \in {"missed", "handling", "answering", "stored"}
    /\ Advance(r, "stopped")
    /\ UNCHANGED <<store, unlocks>>

\* tryLock's ttlMs, a day, runs out on a lock whose holder is gone.
LockLapses ==
    /\ ~inMemory
    /\ \E r \in lock : pc[r] = "stopped"
    /\ lock' = {}
    /\ UNCHANGED <<cache, expired, pc, ahead, unlocks>>

IdemNext ==
    /\ \/ \E r \in Requests :
              GetHit(r) \/ GetMiss(r) \/ TryLock(r) \/ LockRefused(r)
              \/ Set(r) \/ Unlock(r)
              \/ SetRejects(r) \/ UnlockRejects(r) \/ LockReplyLost(r) \/ Stop(r)
       \/ Expire
       \/ LockLapses
    /\ UNCHANGED inMemory

\* Microtasks run to completion; the route's handler replies in the end.
IdemFairness ==
    \A r \in Requests :
        WF_<<store, pc, ahead, unlocks>>(TryLock(r) \/ LockRefused(r) \/ Set(r) \/ Unlock(r))

IdemSpec == IdemInit /\ [][IdemNext]_idemVars /\ IdemFairness

(***************************************************************************)
(* Properties.                                                             *)
(***************************************************************************)

States == {"idle", "missed", "handling", "answering", "stored", "sent", "replayed",
           "conflict", "stopped"}

\* Shape of the state; the lock is held by no request that was answered.
IdemTypeOK ==
    /\ inMemory \in BOOLEAN
    /\ cache \in SUBSET Requests
    /\ expired \in BOOLEAN
    /\ lock \in SUBSET {r \in Requests : pc[r] \in {"handling", "answering", "stored", "stopped"}}
    /\ pc \in [Requests -> States]
    /\ ahead \in [Requests -> SUBSET Requests]
    /\ unlocked \in SUBSET Requests
    /\ again \in SUBSET Requests

\* No two requests of one key are in the route's handler together, on the in-memory store
\* without exception.  Behind a network a lost lock reply, a rejected store call or a dead
\* process does not bring it about; a request that unlocks a second time, because the
\* reply to its first unlock was lost, may, for it frees whoever locked the key since
\* (idempotency.ts:143-154).
OneInside ==
    \A r, s \in Requests :
        pc[r] = "handling" /\ pc[s] = "handling" => r = s \/ (~inMemory /\ again # {})

\* With the in-memory store the route's handler is never started for a key whose
\* response is stored and has not expired, although the hook does not look again once it
\* holds the lock: such a request is answered from the store (idempotency.ts:89-97).
ReplayedNotRerun ==
    [][\A r \in Requests :
            inMemory /\ pc[r] = "missed" /\ pc'[r] = "handling" => Stored = {}]_idemVars

\* With the in-memory store a response stays the answer to its key until it expires: no
\* other response replaces it, so two replays of one key do not differ within its life.
AnswerKept == [][inMemory /\ Stored # {} /\ ~expired' => cache' = cache]_idemVars

\* With the in-memory store, whose lock has no expiry, a key is not left locked.
KeyReleased == \A r \in Requests : (inMemory /\ lock = {r}) ~> (lock # {r})
=============================================================================
