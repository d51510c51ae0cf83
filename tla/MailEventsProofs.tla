-------------------------- MODULE MailEventsProofs --------------------------
(***************************************************************************)
(* Proofs about mail events and the suppression list, for any number of    *)
(* notifications, receivers, administrators and faults.                    *)
(*                                                                         *)
(* Every step of MailEvents leaves the list alone or is one step of the    *)
(* list by one caller.  ListInv is inductive over these: it adds to the    *)
(* property of the list that a lookup under way has noted every instant    *)
(* without a live row, the present one included.                           *)
(*                                                                         *)
(* RestInv follows an event from the receiver to markProcessed: at most    *)
(* one receiver is about to enqueue it, and then it has no job; a handler  *)
(* has its active job; the delivery an event was applied to keeps its link *)
(* and its columns; past the suppression, the call of add has returned.    *)
(***************************************************************************)
EXTENDS MailEvents, TLAPS

LookingUp(c) == call[c].pc \in {"sismember", "query"}

\* A lookup under way has noted that there is no live row, if there is none.
LookupInv ==
    \A c \in Callers : LookingUp(c) /\ ~Matches(rows, call[c].key) => call[c].clear

ListInv == SuppressionsTypeOK /\ LookupInv /\ NoFalseNegative

\* One step of the list.
Begins(c) ==
    \E k \in Scopes :
        \/ StartLookup(c, k)
        \/ StartRemove(c, k)
        \/ \E lifetime \in RowLifetimes : StartAdd(c, k, lifetime)

ListChange ==
    \/ \E c \in Callers : Begins(c) \/ CallStep(c) \/ CallStops(c)
    \/ CacheStep

-----------------------------------------------------------------------------
(* Calls.                                                                   *)

IdleType ==
    [pc : {"idle"}] \union
    [pc : {"idle"}, result : {"suppressed", "added", "removed", "threw"}] \union
    [pc : {"idle"}, result : {"mailable"}, clear : BOOLEAN]

LookupType == [pc : {"sismember", "query", "sadd", "expire"}, op : {"lookup"}, key : Scopes, clear : BOOLEAN]
AddType == [pc : {"upsert", "sadd", "expire"}, op : {"add"}, key : Scopes, lifetime : RowLifetimes]
RemoveType == [pc : {"delete", "srem"}, op : {"remove"}, key : Scopes]

\* Of which kind a call is, by where it stands.
LEMMA CallKinds ==
    ASSUME SuppressionsTypeOK, NEW c \in Callers
    PROVE  /\ call[c].pc = "idle" => call[c] \in IdleType
           /\ call[c].pc \in {"sismember", "query"} => call[c] \in LookupType
           /\ call[c].pc \in {"sadd", "expire"} => call[c] \in LookupType \union AddType
           /\ call[c].pc = "upsert" => call[c] \in AddType
           /\ call[c].pc \in {"delete", "srem"} => call[c] \in RemoveType
           /\ call[c].pc # "idle" => call[c].key \in Scopes
           /\ call[c] \in IdleType \union LookupType \union AddType \union RemoveType
  <1>1. call[c] \in IdleType \union LookupType \union AddType \union RemoveType
    BY DEF SuppressionsTypeOK, CallType, IdleType, LookupType, AddType, RemoveType
  <1>2. CASE call[c] \in IdleType
    BY <1>2 DEF IdleType
  <1>3. CASE call[c] \in LookupType
    BY <1>3 DEF LookupType
  <1>4. CASE call[c] \in AddType
    BY <1>4 DEF AddType
  <1>5. CASE call[c] \in RemoveType
    BY <1>5 DEF RemoveType
  <1> QED
    BY <1>1, <1>2, <1>3, <1>4, <1>5

LEMMA Domains ==
    /\ \A r \in LookupType : "clear" \in DOMAIN r
    /\ \A r \in AddType \union RemoveType : "clear" \notin DOMAIN r
    /\ \A r \in IdleType : "result" \in DOMAIN r /\ r.result = "mailable" => r.clear \in BOOLEAN
  <1>1. \A r \in LookupType : "clear" \in DOMAIN r
    BY DEF LookupType
  <1>2. \A r \in AddType \union RemoveType : "clear" \notin DOMAIN r
    BY DEF AddType, RemoveType
  <1>3. \A r \in IdleType : "result" \in DOMAIN r /\ r.result = "mailable" => r.clear \in BOOLEAN
    BY DEF IdleType
  <1> QED
    BY <1>1, <1>2, <1>3

\* The record a step leaves at c.
LEMMA PutType ==
    ASSUME SuppressionsTypeOK, NEW c \in Callers, NEW r \in IdleType \union LookupType \union AddType \union RemoveType,
           call' = [call EXCEPT ![c] = r]
    PROVE  /\ call' \in [Callers -> CallType]
           /\ call'[c] = r /\ \A d \in Callers \ {c} : call'[d] = call[d]
  <1>1. r \in CallType
    BY DEF CallType, IdleType, LookupType, AddType, RemoveType
  <1> QED
    BY <1>1 DEF SuppressionsTypeOK

\* What a change of the rows leaves at a call.
LEMMA WatchedCalls ==
    ASSUME SuppressionsTypeOK, NEW q
    PROVE  /\ Watched(q) \in [Callers -> CallType]
           /\ \A d \in Callers :
                /\ LookingUp(d) => /\ Watched(q)[d] \in LookupType
                                   /\ Watched(q)[d].pc = call[d].pc
                                   /\ Watched(q)[d].key = call[d].key
                                   /\ Watched(q)[d].clear = (call[d].clear \/ ~Matches(q, call[d].key))
                /\ ~LookingUp(d) => Watched(q)[d] = call[d]
  <1>1. ASSUME NEW d \in Callers, LookingUp(d)
        PROVE  /\ Watched(q)[d] \in LookupType
               /\ Watched(q)[d].pc = call[d].pc
               /\ Watched(q)[d].key = call[d].key
               /\ Watched(q)[d].clear = (call[d].clear \/ ~Matches(q, call[d].key))
    <2>1. call[d] \in LookupType
      BY <1>1, CallKinds DEF LookingUp
    <2>2. "clear" \in DOMAIN call[d]
      BY <2>1, Domains
    <2>3. Watched(q)[d] = [call[d] EXCEPT !.clear = (call[d].clear \/ ~Matches(q, call[d].key))]
      BY <1>1, <2>2 DEF Watched, LookingUp
    <2>4. (call[d].clear \/ ~Matches(q, call[d].key)) \in BOOLEAN
      OBVIOUS
    <2> DEFINE b == (call[d].clear \/ ~Matches(q, call[d].key))
    <2>5. b \in BOOLEAN /\ Watched(q)[d] = [call[d] EXCEPT !.clear = b]
      BY <2>3, <2>4
    <2> HIDE DEF b
    <2>6. /\ Watched(q)[d] \in LookupType
          /\ Watched(q)[d].pc = call[d].pc
          /\ Watched(q)[d].key = call[d].key
          /\ Watched(q)[d].clear = b
      BY <2>1, <2>5 DEF LookupType
    <2> QED
      BY <2>6 DEF b
  <1>2. ASSUME NEW d \in Callers, ~LookingUp(d)
        PROVE  Watched(q)[d] = call[d]
    BY <1>2 DEF Watched, LookingUp
  <1>3. ASSUME NEW d \in Callers
        PROVE  Watched(q)[d] \in CallType
    <2>1. CASE LookingUp(d)
      BY <1>1, <2>1 DEF LookupType, CallType
    <2>2. CASE ~LookingUp(d)
      BY <1>2, <2>2 DEF SuppressionsTypeOK
    <2> QED
      BY <2>1, <2>2
  <1>4. Watched(q) \in [Callers -> CallType]
    <2>1. Watched(q) = [d \in Callers |-> Watched(q)[d]]
      BY DEF Watched
    <2> QED
      BY <1>3, <2>1
  <1> QED
    BY <1>1, <1>2, <1>4

-----------------------------------------------------------------------------
(* Steps of the list.                                                       *)

\* A call moves, and neither the rows nor the sets change.
LEMMA CallMoves ==
    ASSUME ListInv, NEW c \in Callers,
           NEW r \in IdleType \union LookupType \union AddType \union RemoveType,
           call' = [call EXCEPT ![c] = r],
           UNCHANGED <<rows, cached, targetExists, unblocked>>,
           r.pc \in {"sismember", "query"} /\ ~Matches(rows, r.key) => r.clear,
           r.pc = "idle" /\ "result" \in DOMAIN r /\ r.result = "mailable" => r.clear
    PROVE  ListInv'
  <1>1. /\ call' \in [Callers -> CallType]
        /\ call'[c] = r /\ \A d \in Callers \ {c} : call'[d] = call[d]
    BY PutType DEF ListInv
  <1>2. SuppressionsTypeOK'
    BY <1>1 DEF ListInv, SuppressionsTypeOK
  <1>3. LookupInv'
    <2> SUFFICES ASSUME NEW d \in Callers, LookingUp(d)', ~Matches(rows', call'[d].key)
                 PROVE  call'[d].clear
      BY DEF LookupInv
    <2>1. rows' = rows
      OBVIOUS
    <2>2. CASE d = c
      BY <1>1, <2>1, <2>2 DEF LookingUp
    <2>3. CASE d # c
      BY <1>1, <2>1, <2>3 DEF LookingUp, ListInv, LookupInv
    <2> QED
      BY <2>2, <2>3
  <1>4. NoFalseNegative'
    <2> SUFFICES ASSUME NEW d \in Callers, Answered(d, "mailable")'
                 PROVE  call'[d].clear
      BY DEF NoFalseNegative
    <2>1. CASE d = c
      BY <1>1, <2>1 DEF Answered, Idle
    <2>2. CASE d # c
      BY <1>1, <2>2 DEF Answered, Idle, ListInv, NoFalseNegative
    <2> QED
      BY <2>1, <2>2
  <1> QED
    BY <1>2, <1>3, <1>4 DEF ListInv

LEMMA LookupsStart ==
    ASSUME ListInv, NEW c \in Callers, NEW k \in Scopes, StartLookup(c, k)
    PROVE  ListInv'
  <1> DEFINE b == ~Matches(rows, k)
             r == [pc |-> "sismember", op |-> "lookup", key |-> k, clear |-> b]
  <1>1. b \in BOOLEAN
    OBVIOUS
  <1>2. call' = [call EXCEPT ![c] = r]
    BY DEF StartLookup, Idle
  <1>3. ~Matches(rows, k) => b
    OBVIOUS
  <1> HIDE DEF b
  <1>4. r \in LookupType /\ r.pc = "sismember" /\ r.key = k /\ r.clear = b
    BY <1>1 DEF LookupType
  <1> HIDE DEF r
  <1> QED
    BY <1>2, <1>3, <1>4, CallMoves DEF StartLookup

LEMMA AddsStart ==
    ASSUME ListInv, NEW c \in Callers, NEW k \in Scopes, NEW lifetime \in RowLifetimes,
           StartAdd(c, k, lifetime)
    PROVE  ListInv'
  <1> DEFINE r == [pc |-> "upsert", op |-> "add", key |-> k, lifetime |-> lifetime]
  <1>1. call' = [call EXCEPT ![c] = r]
    BY DEF StartAdd, Idle
  <1>2. r \in AddType /\ r.pc = "upsert"
    BY DEF AddType
  <1> HIDE DEF r
  <1> QED
    BY <1>1, <1>2, CallMoves DEF StartAdd

LEMMA RemovesStart ==
    ASSUME ListInv, NEW c \in Callers, NEW k \in Scopes, StartRemove(c, k)
    PROVE  ListInv'
  <1> DEFINE r == [pc |-> "delete", op |-> "remove", key |-> k]
  <1>1. call' = [call EXCEPT ![c] = r]
    BY DEF StartRemove, Idle
  <1>2. r \in RemoveType /\ r.pc = "delete"
    BY DEF RemoveType
  <1> HIDE DEF r
  <1> QED
    BY <1>1, <1>2, CallMoves DEF StartRemove

\* A call that moves on and keeps its record.
LEMMA Moved ==
    ASSUME SuppressionsTypeOK, NEW c \in Callers
    PROVE  /\ call[c].pc = "sismember" =>
                /\ [call[c] EXCEPT !.pc = "query"] \in LookupType
                /\ [call[c] EXCEPT !.pc = "query"].pc = "query"
                /\ [call[c] EXCEPT !.pc = "query"].key = call[c].key
                /\ [call[c] EXCEPT !.pc = "query"].clear = call[c].clear
           /\ call[c].pc = "query" =>
                /\ [call[c] EXCEPT !.pc = "sadd"] \in LookupType
                /\ [call[c] EXCEPT !.pc = "sadd"].pc = "sadd"
           /\ call[c].pc = "sadd" =>
                /\ [call[c] EXCEPT !.pc = "expire"] \in LookupType \union AddType
                /\ [call[c] EXCEPT !.pc = "expire"].pc = "expire"
           /\ call[c].pc = "upsert" =>
                /\ [call[c] EXCEPT !.pc = "sadd"] \in AddType
                /\ [call[c] EXCEPT !.pc = "sadd"].pc = "sadd"
           /\ call[c].pc = "delete" =>
                /\ [call[c] EXCEPT !.pc = "srem"] \in RemoveType
                /\ [call[c] EXCEPT !.pc = "srem"].pc = "srem"
                /\ [call[c] EXCEPT !.pc = "srem"].key = call[c].key
  <1>1. CASE call[c].pc \in {"sismember", "query"}
    BY <1>1, CallKinds DEF LookupType
  <1>2. CASE call[c].pc = "sadd"
    <2>1. call[c] \in LookupType \union AddType
      BY <1>2, CallKinds
    <2>2. CASE call[c] \in LookupType
      BY <1>2, <2>2 DEF LookupType
    <2>3. CASE call[c] \in AddType
      BY <1>2, <2>3 DEF AddType
    <2> QED
      BY <2>1, <2>2, <2>3
  <1>3. CASE call[c].pc = "upsert"
    BY <1>3, CallKinds DEF AddType
  <1>4. CASE call[c].pc = "delete"
    BY <1>4, CallKinds DEF RemoveType
  <1>5. CASE call[c].pc \notin {"sismember", "query", "sadd", "upsert", "delete"}
    BY <1>5
  <1> QED
    BY <1>1, <1>2, <1>3, <1>4, <1>5

LEMMA Returns ==
    ASSUME NEW result \in {"suppressed", "added", "removed", "threw"}
    PROVE  /\ Returned(result) \in IdleType
           /\ Returned(result).pc = "idle"
           /\ Returned(result).result # "mailable"
  BY DEF Returned, IdleType

LEMMA SismemberKeeps ==
    ASSUME ListInv, NEW c \in Callers, Sismember(c)
    PROVE  ListInv'
  <1>1. call[c].pc = "sismember" /\ UNCHANGED <<rows, cached, targetExists, unblocked>>
    BY DEF Sismember
  <1>2. CASE cached[call[c].key]
    <2>1. call' = [call EXCEPT ![c] = Returned("suppressed")]
      BY <1>2 DEF Sismember, Return
    <2> QED
      BY <1>1, <2>1, Returns, CallMoves
  <1>3. CASE ~cached[call[c].key]
    <2> DEFINE r == [call[c] EXCEPT !.pc = "query"]
    <2>1. call' = [call EXCEPT ![c] = r]
      BY <1>3 DEF Sismember, Goto
    <2>2. r \in LookupType /\ r.pc = "query" /\ r.key = call[c].key /\ r.clear = call[c].clear
      BY <1>1, Moved DEF ListInv
    <2>3. ~Matches(rows, call[c].key) => call[c].clear
      BY <1>1 DEF ListInv, LookupInv, LookingUp
    <2> HIDE DEF r
    <2>4. ~Matches(rows, r.key) => r.clear
      BY <2>2, <2>3
    <2> QED
      BY <1>1, <2>1, <2>2, <2>4, CallMoves
  <1> QED
    BY <1>2, <1>3

\* An answer "mailable" comes from an instant without a live row: the one of the query.
LEMMA QueryKeeps ==
    ASSUME ListInv, NEW c \in Callers, Query(c)
    PROVE  ListInv'
  <1>1. call[c].pc = "query" /\ UNCHANGED <<rows, cached, targetExists, unblocked>>
    BY DEF Query
  <1>2. CASE Matches(rows, call[c].key)
    <2> DEFINE r == [call[c] EXCEPT !.pc = "sadd"]
    <2>1. call' = [call EXCEPT ![c] = r]
      BY <1>2 DEF Query, Goto
    <2>2. r \in LookupType /\ r.pc = "sadd"
      BY <1>1, Moved DEF ListInv
    <2> HIDE DEF r
    <2> QED
      BY <1>1, <2>1, <2>2, CallMoves
  <1>3. CASE ~Matches(rows, call[c].key)
    <2> DEFINE r == [pc |-> "idle", result |-> "mailable", clear |-> call[c].clear]
    <2>1. call' = [call EXCEPT ![c] = r]
      BY <1>3 DEF Query
    <2>2. call[c].clear
      BY <1>1, <1>3 DEF ListInv, LookupInv, LookingUp
    <2>3. call[c] \in LookupType
      BY <1>1, CallKinds DEF ListInv
    <2>4. call[c].clear \in BOOLEAN
      BY <2>3 DEF LookupType
    <2>5. r \in IdleType /\ r.pc = "idle" /\ r.clear = call[c].clear
      BY <2>4 DEF IdleType
    <2> HIDE DEF r
    <2> QED
      BY <1>1, <2>1, <2>2, <2>5, CallMoves
  <1> QED
    BY <1>2, <1>3

LEMMA ExpireKeeps ==
    ASSUME ListInv, NEW c \in Callers, Expire(c)
    PROVE  ListInv'
  <1>1. PICK result \in {"suppressed", "added"} : call' = [call EXCEPT ![c] = Returned(result)]
    BY DEF Expire, Return
  <1> QED
    BY <1>1, Returns, CallMoves DEF Expire

\* The sets change, and a call moves on or returns.
LEMMA SetsChange ==
    ASSUME ListInv, NEW c \in Callers,
           NEW r \in IdleType \union LookupType \union AddType \union RemoveType,
           call' = [call EXCEPT ![c] = r],
           UNCHANGED <<rows, targetExists>>,
           r.pc \notin {"sismember", "query"},
           r.pc = "idle" => r.result # "mailable",
           cached' \in [Scopes -> BOOLEAN], unblocked' \in [Scopes -> BOOLEAN]
    PROVE  ListInv'
  <1>1. /\ call' \in [Callers -> CallType]
        /\ call'[c] = r /\ \A d \in Callers \ {c} : call'[d] = call[d]
    BY PutType DEF ListInv
  <1>2. SuppressionsTypeOK'
    BY <1>1 DEF ListInv, SuppressionsTypeOK
  <1>3. LookupInv'
    <2> SUFFICES ASSUME NEW d \in Callers, LookingUp(d)', ~Matches(rows', call'[d].key)
                 PROVE  call'[d].clear
      BY DEF LookupInv
    <2>1. d # c
      BY <1>1 DEF LookingUp
    <2> QED
      BY <1>1, <2>1 DEF LookingUp, ListInv, LookupInv
  <1>4. NoFalseNegative'
    <2> SUFFICES ASSUME NEW d \in Callers, Answered(d, "mailable")'
                 PROVE  call'[d].clear
      BY DEF NoFalseNegative
    <2>1. d # c
      BY <1>1 DEF Answered, Idle
    <2> QED
      BY <1>1, <2>1 DEF Answered, Idle, ListInv, NoFalseNegative
  <1> QED
    BY <1>2, <1>3, <1>4 DEF ListInv

LEMMA SaddKeeps ==
    ASSUME ListInv, NEW c \in Callers, Sadd(c)
    PROVE  ListInv'
  <1> DEFINE r == [call[c] EXCEPT !.pc = "expire"]
  <1>1. call[c].pc = "sadd" /\ call' = [call EXCEPT ![c] = r]
    BY DEF Sadd, Goto
  <1>2. r \in LookupType \union AddType /\ r.pc = "expire"
    BY <1>1, Moved DEF ListInv
  <1>3. cached' \in [Scopes -> BOOLEAN] /\ unblocked' \in [Scopes -> BOOLEAN]
    BY DEF Sadd, ListInv, SuppressionsTypeOK
  <1>4. UNCHANGED <<rows, targetExists>>
    BY DEF Sadd
  <1> HIDE DEF r
  <1> QED
    BY <1>1, <1>2, <1>3, <1>4, SetsChange

LEMMA SremKeeps ==
    ASSUME ListInv, NEW c \in Callers, Srem(c)
    PROVE  ListInv'
  <1> DEFINE b == ~Matches(rows, call[c].key)
  <1>1. call' = [call EXCEPT ![c] = Returned("removed")]
    BY DEF Srem, Return
  <1>2. b \in BOOLEAN
    OBVIOUS
  <1>3. unblocked' = [unblocked EXCEPT ![call[c].key] = b]
    BY DEF Srem
  <1> HIDE DEF b
  <1>4. cached' \in [Scopes -> BOOLEAN] /\ unblocked' \in [Scopes -> BOOLEAN]
    BY <1>2, <1>3 DEF Srem, ListInv, SuppressionsTypeOK
  <1>5. UNCHANGED <<rows, targetExists>>
    BY DEF Srem
  <1> QED
    BY <1>1, <1>4, <1>5, Returns, SetsChange

LEMMA CallStopsKeeps ==
    ASSUME ListInv, NEW c \in Callers, CallStops(c)
    PROVE  ListInv'
  <1>1. call' = [call EXCEPT ![c] = Returned("threw")]
    BY DEF CallStops, Return
  <1>2. UNCHANGED <<rows, cached, targetExists, unblocked>>
    BY DEF CallStops
  <1> QED
    BY <1>1, <1>2, Returns, CallMoves

\* The rows change, and perhaps one call, which is no lookup under way, moves on.
LEMMA RowsChange ==
    ASSUME ListInv,
           rows' \in [Scopes -> RowLifetimes \union {"none", "expired"}],
           UNCHANGED <<cached, targetExists>>,
           call' \in [Callers -> CallType],
           \A d \in Callers : LookingUp(d) => call'[d] = Watched(rows')[d],
           \A d \in Callers : ~LookingUp(d) => call'[d] = call[d] \/ call'[d].pc \in {"sadd", "srem"},
           unblocked' \in [Scopes -> BOOLEAN]
    PROVE  ListInv'
  <1>1. SuppressionsTypeOK'
    BY DEF ListInv, SuppressionsTypeOK
  <1>2. LookupInv'
    <2> SUFFICES ASSUME NEW d \in Callers, LookingUp(d)', ~Matches(rows', call'[d].key)
                 PROVE  call'[d].clear
      BY DEF LookupInv
    <2>1. LookingUp(d)
      BY DEF LookingUp
    <2> DEFINE q == rows'
    <2>2. /\ Watched(q)[d].key = call[d].key
          /\ Watched(q)[d].clear = (call[d].clear \/ ~Matches(q, call[d].key))
      BY <2>1, WatchedCalls DEF ListInv
    <2>3. call'[d] = Watched(q)[d] /\ ~Matches(q, call'[d].key)
      BY <2>1
    <2> HIDE DEF q
    <2> QED
      BY <2>2, <2>3
  <1>3. NoFalseNegative'
    <2> SUFFICES ASSUME NEW d \in Callers, Answered(d, "mailable")'
                 PROVE  call'[d].clear
      BY DEF NoFalseNegative
    <2>1. call'[d].pc = "idle"
      BY DEF Answered, Idle
    <2>2. ~LookingUp(d)
      <3> SUFFICES ASSUME LookingUp(d)
                   PROVE  FALSE
        OBVIOUS
      <3> DEFINE q == rows'
      <3>1. Watched(q)[d].pc = call[d].pc
        BY WatchedCalls DEF ListInv
      <3>2. call'[d] = Watched(q)[d]
        OBVIOUS
      <3> HIDE DEF q
      <3> QED
        BY <2>1, <3>1, <3>2 DEF LookingUp
    <2>3. call'[d] = call[d]
      BY <2>1, <2>2
    <2> QED
      BY <2>3 DEF Answered, Idle, ListInv, NoFalseNegative
  <1> QED
    BY <1>1, <1>2, <1>3 DEF ListInv

\* A call that moves on while the others note the change of the rows.
LEMMA MovedAmongWatched ==
    ASSUME SuppressionsTypeOK, NEW c \in Callers, NEW pc \in {"sadd", "srem"},
           ~LookingUp(c), [call[c] EXCEPT !.pc = pc] \in AddType \union RemoveType,
           call' = [Watched(rows') EXCEPT ![c].pc = pc]
    PROVE  /\ call' \in [Callers -> CallType]
           /\ call'[c] = [call[c] EXCEPT !.pc = pc]
           /\ \A d \in Callers \ {c} : call'[d] = Watched(rows')[d]
  <1> DEFINE q == rows'
             w == Watched(q)
             r == [call[c] EXCEPT !.pc = pc]
  <1>1. w \in [Callers -> CallType] /\ w[c] = call[c]
    <2> HIDE DEF q
    <2> QED
      BY WatchedCalls
  <1>2. r \in CallType
    BY DEF CallType, AddType, RemoveType
  <1>3. call' = [w EXCEPT ![c] = r]
    BY <1>1
  <1> HIDE DEF w, r, q
  <1>4. call' \in [Callers -> CallType] /\ call'[c] = r /\ \A d \in Callers \ {c} : call'[d] = w[d]
    BY <1>1, <1>2, <1>3
  <1> QED
    BY <1>4 DEF w, r, q

LEMMA UpsertKeeps ==
    ASSUME ListInv, NEW c \in Callers, Upsert(c)
    PROVE  ListInv'
  <1>1. call[c].pc = "upsert" /\ UNCHANGED <<cached, targetExists>>
    BY DEF Upsert
  <1>2. CASE targetExists
    <2> DEFINE k == call[c].key
               l == call[c].lifetime
               r == [call[c] EXCEPT !.pc = "sadd"]
    <2>1. rows' = [rows EXCEPT ![k] = l] /\ call' = [Watched(rows') EXCEPT ![c].pc = "sadd"]
      BY <1>2 DEF Upsert
    <2>2. call[c] \in AddType
      BY <1>1, CallKinds DEF ListInv
    <2>3. k \in Scopes /\ l \in RowLifetimes
      BY <2>2 DEF AddType
    <2>4. ~LookingUp(c)
      BY <1>1 DEF LookingUp
    <2>5. r \in AddType /\ r.pc = "sadd"
      BY <1>1, Moved DEF ListInv
    <2>6. /\ call' \in [Callers -> CallType]
          /\ call'[c] = r
          /\ \A d \in Callers \ {c} : call'[d] = Watched(rows')[d]
      BY <2>1, <2>4, <2>5, MovedAmongWatched DEF ListInv
    <2> HIDE DEF k, l, r
    <2>7. rows' \in [Scopes -> RowLifetimes \union {"none", "expired"}]
      BY <2>1, <2>3 DEF ListInv, SuppressionsTypeOK
    <2>8. \A d \in Callers : ~LookingUp(d) => Watched(rows')[d] = call[d]
      BY WatchedCalls DEF ListInv
    <2>9. /\ \A d \in Callers : LookingUp(d) => call'[d] = Watched(rows')[d]
          /\ \A d \in Callers : ~LookingUp(d) => call'[d] = call[d] \/ call'[d].pc \in {"sadd", "srem"}
      BY <2>4, <2>5, <2>6, <2>8
    <2>10. unblocked' \in [Scopes -> BOOLEAN]
      BY <1>2 DEF Upsert
    <2> QED
      BY <1>1, <2>6, <2>7, <2>9, <2>10, RowsChange
  <1>3. CASE ~targetExists
    <2>1. call' = [call EXCEPT ![c] = Returned("threw")] /\ UNCHANGED <<rows, unblocked>>
      BY <1>3 DEF Upsert, Return
    <2> QED
      BY <1>1, <2>1, Returns, CallMoves
  <1> QED
    BY <1>2, <1>3

LEMMA DeleteRowKeeps ==
    ASSUME ListInv, NEW c \in Callers, DeleteRow(c)
    PROVE  ListInv'
  <1> DEFINE k == call[c].key
  <1>1. call[c].pc = "delete" /\ UNCHANGED <<cached, targetExists, unblocked>>
    BY DEF DeleteRow
  <1>2. CASE rows[k] # "none"
    <2> DEFINE r == [call[c] EXCEPT !.pc = "srem"]
    <2>1. rows' = [rows EXCEPT ![k] = "none"] /\ call' = [Watched(rows') EXCEPT ![c].pc = "srem"]
      BY <1>2 DEF DeleteRow
    <2>2. ~LookingUp(c)
      BY <1>1 DEF LookingUp
    <2>3. r \in RemoveType /\ r.pc = "srem"
      BY <1>1, Moved DEF ListInv
    <2>4. /\ call' \in [Callers -> CallType]
          /\ call'[c] = r
          /\ \A d \in Callers \ {c} : call'[d] = Watched(rows')[d]
      BY <2>1, <2>2, <2>3, MovedAmongWatched DEF ListInv
    <2> HIDE DEF k, r
    <2>5. /\ rows' \in [Scopes -> RowLifetimes \union {"none", "expired"}]
          /\ unblocked' \in [Scopes -> BOOLEAN]
      BY <1>1, <2>1 DEF ListInv, SuppressionsTypeOK
    <2>6. \A d \in Callers : ~LookingUp(d) => Watched(rows')[d] = call[d]
      BY WatchedCalls DEF ListInv
    <2>7. /\ \A d \in Callers : LookingUp(d) => call'[d] = Watched(rows')[d]
          /\ \A d \in Callers : ~LookingUp(d) => call'[d] = call[d] \/ call'[d].pc \in {"sadd", "srem"}
      BY <2>2, <2>3, <2>4, <2>6
    <2> QED
      BY <1>1, <2>4, <2>5, <2>7, RowsChange
  <1>3. CASE rows[k] = "none"
    <2>1. call' = [call EXCEPT ![c] = Returned("removed")] /\ UNCHANGED rows
      BY <1>3 DEF DeleteRow, Return
    <2> QED
      BY <1>1, <2>1, Returns, CallMoves
  <1> QED
    BY <1>2, <1>3

LEMMA RowExpiresKeeps ==
    ASSUME ListInv, NEW k \in Scopes, RowExpires(k)
    PROVE  ListInv'
  <1>1. /\ rows' = [rows EXCEPT ![k] = "expired"]
        /\ call' = Watched(rows')
        /\ UNCHANGED <<cached, targetExists, unblocked>>
    BY DEF RowExpires
  <1>2. /\ rows' \in [Scopes -> RowLifetimes \union {"none", "expired"}]
        /\ unblocked' \in [Scopes -> BOOLEAN]
    BY <1>1 DEF ListInv, SuppressionsTypeOK
  <1>3. call' \in [Callers -> CallType]
    BY <1>1, WatchedCalls DEF ListInv
  <1>4. \A d \in Callers : ~LookingUp(d) => Watched(rows')[d] = call[d]
    BY WatchedCalls DEF ListInv
  <1>5. /\ \A d \in Callers : LookingUp(d) => call'[d] = Watched(rows')[d]
        /\ \A d \in Callers : ~LookingUp(d) => call'[d] = call[d] \/ call'[d].pc \in {"sadd", "srem"}
    BY <1>1, <1>4
  <1> QED
    BY <1>1, <1>2, <1>3, <1>5, RowsChange

LEMMA DropSetKeeps ==
    ASSUME ListInv, NEW k \in Scopes, DropSet(k)
    PROVE  ListInv'
  <1>1. UNCHANGED <<rows, call, targetExists, unblocked>>
    BY DEF DropSet
  <1>2. SuppressionsTypeOK'
    BY <1>1 DEF DropSet, ListInv, SuppressionsTypeOK
  <1>3. LookupInv'
    BY <1>1 DEF ListInv, LookupInv, LookingUp
  <1>4. NoFalseNegative'
    BY <1>1 DEF ListInv, NoFalseNegative, Answered, Idle
  <1> QED
    BY <1>2, <1>3, <1>4 DEF ListInv

LEMMA ListSteps ==
    ListInv /\ ListChange => ListInv'
  <1> SUFFICES ASSUME ListInv, ListChange
               PROVE  ListInv'
    OBVIOUS
  <1>1. ASSUME NEW c \in Callers, Begins(c)
        PROVE  ListInv'
    BY <1>1, LookupsStart, RemovesStart, AddsStart DEF Begins
  <1>2. ASSUME NEW c \in Callers, CallStep(c)
        PROVE  ListInv'
    BY <1>2, SismemberKeeps, QueryKeeps, SaddKeeps, ExpireKeeps, UpsertKeeps, DeleteRowKeeps,
       SremKeeps DEF CallStep
  <1>3. ASSUME NEW c \in Callers, CallStops(c)
        PROVE  ListInv'
    BY <1>3, CallStopsKeeps
  <1>4. ASSUME CacheStep
        PROVE  ListInv'
    BY <1>4, DropSetKeeps, RowExpiresKeeps DEF CacheStep
  <1> QED
    BY <1>1, <1>2, <1>3, <1>4 DEF ListChange

LEMMA OtherSteps ==
    ListInv /\ UNCHANGED suppressionVars => ListInv'
  BY DEF suppressionVars, ListInv, SuppressionsTypeOK, LookupInv, LookingUp, NoFalseNegative,
         Answered, Idle

-----------------------------------------------------------------------------
(* Steps of the mailer.                                                     *)

LEMMA CallersAre ==
    /\ Sender \in Callers /\ EventIds \subseteq Callers /\ Administrators \subseteq Callers
    /\ "tenant" \in Scopes /\ "permanent" \in RowLifetimes
  BY MailEventsAssumption DEF Scopes, RowLifetimes

\* No step of mail.send, of the receiver or of the handler is more than one step of the list.
LEMMA StepsOfList ==
    Next => ListChange \/ UNCHANGED suppressionVars
  <1> SUFFICES ASSUME Next
               PROVE  ListChange \/ UNCHANGED suppressionVars
    OBVIOUS
  <1>1. CASE SendLookup
    <2>1. StartLookup(Sender, "tenant")
      BY <1>1 DEF SendLookup
    <2>2. Begins(Sender)
      BY <2>1, CallersAre DEF Begins
    <2> QED
      BY <2>2, CallersAre DEF ListChange
  <1>2. CASE SendDecide \/ SendTransport \/ MarkSent \/ SendFails
    BY <1>2 DEF SendDecide, SendTransport, MarkSent, SendFails
  <1>3. ASSUME NEW r \in Receivers,
               (\E n \in Notifications : Notify(r, n)) \/ Append(r) \/ Enqueue(r) \/ HookFails(r)
        PROVE  UNCHANGED suppressionVars
    BY <1>3 DEF Notify, Append, Enqueue, HookFails
  <1>4. ASSUME NEW e \in EventIds, StartRun(e) \/ RunFails(e) \/ Swallow(e) \/ Forget(e)
        PROVE  UNCHANGED suppressionVars
    BY <1>4 DEF StartRun, RunFails, Swallow, Forget
  <1>5. ASSUME NEW e \in EventIds, RunStep(e)
        PROVE  ListChange \/ UNCHANGED suppressionVars
    <2>1. CASE Suppress(e)
      <3>1. StartAdd(e, "tenant", "permanent")
        BY <2>1 DEF Suppress
      <3>2. Begins(e)
        BY <3>1, CallersAre DEF Begins
      <3> QED
        BY <3>2, CallersAre DEF ListChange
    <2>2. CASE FindEvent(e) \/ ApplyEvent(e) \/ Suppressed(e) \/ AuditEvent(e) \/ MarkProcessed(e)
      BY <2>2 DEF FindEvent, ApplyEvent, Suppressed, AuditEvent, MarkProcessed
    <2> QED
      BY <1>5, <2>1, <2>2 DEF RunStep
  <1>6. ASSUME NEW c \in Callers, ListStep(c) \/ ListFails(c)
        PROVE  ListChange
    BY <1>6 DEF ListStep, ListFails, ListChange
  <1>7. ASSUME NEW a \in Administrators, Edit(a)
        PROVE  ListChange
    <2>1. Begins(a)
      BY <1>7 DEF Edit, SuppressionsEnv, Begins
    <2> QED
      BY <2>1, CallersAre DEF ListChange
  <1>8. CASE CacheStep
    BY <1>8 DEF ListChange
  <1> QED
    BY <1>1, <1>2, <1>3, <1>4, <1>5, <1>6, <1>7, <1>8 DEF Next

LEMMA ListInvInit ==
    Init => ListInv
  <1> SUFFICES ASSUME Init
               PROVE  ListInv
    OBVIOUS
  <1>1. SuppressionsInit
    BY DEF Init
  <1>2. SuppressionsTypeOK
    <2>1. NoCall \in CallType
      BY DEF NoCall, CallType
    <2> QED
      BY <1>1, <2>1 DEF SuppressionsInit, SuppressionsTypeOK, RowLifetimes
  <1>3. \A c \in Callers : call[c] = [pc |-> "idle"]
    BY <1>1 DEF SuppressionsInit, NoCall
  <1>4. LookupInv
    BY <1>3 DEF LookupInv, LookingUp
  <1>5. NoFalseNegative
    <2>1. "result" \notin DOMAIN [pc |-> "idle"]
      OBVIOUS
    <2> QED
      BY <1>3, <2>1 DEF NoFalseNegative, Answered
  <1> QED
    BY <1>2, <1>4, <1>5 DEF ListInv

\* The suppression list keeps its invariant, whatever the webhooks, mail.send, the
\* handlers, the administrators and the lifetimes of rows and sets do.
THEOREM SuppressionsInvariant ==
    Spec => []ListInv
  <1>1. ListInv /\ [Next]_vars => ListInv'
    <2>1. UNCHANGED vars => UNCHANGED suppressionVars
      BY DEF vars
    <2> QED
      BY <2>1, StepsOfList, ListSteps, OtherSteps
  <1> QED
    BY ListInvInit, <1>1, PTL DEF Spec

\* The rows, the sets and the calls keep their types.
THEOREM SuppressionsTypeCorrect ==
    Spec => []SuppressionsTypeOK
  <1>1. ListInv => SuppressionsTypeOK
    BY DEF ListInv
  <1> QED
    BY <1>1, SuppressionsInvariant, PTL

\* isSuppressed says "not suppressed" only of an address that had no live row at some
\* instant of the call: no cache lets a mail through that was suppressed all along.
THEOREM NeverFalseNegative ==
    Spec => []NoFalseNegative
  <1>1. ListInv => NoFalseNegative
    BY DEF ListInv
  <1> QED
    BY <1>1, SuppressionsInvariant, PTL

-----------------------------------------------------------------------------
(* The mailer around the list: events, their jobs and their handlers.       *)

MailerTypeOK ==
    /\ job \in [EventIds -> JobType]
    /\ provider \in Transports
    /\ delivery \in [status : {"queued", "sending", "sent", "suppressed", "failed", "bounced", "complained"},
                     link : Messages \union {NoMessage},
                     stamps : SUBSET {"sent_at", "bounced_at", "complained_at", "opened_at", "clicked_at"}]
    /\ send \in [pc : {"waiting", "lookup", "transport", "markSent", "done"},
                 message : Messages \union {NoMessage}]
    /\ minted \subseteq Messages
    /\ hook \in [Receivers -> [pc : {"idle"}] \union [pc : {"append", "enqueue"}, note : Notifications]]
    /\ events \in [EventIds -> Notifications \union {NoEvent}]
    /\ processed \subseteq EventIds
    /\ run \in [EventIds -> RunPc]
    /\ edits \in Nat
    /\ faults \in Nat
    /\ applied \subseteq EventIds
    /\ dropped \subseteq EventIds

\* Every notification on its way is an event, of a message the provider has accepted.
Known(n) == EventType(provider, n) # "none" /\ n.message \in Messages

KnownInv ==
    /\ \A r \in Receivers : hook[r].pc # "idle" => Known(hook[r].note)
    /\ \A e \in EventIds : Stored(e) => Known(events[e])

\* The event of a receiver between the insert and the enqueue has no job yet, and no other
\* receiver is about to give it one.
Of(r) == EventId(provider, hook[r].note)

EnqueueInv ==
    /\ \A r \in Receivers : hook[r].pc = "enqueue" => Stored(Of(r)) /\ job[Of(r)].state = "none"
    /\ \A r, s \in Receivers : hook[r].pc = "enqueue" /\ hook[s].pc = "enqueue" /\ Of(r) = Of(s) => r = s

\* Jobs are of stored events, and handlers of active jobs.
JobInv ==
    \A e \in EventIds :
        /\ ~Stored(e) => job[e].state = "none"
        /\ run[e] # "idle" => job[e].state = "active"
        /\ run[e] \notin {"idle", "find"} => e \notin processed

\* The delivery of an applied event is linked for good, and bears its mark.
AppliedInv ==
    /\ delivery.link # NoMessage => send.pc = "done"
    /\ \A e \in applied :
        /\ Stored(e)
        /\ delivery.link = Note(e).message
        /\ EventColumn(Type(e)) \in delivery.stamps

\* Past the suppression, the address is on the list.
SuppressInv ==
    /\ \A e \in EventIds : run[e] \in {"suppress", "suppressing", "audit"} => e \in applied
    /\ \A e \in applied :
        MustSuppress(Note(e)) /\ (e \in processed \/ run[e] \in {"audit", "mark"}) => Answered(e, "added")

RestInv ==
    /\ MailerTypeOK
    /\ KnownInv
    /\ EnqueueInv
    /\ JobInv
    /\ UnprocessedAccounted
    /\ AppliedInv
    /\ SuppressInv

MailInv == ListInv /\ RestInv

\* What the mappers of the providers give.
LEMMA EventTypes ==
    ASSUME NEW p \in Transports, NEW n
    PROVE  /\ EventType(p, n) = KindType(n)
           /\ KindType(n) \in {"bounced.hard", "bounced.soft", "delivered", "complained", "opened",
                               "clicked", "none"}
           /\ MustSuppress(n) <=> KindType(n) \in SuppressingTypes
  <1>1. p \in {"ses", "postmark", "resend"}
    BY MailEventsAssumption DEF Webhookers
  <1>2. EventType(p, n) = KindType(n)
    BY <1>1 DEF EventType, EventOf, SesEvent, ResendEvent, PostmarkEvent, Event
  <1>3. KindType(n) \in {"bounced.hard", "bounced.soft", "delivered", "complained", "opened",
                         "clicked", "none"}
    BY DEF KindType, BounceType
  <1>4. MustSuppress(n) <=> KindType(n) \in SuppressingTypes
    BY DEF MustSuppress, KindType, BounceType, SuppressingTypes
  <1> QED
    BY <1>2, <1>3, <1>4

\* The columns and statuses of known events.
LEMMA EventMarks ==
    ASSUME NEW type \in {"bounced.hard", "bounced.soft", "delivered", "complained", "opened", "clicked"},
           NEW was \in {"queued", "sending", "sent", "suppressed", "failed", "bounced", "complained"}
    PROVE  /\ EventColumn(type) \in {"sent_at", "bounced_at", "complained_at", "opened_at", "clicked_at"}
           /\ EventStatus(type, was) \in {"queued", "sending", "sent", "suppressed", "failed", "bounced",
                                          "complained"}
  BY DEF EventColumn, EventStatus

LEMMA EventIdIn ==
    ASSUME NEW p \in Transports, NEW n \in Notifications
    PROVE  EventId(p, n) \in EventIds
  BY DEF EventIds

\* The job of e gets a state in S, and no other job changes.
JobMoves(e, S) ==
    /\ job' \in [EventIds -> JobType]
    /\ \A d \in EventIds \ {e} : job'[d] = job[d]
    /\ job'[e].state \in S

LEMMA JobPut ==
    ASSUME job \in [EventIds -> JobType], NEW e \in EventIds, NEW r \in JobType,
           job' = [job EXCEPT ![e] = r]
    PROVE  JobMoves(e, {r.state})
  BY DEF JobMoves

\* The operations of the queue on one job.
LEMMA JobOperations ==
    ASSUME job \in [EventIds -> JobType], NEW e \in EventIds
    PROVE  /\ AddJob(e) => JobMoves(e, IF job[e].state = "none" THEN {"waiting"} ELSE {job[e].state})
           /\ TakeJob(e) => JobMoves(e, {"active"}) /\ job[e].state = "waiting"
           /\ SwallowJob(e) => JobMoves(e, {"completed"}) /\ job[e].state = "waiting"
           /\ CompleteJob(e) => JobMoves(e, {"completed"})
           /\ FailAttempt(e) \/ StallJob(e) => JobMoves(e, {"waiting", "failed"})
           /\ RemoveJob(e) => JobMoves(e, {"none"}) /\ job[e].state \in {"completed", "failed"}
  <1>0. job[e] \in JobType
    OBVIOUS
  <1>1. ASSUME AddJob(e)
        PROVE  JobMoves(e, IF job[e].state = "none" THEN {"waiting"} ELSE {job[e].state})
    <2>1. CASE job[e].state = "none"
      <3>1. job' = [job EXCEPT ![e] = [job[e] EXCEPT !.state = "waiting"]]
        BY <1>1, <2>1 DEF AddJob
      <3>2. [job[e] EXCEPT !.state = "waiting"] \in JobType /\ [job[e] EXCEPT !.state = "waiting"].state = "waiting"
        BY <1>0 DEF JobType
      <3>3. JobMoves(e, {"waiting"})
        BY <3>1, <3>2, JobPut
      <3> QED
        BY <2>1, <3>3
    <2>2. CASE job[e].state # "none"
      BY <1>1, <2>2 DEF AddJob, JobMoves
    <2> QED
      BY <2>1, <2>2
  <1>2. ASSUME TakeJob(e)
        PROVE  JobMoves(e, {"active"}) /\ job[e].state = "waiting"
    <2>1. job' = [job EXCEPT ![e] = [job[e] EXCEPT !.state = "active"]] /\ job[e].state = "waiting"
      BY <1>2 DEF TakeJob
    <2>2. [job[e] EXCEPT !.state = "active"] \in JobType /\ [job[e] EXCEPT !.state = "active"].state = "active"
      BY <1>0 DEF JobType
    <2> QED
      BY <2>1, <2>2, JobPut
  <1>3. /\ [NoJob EXCEPT !.state = "completed"] \in JobType /\ NoJob \in JobType
        /\ [NoJob EXCEPT !.state = "completed"].state = "completed" /\ NoJob.state = "none"
    BY DEF NoJob, JobType
  <1>4. SwallowJob(e) => JobMoves(e, {"completed"}) /\ job[e].state = "waiting"
    BY <1>3, JobPut DEF SwallowJob
  <1>5. CompleteJob(e) => JobMoves(e, {"completed"})
    BY <1>3, JobPut DEF CompleteJob
  <1>6. RemoveJob(e) => JobMoves(e, {"none"}) /\ job[e].state \in {"completed", "failed"}
    BY <1>3, JobPut DEF RemoveJob
  <1>7. job[e].attempts \in Nat /\ job[e].stalls \in Nat
    BY <1>0 DEF JobType
  <1>8. ASSUME FailAttempt(e)
        PROVE  JobMoves(e, {"waiting", "failed"})
    <2> DEFINE n == job[e].attempts + 1
               s == IF job[e].attempts + 1 >= MaxAttempts THEN "failed" ELSE "waiting"
               r == [job[e] EXCEPT !.attempts = n, !.state = s]
    <2>1. job' = [job EXCEPT ![e] = r]
      BY <1>8 DEF FailAttempt
    <2>2. n \in Nat
      BY <1>7
    <2>3. s \in {"waiting", "failed"}
      OBVIOUS
    <2> HIDE DEF n, s
    <2>4. r \in JobType /\ r.state = s
      BY <1>0, <2>2, <2>3 DEF JobType
    <2> HIDE DEF r
    <2> QED
      BY <2>1, <2>3, <2>4, JobPut DEF JobMoves
  <1>9. ASSUME StallJob(e)
        PROVE  JobMoves(e, {"waiting", "failed"})
    <2> DEFINE n == job[e].stalls + 1
               s == IF job[e].stalls >= MaxStalled THEN "failed" ELSE "waiting"
               r == [job[e] EXCEPT !.stalls = n, !.state = s]
    <2>1. job' = [job EXCEPT ![e] = r]
      BY <1>9 DEF StallJob
    <2>2. n \in Nat
      BY <1>7
    <2>3. s \in {"waiting", "failed"}
      OBVIOUS
    <2> HIDE DEF n, s
    <2>4. r \in JobType /\ r.state = s
      BY <1>0, <2>2, <2>3 DEF JobType
    <2> HIDE DEF r
    <2> QED
      BY <2>1, <2>3, <2>4, JobPut DEF JobMoves
  <1> QED
    BY <1>1, <1>2, <1>4, <1>5, <1>6, <1>8, <1>9

\* A call that has returned stays as it is until its caller begins another one.
LEMMA ReturnedStays ==
    ASSUME ListInv, NEW e \in Callers, Idle(e), NEW c \in Callers,
           \/ Begins(c) /\ c # e
           \/ CallStep(c) \/ CallStops(c) \/ CacheStep
    PROVE  call'[e] = call[e]
  <1>0. call \in [Callers -> CallType] /\ call[e].pc = "idle"
    BY DEF ListInv, SuppressionsTypeOK, Idle
  <1>1. \A q : Watched(q) \in [Callers -> CallType] /\ Watched(q)[e] = call[e]
    BY <1>0, WatchedCalls DEF ListInv, LookingUp
  <1>2. CASE Begins(c) /\ c # e
    BY <1>0, <1>2 DEF Begins, StartLookup, StartAdd, StartRemove
  <1>3. CASE Sismember(c) \/ Query(c) \/ Sadd(c) \/ Expire(c) \/ Srem(c) \/ CallStops(c)
    <2>1. c # e
      BY <1>0, <1>3 DEF Sismember, Query, Sadd, Expire, Srem, CallStops, Idle
    <2> QED
      BY <1>0, <1>3, <2>1 DEF Sismember, Query, Sadd, Expire, Srem, CallStops, Return, Goto
  <1>4. CASE Upsert(c)
    <2>1. c # e
      BY <1>0, <1>4 DEF Upsert
    <2>2. CASE targetExists
      <3>1. call' = [Watched(rows') EXCEPT ![c].pc = "sadd"]
        BY <1>4, <2>2 DEF Upsert
      <3> QED
        BY <1>1, <2>1, <3>1
    <2>3. CASE ~targetExists
      BY <1>0, <1>4, <2>1, <2>3 DEF Upsert, Return
    <2> QED
      BY <2>2, <2>3
  <1>5. CASE DeleteRow(c)
    <2>1. c # e
      BY <1>0, <1>5 DEF DeleteRow
    <2>2. CASE rows[call[c].key] # "none"
      <3>1. call' = [Watched(rows') EXCEPT ![c].pc = "srem"]
        BY <1>5, <2>2 DEF DeleteRow
      <3> QED
        BY <1>1, <2>1, <3>1
    <2>3. CASE rows[call[c].key] = "none"
      BY <1>0, <1>5, <2>1, <2>3 DEF DeleteRow, Return
    <2> QED
      BY <2>2, <2>3
  <1>6. CASE CacheStep
    BY <1>1, <1>6 DEF CacheStep, DropSet, RowExpires
  <1> QED
    BY <1>2, <1>3, <1>4, <1>5, <1>6 DEF CallStep

-----------------------------------------------------------------------------
(* Steps that leave the webhooks and the handlers alone.                    *)

LEMMA ListSide ==
    ASSUME MailInv, UNCHANGED <<job, sendVars, hookVars, handlerVars, provider, dropped>>,
           edits' \in Nat, faults' \in Nat,
           \A e \in applied : Answered(e, "added") => Answered(e, "added")'
    PROVE  RestInv'
  <1>0. /\ UNCHANGED <<job, delivery, send, minted, hook, events, processed, run, applied, provider, dropped>>
        /\ RestInv
    BY DEF sendVars, hookVars, handlerVars, MailInv
  <1>1. MailerTypeOK'
    BY <1>0 DEF RestInv, MailerTypeOK
  <1>2. KnownInv'
    BY <1>0 DEF RestInv, KnownInv, Known, Stored
  <1>3. EnqueueInv'
    BY <1>0 DEF RestInv, EnqueueInv, Of, Stored
  <1>4. JobInv'
    BY <1>0 DEF RestInv, JobInv, Stored
  <1>5. UnprocessedAccounted'
    BY <1>0 DEF RestInv, UnprocessedAccounted, Stored, Pending
  <1>6. AppliedInv'
    BY <1>0 DEF RestInv, AppliedInv, Stored, Note, Type
  <1>7. SuppressInv'
    BY <1>0 DEF RestInv, SuppressInv, Note
  <1> QED
    BY <1>1, <1>2, <1>3, <1>4, <1>5, <1>6, <1>7 DEF RestInv

LEMMA ListStepsKeep ==
    ASSUME MailInv, \/ \E c \in Callers : ListStep(c) \/ ListFails(c)
                    \/ \E a \in Administrators : Edit(a)
                    \/ CacheStep /\ UNCHANGED <<job, eventVars>>
    PROVE  RestInv'
  <1>0. applied \subseteq Callers /\ faults \in Nat /\ edits \in Nat
    BY CallersAre DEF MailInv, RestInv, MailerTypeOK
  <1>1. ASSUME NEW c \in Callers, ListStep(c) \/ ListFails(c)
        PROVE  RestInv'
    <2>1. CallStep(c) \/ CallStops(c)
      BY <1>1 DEF ListStep, ListFails
    <2>2. \A e \in applied : Answered(e, "added") => call'[e] = call[e]
      BY <1>0, <2>1, ReturnedStays DEF MailInv, Answered
    <2>3. \A e \in applied : Answered(e, "added") => Answered(e, "added")'
      BY <2>2 DEF Answered, Idle
    <2>4. /\ UNCHANGED <<job, sendVars, hookVars, handlerVars, provider, dropped, edits>>
          /\ faults' \in Nat
      BY <1>0, <1>1 DEF ListStep, ListFails, eventVars, fixed, Fault
    <2> QED
      BY <1>0, <2>3, <2>4, ListSide
  <1>2. ASSUME NEW a \in Administrators, Edit(a)
        PROVE  RestInv'
    <2>1. a \in Callers /\ Begins(a)
      BY <1>2, CallersAre DEF Edit, SuppressionsEnv, Begins
    <2>2. \A e \in applied : e # a
      BY <1>2, MailEventsAssumption DEF MailInv, RestInv, MailerTypeOK
    <2>3. \A e \in applied : Answered(e, "added") => call'[e] = call[e]
      BY <1>0, <2>1, <2>2, ReturnedStays DEF MailInv, Answered
    <2>4. \A e \in applied : Answered(e, "added") => Answered(e, "added")'
      BY <2>3 DEF Answered, Idle
    <2>5. /\ UNCHANGED <<job, sendVars, hookVars, handlerVars, provider, dropped, faults>>
          /\ edits' \in Nat
      BY <1>0, <1>2 DEF Edit
    <2> QED
      BY <1>0, <2>4, <2>5, ListSide
  <1>3. ASSUME CacheStep, UNCHANGED <<job, eventVars>>
        PROVE  RestInv'
    <2>1. \A e \in applied : Answered(e, "added") => call'[e] = call[e]
      BY <1>0, <1>3, ReturnedStays DEF MailInv, Answered
    <2>2. \A e \in applied : Answered(e, "added") => Answered(e, "added")'
      BY <2>1 DEF Answered, Idle
    <2>3. UNCHANGED <<job, sendVars, hookVars, handlerVars, provider, dropped, edits, faults>>
      BY <1>3 DEF eventVars, fixed
    <2> QED
      BY <1>0, <2>2, <2>3, ListSide
  <1> QED
    BY <1>1, <1>2, <1>3

\* While mail.send is not done, the delivery has no link, and no event has found it.
LEMMA NothingAppliedYet ==
    ASSUME RestInv, send.pc # "done"
    PROVE  applied = {} /\ delivery.link = NoMessage
  <1>1. delivery.link = NoMessage
    BY DEF RestInv, AppliedInv
  <1>2. ASSUME NEW e \in applied
        PROVE  FALSE
    <2>1. e \in EventIds /\ Stored(e) /\ delivery.link = Note(e).message
      BY DEF RestInv, MailerTypeOK, AppliedInv
    <2>2. Note(e).message \in Messages
      BY <2>1 DEF RestInv, KnownInv, Known, Note
    <2> QED
      BY <1>1, <2>1, <2>2, MailEventsAssumption
  <1> QED
    BY <1>1, <1>2

LEMMA SendSide ==
    ASSUME RestInv, send.pc # "done",
           UNCHANGED <<job, hookVars, handlerVars, provider, dropped, edits>>, faults' \in Nat,
           delivery' \in [status : {"queued", "sending", "sent", "suppressed", "failed", "bounced", "complained"},
                     link : Messages \union {NoMessage},
                     stamps : SUBSET {"sent_at", "bounced_at", "complained_at", "opened_at", "clicked_at"}],
           send' \in [pc : {"waiting", "lookup", "transport", "markSent", "done"},
                 message : Messages \union {NoMessage}],
           minted' \subseteq Messages,
           delivery'.link # NoMessage => send'.pc = "done"
    PROVE  RestInv'
  <1>0. UNCHANGED <<job, hook, events, processed, run, applied, provider, dropped, edits>> /\ applied = {}
    BY NothingAppliedYet DEF hookVars, handlerVars
  <1>1. MailerTypeOK'
    BY <1>0 DEF RestInv, MailerTypeOK
  <1>2. KnownInv'
    BY <1>0 DEF RestInv, KnownInv, Known, Stored
  <1>3. EnqueueInv'
    BY <1>0 DEF RestInv, EnqueueInv, Of, Stored
  <1>4. JobInv'
    BY <1>0 DEF RestInv, JobInv, Stored
  <1>5. UnprocessedAccounted'
    BY <1>0 DEF RestInv, UnprocessedAccounted, Stored, Pending
  <1>6. AppliedInv'
    BY <1>0 DEF AppliedInv
  <1>7. SuppressInv'
    BY <1>0 DEF RestInv, SuppressInv
  <1> QED
    BY <1>1, <1>2, <1>3, <1>4, <1>5, <1>6, <1>7 DEF RestInv

DeliveryType ==
    [status : {"queued", "sending", "sent", "suppressed", "failed", "bounced", "complained"},
     link : Messages \union {NoMessage},
     stamps : SUBSET {"sent_at", "bounced_at", "complained_at", "opened_at", "clicked_at"}]

SendType ==
    [pc : {"waiting", "lookup", "transport", "markSent", "done"},
     message : Messages \union {NoMessage}]

\* What mail.send leaves of its place and of the row.
LEMMA SendRecords ==
    ASSUME NEW s \in SendType, NEW row \in DeliveryType,
           NEW pc \in {"waiting", "lookup", "transport", "markSent", "done"},
           NEW status \in {"sending", "suppressed", "failed"}, NEW m \in Messages \union {NoMessage}
    PROVE  /\ [s EXCEPT !.pc = pc] \in SendType
           /\ [pc |-> pc, message |-> m] \in SendType
           /\ [row EXCEPT !.status = status] \in DeliveryType
           /\ [row EXCEPT !.status = status].link = row.link
  <1>1. [s EXCEPT !.pc = pc] \in SendType
    BY DEF SendType
  <1>2. [pc |-> pc, message |-> m] \in SendType
    BY DEF SendType
  <1>3. [row EXCEPT !.status = status] \in DeliveryType
    BY DEF DeliveryType
  <1>4. [row EXCEPT !.status = status].link = row.link
    BY DEF DeliveryType
  <1> QED
    BY <1>1, <1>2, <1>3, <1>4

LEMMA SentRow ==
    ASSUME NEW row \in DeliveryType, NEW m \in Messages \union {NoMessage}, NEW new,
           new = [row EXCEPT !.status = "sent", !.link = m, !.stamps = row.stamps \union {"sent_at"}]
    PROVE  new \in DeliveryType
  <1> DEFINE x == row.stamps \union {"sent_at"}
  <1>1. x \in SUBSET {"sent_at", "bounced_at", "complained_at", "opened_at", "clicked_at"}
    BY DEF DeliveryType
  <1>2. new = [row EXCEPT !.status = "sent", !.link = m, !.stamps = x]
    OBVIOUS
  <1> HIDE DEF x
  <1> QED
    BY <1>1, <1>2 DEF DeliveryType

LEMMA SendStepsKeep ==
    ASSUME MailInv, SendLookup \/ SendDecide \/ SendTransport \/ MarkSent \/ SendFails
    PROVE  RestInv'
  <1>0. /\ send \in SendType /\ delivery \in DeliveryType /\ minted \subseteq Messages
        /\ faults \in Nat /\ RestInv
    BY DEF MailInv, RestInv, MailerTypeOK, SendType, DeliveryType
  <1>00. /\ NoMessage \in Messages \union {NoMessage}
         /\ send.message \in Messages \union {NoMessage}
    BY <1>0 DEF SendType
  <1>1. send.pc # "done"
    BY DEF SendLookup, SendDecide, SendTransport, MarkSent, SendFails
  <1>2. delivery.link = NoMessage
    BY <1>0, <1>1, NothingAppliedYet
  <1>3. UNCHANGED <<job, hookVars, handlerVars, provider, dropped, edits>> /\ faults' \in Nat
    <2>1. CASE SendLookup \/ SendDecide \/ MarkSent
      BY <1>0, <2>1 DEF SendLookup, SendDecide, MarkSent, fixed
    <2>2. CASE SendFails
      BY <1>0, <2>2 DEF SendFails, fixed, Fault
    <2>3. CASE SendTransport
      <3>1. faults' = faults \/ faults' = faults + 1
        BY <2>3 DEF SendTransport, Fault
      <3> QED
        BY <1>0, <2>3, <3>1 DEF SendTransport, fixed
    <2> QED
      BY <2>1, <2>2, <2>3
  <1>4. delivery' \in DeliveryType /\ send' \in SendType /\ minted' \subseteq Messages
        /\ (delivery'.link # NoMessage => send'.pc = "done")
    <2>1. CASE SendLookup
      BY <1>0, <1>2, <2>1, SendRecords DEF SendLookup
    <2>2. CASE SendDecide
      <3>1. UNCHANGED minted
        BY <2>2 DEF SendDecide
      <3>2. /\ delivery' = [delivery EXCEPT !.status = "suppressed"]
               \/ delivery' = [delivery EXCEPT !.status = "sending"]
               \/ delivery' = delivery
            /\ \/ send' = [send EXCEPT !.pc = "done"]
               \/ send' = [send EXCEPT !.pc = "transport"]
               \/ send' = [send EXCEPT !.pc = "waiting"]
        BY <2>2 DEF SendDecide
      <3>3. send' \in SendType
        BY <1>0, <3>2 DEF SendType
      <3>4. delivery' \in DeliveryType /\ delivery'.link = delivery.link
        <4>1. /\ [delivery EXCEPT !.status = "suppressed"] \in DeliveryType
              /\ [delivery EXCEPT !.status = "suppressed"].link = delivery.link
          BY <1>0 DEF DeliveryType
        <4>2. /\ [delivery EXCEPT !.status = "sending"] \in DeliveryType
              /\ [delivery EXCEPT !.status = "sending"].link = delivery.link
          BY <1>0 DEF DeliveryType
        <4> QED
          BY <1>0, <3>2, <4>1, <4>2
      <3> QED
        BY <1>0, <1>2, <3>1, <3>3, <3>4
    <2>3. CASE SendTransport
      <3>1. PICK answer \in Answers, m \in (Messages \ minted) \union {NoMessage} :
               /\ minted' = minted \union ({m} \ {NoMessage})
               /\ CASE SendResult(provider, answer) = "ok" ->
                         send' = [pc |-> "markSent", message |-> m] /\ UNCHANGED <<delivery, faults>>
                    [] SendResult(provider, answer) = "retryable" ->
                         Fault /\ send' = [send EXCEPT !.pc = "waiting"] /\ UNCHANGED delivery
                    [] OTHER ->
                         /\ delivery' = [delivery EXCEPT !.status = "failed"]
                         /\ send' = [send EXCEPT !.pc = "done"]
                         /\ UNCHANGED faults
        BY <2>3 DEF SendTransport
      <3>2. minted' \subseteq Messages /\ m \in Messages \union {NoMessage}
        BY <1>0, <3>1
      <3>3. CASE SendResult(provider, answer) = "ok"
        <4>1. send' = [pc |-> "markSent", message |-> m] /\ UNCHANGED delivery
          BY <3>1, <3>3
        <4>2. [pc |-> "markSent", message |-> m] \in SendType
          BY <3>2 DEF SendType
        <4> QED
          BY <1>0, <1>2, <3>2, <4>1, <4>2
      <3>4. CASE SendResult(provider, answer) = "retryable"
        BY <1>0, <1>2, <3>1, <3>2, <3>4, SendRecords
      <3>5. CASE SendResult(provider, answer) \notin {"ok", "retryable"}
        BY <1>0, <1>2, <3>1, <3>2, <3>5, SendRecords
      <3> QED
        BY <3>3, <3>4, <3>5
    <2>4. CASE MarkSent
      <3> DEFINE m == send.message
      <3>1. /\ delivery' = [delivery EXCEPT !.status = "sent", !.link = m,
                                            !.stamps = delivery.stamps \union {"sent_at"}]
            /\ send' = [pc |-> "done", message |-> NoMessage]
            /\ UNCHANGED minted
        BY <2>4 DEF MarkSent
      <3>2. m \in Messages \union {NoMessage}
        BY <1>00
      <3> HIDE DEF m
      <3>3. delivery' \in DeliveryType
        BY <1>0, <3>1, <3>2, SentRow
      <3>4. send' \in SendType /\ send'.pc = "done"
        BY <1>00, <3>1 DEF SendType
      <3> QED
        BY <1>0, <3>1, <3>3, <3>4
    <2>5. CASE SendFails
      BY <1>0, <1>00, <1>2, <2>5, SendRecords DEF SendFails
    <2> QED
      BY <2>1, <2>2, <2>3, <2>4, <2>5
  <1> QED
    BY <1>0, <1>1, <1>3, <1>4, SendSide DEF SendType, DeliveryType

-----------------------------------------------------------------------------
(* The receivers.                                                           *)

HookType == [pc : {"idle"}] \union [pc : {"append", "enqueue"}, note : Notifications]

LEMMA HookFacts ==
    ASSUME RestInv, NEW r \in Receivers, hook[r].pc # "idle"
    PROVE  /\ hook[r] \in [pc : {"append", "enqueue"}, note : Notifications]
           /\ hook[r].note \in Notifications
           /\ Of(r) \in EventIds
  <1>1. hook[r] \in HookType
    BY DEF RestInv, MailerTypeOK, HookType
  <1>2. hook[r] \in [pc : {"append", "enqueue"}, note : Notifications]
    BY <1>1 DEF HookType
  <1>3. hook[r].note \in Notifications
    BY <1>2
  <1> QED
    BY <1>2, <1>3, EventIdIn DEF RestInv, MailerTypeOK, Of

\* What the steps of receivers leave alone.
LEMMA HookSide ==
    ASSUME RestInv, UNCHANGED <<suppressionVars, sendVars, handlerVars, provider>>,
           \A e \in EventIds : Stored(e) => events'[e] = events[e]
    PROVE  AppliedInv' /\ SuppressInv'
  <1>0. UNCHANGED <<delivery, send, processed, run, applied, provider, call>>
    BY DEF sendVars, handlerVars, suppressionVars
  <1>1. \A e \in applied : e \in EventIds /\ Stored(e) /\ events'[e] = events[e]
    BY DEF RestInv, MailerTypeOK, AppliedInv
  <1>2. AppliedInv'
    BY <1>0, <1>1 DEF RestInv, AppliedInv, Stored, Note, Type
  <1>3. SuppressInv'
    BY <1>0, <1>1 DEF RestInv, SuppressInv, Note, Answered, Idle
  <1> QED
    BY <1>2, <1>3

\* A receiver takes a notification, or ends its request.
LEMMA HookMoves ==
    ASSUME RestInv, NEW r \in Receivers, NEW h \in HookType, hook' = [hook EXCEPT ![r] = h],
           h.pc # "enqueue", h.pc # "idle" => Known(h.note),
           UNCHANGED <<suppressionVars, job, sendVars, events, handlerVars, fixed>>, faults' \in Nat,
           dropped' \subseteq EventIds, dropped \subseteq dropped',
           hook[r].pc = "enqueue" => Of(r) \in dropped'
    PROVE  RestInv'
  <1>0. UNCHANGED <<job, delivery, send, minted, events, processed, run, applied, provider, edits>>
    BY DEF sendVars, handlerVars, fixed
  <1>1. /\ hook' \in [Receivers -> HookType]
        /\ hook'[r] = h /\ \A s \in Receivers \ {r} : hook'[s] = hook[s]
    BY DEF RestInv, MailerTypeOK, HookType
  <1>2. MailerTypeOK'
    BY <1>0, <1>1 DEF RestInv, MailerTypeOK, HookType
  <1>3. KnownInv'
    BY <1>0, <1>1 DEF RestInv, KnownInv, Known, Stored
  <1>4. \A s \in Receivers : hook'[s].pc = "enqueue" => s # r /\ hook'[s] = hook[s] /\ Of(s)' = Of(s)
    BY <1>0, <1>1 DEF Of
  <1>5. EnqueueInv'
    BY <1>0, <1>4 DEF RestInv, EnqueueInv, Stored
  <1>6. JobInv'
    BY <1>0 DEF RestInv, JobInv, Stored
  <1>7. UnprocessedAccounted'
    <2> SUFFICES ASSUME NEW e \in EventIds, Stored(e)', e \notin processed', ~Pending(e)', e \notin dropped'
                 PROVE  \E s \in Receivers : hook'[s].pc = "enqueue" /\ EventId(provider', hook'[s].note) = e
      BY DEF UnprocessedAccounted
    <2>1. PICK s \in Receivers : hook[s].pc = "enqueue" /\ EventId(provider, hook[s].note) = e
      BY <1>0 DEF RestInv, UnprocessedAccounted, Stored, Pending
    <2>2. s # r
      BY <2>1 DEF Of
    <2> QED
      BY <1>0, <1>1, <2>1, <2>2
  <1>8. AppliedInv' /\ SuppressInv'
    BY <1>0, HookSide
  <1> QED
    BY <1>2, <1>3, <1>5, <1>6, <1>7, <1>8 DEF RestInv

LEMMA NotifyKeeps ==
    ASSUME RestInv, NEW r \in Receivers, NEW n \in Notifications, Notify(r, n)
    PROVE  RestInv'
  <1> DEFINE h == [pc |-> "append", note |-> n]
  <1>1. h \in HookType /\ h.pc = "append" /\ h.note = n
    BY DEF HookType
  <1>2. Known(n)
    BY DEF Notify, Known, RestInv, MailerTypeOK
  <1>3. /\ hook' = [hook EXCEPT ![r] = h] /\ hook[r].pc = "idle"
        /\ UNCHANGED <<suppressionVars, job, sendVars, events, handlerVars, fixed, faults, dropped>>
    BY DEF Notify
  <1>4. dropped \subseteq EventIds /\ faults \in Nat
    BY DEF RestInv, MailerTypeOK
  <1> HIDE DEF h
  <1> QED
    BY <1>1, <1>2, <1>3, <1>4, HookMoves

LEMMA HookFailsKeeps ==
    ASSUME RestInv, NEW r \in Receivers, HookFails(r)
    PROVE  RestInv'
  <1> DEFINE h == [pc |-> "idle"]
  <1>1. h \in HookType /\ h.pc = "idle"
    BY DEF HookType
  <1>2. /\ hook' = [hook EXCEPT ![r] = h] /\ hook[r].pc # "idle"
        /\ UNCHANGED <<suppressionVars, job, sendVars, events, handlerVars, fixed>>
    BY DEF HookFails
  <1>3. Of(r) \in EventIds
    BY <1>2, HookFacts
  <1>4. dropped \subseteq EventIds /\ faults \in Nat
    BY DEF RestInv, MailerTypeOK
  <1>5. dropped' = IF hook[r].pc = "enqueue" THEN dropped \union {Of(r)} ELSE dropped
    BY DEF HookFails, Of
  <1>6. faults' \in Nat
    BY <1>4 DEF HookFails, Fault
  <1> HIDE DEF h
  <1> QED
    BY <1>1, <1>2, <1>3, <1>4, <1>5, <1>6, HookMoves

\* The row that is new gets its receiver to the enqueue; a row that exists ends the request.
LEMMA AppendKeeps ==
    ASSUME RestInv, NEW r \in Receivers, Append(r)
    PROVE  RestInv'
  <1>0. /\ hook[r].pc = "append"
        /\ UNCHANGED <<suppressionVars, job, sendVars, handlerVars, fixed, faults, dropped>>
    BY DEF Append
  <1>00. /\ hook[r] \in [pc : {"append", "enqueue"}, note : Notifications]
         /\ hook[r].note \in Notifications /\ Of(r) \in EventIds /\ Known(hook[r].note)
    BY <1>0, HookFacts DEF RestInv, KnownInv
  <1>1. CASE events[Of(r)] = NoEvent
    <2> DEFINE e == Of(r)
               n == hook[r].note
               h == [hook[r] EXCEPT !.pc = "enqueue"]
    <2>1. /\ events' = [events EXCEPT ![e] = n] /\ hook' = [hook EXCEPT ![r] = h]
          /\ ~Stored(e)
      BY <1>1 DEF Append, Of, Stored
    <2>2. h \in HookType /\ h.pc = "enqueue" /\ h.note = n
      BY <1>00 DEF HookType
    <2>3. n \in Notifications /\ e \in EventIds /\ n # NoEvent /\ Known(n)
      BY <1>00, MailEventsAssumption
    <2>4. UNCHANGED <<job, delivery, send, minted, processed, run, applied, provider, edits, faults, dropped>>
      BY <1>0 DEF sendVars, handlerVars, fixed
    <2>5. e = EventId(provider, n)
      BY DEF Of
    <2> HIDE DEF e, n, h
    <2>6. /\ hook' \in [Receivers -> HookType]
          /\ hook'[r] = h /\ \A s \in Receivers \ {r} : hook'[s] = hook[s]
      BY <2>1, <2>2 DEF RestInv, MailerTypeOK, HookType
    <2>7. /\ events' \in [EventIds -> Notifications \union {NoEvent}]
          /\ events'[e] = n /\ \A d \in EventIds \ {e} : events'[d] = events[d]
      BY <2>1, <2>3 DEF RestInv, MailerTypeOK
    <2>8. MailerTypeOK'
      BY <2>4, <2>6, <2>7 DEF RestInv, MailerTypeOK, HookType
    <2>9. KnownInv'
      BY <2>2, <2>3, <2>4, <2>6, <2>7 DEF RestInv, KnownInv, Known, Stored
    <2>10. Of(r)' = e /\ \A s \in Receivers \ {r} : Of(s)' = Of(s)
      BY <2>2, <2>4, <2>5, <2>6 DEF Of
    <2>11. job[e].state = "none"
      BY <2>1, <2>3 DEF RestInv, JobInv
    <2>12. \A s \in Receivers : hook[s].pc = "enqueue" => Of(s) \in EventIds /\ Of(s) # e
      BY <2>1, HookFacts DEF RestInv, EnqueueInv
    <2>13. ASSUME NEW s \in Receivers, hook'[s].pc = "enqueue"
           PROVE  events'[Of(s)'] # NoEvent /\ job'[Of(s)'].state = "none"
      <3>1. CASE s = r
        BY <2>3, <2>4, <2>7, <2>10, <2>11, <3>1
      <3>2. CASE s # r
        <4>1. hook[s].pc = "enqueue" /\ Of(s)' = Of(s) /\ Of(s) \in EventIds \ {e}
          BY <2>6, <2>10, <2>12, <2>13, <3>2
        <4>2. events[Of(s)] # NoEvent /\ job[Of(s)].state = "none"
          BY <4>1 DEF RestInv, EnqueueInv, Stored
        <4> QED
          BY <2>4, <2>7, <4>1, <4>2
      <3> QED
        BY <3>1, <3>2
    <2>14. ASSUME NEW s \in Receivers, NEW t \in Receivers, hook'[s].pc = "enqueue", hook'[t].pc = "enqueue",
                  Of(s)' = Of(t)'
           PROVE  s = t
      <3>1. CASE s # r /\ t # r
        BY <2>6, <2>10, <2>14, <3>1 DEF RestInv, EnqueueInv
      <3>2. CASE s = r /\ t # r
        BY <2>6, <2>10, <2>12, <2>14, <3>2
      <3>3. CASE s # r /\ t = r
        BY <2>6, <2>10, <2>12, <2>14, <3>3
      <3> QED
        BY <3>1, <3>2, <3>3
    <2>15. EnqueueInv'
      BY <2>13, <2>14 DEF EnqueueInv, Stored
    <2>16. JobInv'
      BY <2>4, <2>7, <2>3 DEF RestInv, JobInv, Stored
    <2>17. UnprocessedAccounted'
      <3> SUFFICES ASSUME NEW d \in EventIds, Stored(d)', d \notin processed', ~Pending(d)', d \notin dropped'
                   PROVE  \E s \in Receivers : hook'[s].pc = "enqueue" /\ EventId(provider', hook'[s].note) = d
        BY DEF UnprocessedAccounted
      <3>1. CASE d = e
        BY <2>2, <2>4, <2>5, <2>6, <3>1
      <3>2. CASE d # e
        <4>1. PICK s \in Receivers : hook[s].pc = "enqueue" /\ EventId(provider, hook[s].note) = d
          BY <2>4, <2>7, <3>2 DEF RestInv, UnprocessedAccounted, Stored, Pending
        <4>2. s # r
          BY <1>0, <4>1
        <4> QED
          BY <2>4, <2>6, <4>1, <4>2
      <3> QED
        BY <3>1, <3>2
    <2>18. \A d \in EventIds : Stored(d) => events'[d] = events[d]
      BY <2>1, <2>7
    <2>19. AppliedInv' /\ SuppressInv'
      BY <1>0, <2>4, <2>18, HookSide
    <2> QED
      BY <2>8, <2>9, <2>15, <2>16, <2>17, <2>19 DEF RestInv
  <1>2. CASE events[Of(r)] # NoEvent
    <2> DEFINE h == [pc |-> "idle"]
    <2>1. h \in HookType /\ h.pc = "idle"
      BY DEF HookType
    <2>2. hook' = [hook EXCEPT ![r] = h] /\ UNCHANGED events
      BY <1>2 DEF Append, Of
    <2>3. dropped \subseteq EventIds /\ faults \in Nat
      BY DEF RestInv, MailerTypeOK
    <2> HIDE DEF h
    <2> QED
      BY <1>0, <2>1, <2>2, <2>3, HookMoves
  <1> QED
    BY <1>1, <1>2

LEMMA EnqueueKeeps ==
    ASSUME RestInv, NEW r \in Receivers, Enqueue(r)
    PROVE  RestInv'
  <1> DEFINE e == Of(r)
             h == [pc |-> "idle"]
  <1>0. /\ hook[r].pc = "enqueue" /\ AddJob(e) /\ hook' = [hook EXCEPT ![r] = h]
        /\ UNCHANGED <<suppressionVars, sendVars, events, handlerVars, fixed, faults, dropped>>
    BY DEF Enqueue, Of
  <1>1. e \in EventIds /\ Stored(e) /\ job[e].state = "none"
    BY <1>0, HookFacts DEF RestInv, EnqueueInv
  <1>2. \A s \in Receivers : hook[s].pc = "enqueue" /\ s # r => Of(s) \in EventIds \ {e}
    BY <1>0, HookFacts DEF RestInv, EnqueueInv
  <1>3. h \in HookType /\ h.pc = "idle"
    BY DEF HookType
  <1>4. UNCHANGED <<delivery, send, minted, events, processed, run, applied, provider, edits, faults, dropped>>
    BY <1>0 DEF sendVars, handlerVars, fixed
  <1>5. job \in [EventIds -> JobType]
    BY DEF RestInv, MailerTypeOK
  <1> HIDE DEF e, h
  <1>6. JobMoves(e, {"waiting"})
    BY <1>0, <1>1, <1>5, JobOperations
  <1>7. /\ job' \in [EventIds -> JobType] /\ job'[e].state = "waiting"
        /\ \A d \in EventIds \ {e} : job'[d] = job[d]
    BY <1>6 DEF JobMoves
  <1>8. /\ hook' \in [Receivers -> HookType]
        /\ hook'[r] = h /\ \A s \in Receivers \ {r} : hook'[s] = hook[s]
    BY <1>0, <1>3 DEF RestInv, MailerTypeOK, HookType
  <1>9. MailerTypeOK'
    BY <1>4, <1>7, <1>8 DEF RestInv, MailerTypeOK, HookType
  <1>10. KnownInv'
    BY <1>3, <1>4, <1>8 DEF RestInv, KnownInv, Known, Stored
  <1>11. \A s \in Receivers : hook'[s].pc = "enqueue" =>
            s # r /\ hook[s].pc = "enqueue" /\ Of(s)' = Of(s)
    BY <1>3, <1>4, <1>8 DEF Of
  <1>12. EnqueueInv'
    BY <1>2, <1>4, <1>7, <1>11 DEF RestInv, EnqueueInv, Stored
  <1>13. JobInv'
    BY <1>1, <1>4, <1>7 DEF RestInv, JobInv, Stored
  <1>14. UnprocessedAccounted'
    <2> SUFFICES ASSUME NEW d \in EventIds, Stored(d)', d \notin processed', ~Pending(d)', d \notin dropped'
                 PROVE  \E s \in Receivers : hook'[s].pc = "enqueue" /\ EventId(provider', hook'[s].note) = d
      BY DEF UnprocessedAccounted
    <2>1. d # e
      BY <1>7 DEF Pending
    <2>2. PICK s \in Receivers : hook[s].pc = "enqueue" /\ EventId(provider, hook[s].note) = d
      BY <1>4, <1>7, <2>1 DEF RestInv, UnprocessedAccounted, Stored, Pending
    <2>3. s # r
      BY <2>1, <2>2 DEF Of, e
    <2> QED
      BY <1>4, <1>8, <2>2, <2>3
  <1>15. AppliedInv' /\ SuppressInv'
    BY <1>0, <1>4, HookSide
  <1> QED
    BY <1>9, <1>10, <1>12, <1>13, <1>14, <1>15 DEF RestInv

-----------------------------------------------------------------------------
(* The handlers and the queue.                                              *)

\* A step of the job or of the handler of one stored event.
LEMMA JobSide ==
    ASSUME RestInv, NEW e \in EventIds, Stored(e), job[e].state # "none",
           NEW S, JobMoves(e, S), NEW pc \in RunPc, run' = [run EXCEPT ![e] = pc],
           UNCHANGED <<hookVars, provider>>,
           processed' \subseteq EventIds,
           \A d \in EventIds \ {e} : d \in processed' <=> d \in processed,
           dropped \subseteq dropped',
           pc # "idle" => S = {"active"},
           pc \notin {"idle", "find"} => e \notin processed',
           e \in processed' \/ e \in dropped' \/ S \subseteq {"waiting", "active"}
    PROVE  KnownInv' /\ EnqueueInv' /\ JobInv' /\ UnprocessedAccounted'
  <1>0. /\ job' \in [EventIds -> JobType] /\ job'[e].state \in S
        /\ \A d \in EventIds \ {e} : job'[d] = job[d]
    BY DEF JobMoves
  <1>1. UNCHANGED <<hook, events, provider>>
    BY DEF hookVars
  <1>2. run'[e] = pc /\ \A d \in EventIds \ {e} : run'[d] = run[d]
    BY DEF RestInv, MailerTypeOK
  <1>3. KnownInv'
    BY <1>1 DEF RestInv, KnownInv, Known, Stored
  <1>4. \A r \in Receivers : hook[r].pc = "enqueue" => Of(r) \in EventIds \ {e}
    BY HookFacts DEF RestInv, EnqueueInv
  <1>5. \A r \in Receivers : Of(r)' = Of(r)
    BY <1>1 DEF Of
  <1>6. EnqueueInv'
    BY <1>0, <1>1, <1>4, <1>5 DEF RestInv, EnqueueInv, Stored
  <1>7. JobInv'
    BY <1>0, <1>1, <1>2 DEF RestInv, JobInv, Stored
  <1>8. UnprocessedAccounted'
    <2> SUFFICES ASSUME NEW d \in EventIds, Stored(d)', d \notin processed', ~Pending(d)', d \notin dropped'
                 PROVE  \E s \in Receivers : hook'[s].pc = "enqueue" /\ EventId(provider', hook'[s].note) = d
      BY DEF UnprocessedAccounted
    <2>1. d # e
      BY <1>0 DEF Pending
    <2>2. PICK s \in Receivers : hook[s].pc = "enqueue" /\ EventId(provider, hook[s].note) = d
      BY <1>0, <1>1, <2>1 DEF RestInv, UnprocessedAccounted, Stored, Pending
    <2> QED
      BY <1>1, <2>2
  <1> QED
    BY <1>3, <1>6, <1>7, <1>8

\* A step of the handler of one event that leaves the delivery and the list alone.
LEMMA EffectSide ==
    ASSUME RestInv, NEW e \in EventIds, NEW pc \in RunPc, run' = [run EXCEPT ![e] = pc],
           UNCHANGED <<hookVars, provider, sendVars, applied>>,
           \A d \in EventIds \ {e} : /\ d \in processed' <=> d \in processed
                                     /\ Answered(d, "added") => Answered(d, "added")',
           pc \in {"suppress", "suppressing", "audit"} => e \in applied,
           e \in applied /\ MustSuppress(Note(e)) /\ (e \in processed' \/ pc \in {"audit", "mark"})
               => Answered(e, "added")'
    PROVE  AppliedInv' /\ SuppressInv'
  <1>1. UNCHANGED <<hook, events, provider, delivery, send, applied>>
    BY DEF hookVars, sendVars
  <1>2. run'[e] = pc /\ \A d \in EventIds \ {e} : run'[d] = run[d]
    BY DEF RestInv, MailerTypeOK
  <1>3. AppliedInv'
    BY <1>1 DEF RestInv, AppliedInv, Stored, Note, Type
  <1>4. \A d \in EventIds : run'[d] \in {"suppress", "suppressing", "audit"} => d \in applied'
    BY <1>1, <1>2 DEF RestInv, SuppressInv
  <1>5. ASSUME NEW d \in applied', MustSuppress(Note(d))',
               d \in processed' \/ run'[d] \in {"audit", "mark"}
        PROVE  Answered(d, "added")'
    <2>1. d \in applied /\ d \in EventIds /\ MustSuppress(Note(d))
      BY <1>1, <1>5 DEF RestInv, MailerTypeOK, Note
    <2>2. CASE d = e
      BY <1>2, <1>5, <2>1, <2>2
    <2>3. CASE d # e
      <3>1. Answered(d, "added")
        BY <1>2, <1>5, <2>1, <2>3 DEF RestInv, SuppressInv
      <3> QED
        BY <2>1, <2>3, <3>1
    <2> QED
      BY <2>2, <2>3
  <1>6. SuppressInv'
    BY <1>4, <1>5 DEF SuppressInv
  <1> QED
    BY <1>3, <1>6

\* A handler under way has the active job of a stored event.
LEMMA Running ==
    ASSUME RestInv, NEW e \in EventIds, run[e] # "idle"
    PROVE  Stored(e) /\ job[e].state = "active" /\ Known(Note(e))
  <1>1. job[e].state = "active" /\ Stored(e)
    BY DEF RestInv, JobInv
  <1> QED
    BY <1>1 DEF RestInv, KnownInv, Note

\* A step of a handler that leaves job, delivery and list alone and marks nothing.
LEMMA HandlerMoves ==
    ASSUME MailInv, NEW e \in EventIds, run[e] # "idle", NEW pc \in RunPc, run' = [run EXCEPT ![e] = pc],
           UNCHANGED <<suppressionVars, job, sendVars, hookVars, processed, applied, fixed, faults, dropped>>,
           pc \notin {"idle", "find"} => e \notin processed,
           pc # "idle",
           pc \in {"suppress", "suppressing", "audit"} => e \in applied,
           e \in applied /\ MustSuppress(Note(e)) /\ pc \in {"audit", "mark"} => Answered(e, "added")
    PROVE  RestInv'
  <1>0. /\ UNCHANGED <<job, delivery, send, minted, hook, events, processed, applied, provider, edits, faults, dropped, call>>
        /\ RestInv
    BY DEF MailInv, suppressionVars, sendVars, hookVars, fixed
  <1>1. Stored(e) /\ job[e].state = "active"
    BY <1>0, Running
  <1>2. MailerTypeOK /\ processed \subseteq EventIds
    BY <1>0 DEF RestInv, MailerTypeOK
  <1>3. JobMoves(e, {"active"})
    BY <1>0, <1>1, <1>2 DEF MailerTypeOK, JobMoves
  <1>4. MailerTypeOK'
    BY <1>0, <1>2 DEF MailerTypeOK
  <1>5. KnownInv' /\ EnqueueInv' /\ JobInv' /\ UnprocessedAccounted'
    BY <1>0, <1>1, <1>2, <1>3, JobSide
  <1>6. \A d \in EventIds : Answered(d, "added") => Answered(d, "added")'
    BY <1>0 DEF Answered, Idle
  <1>7. e \in applied /\ MustSuppress(Note(e)) /\ e \in processed => Answered(e, "added")
    BY <1>0 DEF RestInv, SuppressInv
  <1>8. AppliedInv' /\ SuppressInv'
    BY <1>0, <1>6, <1>7, EffectSide
  <1> QED
    BY <1>4, <1>5, <1>8 DEF RestInv

\* A step of a handler or of its job that ends the attempt.
LEMMA HandlerEnds ==
    ASSUME MailInv, NEW e \in EventIds, Stored(e), job[e].state # "none",
           run' = [run EXCEPT ![e] = "idle"], NEW S, JobMoves(e, S),
           UNCHANGED <<suppressionVars, sendVars, hookVars, applied, fixed>>, faults' \in Nat,
           processed' \subseteq EventIds,
           \A d \in EventIds \ {e} : d \in processed' <=> d \in processed,
           dropped \subseteq dropped', dropped' \subseteq EventIds,
           e \in processed' \/ e \in dropped' \/ S \subseteq {"waiting", "active"},
           e \in applied /\ MustSuppress(Note(e)) /\ e \in processed' => Answered(e, "added")
    PROVE  RestInv'
  <1>0. UNCHANGED <<delivery, send, minted, hook, events, applied, provider, edits, call>> /\ RestInv
    BY DEF MailInv, suppressionVars, sendVars, hookVars, fixed
  <1>1. "idle" \in RunPc
    BY DEF RunPc
  <1>2. MailerTypeOK'
    BY <1>0, <1>1 DEF RestInv, MailerTypeOK, JobMoves
  <1>3. KnownInv' /\ EnqueueInv' /\ JobInv' /\ UnprocessedAccounted'
    BY <1>0, <1>1, JobSide
  <1>4. \A d \in EventIds : Answered(d, "added") => Answered(d, "added")'
    BY <1>0 DEF Answered, Idle
  <1>5. AppliedInv' /\ SuppressInv'
    BY <1>0, <1>1, <1>4, EffectSide
  <1> QED
    BY <1>2, <1>3, <1>5 DEF RestInv

LEMMA StartRunKeeps ==
    ASSUME MailInv, NEW e \in EventIds, StartRun(e)
    PROVE  RestInv'
  <1>0. /\ TakeJob(e) /\ run' = [run EXCEPT ![e] = "find"]
        /\ UNCHANGED <<suppressionVars, sendVars, hookVars, processed, applied, fixed, faults, dropped>>
        /\ RestInv
    BY DEF StartRun, RunTo, MailInv
  <1>1. UNCHANGED <<delivery, send, minted, hook, events, provider, edits, call>>
    BY <1>0 DEF suppressionVars, sendVars, hookVars, fixed
  <1>2. JobMoves(e, {"active"}) /\ job[e].state = "waiting"
    BY <1>0, JobOperations DEF RestInv, MailerTypeOK
  <1>3. Stored(e)
    BY <1>0, <1>2 DEF RestInv, JobInv
  <1>4. "find" \in RunPc
    BY DEF RunPc
  <1>5. MailerTypeOK'
    BY <1>0, <1>1, <1>2, <1>4 DEF RestInv, MailerTypeOK, JobMoves
  <1>6. processed \subseteq EventIds
    BY <1>0 DEF RestInv, MailerTypeOK
  <1>7. KnownInv' /\ EnqueueInv' /\ JobInv' /\ UnprocessedAccounted'
    BY <1>0, <1>1, <1>2, <1>3, <1>4, <1>6, JobSide
  <1>8. \A d \in EventIds : Answered(d, "added") => Answered(d, "added")'
    BY <1>1 DEF Answered, Idle
  <1>9. e \in applied /\ MustSuppress(Note(e)) /\ e \in processed => Answered(e, "added")
    BY <1>0 DEF RestInv, SuppressInv
  <1>10. AppliedInv' /\ SuppressInv'
    BY <1>0, <1>1, <1>4, <1>8, <1>9, EffectSide
  <1> QED
    BY <1>5, <1>7, <1>10 DEF RestInv

LEMMA FindEventKeeps ==
    ASSUME MailInv, NEW e \in EventIds, FindEvent(e)
    PROVE  RestInv'
  <1>0. /\ run[e] = "find"
        /\ UNCHANGED <<suppressionVars, sendVars, hookVars, processed, applied, fixed, faults, dropped>>
        /\ RestInv
    BY DEF FindEvent, MailInv
  <1>1. Stored(e) /\ job[e].state = "active"
    BY <1>0, Running
  <1>2. processed \subseteq EventIds /\ dropped \subseteq EventIds /\ faults \in Nat
    BY <1>0 DEF RestInv, MailerTypeOK
  <1>3. CASE e \in processed
    <2>1. CompleteJob(e) /\ run' = [run EXCEPT ![e] = "idle"]
      BY <1>3 DEF FindEvent, RunTo
    <2>2. JobMoves(e, {"completed"})
      BY <1>0, <2>1, JobOperations DEF RestInv, MailerTypeOK
    <2>3. e \in applied /\ MustSuppress(Note(e)) => Answered(e, "added")
      BY <1>0, <1>3 DEF RestInv, SuppressInv
    <2> QED
      BY <1>0, <1>1, <1>2, <1>3, <2>1, <2>2, <2>3, HandlerEnds
  <1>4. CASE e \notin processed
    <2>1. UNCHANGED job /\ run' = [run EXCEPT ![e] = "apply"]
      BY <1>4 DEF FindEvent, RunTo
    <2>2. "apply" \in RunPc
      BY DEF RunPc
    <2> QED
      BY <1>0, <1>4, <2>1, <2>2, HandlerMoves
  <1> QED
    BY <1>3, <1>4

LEMMA AuditEventKeeps ==
    ASSUME MailInv, NEW e \in EventIds, AuditEvent(e)
    PROVE  RestInv'
  <1>0. /\ run[e] = "audit" /\ run' = [run EXCEPT ![e] = "mark"]
        /\ UNCHANGED <<suppressionVars, job, sendVars, hookVars, processed, applied, fixed, faults, dropped>>
        /\ RestInv
    BY DEF AuditEvent, RunTo, MailInv
  <1>1. "mark" \in RunPc
    BY DEF RunPc
  <1>2. e \notin processed /\ (e \in applied /\ MustSuppress(Note(e)) => Answered(e, "added"))
    BY <1>0 DEF RestInv, JobInv, SuppressInv
  <1> QED
    BY <1>0, <1>1, <1>2, HandlerMoves

LEMMA MarkProcessedKeeps ==
    ASSUME MailInv, NEW e \in EventIds, MarkProcessed(e)
    PROVE  RestInv'
  <1>0. /\ run[e] = "mark" /\ run' = [run EXCEPT ![e] = "idle"] /\ processed' = processed \union {e}
        /\ CompleteJob(e)
        /\ UNCHANGED <<suppressionVars, sendVars, hookVars, applied, fixed, faults, dropped>>
        /\ RestInv
    BY DEF MarkProcessed, RunTo, MailInv
  <1>1. Stored(e) /\ job[e].state = "active"
    BY <1>0, Running
  <1>2. processed \subseteq EventIds /\ dropped \subseteq EventIds /\ faults \in Nat
    BY <1>0 DEF RestInv, MailerTypeOK
  <1>3. JobMoves(e, {"completed"})
    BY <1>0, JobOperations DEF RestInv, MailerTypeOK
  <1>4. e \in applied /\ MustSuppress(Note(e)) => Answered(e, "added")
    BY <1>0 DEF RestInv, SuppressInv
  <1> QED
    BY <1>0, <1>1, <1>2, <1>3, <1>4, HandlerEnds

\* The attempt that fails leaves the job waiting, or gives it up.
LEMMA Attempts ==
    ASSUME RestInv, NEW e \in EventIds, FailAttempt(e) \/ StallJob(e), GiveUp(e)
    PROVE  /\ dropped \subseteq dropped' /\ dropped' \subseteq EventIds
           /\ \E S : JobMoves(e, S) /\ (e \in dropped' \/ S \subseteq {"waiting", "active"})
  <1>0. dropped \subseteq EventIds
    BY DEF RestInv, MailerTypeOK
  <1>1. JobMoves(e, {"waiting", "failed"})
    BY JobOperations DEF RestInv, MailerTypeOK
  <1>2. CASE job'[e].state = "failed"
    <2>1. dropped' = dropped \union {e}
      BY <1>2 DEF GiveUp
    <2> QED
      BY <1>0, <1>1, <2>1
  <1>3. CASE job'[e].state # "failed"
    <2>1. UNCHANGED dropped
      BY <1>3 DEF GiveUp
    <2>2. JobMoves(e, {"waiting"})
      BY <1>1, <1>3 DEF JobMoves
    <2> QED
      BY <1>0, <2>1, <2>2
  <1> QED
    BY <1>2, <1>3

LEMMA RunFailsKeeps ==
    ASSUME MailInv, NEW e \in EventIds, RunFails(e)
    PROVE  RestInv'
  <1>0. /\ run[e] # "idle" /\ run' = [run EXCEPT ![e] = "idle"]
        /\ UNCHANGED <<suppressionVars, sendVars, hookVars, processed, applied, fixed>>
        /\ RestInv
    BY DEF RunFails, RunTo, MailInv
  <1>1. Stored(e) /\ job[e].state = "active"
    BY <1>0, Running
  <1>2. processed \subseteq EventIds /\ faults' \in Nat
    BY <1>0 DEF RestInv, MailerTypeOK, RunFails, Fault
  <1>3. /\ dropped \subseteq dropped' /\ dropped' \subseteq EventIds
        /\ \E S : JobMoves(e, S) /\ (e \in dropped' \/ S \subseteq {"waiting", "active"})
    BY <1>0, Attempts DEF RunFails
  <1>4. e \in applied /\ MustSuppress(Note(e)) /\ e \in processed => Answered(e, "added")
    BY <1>0 DEF RestInv, SuppressInv
  <1> QED
    BY <1>0, <1>1, <1>2, <1>3, <1>4, HandlerEnds

LEMMA SuppressedKeeps ==
    ASSUME MailInv, NEW e \in EventIds, Suppressed(e)
    PROVE  RestInv'
  <1>0. /\ run[e] = "suppressing"
        /\ UNCHANGED <<suppressionVars, sendVars, hookVars, processed, applied, fixed, faults>>
        /\ RestInv
    BY DEF Suppressed, MailInv
  <1>1. Stored(e) /\ job[e].state = "active"
    BY <1>0, Running
  <1>2. processed \subseteq EventIds /\ faults \in Nat /\ e \notin processed /\ e \in applied
    BY <1>0 DEF RestInv, MailerTypeOK, JobInv, SuppressInv
  <1>3. CASE Answered(e, "added") /\ run' = [run EXCEPT ![e] = "audit"] /\ UNCHANGED <<job, dropped>>
    <2>1. "audit" \in RunPc
      BY DEF RunPc
    <2> QED
      BY <1>0, <1>2, <1>3, <2>1, HandlerMoves
  <1>4. CASE run' = [run EXCEPT ![e] = "idle"] /\ FailAttempt(e) /\ GiveUp(e)
    <2>1. /\ dropped \subseteq dropped' /\ dropped' \subseteq EventIds
          /\ \E S : JobMoves(e, S) /\ (e \in dropped' \/ S \subseteq {"waiting", "active"})
      BY <1>0, <1>4, Attempts
    <2> QED
      BY <1>0, <1>1, <1>2, <1>4, <2>1, HandlerEnds
  <1> QED
    BY <1>3, <1>4 DEF Suppressed, RunTo

LEMMA SuppressKeeps ==
    ASSUME MailInv, NEW e \in EventIds, Suppress(e)
    PROVE  RestInv'
  <1>0. /\ run[e] = "suppress" /\ StartAdd(e, "tenant", "permanent")
        /\ run' = [run EXCEPT ![e] = "suppressing"]
        /\ UNCHANGED <<job, sendVars, hookVars, processed, applied, fixed, faults, dropped>>
        /\ RestInv
    BY DEF Suppress, RunTo, MailInv
  <1>1. UNCHANGED <<job, delivery, send, minted, hook, events, processed, applied, provider, edits, faults, dropped>>
    BY <1>0 DEF sendVars, hookVars, fixed
  <1>2. Stored(e) /\ job[e].state = "active"
    BY <1>0, Running
  <1>3. processed \subseteq EventIds /\ e \notin processed /\ e \in applied
    BY <1>0 DEF RestInv, MailerTypeOK, JobInv, SuppressInv
  <1>4. "suppressing" \in RunPc
    BY DEF RunPc
  <1>5. JobMoves(e, {"active"})
    BY <1>0, <1>1, <1>2 DEF RestInv, MailerTypeOK, JobMoves
  <1>6. MailerTypeOK'
    BY <1>0, <1>1, <1>4 DEF RestInv, MailerTypeOK
  <1>7. KnownInv' /\ EnqueueInv' /\ JobInv' /\ UnprocessedAccounted'
    BY <1>0, <1>1, <1>2, <1>3, <1>4, <1>5, JobSide
  <1>8. Begins(e) /\ e \in Callers
    BY <1>0, CallersAre DEF Begins
  <1>9. ASSUME NEW d \in EventIds \ {e}, Answered(d, "added")
        PROVE  Answered(d, "added")'
    <2>1. d \in Callers /\ Idle(d)
      BY <1>9, CallersAre DEF Answered
    <2>2. call'[d] = call[d]
      BY <1>8, <2>1, ReturnedStays DEF MailInv
    <2> QED
      BY <1>9, <2>2 DEF Answered, Idle
  <1>10. AppliedInv' /\ SuppressInv'
    BY <1>0, <1>1, <1>3, <1>4, <1>9, EffectSide
  <1> QED
    BY <1>6, <1>7, <1>10 DEF RestInv

\* The mark of a known event on the row of the delivery.
LEMMA AppliedRows ==
    ASSUME NEW n, Known(n), provider \in Transports, delivery \in DeliveryType
    PROVE  LET type == EventType(provider, n) IN
           /\ AppliedRow(type) \in DeliveryType
           /\ AppliedRow(type).link = delivery.link
           /\ AppliedRow(type).stamps = delivery.stamps \union {EventColumn(type)}
  <1> DEFINE type == EventType(provider, n)
             status == EventStatus(type, delivery.status)
             stamps == delivery.stamps \union {EventColumn(type)}
  <1>1. type \in {"bounced.hard", "bounced.soft", "delivered", "complained", "opened", "clicked"}
    BY EventTypes DEF Known
  <1>2. AppliedRow(type) = [delivery EXCEPT !.status = status, !.stamps = stamps]
    BY DEF AppliedRow
  <1> HIDE DEF type
  <1>3. delivery.status \in {"queued", "sending", "sent", "suppressed", "failed", "bounced", "complained"}
    BY DEF DeliveryType
  <1>4. /\ EventColumn(type) \in {"sent_at", "bounced_at", "complained_at", "opened_at", "clicked_at"}
        /\ status \in {"queued", "sending", "sent", "suppressed", "failed", "bounced", "complained"}
    BY <1>1, <1>3, EventMarks
  <1>5. stamps \in SUBSET {"sent_at", "bounced_at", "complained_at", "opened_at", "clicked_at"}
    BY <1>4 DEF DeliveryType
  <1>6. stamps = delivery.stamps \union {EventColumn(type)}
    OBVIOUS
  <1> HIDE DEF status, stamps
  <1>7. /\ AppliedRow(type) \in DeliveryType
        /\ AppliedRow(type).link = delivery.link
        /\ AppliedRow(type).stamps = stamps
    BY <1>2, <1>4, <1>5 DEF DeliveryType
  <1> QED
    BY <1>6, <1>7 DEF type

LEMMA ApplyEventKeeps ==
    ASSUME MailInv, NEW e \in EventIds, ApplyEvent(e)
    PROVE  RestInv'
  <1>0. /\ run[e] = "apply"
        /\ UNCHANGED <<suppressionVars, job, send, minted, hookVars, processed, fixed, faults, dropped>>
        /\ RestInv
    BY DEF ApplyEvent, MailInv
  <1>1. UNCHANGED <<job, send, minted, hook, events, processed, provider, edits, faults, dropped, call>>
    BY <1>0 DEF hookVars, fixed, suppressionVars
  <1>2. Stored(e) /\ job[e].state = "active" /\ Known(Note(e))
    BY <1>0, Running
  <1>3. processed \subseteq EventIds /\ e \notin processed
    BY <1>0 DEF RestInv, MailerTypeOK, JobInv
  <1>4. CASE delivery.link = Note(e).message
    <2> DEFINE type == EventType(provider, Note(e))
               pc == IF type \in SuppressingTypes THEN "suppress" ELSE "audit"
    <2>1. /\ delivery' = AppliedRow(type) /\ applied' = applied \union {e}
          /\ run' = [run EXCEPT ![e] = pc]
      BY <1>4 DEF ApplyEvent, Type, RunTo
    <2>2. pc \in RunPc /\ pc \in {"suppress", "audit"}
      BY DEF RunPc
    <2>3. MustSuppress(Note(e)) <=> type \in SuppressingTypes
      BY <1>0, EventTypes DEF RestInv, MailerTypeOK
    <2>4. pc = "audit" => ~MustSuppress(Note(e))
      BY <2>3
    <2>5. /\ AppliedRow(type) \in DeliveryType
          /\ AppliedRow(type).link = delivery.link
          /\ AppliedRow(type).stamps = delivery.stamps \union {EventColumn(type)}
      BY <1>0, <1>2, AppliedRows DEF RestInv, MailerTypeOK, DeliveryType
    <2>6. type = Type(e)
      BY DEF Type
    <2> HIDE DEF type, pc
    <2>7. JobMoves(e, {"active"})
      BY <1>0, <1>1, <1>2 DEF RestInv, MailerTypeOK, JobMoves
    <2>8. MailerTypeOK'
      BY <1>0, <1>1, <2>1, <2>2, <2>5 DEF RestInv, MailerTypeOK, DeliveryType
    <2>9. UNCHANGED <<hookVars, provider>>
      BY <1>0, <1>1
    <2>10. KnownInv' /\ EnqueueInv' /\ JobInv' /\ UnprocessedAccounted'
      BY <1>0, <1>1, <1>2, <1>3, <2>1, <2>2, <2>7, <2>9, JobSide
    <2>11. run'[e] = pc /\ \A d \in EventIds \ {e} : run'[d] = run[d]
      BY <1>0, <2>1, <2>2 DEF RestInv, MailerTypeOK
    <2>12. AppliedInv'
      <3>1. delivery'.link # NoMessage => send'.pc = "done"
        BY <1>0, <1>1, <2>1, <2>5 DEF RestInv, AppliedInv
      <3>2. ASSUME NEW d \in applied'
            PROVE  Stored(d)' /\ delivery'.link = Note(d)'.message /\ EventColumn(Type(d)') \in delivery'.stamps
        <4>1. Stored(d)' = Stored(d) /\ Note(d)' = Note(d) /\ Type(d)' = Type(d)
          BY <1>1 DEF Stored, Note, Type
        <4>2. CASE d = e
          BY <1>2, <1>4, <2>1, <2>5, <2>6, <4>1, <4>2
        <4>3. CASE d # e
          <5>1. Stored(d) /\ delivery.link = Note(d).message /\ EventColumn(Type(d)) \in delivery.stamps
            BY <1>0, <2>1, <4>3 DEF RestInv, AppliedInv
          <5> QED
            BY <2>1, <2>5, <4>1, <5>1
        <4> QED
          BY <4>2, <4>3
      <3> QED
        BY <3>1, <3>2 DEF AppliedInv
    <2>13. SuppressInv'
      <3>1. \A d \in EventIds : run'[d] \in {"suppress", "suppressing", "audit"} => d \in applied'
        BY <1>0, <2>1, <2>11 DEF RestInv, SuppressInv
      <3>2. ASSUME NEW d \in applied', MustSuppress(Note(d))', d \in processed' \/ run'[d] \in {"audit", "mark"}
            PROVE  Answered(d, "added")'
        <4>1. MustSuppress(Note(d))
          BY <1>1, <3>2 DEF Note
        <4>2. d # e
          BY <1>1, <1>3, <2>2, <2>4, <2>11, <3>2, <4>1
        <4>3. d \in applied /\ d \in EventIds
          BY <1>0, <2>1, <3>2, <4>2 DEF RestInv, MailerTypeOK
        <4>4. Answered(d, "added")
          BY <1>0, <1>1, <2>11, <3>2, <4>1, <4>2, <4>3 DEF RestInv, SuppressInv
        <4> QED
          BY <1>1, <4>4 DEF Answered, Idle
      <3> QED
        BY <3>1, <3>2 DEF SuppressInv
    <2> QED
      BY <2>8, <2>10, <2>12, <2>13 DEF RestInv
  <1>5. CASE delivery.link # Note(e).message
    <2>1. run' = [run EXCEPT ![e] = "mark"] /\ UNCHANGED <<delivery, applied>>
      BY <1>5 DEF ApplyEvent, RunTo
    <2>2. "mark" \in RunPc
      BY DEF RunPc
    <2>3. e \notin applied
      BY <1>0, <1>5 DEF RestInv, AppliedInv
    <2> QED
      BY <1>0, <1>3, <2>1, <2>2, <2>3, HandlerMoves DEF sendVars
  <1> QED
    BY <1>4, <1>5

LEMMA SwallowKeeps ==
    ASSUME MailInv, NEW e \in EventIds, Swallow(e)
    PROVE  RestInv'
  <1>0. /\ SwallowJob(e) /\ dropped' = dropped \union {e}
        /\ UNCHANGED <<suppressionVars, sendVars, hookVars, handlerVars, fixed, faults>>
        /\ RestInv
    BY DEF Swallow, MailInv
  <1>1. JobMoves(e, {"completed"}) /\ job[e].state = "waiting"
    BY <1>0, JobOperations DEF RestInv, MailerTypeOK
  <1>2. Stored(e) /\ run[e] = "idle"
    BY <1>0, <1>1 DEF RestInv, JobInv
  <1>3. UNCHANGED <<run, processed, applied>>
    BY <1>0 DEF handlerVars
  <1>4. run' = [run EXCEPT ![e] = "idle"]
    BY <1>0, <1>2, <1>3 DEF RestInv, MailerTypeOK
  <1>5. processed \subseteq EventIds /\ dropped \subseteq EventIds /\ faults \in Nat
    BY <1>0 DEF RestInv, MailerTypeOK
  <1>6. e \in applied /\ MustSuppress(Note(e)) /\ e \in processed => Answered(e, "added")
    BY <1>0 DEF RestInv, SuppressInv
  <1> QED
    BY <1>0, <1>1, <1>2, <1>3, <1>4, <1>5, <1>6, HandlerEnds

\* A record that is deleted is the one of an event that is processed or given up.
LEMMA ForgetKeeps ==
    ASSUME MailInv, NEW e \in EventIds, Forget(e)
    PROVE  RestInv'
  <1>0. /\ RemoveJob(e)
        /\ UNCHANGED <<suppressionVars, sendVars, hookVars, handlerVars, fixed, faults, dropped>>
        /\ RestInv
    BY DEF Forget, eventVars, MailInv
  <1>1. JobMoves(e, {"none"}) /\ job[e].state \in {"completed", "failed"}
    BY <1>0, JobOperations DEF RestInv, MailerTypeOK
  <1>2. Stored(e) /\ run[e] = "idle"
    BY <1>0, <1>1 DEF RestInv, JobInv
  <1>3. UNCHANGED <<run, processed, applied>>
    BY <1>0 DEF handlerVars
  <1>4. run' = [run EXCEPT ![e] = "idle"]
    BY <1>0, <1>2, <1>3 DEF RestInv, MailerTypeOK
  <1>5. processed \subseteq EventIds /\ dropped \subseteq EventIds /\ faults \in Nat
    BY <1>0 DEF RestInv, MailerTypeOK
  <1>6. e \in applied /\ MustSuppress(Note(e)) /\ e \in processed => Answered(e, "added")
    BY <1>0 DEF RestInv, SuppressInv
  <1>7. \A r \in Receivers : hook[r].pc = "enqueue" => Of(r) # e
    BY <1>0, <1>1 DEF RestInv, EnqueueInv
  <1>8. e \in processed \/ e \in dropped
    BY <1>0, <1>1, <1>2, <1>7 DEF RestInv, UnprocessedAccounted, Pending, Of
  <1> QED
    BY <1>0, <1>1, <1>2, <1>3, <1>4, <1>5, <1>6, <1>8, HandlerEnds

LEMMA RestSteps ==
    MailInv /\ Next => RestInv'
  <1> SUFFICES ASSUME MailInv, Next
               PROVE  RestInv'
    OBVIOUS
  <1>0. RestInv
    BY DEF MailInv
  <1>1. CASE SendLookup \/ SendDecide \/ SendTransport \/ MarkSent \/ SendFails
    BY <1>1, SendStepsKeep
  <1>2. ASSUME NEW r \in Receivers,
               (\E n \in Notifications : Notify(r, n)) \/ Append(r) \/ Enqueue(r) \/ HookFails(r)
        PROVE  RestInv'
    BY <1>0, <1>2, NotifyKeeps, AppendKeeps, EnqueueKeeps, HookFailsKeeps
  <1>3. ASSUME NEW e \in EventIds, StartRun(e) \/ RunStep(e) \/ RunFails(e) \/ Swallow(e) \/ Forget(e)
        PROVE  RestInv'
    BY <1>3, StartRunKeeps, FindEventKeeps, ApplyEventKeeps, SuppressKeeps, SuppressedKeeps,
       AuditEventKeeps, MarkProcessedKeeps, RunFailsKeeps, SwallowKeeps, ForgetKeeps DEF RunStep
  <1>4. CASE \/ \E c \in Callers : ListStep(c) \/ ListFails(c)
             \/ \E a \in Administrators : Edit(a)
             \/ CacheStep /\ UNCHANGED <<job, eventVars>>
    BY <1>4, ListStepsKeep
  <1> QED
    BY <1>1, <1>2, <1>3, <1>4 DEF Next

LEMMA RestStutters ==
    MailInv /\ UNCHANGED vars => RestInv'
  <1> SUFFICES ASSUME MailInv, UNCHANGED vars
               PROVE  RestInv'
    OBVIOUS
  <1>1. UNCHANGED <<suppressionVars, job, sendVars, hookVars, handlerVars, fixed, faults, dropped>>
    BY DEF vars, eventVars
  <1>2. UNCHANGED <<call, provider, edits>>
    BY <1>1 DEF suppressionVars, fixed
  <1>3. \A e \in applied : Answered(e, "added") => Answered(e, "added")'
    BY <1>2 DEF Answered, Idle
  <1>4. edits \in Nat /\ faults \in Nat
    BY DEF MailInv, RestInv, MailerTypeOK
  <1> QED
    BY <1>1, <1>2, <1>3, <1>4, ListSide

LEMMA RestInit ==
    Init => RestInv
  <1> SUFFICES ASSUME Init
               PROVE  RestInv
    OBVIOUS
  <1>1. job = [e \in EventIds |-> NoJob] /\ NoJob \in JobType /\ NoJob.state = "none"
    BY MailEventsAssumption DEF Init, QueueInit, NoJob, JobType
  <1>2. \A e \in EventIds : ~Stored(e) /\ run[e] = "idle" /\ job[e].state = "none"
    BY <1>1 DEF Init, Stored
  <1>3. \A r \in Receivers : hook[r].pc = "idle"
    BY DEF Init
  <1>4. MailerTypeOK
    <2>1. job \in [EventIds -> JobType]
      BY <1>1
    <2>2. "idle" \in RunPc
      BY DEF RunPc
    <2>3. delivery \in DeliveryType /\ send \in SendType
      BY DEF Init, DeliveryType, SendType
    <2> QED
      BY <2>1, <2>2, <2>3 DEF Init, MailerTypeOK, DeliveryType, SendType
  <1>5. KnownInv /\ EnqueueInv /\ JobInv /\ UnprocessedAccounted
    BY <1>2, <1>3 DEF KnownInv, EnqueueInv, JobInv, UnprocessedAccounted
  <1>6. AppliedInv /\ SuppressInv
    BY <1>2 DEF Init, AppliedInv, SuppressInv
  <1> QED
    BY <1>4, <1>5, <1>6 DEF RestInv

-----------------------------------------------------------------------------
(* The theorems about events.                                               *)

\* The invariant of the whole module.
THEOREM MailInvariant ==
    Spec => []MailInv
  <1>1. Init => MailInv
    BY ListInvInit, RestInit DEF MailInv
  <1>2. MailInv /\ [Next]_vars => MailInv'
    <2>1. MailInv /\ Next => ListInv'
      BY StepsOfList, ListSteps, OtherSteps DEF MailInv
    <2>2. MailInv /\ UNCHANGED vars => ListInv'
      BY OtherSteps DEF MailInv, vars
    <2> QED
      BY <2>1, <2>2, RestSteps, RestStutters DEF MailInv
  <1> QED
    BY <1>1, <1>2, PTL DEF Spec

\* The state has its type, and a handler under way has the active job of a stored event.
THEOREM MailTypeCorrect ==
    Spec => []TypeOK
  <1>1. MailInv => TypeOK
    <2> SUFFICES ASSUME MailInv
                 PROVE  TypeOK
      OBVIOUS
    <2>1. \A e \in EventIds : run[e] # "idle" => events[e] # NoEvent /\ job[e].state = "active"
      BY Running DEF MailInv, Stored
    <2> QED
      BY <2>1 DEF MailInv, ListInv, RestInv, MailerTypeOK, TypeOK
  <1> QED
    BY <1>1, MailInvariant, PTL

\* A stored event that is not processed has its job ahead of it, is about to get it, or was
\* lost in one of the known ways.
THEOREM UnprocessedAlwaysAccounted ==
    Spec => []UnprocessedAccounted
  <1>1. MailInv => UnprocessedAccounted
    BY DEF MailInv, RestInv
  <1> QED
    BY <1>1, MailInvariant, PTL

\* A processed event that had found its delivery has left its mark, and a permanent bounce
\* or a complaint has also put the address on the list.
THEOREM ProcessedAlwaysTookEffect ==
    Spec => []ProcessedTookEffect
  <1>1. MailInv => ProcessedTookEffect
    BY DEF MailInv, RestInv, AppliedInv, SuppressInv, ProcessedTookEffect
  <1> QED
    BY <1>1, MailInvariant, PTL

=============================================================================
