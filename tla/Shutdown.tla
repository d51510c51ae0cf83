------------------------------ MODULE Shutdown ------------------------------
(***************************************************************************)
(* The end of one process of the API: the signal, the order in which the   *)
(* server, the workers, the queues, the connection pool and Redis are      *)
(* closed (core/src/server/graceful-shutdown.ts, bin/server.ts,            *)
(* jobs/src/plugin.ts), against the requests and jobs still at work on the *)
(* same pool.                                                              *)
(*                                                                         *)
(* A handler asks for connections, in a transaction or outside             *)
(* (db/src/runtime/transaction.ts), and calls queues and Redis.  The reply *)
(* to a request ends it for the server, which then no longer waits for it, *)
(* while the append of its audit entries (audit/src/plugin.ts) still needs *)
(* a connection.  A request whose client hangs up is over for the server   *)
(* at once, which waits for open connections only; its handler goes on.    *)
(*                                                                         *)
(* The model starts once the server listens.  Of pg the code needs this: a *)
(* connection goes to who has waited longest, a pool that was ended serves *)
(* nobody who waits, refuses who comes, and has ended when the connections *)
(* in use came back.                                                       *)
(***************************************************************************)
EXTENDS Naturals, Sequences, FiniteSets

CONSTANTS
    Served,     \* requests of this process
    Jobs,       \* jobs its workers may take
    Connections,  \* the pool, DATABASE_MAX_CONNECTIONS of them
    Nobody,     \* owner of a free connection
    MaxCalls    \* bound: calls of one handler

Handlers == Served \union Jobs

ASSUME ShutdownConstants ==
    /\ Served \intersect Jobs = {}
    /\ Connections # {} /\ IsFiniteSet(Connections)
    /\ Nobody \notin Handlers
    /\ MaxCalls \in Nat

VARIABLES
    called,     \* a signal was taken
    stage,      \* position in CloseOrder of what is being closed, 0 while serving
    gone,       \* the requests whose client hung up before the reply
    exit,       \* "alive", "clean" (code 0), "forced" or "failed" (code 1)
    work,       \* where each handler is
    tx,         \* the handlers inside a transaction
    owner,      \* the handler that holds each connection
    waiting,    \* the queue in front of the pool: handlers and what for
    calls,      \* calls each handler made
    late,       \* history: handlers that called something closed
    crowd       \* history: who held connections when the pool was ended

process == <<called, stage, exit, crowd, gone>>
pool == <<owner, waiting>>
shutdownVars == <<process, pool, work, tx, calls, late>>

-----------------------------------------------------------------------------
(* The order of closing.                                                    *)

\* Mutant: onClose of the jobs closes the queues before the workers.
QueuesFirst == <<"http", "queues", "workers", "pool", "redis">>

\* server.close() ends HTTP first and then runs onClose, the pool is next and
\* the shared Redis client last.
CloseOrder == <<"http", "workers", "queues", "pool", "redis">>

Index(s) == CHOOSE i \in DOMAIN CloseOrder : CloseOrder[i] = s
Closing(s) == stage >= Index(s)

\* Answered: gone for the server, though its audit entries may not be written.
Busy(h) == work[h] \in {"running", "asking", "querying"}

\* Mutant: workers are closed by force, without waiting for their jobs.
DrainedByForce(s) ==
    /\ s = "http" => \A r \in Served : Busy(r) => r \in gone
    /\ s = "pool" => \A c \in Connections : owner[c] = Nobody

\* What the close of each part waits for: server.close() for the open connections.
Drained(s) ==
    /\ s = "http" => \A r \in Served : Busy(r) => r \in gone
    /\ s = "workers" => \A j \in Jobs : ~Busy(j)
    /\ s = "pool" => \A c \in Connections : owner[c] = Nobody

ShutdownInit ==
    /\ called = FALSE /\ stage = 0 /\ exit = "alive"
    /\ work = [h \in Handlers |-> "idle"]
    /\ tx = {}
    /\ owner = [c \in Connections |-> Nobody] /\ waiting = <<>>
    /\ calls = [h \in Handlers |-> 0]
    /\ late = {} /\ crowd = {} /\ gone = {}

\* SIGINT, SIGTERM or SIGQUIT; a second one finds called set.
Signal ==
    /\ ~called
    /\ called' = TRUE
    /\ stage' = 1
    /\ UNCHANGED <<exit, crowd, gone, pool, work, tx, calls, late>>

Holders == {owner[c] : c \in Connections} \ {Nobody}

\* The awaited close of one part returns and the next begins.
CloseNext ==
    /\ stage \in DOMAIN CloseOrder
    /\ Drained(CloseOrder[stage])
    /\ stage' = stage + 1
    /\ crowd' = IF stage' = Index("pool") THEN Holders ELSE crowd
    /\ UNCHANGED <<called, exit, gone, pool, work, tx, calls, late>>

\* After redis.quit(): the timer is cleared and the process ends.
ExitClean ==
    /\ stage > Len(CloseOrder)
    /\ exit' = "clean"
    /\ UNCHANGED <<called, stage, crowd, gone, pool, work, tx, calls, late>>

\* A close rejects.
ExitFailed ==
    /\ called
    /\ exit' = "failed"
    /\ UNCHANGED <<called, stage, crowd, gone, pool, work, tx, calls, late>>

\* Twenty seconds after the signal.
ForceExit ==
    /\ called
    /\ exit' = "forced"
    /\ UNCHANGED <<called, stage, crowd, gone, pool, work, tx, calls, late>>

-----------------------------------------------------------------------------
(* The pool and the transaction proxy.                                      *)

At(h, pc) == work[h] = pc
Go(h, pc) == work' = [work EXCEPT ![h] = pc]

\* Where a handler is once it has the connection it asked for.
Place(purpose) == CASE purpose = "begin" -> "running"
                    [] purpose = "statement" -> "querying"
                    [] purpose = "append" -> "appending"

\* Mutant: the proxy dispatches to the data source, ambient transaction or not.
AlwaysNeeded(h) == TRUE

\* transaction(fn) and every statement run in the ambient transaction if the
\* handler is inside one, and ask the pool otherwise.
NeedsConnection(h) == h \notin tx

Begun(S, h, purpose) == IF purpose = "begin" THEN S \union {h} ELSE S

\* pool.connect(): a free connection, or the end of the queue.
Connect(h, purpose) ==
    \/ \E c \in Connections :
        /\ owner[c] = Nobody
        /\ owner' = [owner EXCEPT ![c] = h]
        /\ Go(h, Place(purpose))
        /\ tx' = Begun(tx, h, purpose)
        /\ UNCHANGED waiting
    \/ /\ \A c \in Connections : owner[c] # Nobody
       /\ waiting' = Append(waiting, <<h, purpose>>)
       /\ Go(h, IF purpose = "append" THEN "queued" ELSE "asking")
       /\ UNCHANGED <<owner, tx>>

\* A connection comes back, and goes to who has waited longest unless the pool
\* was ended; the handler goes on at pc, with inTx the handlers in transactions.
Release(h, pc, inTx) ==
    \E c \in Connections :
        /\ owner[c] = h
        /\ IF waiting = <<>> \/ Closing("pool")
             THEN /\ owner' = [owner EXCEPT ![c] = Nobody]
                  /\ Go(h, pc)
                  /\ tx' = inTx
                  /\ UNCHANGED waiting
             ELSE LET next == Head(waiting)[1]
                      purpose == Head(waiting)[2]
                  IN /\ owner' = [owner EXCEPT ![c] = next]
                     /\ work' = [work EXCEPT ![h] = pc, ![next] = Place(purpose)]
                     /\ tx' = Begun(inTx, next, purpose)
                     /\ waiting' = Tail(waiting)

-----------------------------------------------------------------------------
(* Handlers.                                                                *)

\* A server that closes answers 503, a worker that closes fetches nothing.
Start(h) ==
    /\ At(h, "idle")
    /\ ~Closing(IF h \in Served THEN "http" ELSE "workers")
    /\ Go(h, "running")
    /\ UNCHANGED <<process, pool, tx, calls, late>>

\* The client of r hangs up while its handler works; the handler is not told.
HangUp(r) ==
    /\ Busy(r) /\ r \notin gone
    /\ gone' = gone \union {r}
    /\ UNCHANGED <<called, stage, exit, crowd, pool, work, tx, calls, late>>

Calling(h) ==
    /\ At(h, "running")
    /\ calls[h] < MaxCalls
    /\ calls' = [calls EXCEPT ![h] = @ + 1]

\* A statement or transaction(fn).
Ask(h, purpose) ==
    /\ Calling(h)
    /\ IF NeedsConnection(h)
         THEN IF Closing("pool")
                THEN late' = late \union {h} /\ UNCHANGED <<pool, work, tx>>
                ELSE Connect(h, purpose) /\ UNCHANGED late
         ELSE UNCHANGED <<pool, work, tx, late>>
    /\ UNCHANGED process

\* The statement is answered, or fails.
Answered(h) ==
    /\ At(h, "querying")
    /\ Release(h, "running", tx)
    /\ UNCHANGED <<process, calls, late>>

\* Commit or rollback.
EndTransaction(h) ==
    /\ At(h, "running") /\ h \in tx
    /\ Release(h, "running", tx \ {h})
    /\ UNCHANGED <<process, calls, late>>

\* queue.add of a request or a job, or a command of the shared client.
Use(h, resource) ==
    /\ Calling(h)
    /\ late' = IF Closing(resource) THEN late \union {h} ELSE late
    /\ UNCHANGED <<process, pool, work, tx>>

\* The job returns or throws.
JobEnds(j) ==
    /\ At(j, "running") /\ j \notin tx
    /\ Go(j, "done")
    /\ UNCHANGED <<process, pool, tx, calls, late>>

\* The reply; onResponse has nothing to append.
Reply(r) ==
    /\ At(r, "running") /\ r \notin tx
    /\ Go(r, "done")
    /\ UNCHANGED <<process, pool, tx, calls, late>>

\* The reply; onResponse starts the append, refused by a pool that was ended.
ReplyAudited(r) ==
    /\ At(r, "running") /\ r \notin tx
    /\ IF Closing("pool")
         THEN Go(r, "unwritten") /\ UNCHANGED <<pool, tx>>
         ELSE Connect(r, "append")
    /\ UNCHANGED <<process, calls, late>>

Appended(r) ==
    /\ At(r, "appending")
    /\ Release(r, "done", tx)
    /\ UNCHANGED <<process, calls, late>>

JobStep(j) == JobEnds(j)
ReplyStep(r) == Reply(r) \/ ReplyAudited(r) \/ Appended(r)

\* What a started handler does next.
Proceed(h) ==
    \/ \E purpose \in {"begin", "statement"} : Ask(h, purpose)
    \/ Answered(h)
    \/ EndTransaction(h)
    \/ \E resource \in {"queues", "redis"} : Use(h, resource)
    \/ h \in Jobs /\ JobStep(h)
    \/ h \in Served /\ ReplyStep(h)

Closes == CloseNext \/ ExitClean

ShutdownNext ==
    /\ exit = "alive"
    /\ \/ Signal
       \/ Closes
       \/ ExitFailed \/ ForceExit
       \/ \E h \in Handlers : Start(h) \/ Proceed(h)
       \/ \E r \in Served : HangUp(r)

ShutdownSpec == ShutdownInit /\ [][ShutdownNext]_shutdownVars

\* Every handler that has what it asked for goes on, and a close returns when
\* what it waits for is over.  Nothing is assumed of the timer.
ShutdownFairness ==
    /\ \A h \in Handlers : WF_shutdownVars(exit = "alive" /\ Proceed(h))
    /\ WF_shutdownVars(exit = "alive" /\ Closes)

ShutdownFairSpec == ShutdownSpec /\ ShutdownFairness

-----------------------------------------------------------------------------
(* Properties.                                                              *)

\* Type correctness.
ShutdownTypeOK ==
    /\ called \in BOOLEAN
    /\ stage \in 0..Len(CloseOrder) + 1
    /\ exit \in {"alive", "clean", "forced", "failed"}
    /\ work \in [Handlers -> {"idle", "running", "asking", "querying", "queued", "appending",
                              "unwritten", "done"}]
    /\ tx \subseteq Handlers
    /\ owner \in [Connections -> Handlers \union {Nobody}]
    /\ waiting \in Seq(Handlers \X {"begin", "statement", "append"})
    /\ calls \in [Handlers -> 0..MaxCalls]
    /\ late \subseteq Handlers /\ crowd \subseteq Handlers
    /\ gone \subseteq Served

\* A process that ends with code 0 has answered every request whose client
\* waited for it and finished every job it started, and leaves nothing in the
\* middle of a transaction; cut off are at most the handlers of requests whose
\* client hung up.  Audit entries are missing only of those and of requests that
\* still waited for a connection when the pool was ended, while requests held
\* all its connections (server.close() does not wait for onResponse).
CleanExitLosesNothing ==
    exit = "clean" =>
        /\ \A h \in Handlers : work[h] \in {"idle", "done", "queued"} \/ h \in gone
        /\ tx = {}
        /\ (\E r \in Served : At(r, "queued"))
             => crowd \subseteq Served /\ Cardinality(crowd) = Cardinality(Connections)

\* No job, and no request whose client waits for it, meets a queue, a pool or a
\* Redis client that the shutdown has closed under it; a request whose client
\* hung up may (bin/server.ts:293-295).
NothingUsesClosed == late \subseteq gone

\* A shutdown comes to its end without the help of the timer, if handlers end:
\* no part waits for another that waits for it, and no handler that holds a
\* connection waits for a second one.
ShutdownEnds == called ~> exit # "alive"
=============================================================================
