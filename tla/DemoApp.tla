------------------------------ MODULE DemoApp ------------------------------
(***************************************************************************)
(* The service the demo rolls out (demo/app): an HTTP server over a table  *)
(* of orders in PostgreSQL, with injected errors, a middleware that counts *)
(* answers for Prometheus and a shutdown that lets requests finish.        *)
(*                                                                         *)
(* A request is sent once.  It waits in its handler, sleeps before an      *)
(* injected error, waits for the database, is answered and then counted:   *)
(* the middleware comes after the handler.  The table is shared with other *)
(* pods and outlives the process.  Rates are percentages; time is counted  *)
(* from the start of the process.                                          *)
(***************************************************************************)
EXTENDS Integers, FiniteSets, Functions

CONSTANTS
  Requests,    \* the requests sent in the instance
  Ids,         \* identifiers of orders
  Malformed,   \* an {id} that is no UUID
  Config,      \* errorInjectorConfig
  Attempts,    \* NewDB's limit
  MaxTime,     \* bound: time saturates here
  MaxRestarts  \* bound: restarts of the process

ASSUME DemoAssumption ==
  /\ Malformed \notin Ids
  /\ Attempts \in Nat \ {0} /\ MaxTime \in Nat /\ MaxRestarts \in Nat
  /\ IsFiniteSet(Requests)

Codes == {200, 201, 204, 400, 404, 500, 503}

VARIABLES
  process,   \* "starting", "serving", "draining", "closing", "stopped" or
             \* "failed"
  attempt,   \* of NewDB
  db,        \* the pool: "none" without DATABASE_URL, "unopened", "open",
             \* "closed", or "dropped" with the process
  elapsed,   \* time since newErrorInjector
  restarts,
  orders,    \* the table: each id is "unused", "stored" or "deleted"
  request,   \* the requests
  http       \* http_requests_total of this process, by status code, without
             \* /healthz and /metrics

vars == <<process, attempt, db, elapsed, restarts, orders, request, http>>

\* valid says that the body has a title, or the limit and the offset are numbers
\* in range; answer is what the client is sent, recorded what statusRecorder
\* remembers.
Unsent == [pc |-> "unsent", kind |-> "healthz", id |-> Malformed,
           valid |-> TRUE, answer |-> 0, recorded |-> 200]

NoCounts == [code \in Codes |-> 0]

Init ==
  /\ process = "starting" /\ attempt = 1
  /\ db \in {"none", "unopened"}
  /\ elapsed = 0 /\ restarts = 0
  /\ orders \in [Ids -> {"unused", "stored"}]
  /\ request = [r \in Requests |-> Unsent]
  /\ http = NoCounts

Active(r) == request[r].pc \in {"handler", "asleep", "database", "answered"}

-----------------------------------------------------------------------------
(* The process. *)

\* NewDB: the ping succeeds and the schema is there, or the URL is not set.
Connect ==
  /\ process = "starting"
  /\ process' = "serving"
  /\ db' = IF db = "none" THEN "none" ELSE "open"
  /\ UNCHANGED <<attempt, elapsed, restarts, orders, request, http>>

\* The ping fails: after the last attempt log.Fatalf ends the process.
PingFails ==
  /\ process = "starting" /\ db = "unopened"
  /\ IF attempt < Attempts
     THEN attempt' = attempt + 1 /\ UNCHANGED process
     ELSE process' = "failed" /\ UNCHANGED attempt
  /\ UNCHANGED <<db, elapsed, restarts, orders, request, http>>

\* The process ends and takes its requests, its pool and its counters with it.
Exits(how, pool) ==
  /\ process' = how
  /\ db' = IF db = "open" THEN pool ELSE db
  /\ request' = [r \in Requests |->
       IF Active(r) THEN [request[r] EXCEPT !.pc = "lost"] ELSE request[r]]
  /\ UNCHANGED <<attempt, elapsed, restarts, orders, http>>

\* The schema cannot be created, the port is taken, the process is killed, or a
\* signal comes before signal.Notify.
Dies ==
  /\ process \in {"starting", "serving", "draining", "closing"}
  /\ Exits("failed", "dropped")

\* SIGTERM: Shutdown closes the listener.
Signal ==
  /\ process = "serving"
  /\ process' = "draining"
  /\ UNCHANGED <<attempt, db, elapsed, restarts, orders, request, http>>

\* The deferred calls of main.
Close ==
  /\ process' = "closing"
  /\ db' = IF db = "open" THEN "closed" ELSE db
  /\ UNCHANGED <<attempt, elapsed, restarts, orders, request, http>>

\* Mutant: the server is closed instead of shut down.
DrainedAtOnce == process = "draining" /\ Close

\* Shutdown returns when no request is active.
Drained == process = "draining" /\ (\A r \in Requests : ~Active(r)) /\ Close

Stop == process = "closing" /\ Exits("stopped", "closed")

\* Mutant: Shutdown has no deadline.
DrainNeverTimesOut == FALSE /\ UNCHANGED vars

\* The context's ten seconds are over: log.Fatalf, no deferred call.
DrainTimesOut ==
  /\ process = "draining" /\ \E r \in Requests : Active(r)
  /\ Exits("failed", "dropped")

\* The kubelet starts the container again.
Restart ==
  /\ process \in {"stopped", "failed"} /\ restarts < MaxRestarts
  /\ restarts' = restarts + 1
  /\ process' = "starting" /\ attempt' = 1 /\ elapsed' = 0
  /\ db' = IF db = "none" THEN "none" ELSE "unopened"
  /\ http' = NoCounts
  /\ UNCHANGED <<orders, request>>

Tick ==
  /\ elapsed < MaxTime
  /\ elapsed' = elapsed + 1
  /\ UNCHANGED <<process, attempt, db, restarts, orders, request, http>>

-----------------------------------------------------------------------------
(* Requests. *)

\* currentRate: the spike window, else the ramp, else the static rate.
InSpike ==
  /\ Config.spikeAt > 0 /\ Config.spikeDuration > 0
  /\ elapsed >= Config.spikeAt
  /\ elapsed < Config.spikeAt + Config.spikeDuration

Ramped ==
  LET progress == IF elapsed > Config.ramp THEN Config.ramp ELSE elapsed
  IN Config.rateStart
       + ((Config.rateEnd - Config.rateStart) * progress) \div Config.ramp

CurrentRate ==
  IF InSpike THEN Config.spikeRate
  ELSE IF Config.ramp <= 0 THEN Config.rateStart ELSE Ramped

\* The connection is accepted: on the listener, that is while serving.
Arrive(r, kind, id, valid) ==
  /\ process = "serving" /\ request[r].pc = "unsent"
  /\ request' = [request EXCEPT ![r].pc = "handler", ![r].kind = kind,
                                ![r].id = id, ![r].valid = valid]
  /\ UNCHANGED <<process, attempt, db, elapsed, restarts, orders, http>>

\* Mutant: the recorder passes the code on without remembering it.
AnsweredOnly(r, code) == [request[r] EXCEPT !.pc = "answered", !.answer = code]

\* WriteHeader through the recorder.
Answered(r, code) ==
  [request[r] EXCEPT !.pc = "answered", !.answer = code, !.recorded = code]

\* The handler's part before the database; the database calls come later.
Handles(r, new) ==
  /\ request[r].pc = "handler"
  /\ request' = [request EXCEPT ![r] = new]
  /\ UNCHANGED <<process, attempt, db, elapsed, restarts, orders, http>>

Inject(r) ==
  /\ request[r].kind = "create" /\ CurrentRate > 0
  /\ Handles(r, [request[r] EXCEPT !.pc = "asleep"])

InjectedFailure(r) ==
  /\ request[r].pc = "asleep"
  /\ request' = [request EXCEPT ![r] = Answered(r, 500)]
  /\ UNCHANGED <<process, attempt, db, elapsed, restarts, orders, http>>

\* Kind "healthz" is the probe's route, and /metrics with it: the two paths the
\* rollout's queries leave out.  An unknown route is the mux's 404.
HandleOther(r) ==
  \/ request[r].kind = "healthz" /\ Handles(r, Answered(r, 200))
  \/ request[r].kind = "unknown" /\ Handles(r, Answered(r, 404))

\* A create that was not chosen to fail goes on.
Spared(r) == request[r].kind = "create" => CurrentRate < 100

BadRequest(r) ==
  /\ request[r].kind \in {"create", "list"} /\ ~request[r].valid /\ Spared(r)
  /\ Handles(r, Answered(r, 400))

\* The request passes the checks in front of the database.
Valid(r) ==
  /\ request[r].kind \in {"create", "list", "get", "delete"}
  /\ request[r].valid /\ Spared(r)

\* Without a database a list is empty and everything else unavailable.
NoDatabase(r) ==
  /\ Valid(r) /\ db = "none"
  /\ Handles(r, Answered(r, IF request[r].kind = "list" THEN 200 ELSE 503))

AskDatabase(r) ==
  /\ Valid(r) /\ db # "none"
  /\ Handles(r, [request[r] EXCEPT !.pc = "database"])

-----------------------------------------------------------------------------
(* The database's answers. *)

Replies(r, code, id) ==
  /\ request[r].pc = "database" /\ db = "open"
  /\ request' = [request EXCEPT ![r] = [Answered(r, code) EXCEPT !.id = id]]
  /\ UNCHANGED <<process, attempt, db, elapsed, restarts, http>>

Created(r, id) ==
  /\ request[r].kind = "create" /\ orders[id] = "unused"
  /\ orders' = [orders EXCEPT ![id] = "stored"]
  /\ Replies(r, 201, id)

\* list, and get of an order that is there.
Found(r) ==
  /\ \/ request[r].kind = "list"
     \/ /\ request[r].kind = "get" /\ request[r].id \in Ids
        /\ orders[request[r].id] = "stored"
  /\ UNCHANGED orders
  /\ Replies(r, 200, request[r].id)

Missing(r) ==
  /\ request[r].kind \in {"get", "delete"} /\ request[r].id \in Ids
  /\ orders[request[r].id] # "stored"
  /\ UNCHANGED orders
  /\ Replies(r, 404, request[r].id)

\* Mutant: the number of affected rows is not looked at.
DeletedBlindly(r) ==
  /\ request[r].kind = "delete" /\ request[r].id \in Ids
  /\ orders' = [orders EXCEPT ![request[r].id] = "deleted"]
  /\ Replies(r, 204, request[r].id)

Deleted(r) ==
  /\ request[r].kind = "delete" /\ request[r].id \in Ids
  /\ orders[request[r].id] = "stored"
  /\ orders' = [orders EXCEPT ![request[r].id] = "deleted"]
  /\ Replies(r, 204, request[r].id)

\* The query fails, always so for an id that is no UUID; the row may have been
\* written or deleted all the same.
QueryFails(r) ==
  /\ \/ UNCHANGED orders
     \/ /\ request[r].kind = "create"
        /\ \E id \in Ids : /\ orders[id] = "unused"
                           /\ orders' = [orders EXCEPT ![id] = "stored"]
     \/ /\ request[r].kind = "delete" /\ request[r].id \in Ids
        /\ orders[request[r].id] = "stored"
        /\ orders' = [orders EXCEPT ![request[r].id] = "deleted"]
  /\ Replies(r, 500, request[r].id)

-----------------------------------------------------------------------------

\* Mutant: a failure is counted as a request first and as a failure again.
CountTwice(r) ==
  /\ request[r].pc = "answered"
  /\ request' = [request EXCEPT ![r].pc = "counted"]
  /\ http' = [http EXCEPT ![request[r].recorded] = @ + 1,
                          ![200] = IF request[r].recorded = 500 THEN @ + 1
                                   ELSE @]
  /\ UNCHANGED <<process, attempt, db, elapsed, restarts, orders>>

\* The middleware, after the handler has returned.  The queries of the rollout
\* leave out the paths of the probe and of the scrape.
Count(r) ==
  /\ request[r].pc = "answered"
  /\ request' = [request EXCEPT ![r].pc = "counted"]
  /\ http' = IF request[r].kind = "healthz" THEN http
             ELSE [http EXCEPT ![request[r].recorded] = @ + 1]
  /\ UNCHANGED <<process, attempt, db, elapsed, restarts, orders>>

Handle(r) ==
  \/ Inject(r) \/ InjectedFailure(r) \/ HandleOther(r) \/ BadRequest(r)
  \/ NoDatabase(r) \/ AskDatabase(r)
  \/ \E id \in Ids : Created(r, id)
  \/ Found(r) \/ Missing(r) \/ Deleted(r) \/ QueryFails(r)
  \/ Count(r)

Next ==
  \/ Connect \/ PingFails \/ Dies
  \/ Signal \/ Drained \/ DrainTimesOut \/ Stop
  \/ Restart \/ Tick
  \/ \E r \in Requests :
       \/ \E kind \in {"create", "list"}, valid \in BOOLEAN :
            Arrive(r, kind, Malformed, valid)
       \/ \E kind \in {"get", "delete"}, id \in Ids \cup {Malformed} :
            Arrive(r, kind, id, TRUE)
       \/ \E kind \in {"healthz", "unknown"} : Arrive(r, kind, Malformed, TRUE)
       \/ Handle(r)

Spec == Init /\ [][Next]_vars

\* A ping is answered or refused in the end, NewDB stops trying, Shutdown has a
\* deadline.  Nothing is assumed of handlers, queries and clients.
FairSpec ==
  /\ Spec
  /\ WF_vars(Connect \/ PingFails)
  /\ WF_vars(Drained \/ DrainTimesOut)
  /\ WF_vars(Stop)

-----------------------------------------------------------------------------
(* Properties. *)

\* An order is deleted once: of all the requests to delete it, across restarts,
\* at most one is told 204.  (DeleteOrder: the affected rows.)
DeletedOnce ==
  \A r, s \in Requests :
    ( /\ request[r].kind = "delete" /\ request[r].answer = 204
      /\ request[s].kind = "delete" /\ request[s].answer = 204
      /\ request[r].id = request[s].id ) => r = s

\* A handler never finds the pool closed or not yet open: requests come after
\* NewDB and none is left when main's deferred Close runs.  (main: NewDB before
\* ListenAndServe, Shutdown before Close.)
PoolOpen == \A r \in Requests : request[r].pc = "database" => db = "open"

\* What Prometheus reads is what clients were told: the counter of a code is
\* the number of requests answered with it whose middleware has run, and after
\* a restart no more than that.  (statusRecorder, MetricsMiddleware.)
CountedAsAnswered ==
  \A code \in Codes :
    LET told == Cardinality({r \in Requests :
                  /\ request[r].pc = "counted" /\ request[r].kind # "healthz"
                  /\ request[r].answer = code})
    IN http[code] <= told /\ (restarts = 0 => http[code] = told)

\* What the rollout's queries read: every path but /healthz and /metrics,
\* and the codes that match 5... .
Total == FoldFunction(+, 0, http)

Failures == http[500] + http[503]

Counters == INSTANCE CanaryCounters WITH total <- Total, failures <- Failures

\* The two series the analyser reads grow one request at a time, a failure
\* never without its request.  (MetricsMiddleware, and the queries of
\* demo/manifests/optional/05-rollout.yaml.)
IsCanary == Counters!Spec

\* Starting and draining come to an end, whatever requests and database do.
Settles == process \in {"starting", "draining", "closing"} ~>
             process \in {"serving", "stopped", "failed"}

=============================================================================
