----------------------------- MODULE DemoProofs -----------------------------
(***************************************************************************)
(* The demo service keeps its promises for any number of requests, orders, *)
(* restarts and attempts to connect, and for every injector.               *)
(*                                                                         *)
(* Steps are summed up once (ProcessStep, HandlerStep), and each invariant *)
(* is then shown of the summaries.                                         *)
(***************************************************************************)
EXTENDS DemoApp, FiniteSetTheorems, TLAPS

\* Total is a sum.
Adding == INSTANCE FoldTheorems WITH op <- +

-----------------------------------------------------------------------------
(* Types. *)

Kinds == {"healthz", "unknown", "create", "list", "get", "delete"}

\* Before the answer.
Open == {"unsent", "handler", "asleep", "database"}

RequestType ==
  [pc : Open \cup {"answered", "counted", "lost"}, kind : Kinds,
   id : Ids \cup {Malformed}, valid : BOOLEAN,
   answer : Codes \cup {0}, recorded : Codes]

TypeInv ==
  /\ request \in [Requests -> RequestType]
  /\ orders \in [Ids -> {"unused", "stored", "deleted"}]
  /\ http \in [Codes -> Nat] /\ restarts \in Nat

\* Requests are active only while the server runs, and then the pool is open.
PoolInv ==
  /\ process \in {"serving", "draining"} => db \in {"none", "open"}
  /\ \A r \in Requests : Active(r) => process \in {"serving", "draining"}
  /\ PoolOpen

\* Who was told 204 has deleted the order, for good.
DeletedInv ==
  /\ \A r \in Requests : request[r].pc \in Open => request[r].answer # 204
  /\ \A r \in Requests :
       request[r].kind = "delete" /\ request[r].answer = 204 =>
         request[r].id \in Ids /\ orders[request[r].id] = "deleted"
  /\ DeletedOnce

\* The recorder knows the answer before the middleware asks it.
CountInv ==
  /\ \A r \in Requests :
       request[r].pc = "answered" => request[r].recorded = request[r].answer
  /\ CountedAsAnswered

Inv == TypeInv /\ PoolInv /\ DeletedInv /\ CountInv

\* What happens to the process leaves the table alone, and a request at most
\* loses its handler.
ProcessStep ==
  /\ UNCHANGED orders
  /\ \/ http' = http /\ restarts' = restarts
     \/ http' = NoCounts /\ restarts' = restarts + 1
  /\ request' \in [Requests -> RequestType]
  /\ \A r \in Requests :
       \/ request'[r] = request[r]
       \/ /\ Active(r) /\ request'[r].pc = "lost"
          /\ request'[r].kind = request[r].kind
          /\ request'[r].id = request[r].id
          /\ request'[r].answer = request[r].answer

\* A handler goes on with r, up to its answer.
HandlerStep(r, new) ==
  /\ request' = [request EXCEPT ![r] = new]
  /\ request[r].pc \in Open \ {"unsent"} /\ new.pc \in Open \cup {"answered"}
  /\ new.kind = request[r].kind
  /\ new.pc = "database" => db # "none"
  /\ IF new.pc = "answered" THEN new.recorded = new.answer
     ELSE new.answer = request[r].answer
  /\ new.kind = "delete" => new.id = request[r].id
  /\ new.kind = "delete" /\ new.answer = 204 =>
       \/ request[r].answer = 204
       \/ /\ new.id \in Ids
          /\ orders[new.id] = "stored" /\ orders'[new.id] = "deleted"
  /\ orders' \in [Ids -> {"unused", "stored", "deleted"}]
  /\ \A id \in Ids : orders[id] = "deleted" => orders'[id] = "deleted"
  /\ UNCHANGED <<process, db, restarts, http>>

ProcessNext ==
  \/ Connect \/ PingFails \/ Dies
  \/ Signal \/ Drained \/ DrainTimesOut \/ Stop
  \/ Restart \/ Tick

LEMMA ExitsStep ==
  ASSUME TypeInv, NEW how, NEW pool, Exits(how, pool)
  PROVE  ProcessStep
<1>1. ASSUME NEW r \in Requests
      PROVE  /\ request'[r] \in RequestType
             /\ \/ request'[r] = request[r]
                \/ /\ Active(r) /\ request'[r].pc = "lost"
                   /\ request'[r].kind = request[r].kind
                   /\ request'[r].id = request[r].id
                   /\ request'[r].answer = request[r].answer
  <2>1. request[r] \in RequestType
    BY DEF TypeInv
  <2>2. CASE Active(r)
    <3>1. request'[r] = [request[r] EXCEPT !.pc = "lost"]
      BY <2>2 DEF Exits
    <3> QED BY <2>1, <2>2, <3>1 DEF RequestType
  <2>3. CASE ~Active(r)
    BY <2>1, <2>3 DEF Exits
  <2> QED BY <2>2, <2>3
<1>2. request' = [r \in Requests |-> request'[r]]
  BY DEF Exits
<1>3. request' \in [Requests -> RequestType]
  BY <1>1, <1>2
<1> QED BY <1>1, <1>3 DEF Exits, ProcessStep

LEMMA ProcessSteps ==
  ASSUME TypeInv, ProcessNext
  PROVE  ProcessStep
<1>1. UNCHANGED <<orders, request, restarts, http>> => ProcessStep
  BY DEF ProcessStep, TypeInv
<1>2. CASE Connect \/ PingFails \/ Signal \/ Drained \/ Tick
  BY <1>1, <1>2 DEF Connect, PingFails, Signal, Drained, Close, Tick
<1>3. CASE Dies \/ DrainTimesOut \/ Stop
  BY <1>3, ExitsStep DEF Dies, DrainTimesOut, Stop
<1>4. CASE Restart
  BY <1>4 DEF Restart, ProcessStep, TypeInv
<1> QED BY <1>2, <1>3, <1>4 DEF ProcessNext

-----------------------------------------------------------------------------
(* Handlers. *)

\* Answered is what WriteHeader makes of a request.
LEMMA AnsweredType ==
  ASSUME TypeInv, NEW r \in Requests, NEW code \in Codes
  PROVE  LET new == Answered(r, code) IN
         /\ new \in RequestType /\ new.pc = "answered"
         /\ new.kind = request[r].kind /\ new.id = request[r].id
         /\ new.answer = code /\ new.recorded = code
<1>1. request[r] \in RequestType
  BY DEF TypeInv
<1> QED BY <1>1 DEF Answered, RequestType

\* Only the request changes.
Else == UNCHANGED <<process, db, restarts, orders, http>>

Becomes(r, new) == request' = [request EXCEPT ![r] = new]

\* An answer without the database.
LEMMA HandlesAnswer ==
  ASSUME TypeInv, NEW r \in Requests, NEW code \in Codes \ {204},
         request[r].pc \in {"handler", "asleep"},
         Becomes(r, Answered(r, code)), Else
  PROVE  \E new \in RequestType : HandlerStep(r, new)
<1> DEFINE new == Answered(r, code)
<1>1. /\ new \in RequestType /\ new.pc = "answered"
      /\ new.kind = request[r].kind /\ new.id = request[r].id
      /\ new.answer = code /\ new.recorded = code
  BY AnsweredType
<1> HIDE DEF new
<1>2. HandlerStep(r, new)
  BY <1>1 DEF HandlerStep, TypeInv, Open, new, Else, Becomes
<1> QED BY <1>1, <1>2

\* An answer after the database's; a delete is told 204 only by Deleted.
LEMMA RepliesAnswer ==
  ASSUME TypeInv, NEW r \in Requests, NEW code \in Codes,
         NEW id \in Ids \cup {Malformed}, Replies(r, code, id),
         request[r].kind = "delete" => id = request[r].id,
         request[r].kind = "delete" /\ code = 204 =>
           /\ id \in Ids
           /\ orders[id] = "stored" /\ orders'[id] = "deleted",
         orders' \in [Ids -> {"unused", "stored", "deleted"}],
         \A i \in Ids : orders[i] = "deleted" => orders'[i] = "deleted"
  PROVE  \E new \in RequestType : HandlerStep(r, new)
<1> DEFINE new == [Answered(r, code) EXCEPT !.id = id]
<1>1. /\ new \in RequestType /\ new.pc = "answered"
      /\ new.kind = request[r].kind /\ new.id = id
      /\ new.answer = code /\ new.recorded = code
  BY AnsweredType DEF RequestType
<1>2. /\ request' = [request EXCEPT ![r] = new] /\ request[r].pc = "database"
      /\ UNCHANGED <<process, db, restarts, http>>
  BY DEF Replies
<1> HIDE DEF new
<1>3. HandlerStep(r, new)
  BY <1>1, <1>2 DEF HandlerStep, Open
<1> QED BY <1>1, <1>3

LEMMA HandleSteps ==
  ASSUME TypeInv, NEW r \in Requests, Handle(r), ~Count(r)
  PROVE  \E new \in RequestType : HandlerStep(r, new)
<1>1. request[r] \in RequestType
  BY DEF TypeInv
<1>2. ASSUME NEW code \in Codes \ {204},
             request[r].pc \in {"handler", "asleep"},
             Becomes(r, Answered(r, code)), Else
      PROVE  \E new \in RequestType : HandlerStep(r, new)
  BY <1>2, HandlesAnswer
<1>3. CASE Inject(r) \/ AskDatabase(r)
  <2>1. PICK pc \in {"asleep", "database"} :
          /\ Handles(r, [request[r] EXCEPT !.pc = pc])
          /\ pc = "database" => db # "none"
    BY <1>3 DEF Inject, AskDatabase
  <2> DEFINE new == [request[r] EXCEPT !.pc = pc]
  <2>2. /\ new \in RequestType /\ new.pc = pc /\ new.kind = request[r].kind
        /\ new.id = request[r].id /\ new.answer = request[r].answer
    BY <1>1 DEF RequestType, Open
  <2>3. /\ request' = [request EXCEPT ![r] = new] /\ request[r].pc = "handler"
        /\ UNCHANGED <<process, db, restarts, orders, http>>
    BY <2>1 DEF Handles
  <2> HIDE DEF new
  <2>4. HandlerStep(r, new)
    BY <2>1, <2>2, <2>3 DEF HandlerStep, TypeInv, Open
  <2> QED BY <2>2, <2>4
<1>4. CASE InjectedFailure(r)
  <2>1. request[r].pc = "asleep" /\ Else
    BY <1>4 DEF InjectedFailure, Else
  <2>2. \E code \in Codes \ {204} : Becomes(r, Answered(r, code))
    <3>1. Becomes(r, Answered(r, 500))
      BY <1>4 DEF InjectedFailure, Becomes
    <3> QED BY <3>1 DEF Codes
  <2> QED BY <1>2, <2>1, <2>2
<1>5. CASE HandleOther(r) \/ BadRequest(r) \/ NoDatabase(r)
  <2>1. PICK code \in Codes \ {204} : Handles(r, Answered(r, code))
    <3>1. CASE HandleOther(r)
      BY <3>1 DEF HandleOther, Codes
    <3>2. CASE BadRequest(r)
      BY <3>2 DEF BadRequest, Codes
    <3>3. CASE NoDatabase(r)
      BY <3>3 DEF NoDatabase, Codes
    <3> QED BY <1>5, <3>1, <3>2, <3>3
  <2>2. request[r].pc = "handler" /\ Becomes(r, Answered(r, code))
    BY <2>1 DEF Handles, Becomes
  <2>3. Else
    BY <2>1 DEF Handles, Else
  <2> QED BY <1>2, <2>2, <2>3
<1>6. CASE \E id \in Ids : Created(r, id)
  <2>1. PICK id \in Ids : Created(r, id)
    BY <1>6
  <2> QED BY <2>1, RepliesAnswer DEF Created, TypeInv, Codes
<1>7. CASE Found(r)
  <2>1. request[r].id \in Ids \cup {Malformed}
    BY <1>1 DEF RequestType
  <2> QED BY <1>7, <2>1, RepliesAnswer DEF Found, TypeInv, Codes
<1>8. CASE Missing(r)
  BY <1>8, RepliesAnswer DEF Missing, TypeInv, Codes
<1>9. CASE Deleted(r)
  BY <1>9, RepliesAnswer DEF Deleted, TypeInv, Codes
<1>10. CASE QueryFails(r)
  <2>1. request[r].id \in Ids \cup {Malformed}
    BY <1>1 DEF RequestType
  <2>2. /\ orders' \in [Ids -> {"unused", "stored", "deleted"}]
        /\ \A i \in Ids : orders[i] = "deleted" => orders'[i] = "deleted"
    BY <1>10 DEF QueryFails, TypeInv
  <2>3. Replies(r, 500, request[r].id)
    BY <1>10 DEF QueryFails
  <2> QED BY <2>1, <2>2, <2>3, RepliesAnswer DEF Codes
<1> QED BY <1>3, <1>4, <1>5, <1>6, <1>7, <1>8, <1>9, <1>10 DEF Handle

\* All the steps there are.
LEMMA NextSteps ==
  ASSUME Next
  PROVE  \/ ProcessNext
         \/ \E r \in Requests :
              \/ \E kind \in Kinds, id \in Ids \cup {Malformed},
                   valid \in BOOLEAN : Arrive(r, kind, id, valid)
              \/ Handle(r) /\ ~Count(r)
              \/ Count(r)
<1>1. CASE ProcessNext
  BY <1>1
<1>2. CASE ~ProcessNext
  <2>1. PICK r \in Requests :
          \/ \E kind \in {"create", "list"}, valid \in BOOLEAN :
               Arrive(r, kind, Malformed, valid)
          \/ \E kind \in {"get", "delete"}, id \in Ids \cup {Malformed} :
               Arrive(r, kind, id, TRUE)
          \/ \E kind \in {"healthz", "unknown"} :
               Arrive(r, kind, Malformed, TRUE)
          \/ Handle(r)
    BY <1>2 DEF Next, ProcessNext
  <2>2. CASE \E kind \in {"create", "list"}, valid \in BOOLEAN :
               Arrive(r, kind, Malformed, valid)
    BY <2>2 DEF Kinds
  <2>3. CASE \E kind \in {"get", "delete"}, id \in Ids \cup {Malformed} :
               Arrive(r, kind, id, TRUE)
    BY <2>3 DEF Kinds
  <2>4. CASE \E kind \in {"healthz", "unknown"} :
               Arrive(r, kind, Malformed, TRUE)
    BY <2>4 DEF Kinds
  <2> QED BY <2>1, <2>2, <2>3, <2>4
<1> QED BY <1>1, <1>2

-----------------------------------------------------------------------------
(* What the four kinds of steps do to the counts. *)

\* The requests that were told a code and counted.
Told(code) ==
  {r \in Requests : /\ request[r].pc = "counted"
                    /\ request[r].kind # "healthz"
                    /\ request[r].answer = code}

LEMMA ToldFinite ==
  ASSUME NEW code \in Codes
  PROVE  IsFiniteSet(Told(code)) /\ Cardinality(Told(code)) \in Nat
<1>1. IsFiniteSet(Requests) /\ Told(code) \subseteq Requests
  BY DemoAssumption DEF Told
<1> QED BY <1>1, FS_Subset, FS_CardinalityType

\* Steps that count nobody leave the sets alone.
LEMMA ToldUnchanged ==
  ASSUME \A r \in Requests :
           \/ request'[r] = request[r]
           \/ request[r].pc # "counted" /\ request'[r].pc # "counted"
  PROVE  \A code \in Codes : Told(code)' = Told(code)
BY DEF Told

LEMMA CountedFrom ==
  ASSUME CountedAsAnswered, \A code \in Codes : Told(code)' = Told(code),
         TypeInv,
         \/ http' = http /\ restarts' = restarts
         \/ http' = NoCounts /\ restarts' = restarts + 1
  PROVE  CountedAsAnswered'
<1>1. \A code \in Codes :
        /\ http[code] <= Cardinality(Told(code))
        /\ restarts = 0 => http[code] = Cardinality(Told(code))
  BY DEF CountedAsAnswered, Told
<1>2. ASSUME NEW code \in Codes
      PROVE  /\ http'[code] <= Cardinality(Told(code)')
             /\ restarts' = 0 => http'[code] = Cardinality(Told(code)')
  <2>1. Cardinality(Told(code)) \in Nat
    BY ToldFinite
  <2>2. CASE http' = http /\ restarts' = restarts
    BY <1>1, <2>2
  <2>3. CASE http' = NoCounts /\ restarts' = restarts + 1
    BY <2>1, <2>3 DEF NoCounts, TypeInv
  <2> QED BY <2>2, <2>3
<1> QED BY <1>2 DEF CountedAsAnswered, Told

\* The middleware adds the request it has just let through.
LEMMA CountStep ==
  ASSUME Inv, NEW r \in Requests, Count(r)
  PROVE  Inv'
<1> DEFINE new == [request[r] EXCEPT !.pc = "counted"]
<1>1. request[r] \in RequestType /\ request[r].pc = "answered"
  BY DEF Inv, TypeInv, Count
<1>2. /\ new \in RequestType /\ new.pc = "counted"
      /\ new.kind = request[r].kind /\ new.id = request[r].id
      /\ new.answer = request[r].answer
  BY <1>1 DEF RequestType
<1>3. /\ request' = [request EXCEPT ![r] = new]
      /\ UNCHANGED <<process, db, restarts, orders>>
      /\ http' = IF request[r].kind = "healthz" THEN http
                 ELSE [http EXCEPT ![request[r].recorded] = @ + 1]
  BY DEF Count
<1> HIDE DEF new
<1>4. request'[r] = new /\ \A s \in Requests \ {r} : request'[s] = request[s]
  BY <1>3 DEF Inv, TypeInv
<1>5. TypeInv'
  <2>1. request[r].recorded \in Codes
    BY <1>1 DEF RequestType
  <2>2. http' \in [Codes -> Nat]
    BY <1>3, <2>1 DEF Inv, TypeInv
  <2> QED BY <1>2, <1>3, <2>2 DEF Inv, TypeInv
<1>6. PoolInv'
  BY <1>2, <1>3, <1>4 DEF Inv, PoolInv, PoolOpen, Active
<1>7. DeletedInv'
  <2>1. \A s \in Requests : /\ request'[s].kind = request[s].kind
                            /\ request'[s].id = request[s].id
                            /\ request'[s].answer = request[s].answer
    BY <1>2, <1>4
  <2>2. \A s \in Requests :
          request'[s].pc \in Open => request[s].pc \in Open
    BY <1>2, <1>4 DEF Open
  <2> QED BY <1>3, <2>1, <2>2 DEF Inv, DeletedInv, DeletedOnce
<1>8. CountInv'
  <2>1. \A s \in Requests :
          request'[s].pc = "answered" =>
            request'[s].recorded = request'[s].answer
    BY <1>2, <1>4 DEF Inv, CountInv
  <2>2. \A code \in Codes :
          /\ http[code] \in Nat
          /\ http[code] <= Cardinality(Told(code))
          /\ restarts = 0 => http[code] = Cardinality(Told(code))
    BY DEF Inv, TypeInv, CountInv, CountedAsAnswered, Told
  <2>3. ASSUME NEW code \in Codes
        PROVE  /\ http'[code] <= Cardinality(Told(code)')
               /\ restarts' = 0 => http'[code] = Cardinality(Told(code)')
    <3>1. CASE request[r].kind # "healthz" /\ request[r].answer = code
      <4>1. Told(code)' = Told(code) \cup {r} /\ r \notin Told(code)
        BY <1>1, <1>2, <1>4, <3>1 DEF Told
      <4>2. Cardinality(Told(code)') = Cardinality(Told(code)) + 1
        BY <4>1, ToldFinite, FS_AddElement
      <4>3. request[r].recorded = code
        BY <1>1, <3>1 DEF Inv, CountInv
      <4>4. http'[code] = http[code] + 1
        BY <1>3, <3>1, <4>3 DEF Inv, TypeInv
      <4> QED BY <1>3, <2>2, <4>2, <4>4, ToldFinite
    <3>2. CASE ~(request[r].kind # "healthz" /\ request[r].answer = code)
      <4>1. Told(code)' = Told(code)
        BY <1>1, <1>2, <1>4, <3>2 DEF Told
      <4>2. request[r].kind # "healthz" => request[r].recorded # code
        BY <1>1, <3>2 DEF Inv, CountInv
      <4>3. http'[code] = http[code]
        BY <1>3, <4>2 DEF Inv, TypeInv
      <4> QED BY <1>3, <2>2, <4>1, <4>3
    <3> QED BY <3>1, <3>2
  <2>4. CountedAsAnswered'
    BY <2>3 DEF CountedAsAnswered, Told
  <2> QED BY <2>1, <2>4 DEF CountInv
<1> QED BY <1>5, <1>6, <1>7, <1>8 DEF Inv

-----------------------------------------------------------------------------
(* The other steps. *)

LEMMA HandlerInv ==
  ASSUME Inv, NEW r \in Requests, NEW new \in RequestType, HandlerStep(r, new)
  PROVE  Inv'
<1>1. /\ request'[r] = new
      /\ \A s \in Requests \ {r} : request'[s] = request[s]
  BY DEF Inv, TypeInv, HandlerStep
<1>2. TypeInv'
  BY DEF Inv, TypeInv, HandlerStep
<1>3. PoolInv'
  <2>1. Active(r) /\ process \in {"serving", "draining"}
    BY DEF Inv, PoolInv, HandlerStep, Active, Open
  <2>2. new.pc = "database" => db' = "open"
    BY <2>1 DEF Inv, PoolInv, HandlerStep
  <2>3. UNCHANGED <<process, db>>
    BY DEF HandlerStep
  <2>4. \A s \in Requests : request'[s].pc = "database" => db' = "open"
    BY <1>1, <2>2, <2>3 DEF Inv, PoolInv, PoolOpen
  <2>5. \A s \in Requests \ {r} : Active(s)' => Active(s)
    BY <1>1 DEF Active
  <2> QED BY <2>1, <2>3, <2>4, <2>5 DEF Inv, PoolInv, PoolOpen
<1>4. DeletedInv'
  <2>1. request[r].pc \in Open /\ request[r].answer # 204
    BY DEF Inv, DeletedInv, HandlerStep
  <2>2. new.pc \in Open => new.answer # 204
    BY <2>1 DEF HandlerStep, Open
  <2>3. new.kind = "delete" /\ new.answer = 204 =>
          /\ new.id \in Ids
          /\ orders[new.id] = "stored" /\ orders'[new.id] = "deleted"
    BY <2>1 DEF HandlerStep
  <2>4. \A id \in Ids : orders[id] = "deleted" => orders'[id] = "deleted"
    BY DEF HandlerStep
  <2>5. \A s \in Requests \ {r} :
          request'[s].kind = "delete" /\ request'[s].answer = 204 =>
            /\ request'[s].id \in Ids
            /\ orders[request'[s].id] = "deleted"
            /\ orders'[request'[s].id] = "deleted"
    BY <1>1, <2>4 DEF Inv, DeletedInv
  <2>6. DeletedOnce'
    BY <1>1, <2>3, <2>5 DEF Inv, DeletedInv, DeletedOnce
  <2>7. \A s \in Requests : request'[s].pc \in Open => request'[s].answer # 204
    BY <1>1, <2>2 DEF Inv, DeletedInv
  <2> QED BY <1>1, <2>3, <2>5, <2>6, <2>7 DEF DeletedInv
<1>5. CountInv'
  <2>1. \A s \in Requests :
          \/ request'[s] = request[s]
          \/ request[s].pc # "counted" /\ request'[s].pc # "counted"
    BY <1>1 DEF HandlerStep, Open
  <2>2. CountedAsAnswered'
    BY <2>1, ToldUnchanged, CountedFrom DEF HandlerStep, Inv, CountInv
  <2>3. \A s \in Requests :
          request'[s].pc = "answered" =>
            request'[s].recorded = request'[s].answer
    BY <1>1 DEF HandlerStep, Inv, CountInv
  <2> QED BY <2>2, <2>3 DEF CountInv
<1> QED BY <1>2, <1>3, <1>4, <1>5 DEF Inv

LEMMA ArriveInv ==
  ASSUME Inv, NEW r \in Requests, NEW kind \in Kinds,
         NEW id \in Ids \cup {Malformed}, NEW valid \in BOOLEAN,
         Arrive(r, kind, id, valid)
  PROVE  Inv'
<1> DEFINE new == [request[r] EXCEPT !.pc = "handler", !.kind = kind,
                                     !.id = id, !.valid = valid]
<1>1. request[r] \in RequestType /\ request[r].pc = "unsent"
  BY DEF Inv, TypeInv, Arrive
<1>2. /\ new \in RequestType /\ new.pc = "handler"
      /\ new.answer = request[r].answer
  BY <1>1 DEF RequestType, Open
<1>3. request' = [request EXCEPT ![r] = new]
  BY <1>1 DEF Arrive, Inv, TypeInv
<1>4. process = "serving" /\ UNCHANGED <<process, db, restarts, orders, http>>
  BY DEF Arrive
<1> HIDE DEF new
<1>5. request'[r] = new /\ \A s \in Requests \ {r} : request'[s] = request[s]
  BY <1>3 DEF Inv, TypeInv
<1>6. new.answer # 204
  BY <1>1, <1>2 DEF Inv, DeletedInv, Open
<1>7. TypeInv'
  BY <1>2, <1>3, <1>4 DEF Inv, TypeInv
<1>8. PoolInv'
  BY <1>2, <1>4, <1>5 DEF Inv, PoolInv, PoolOpen, Active
<1>9. DeletedInv'
  BY <1>4, <1>5, <1>6 DEF Inv, DeletedInv, DeletedOnce
<1>10. CountInv'
  <2>1. \A s \in Requests :
          \/ request'[s] = request[s]
          \/ request[s].pc # "counted" /\ request'[s].pc # "counted"
    BY <1>1, <1>2, <1>5
  <2>2. CountedAsAnswered'
    BY <1>4, <2>1, ToldUnchanged, CountedFrom DEF Inv, CountInv
  <2>3. \A s \in Requests :
          request'[s].pc = "answered" =>
            request'[s].recorded = request'[s].answer
    BY <1>2, <1>5 DEF Inv, CountInv
  <2> QED BY <2>2, <2>3 DEF CountInv
<1> QED BY <1>7, <1>8, <1>9, <1>10 DEF Inv

\* Where the process is says what the pool is.
LEMMA ProcessPool ==
  ASSUME Inv, ProcessNext
  PROVE  PoolInv'
<1>1. ASSUME NEW how \in {"failed", "stopped"}, NEW pool, Exits(how, pool)
      PROVE  PoolInv'
  <2>1. process' = how
    BY <1>1 DEF Exits
  <2>2. ASSUME NEW r \in Requests PROVE ~Active(r)'
    <3>1. request[r] \in RequestType
      BY DEF Inv, TypeInv
    <3>2. request'[r] = IF Active(r) THEN [request[r] EXCEPT !.pc = "lost"]
                        ELSE request[r]
      BY <1>1 DEF Exits
    <3> QED BY <3>1, <3>2 DEF Active, RequestType
  <2> QED BY <2>1, <2>2 DEF PoolInv, PoolOpen, Active
<1>2. CASE Dies \/ DrainTimesOut \/ Stop
  BY <1>1, <1>2 DEF Dies, DrainTimesOut, Stop
<1>3. CASE Connect
  BY <1>3 DEF Connect, Inv, PoolInv, PoolOpen, Active
<1>4. CASE PingFails
  BY <1>4 DEF PingFails, Inv, PoolInv, PoolOpen, Active
<1>5. CASE Signal
  BY <1>5 DEF Signal, Inv, PoolInv, PoolOpen, Active
<1>6. CASE Drained
  BY <1>6 DEF Drained, Close, Inv, PoolInv, PoolOpen, Active
<1>7. CASE Restart
  BY <1>7 DEF Restart, Inv, PoolInv, PoolOpen, Active
<1>8. CASE Tick
  BY <1>8 DEF Tick, Inv, PoolInv, PoolOpen, Active
<1> QED BY <1>2, <1>3, <1>4, <1>5, <1>6, <1>7, <1>8 DEF ProcessNext

LEMMA ProcessInv ==
  ASSUME Inv, ProcessNext
  PROVE  Inv'
<1>1. ProcessStep
  BY ProcessSteps DEF Inv
<1>2. TypeInv'
  BY <1>1 DEF ProcessStep, Inv, TypeInv, NoCounts
<1>3. DeletedInv'
  <2>1. \A r \in Requests : /\ request'[r].kind = request[r].kind
                            /\ request'[r].id = request[r].id
                            /\ request'[r].answer = request[r].answer
                            /\ request'[r].pc \in Open => request[r].pc \in Open
    BY <1>1 DEF ProcessStep, Open
  <2>2. orders' = orders
    BY <1>1 DEF ProcessStep
  <2> QED BY <2>1, <2>2 DEF Inv, DeletedInv, DeletedOnce
<1>4. CountInv'
  <2>1. \A r \in Requests :
          \/ request'[r] = request[r]
          \/ request[r].pc # "counted" /\ request'[r].pc # "counted"
    BY <1>1 DEF ProcessStep, Active
  <2>2. CountedAsAnswered'
    BY <1>1, <2>1, ToldUnchanged, CountedFrom DEF ProcessStep, Inv, CountInv
  <2>3. \A r \in Requests :
          request'[r].pc = "answered" =>
            request'[r].recorded = request'[r].answer
    BY <1>1 DEF ProcessStep, Inv, CountInv
  <2> QED BY <2>2, <2>3 DEF CountInv
<1> QED BY <1>2, <1>3, <1>4, ProcessPool DEF Inv

-----------------------------------------------------------------------------

LEMMA InitInv ==
  ASSUME Init
  PROVE  Inv
<1>1. TypeInv
  BY DEF Init, TypeInv, Unsent, RequestType, Open, Kinds, Codes, NoCounts
<1>2. \A r \in Requests : request[r] = Unsent
  BY DEF Init
<1>3. PoolInv
  BY <1>2 DEF Init, Unsent, PoolInv, PoolOpen, Active
<1>4. DeletedInv
  BY <1>2 DEF Unsent, DeletedInv, DeletedOnce
<1>5. CountInv
  <2>1. \A code \in Codes : Told(code) = {}
    BY <1>2 DEF Unsent, Told
  <2>2. \A code \in Codes : http[code] = Cardinality(Told(code))
    BY <2>1, FS_EmptySet DEF Init, NoCounts
  <2>3. \A code \in Codes : http[code] \in Nat
    BY <1>1 DEF TypeInv
  <2>4. CountedAsAnswered
    BY <2>2, <2>3 DEF CountedAsAnswered, Told
  <2> QED BY <1>2, <2>4 DEF Unsent, CountInv
<1> QED BY <1>1, <1>3, <1>4, <1>5 DEF Inv

LEMMA NextInv ==
  ASSUME Inv, Next
  PROVE  Inv'
<1>1. ASSUME NEW r \in Requests, Handle(r) /\ ~Count(r)
      PROVE  Inv'
  <2>1. PICK new \in RequestType : HandlerStep(r, new)
    BY <1>1, HandleSteps DEF Inv
  <2> QED BY <2>1, HandlerInv
<1> QED BY <1>1, NextSteps, ProcessInv, ArriveInv, CountStep

LEMMA StutterInv ==
  ASSUME Inv, UNCHANGED vars
  PROVE  Inv'
BY DEF vars, Inv, TypeInv, PoolInv, PoolOpen, Active, DeletedInv, DeletedOnce,
       CountInv, CountedAsAnswered

LEMMA InvHolds == Spec => []Inv
<1>1. Init => Inv
  BY InitInv
<1>2. Inv /\ [Next]_vars => Inv'
  BY NextInv, StutterInv
<1> QED BY <1>1, <1>2, PTL DEF Spec

\* No handler ever finds the pool closed or not yet open: NewDB comes before
\* ListenAndServe, and Shutdown's answer before the deferred Close.  (main)
THEOREM PoolIsOpen == Spec => []PoolOpen
<1>1. Inv => PoolOpen
  BY DEF Inv, PoolInv
<1> QED BY <1>1, InvHolds, PTL

\* At most one request is told that it deleted an order, whatever other
\* requests, failed queries and restarts come between.  (DeleteOrder)
THEOREM OrdersAreDeletedOnce == Spec => []DeletedOnce
<1>1. Inv => DeletedOnce
  BY DEF Inv, DeletedInv
<1> QED BY <1>1, InvHolds, PTL

\* Prometheus reads what clients were told, code by code, and after a restart
\* no more than that.  (statusRecorder, MetricsMiddleware)
THEOREM CountsAreAnswers == Spec => []CountedAsAnswered
<1>1. Inv => CountedAsAnswered
  BY DEF Inv, CountInv
<1> QED BY <1>1, InvHolds, PTL

-----------------------------------------------------------------------------
(* What the rollout's queries read. *)

\* The sum of some counters.
Sum(counts, codes) == Adding!FunFold(0, counts, codes)

\* Total is such a sum.
LEMMA TotalIsSum == Total = Sum(http, DOMAIN http)
BY DEF Total, Sum, FoldFunction, FoldFunctionOnSet, Adding!FunFold,
       Adding!FoldFunctionOnSet, MapThenFoldSet, Adding!MapThenFoldSet

\* After a step as well.
LEMMA NextTotalIsSum == Total' = Sum(http', DOMAIN http')
BY DEF Total, Sum, FoldFunction, FoldFunctionOnSet, Adding!FunFold,
       Adding!FoldFunctionOnSet, MapThenFoldSet, Adding!MapThenFoldSet

\* There are finitely many codes.
LEMMA CodesFinite == Adding!IsFiniteSet(Codes)
<1>1. Codes \in SUBSET Nat /\ \A code \in Codes : code <= 503
  BY DEF Codes
<1>2. IsFiniteSet(Codes)
  BY <1>1, FS_BoundedSetOfNaturals
<1> QED BY <1>2 DEF IsFiniteSet, Adding!IsFiniteSet

\* A sum without its codes, and with one code more.
LEMMA SumStep ==
  ASSUME NEW counts
  PROVE  /\ Sum(counts, {}) = 0
         /\ \A s \in SUBSET Codes : s # {} =>
              LET c == Adding!Pick(s) IN
              /\ c \in s /\ s \ {c} \in SUBSET Codes
              /\ Sum(counts, s) = counts[c] + Sum(counts, s \ {c})
<1>1. Sum(counts, {}) = 0
  BY Adding!FunFoldEmpty DEF Sum
<1>2. ASSUME NEW s \in SUBSET Codes, s # {}
      PROVE  /\ Adding!Pick(s) \in s
             /\ Sum(counts, s)
                  = counts[Adding!Pick(s)] + Sum(counts, s \ {Adding!Pick(s)})
  <2>1. Adding!IsFiniteSet(s)
    <3>1. IsFiniteSet(Codes)
      BY CodesFinite DEF IsFiniteSet, Adding!IsFiniteSet
    <3>2. IsFiniteSet(s)
      BY <3>1, FS_Subset
    <3> QED BY <3>2 DEF IsFiniteSet, Adding!IsFiniteSet
  <2>2. Adding!Pick(s) \in s
    BY <1>2 DEF Adding!Pick
  <2>3. Sum(counts, s)
          = counts[Adding!Pick(s)] + Sum(counts, s \ {Adding!Pick(s)})
    BY <1>2, <2>1, Adding!FunFoldStep DEF Sum
  <2> QED BY <2>2, <2>3
<1> QED BY <1>1, <1>2

\* Sums are taken in an order that depends on the codes only, so that two sums
\* can be compared code by code: counting one request adds one.
LEMMA SumGrows ==
  ASSUME NEW old \in [Codes -> Nat], NEW new \in [Codes -> Nat],
         NEW code \in Codes, new = [old EXCEPT ![code] = @ + 1]
  PROVE  Sum(old, Codes) \in Nat /\ Sum(new, Codes) = Sum(old, Codes) + 1
<1> DEFINE Good == {s \in SUBSET Codes :
             /\ Sum(old, s) \in Nat
             /\ Sum(new, s) = Sum(old, s) + (IF code \in s THEN 1 ELSE 0)}
<1>1. {} \in Good
  BY SumStep
<1>2. ASSUME NEW s \in SUBSET Codes, s # {}, s \ {Adding!Pick(s)} \in Good
      PROVE  s \in Good
  <2> DEFINE c == Adding!Pick(s)
             rest == s \ {c}
  <2>1. /\ c \in s
        /\ Sum(old, s) = old[c] + Sum(old, rest)
        /\ Sum(new, s) = new[c] + Sum(new, rest)
    BY <1>2, SumStep
  <2>2. /\ Sum(old, rest) \in Nat
        /\ Sum(new, rest) = Sum(old, rest) + (IF code \in rest THEN 1 ELSE 0)
    BY <1>2
  <2>3. /\ old[c] \in Nat
        /\ new[c] = old[c] + (IF c = code THEN 1 ELSE 0)
        /\ code \in s <=> code \in rest \/ c = code
        /\ code \in rest => c # code
    BY <2>1
  <2> HIDE DEF c, rest
  <2> QED BY <2>1, <2>2, <2>3
<1>3. SUBSET Codes \subseteq Good
  <2> HIDE DEF Good
  <2> QED BY <1>1, <1>2, CodesFinite, Adding!PickInduction
<1> QED BY <1>3

\* A new process has counted nothing.
LEMMA SumZero == Sum(NoCounts, Codes) = 0
<1> DEFINE Good == {s \in SUBSET Codes : Sum(NoCounts, s) = 0}
<1>1. {} \in Good
  BY SumStep
<1>2. ASSUME NEW s \in SUBSET Codes, s # {}, s \ {Adding!Pick(s)} \in Good
      PROVE  s \in Good
  <2> DEFINE c == Adding!Pick(s)
             rest == s \ {c}
  <2>1. c \in s /\ Sum(NoCounts, s) = NoCounts[c] + Sum(NoCounts, rest)
    BY <1>2, SumStep
  <2>2. NoCounts[c] = 0 /\ Sum(NoCounts, rest) = 0
    BY <1>2, <2>1 DEF NoCounts
  <2> QED BY <2>1, <2>2
<1>3. SUBSET Codes \subseteq Good
  <2> HIDE DEF Good
  <2> QED BY <1>1, <1>2, CodesFinite, Adding!PickInduction
<1> QED BY <1>3

\* Every step counts one request, or none, or begins anew.
LEMMA HttpSteps ==
  ASSUME Inv, [Next]_vars
  PROVE  \/ http' = http
         \/ http' = NoCounts
         \/ \E code \in Codes : http' = [http EXCEPT ![code] = @ + 1]
<1>1. CASE UNCHANGED vars
  BY <1>1 DEF vars
<1>2. CASE ProcessNext
  BY <1>2 DEF ProcessNext, Connect, PingFails, Dies, Signal, Drained,
              DrainTimesOut, Stop, Restart, Tick, Exits, Close
<1>3. ASSUME NEW r \in Requests, NEW kind \in Kinds,
             NEW id \in Ids \cup {Malformed}, NEW valid \in BOOLEAN,
             Arrive(r, kind, id, valid)
      PROVE  http' = http
  BY <1>3 DEF Arrive
<1>4. ASSUME NEW r \in Requests, Handle(r), ~Count(r)
      PROVE  http' = http
  BY <1>4, HandleSteps DEF HandlerStep, Inv
<1>5. ASSUME NEW r \in Requests, Count(r)
      PROVE  \/ http' = http
             \/ \E code \in Codes : http' = [http EXCEPT ![code] = @ + 1]
  <2>1. request[r].recorded \in Codes
    BY DEF Inv, TypeInv, RequestType
  <2> QED BY <1>5, <2>1 DEF Count
<1> QED BY <1>1, <1>2, <1>3, <1>4, <1>5, NextSteps

\* The two series the analyser reads are a canary's as SPRT has it: they grow one
\* request at a time, a failure never without its request, and go back to zero
\* together.  (MetricsMiddleware, and the queries of
\* demo/manifests/optional/05-rollout.yaml.)
THEOREM ServiceIsCanary == Spec => IsCanary
<1>1. ASSUME Init PROVE Counters!Init
  <2>1. http = NoCounts /\ DOMAIN http = Codes
    BY <1>1 DEF Init, NoCounts
  <2>2. Total = 0
    BY <2>1, TotalIsSum, SumZero
  <2>3. Failures = 0
    BY <2>1 DEF Failures, NoCounts, Codes
  <2> QED BY <2>2, <2>3 DEF Counters!Init
<1>2. ASSUME Inv, Inv', [Next]_vars
      PROVE  [Counters!Request \/ Counters!Restart]_<<Total, Failures>>
  <2>1. /\ http \in [Codes -> Nat] /\ http' \in [Codes -> Nat]
        /\ Total = Sum(http, Codes)
    BY <1>2, TotalIsSum DEF Inv, TypeInv
  <2>2. Total' = Sum(http', Codes)
    BY <2>1, NextTotalIsSum
  <2>3. CASE http' = http
    <3>1. Total' = Total
      BY <2>1, <2>2, <2>3
    <3>2. Failures' = Failures
      BY <2>3 DEF Failures
    <3> QED BY <3>1, <3>2
  <2>4. CASE http' = NoCounts
    <3>1. Total' = 0
      BY <2>2, <2>4, SumZero
    <3>2. Failures' = 0
      BY <2>4 DEF Failures, NoCounts, Codes
    <3> QED BY <3>1, <3>2 DEF Counters!Restart
  <2>5. CASE \E code \in Codes : http' = [http EXCEPT ![code] = @ + 1]
    <3>1. PICK code \in Codes : http' = [http EXCEPT ![code] = @ + 1]
      BY <2>5
    <3>2. Total' = Total + 1
      BY <2>1, <2>2, <3>1, SumGrows
    <3>3. Failures' \in {Failures, Failures + 1}
      BY <2>1, <3>1 DEF Failures, Codes
    <3> QED BY <3>2, <3>3 DEF Counters!Request
  <2> QED BY <1>2, <2>3, <2>4, <2>5, HttpSteps
<1> QED BY <1>1, <1>2, InvHolds, PTL DEF Spec, IsCanary, Counters!Spec

=============================================================================
