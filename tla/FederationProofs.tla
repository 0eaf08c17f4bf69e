-------------------------- MODULE FederationProofs --------------------------
(***************************************************************************)
(* Federation repeats no effect it knows of, for any number of callers,    *)
(* handlers, requests and attempts and with unbounded time: the inductive  *)
(* invariant of Federation and the refinement of FederatedCall.            *)
(***************************************************************************)
EXTENDS Federation, TLAPS

(* A recorded answer tells of an effect, and so does every reply that      *)
(* carries one; a handler about to record an answer has had its effect.    *)
AnswersTellEffects ==
    /\ \A r \in Requests : answers[r] # 0 => effects[r] # 0
    /\ \A h \in Handlers : handler[h].at = "record" => effects[handler[h].req] # 0
    /\ \A h \in Handlers :
          handler[h].at = "reply" /\ handler[h].status \in {"executed", "replayed"}
             => answers[handler[h].req] # 0

(* A busy handler works on a request somebody asked for, and whoever waits *)
(* for it asked for that one and waits for no other handler.               *)
Connections ==
    /\ \A h \in Handlers : handler[h].at # "idle" => handler[h].req \in asked
    /\ \A h \in Handlers : \A c \in Callers :
          handler[h].waiter = c =>
             /\ handler[h].at # "idle"
             /\ caller[c].at = "wait"
             /\ caller[c].req = handler[h].req
    /\ \A g, h \in Handlers :
          handler[g].waiter = handler[h].waiter /\ handler[h].waiter # None => g = h
    /\ \A c \in Callers : Waiting(c) => caller[c].req \in asked
    /\ \A c \in Callers : caller[c].at = "answered" => caller[c].req \in Requests

IInv ==
    /\ TypeOK
    /\ NonceGuardsEffect
    /\ AnswersTellEffects
    /\ Connections
    /\ AnsweredIsDurable

-----------------------------------------------------------------------------
HandlerType ==
    [at : Running \cup {"idle", "reply"}, req : Requests \cup {None}, issued : Nat, now : Nat,
     waiter : Callers \cup {None}, status : Statuses \cup {"none"}]

(* A step of handler h alone: it moves on with its own request and waiter. *)
Moved(h, at) ==
    /\ handler' \in [Handlers -> HandlerType]
    /\ \A g \in Handlers \ {h} : handler'[g] = handler[g]
    /\ handler'[h].req = handler[h].req
    /\ handler'[h].waiter = handler[h].waiter
    /\ handler'[h].at = at

(* Go is such a step. *)
LEMMA GoMoves ==
  ASSUME TypeOK, NEW h \in Handlers, NEW at \in Running, Go(h, at)
  PROVE  Moved(h, at)
<1>1. handler[h] \in HandlerType
  BY DEF TypeOK, HandlerType
<1>2. [handler[h] EXCEPT !.at = at] \in HandlerType
  BY <1>1 DEF HandlerType
<1>3. handler' = [handler EXCEPT ![h] = [handler[h] EXCEPT !.at = at]]
  BY DEF Go, TypeOK
<1> QED
  BY <1>1, <1>2, <1>3 DEF Moved, TypeOK, HandlerType

(* Reply is such a step, and leaves a status. *)
LEMMA ReplyMoves ==
  ASSUME TypeOK, NEW h \in Handlers, NEW status \in Statuses, Reply(h, status)
  PROVE  Moved(h, "reply") /\ handler'[h].status = status
<1>1. handler[h] \in HandlerType
  BY DEF TypeOK, HandlerType
<1>2. [handler[h] EXCEPT !.at = "reply", !.status = status] \in HandlerType
  BY <1>1 DEF HandlerType
<1>3. handler' = [handler EXCEPT ![h] = [handler[h] EXCEPT !.at = "reply", !.status = status]]
  BY DEF Reply, TypeOK
<1> QED
  BY <1>1, <1>2, <1>3 DEF Moved, TypeOK, HandlerType

(* A handler's step leaves the connections and what callers hold alone. *)
LEMMA MovedConnections ==
  ASSUME IInv, NEW h \in Handlers, NEW at, Moved(h, at), handler[h].at # "idle", at # "idle",
         UNCHANGED <<caller, asked>>
  PROVE  Connections'
BY DEF IInv, Moved, Connections, Waiting

CallerType ==
    [at : {"idle", "post", "wait", "answered", "failed"}, req : Requests \cup {None},
     issued : Nat, attempt : Nat]

CircuitType == [failures : Nat, open : Int]

(* A step of caller c alone, on the request it has. *)
CallerMoved(c) ==
    /\ caller' \in [Callers -> CallerType]
    /\ circuit' \in CircuitType
    /\ asked' = asked
    /\ \A d \in Callers \ {c} : caller'[d] = caller[d]
    /\ caller'[c].req = caller[c].req

(* The breaker keeps its type. *)
LEMMA BreakerType == ASSUME TypeOK PROVE Failed \in CircuitType /\ Succeeded \in CircuitType
<1>1. circuit.failures \in Nat /\ circuit.open \in Int /\ clock \in Nat
  BY DEF TypeOK
<1> QED
  BY <1>1, ClientAssumption DEF Failed, Succeeded, CircuitType

(* End is such a step. *)
LEMMA EndMoves ==
  ASSUME TypeOK, NEW c \in Callers, NEW outcome \in {"answered", "failed"},
         NEW breaker \in CircuitType, End(c, outcome, breaker)
  PROVE  CallerMoved(c) /\ caller'[c].at = outcome
<1>1. caller[c] \in CallerType
  BY DEF TypeOK, CallerType
<1>2. Ended(caller[c].req, outcome) \in CallerType
  BY <1>1 DEF CallerType, Ended
<1>3. caller' = [caller EXCEPT ![c] = Ended(caller[c].req, outcome)]
  BY DEF End, TypeOK
<1> QED
  BY <1>1, <1>2, <1>3 DEF CallerMoved, TypeOK, CallerType, Ended, End

(* Retry is such a step. *)
LEMMA RetryMoves ==
  ASSUME TypeOK, NEW c \in Callers, Retry(c)
  PROVE  CallerMoved(c) /\ caller'[c].at \in {"post", "failed"}
<1>1. CASE caller[c].attempt + 1 < Attempts
  <2>1. caller[c] \in CallerType
    BY DEF TypeOK, CallerType
  <2>2. [caller[c] EXCEPT !.at = "post", !.attempt = caller[c].attempt + 1] \in CallerType
    <3>1. caller[c].attempt + 1 \in Nat
      BY <2>1 DEF CallerType
    <3> QED
      BY <2>1, <3>1 DEF CallerType
  <2>3. caller' = [caller EXCEPT ![c] =
                     [caller[c] EXCEPT !.at = "post", !.attempt = caller[c].attempt + 1]]
    BY <1>1 DEF Retry, TypeOK
  <2> QED
    BY <1>1, <2>1, <2>2, <2>3 DEF CallerMoved, TypeOK, CallerType, CircuitType, Retry
<1>2. CASE ~(caller[c].attempt + 1 < Attempts)
  BY <1>2, EndMoves, BreakerType DEF Retry
<1> QED
  BY <1>1, <1>2

(* Send(c, r) keeps the invariant. *)
LEMMA SendKeeps == ASSUME IInv, NEW c \in Callers, NEW r \in Requests, Send(c, r) PROVE IInv'
<1> USE DEF IInv, Send, Admits, stores
<1>1. TypeOK'
  BY NoneAssumption DEF TypeOK, Running, Statuses, Waiting
<1>2. NonceGuardsEffect'
  BY NoneAssumption DEF TypeOK, NonceGuardsEffect, Committed, AnswersTellEffects
<1>3. AnswersTellEffects'
  BY NoneAssumption DEF TypeOK, NonceGuardsEffect, Committed, AnswersTellEffects
<1>4. Connections'
  BY NoneAssumption DEF TypeOK, Connections, Waiting
<1>5. AnsweredIsDurable'
  BY NoneAssumption DEF TypeOK, AnsweredIsDurable, AnswersTellEffects, Connections, Waiting
<1> QED
  BY <1>1, <1>2, <1>3, <1>4, <1>5

(* TurnAway(c, r) keeps the invariant. *)
LEMMA TurnAwayKeeps == ASSUME IInv, NEW c \in Callers, NEW r \in Requests, TurnAway(c, r) PROVE IInv'
<1> USE DEF IInv, TurnAway, stores, Ended
<1>1. TypeOK'
  BY NoneAssumption DEF TypeOK, Running, Statuses, Waiting
<1>2. NonceGuardsEffect'
  BY NoneAssumption DEF TypeOK, NonceGuardsEffect, Committed, AnswersTellEffects
<1>3. AnswersTellEffects'
  BY NoneAssumption DEF TypeOK, NonceGuardsEffect, Committed, AnswersTellEffects
<1>4. Connections'
  BY NoneAssumption DEF TypeOK, Connections, Waiting
<1>5. AnsweredIsDurable'
  BY NoneAssumption DEF TypeOK, AnsweredIsDurable, AnswersTellEffects, Connections, Waiting
<1> QED
  BY <1>1, <1>2, <1>3, <1>4, <1>5

(* CircuitOpen(c, r) keeps the invariant. *)
LEMMA CircuitOpenKeeps == ASSUME IInv, NEW c \in Callers, NEW r \in Requests, CircuitOpen(c, r) PROVE IInv'
<1> USE DEF IInv, CircuitOpen, stores, Ended
<1>1. TypeOK'
  BY NoneAssumption DEF TypeOK, Running, Statuses, Waiting
<1>2. NonceGuardsEffect'
  BY NoneAssumption DEF TypeOK, NonceGuardsEffect, Committed, AnswersTellEffects
<1>3. AnswersTellEffects'
  BY NoneAssumption DEF TypeOK, NonceGuardsEffect, Committed, AnswersTellEffects
<1>4. Connections'
  BY NoneAssumption DEF TypeOK, Connections, Waiting
<1>5. AnsweredIsDurable'
  BY NoneAssumption DEF TypeOK, AnsweredIsDurable, AnswersTellEffects, Connections, Waiting
<1> QED
  BY <1>1, <1>2, <1>3, <1>4, <1>5

(* Post(c) keeps the invariant. *)
LEMMA PostKeeps == ASSUME IInv, NEW c \in Callers, Post(c) PROVE IInv'
<1> DEFINE posted == [Idle EXCEPT !.at = "auth", !.req = caller[c].req,
                                  !.issued = caller[c].issued, !.waiter = c]
<1>1. PICK h \in Handlers : handler[h].at = "idle" /\ handler' = [handler EXCEPT ![h] = posted]
  BY DEF Post
<1>2. posted \in HandlerType
  <2>1. caller[c] \in CallerType
    BY DEF IInv, TypeOK, CallerType
  <2> QED
    BY <2>1 DEF HandlerType, CallerType, Idle, Running, Statuses
<1>3. posted.at = "auth" /\ posted.req = caller[c].req /\ posted.waiter = c
  BY DEF Idle
<1> HIDE DEF posted
<1>4. /\ handler' \in [Handlers -> HandlerType]
      /\ handler'[h] = posted
      /\ \A g \in Handlers \ {h} : handler'[g] = handler[g]
  BY <1>1, <1>2 DEF IInv, TypeOK, HandlerType
<1>5. /\ caller' \in [Callers -> CallerType]
      /\ \A d \in Callers \ {c} : caller'[d] = caller[d]
      /\ caller'[c].at = "wait" /\ caller'[c].req = caller[c].req
      /\ caller[c].at = "post"
      /\ UNCHANGED <<clock, circuit, asked, proofs, nonces, answers, effects, doubtful>>
  <2>1. /\ caller[c].at = "post"
        /\ caller' = [caller EXCEPT ![c].at = "wait"]
        /\ UNCHANGED <<clock, circuit, asked, proofs, nonces, answers, effects, doubtful>>
    BY DEF Post, stores
  <2>2. caller \in [Callers -> CallerType]
    BY DEF IInv, TypeOK, CallerType
  <2> QED
    BY <2>1, <2>2 DEF CallerType
<1>6. TypeOK'
  BY <1>4, <1>5 DEF IInv, TypeOK, HandlerType, CallerType
<1>7. NonceGuardsEffect'
  BY <1>1, <1>3, <1>4, <1>5 DEF IInv, NonceGuardsEffect, Committed
<1>8. AnswersTellEffects'
  BY <1>1, <1>3, <1>4, <1>5 DEF IInv, AnswersTellEffects
<1>9. Connections'
  BY <1>1, <1>3, <1>4, <1>5, NoneAssumption DEF IInv, Connections, Waiting
<1>10. AnsweredIsDurable'
  BY <1>5 DEF IInv, AnsweredIsDurable
<1> QED
  BY <1>6, <1>7, <1>8, <1>9, <1>10 DEF IInv

(* TransportFails(c) keeps the invariant. *)
LEMMA TransportFailsKeeps == ASSUME IInv, NEW c \in Callers, TransportFails(c) PROVE IInv'
<1>1. CallerMoved(c) /\ caller'[c].at \in {"post", "failed"}
  BY RetryMoves DEF TransportFails, IInv
<1>2. /\ Waiting(c)
      /\ UNCHANGED <<clock, proofs, nonces, answers, effects, doubtful>>
  BY DEF TransportFails, stores
<1>3. /\ handler' \in [Handlers -> HandlerType]
      /\ \A h \in Handlers :
            /\ handler'[h].at = handler[h].at /\ handler'[h].req = handler[h].req
            /\ handler'[h].status = handler[h].status
            /\ handler'[h].waiter = IF handler[h].waiter = c THEN None ELSE handler[h].waiter
  <2>1. \A h \in Handlers : handler[h] \in HandlerType
    BY DEF IInv, TypeOK, HandlerType
  <2> QED
    BY <2>1 DEF TransportFails, Detached, HandlerType
<1>4. TypeOK'
  BY <1>1, <1>2, <1>3 DEF IInv, TypeOK, CallerMoved, CallerType, CircuitType, HandlerType
<1>5. NonceGuardsEffect'
  BY <1>2, <1>3 DEF IInv, NonceGuardsEffect, Committed
<1>6. AnswersTellEffects'
  BY <1>2, <1>3 DEF IInv, AnswersTellEffects
<1>7. Connections'
  BY <1>1, <1>2, <1>3, NoneAssumption DEF IInv, Connections, Waiting, CallerMoved
<1>8. AnsweredIsDurable'
  BY <1>1, <1>2 DEF IInv, AnsweredIsDurable, CallerMoved
<1> QED
  BY <1>4, <1>5, <1>6, <1>7, <1>8 DEF IInv

(* Receive(c, h) keeps the invariant. *)
LEMMA ReceiveKeeps ==
  ASSUME IInv, NEW c \in Callers, NEW h \in Handlers, Receive(c, h) PROVE IInv'
<1>1. /\ CallerMoved(c)
      /\ \/ caller'[c].at \in {"post", "failed"}
         \/ caller'[c].at = "answered" /\ handler[h].status \in {"executed", "replayed"}
  BY RetryMoves, EndMoves, BreakerType DEF Receive, IInv
<1>2. /\ caller[c].at = "wait" /\ handler[h].waiter = c /\ handler[h].at = "reply"
      /\ UNCHANGED <<clock, proofs, nonces, answers, effects, doubtful>>
  BY DEF Receive, stores
<1>3. Idle \in HandlerType /\ Idle.at = "idle" /\ Idle.waiter = None
  BY DEF Idle, HandlerType
<1>4. /\ handler' \in [Handlers -> HandlerType]
      /\ handler'[h] = Idle
      /\ \A g \in Handlers \ {h} : handler'[g] = handler[g]
  BY <1>3 DEF Receive, IInv, TypeOK, HandlerType
<1>5. TypeOK'
  BY <1>1, <1>2, <1>4 DEF IInv, TypeOK, CallerMoved, CallerType, CircuitType, HandlerType
<1>6. NonceGuardsEffect'
  BY <1>2, <1>3, <1>4 DEF IInv, NonceGuardsEffect, Committed
<1>7. AnswersTellEffects'
  BY <1>2, <1>3, <1>4 DEF IInv, AnswersTellEffects
<1>8. Connections'
  <2>1. caller[c].req \in Requests /\ caller[c].req \in asked
    BY <1>2 DEF IInv, Connections, TypeOK, Waiting
  <2> QED
    BY <1>1, <1>2, <1>3, <1>4, <2>1, NoneAssumption DEF IInv, Connections, Waiting, CallerMoved
<1>9. AnsweredIsDurable'
  BY <1>1, <1>2 DEF IInv, AnsweredIsDurable, AnswersTellEffects, Connections, CallerMoved
<1> QED
  BY <1>5, <1>6, <1>7, <1>8, <1>9 DEF IInv

(* Authenticate(h) keeps the invariant. *)
LEMMA AuthenticateKeeps == ASSUME IInv, NEW h \in Handlers, Authenticate(h) PROVE IInv'
<1>m. /\ \/ Moved(h, "lookup")
         \/ Moved(h, "reply") /\ handler'[h].status \in {"unauthorized", "unavailable"}
      /\ handler[h].at = "auth"
      /\ UNCHANGED <<clock, source, nonces, answers, effects, doubtful>>
  BY GoMoves, ReplyMoves DEF IInv, Authenticate, Running, Statuses
<1>p. proofs' \in [Requests -> Nat]
  BY TimeAssumption DEF IInv, TypeOK, Authenticate, Expires
<1>1. TypeOK'
  BY <1>m, <1>p DEF IInv, TypeOK, Moved, HandlerType, source
<1>2. NonceGuardsEffect'
  BY <1>m DEF IInv, NonceGuardsEffect, Committed, Moved
<1>3. AnswersTellEffects'
  BY <1>m DEF IInv, AnswersTellEffects, Moved
<1>4. Connections'
  BY <1>m, MovedConnections DEF source
<1>5. AnsweredIsDurable'
  BY <1>m DEF IInv, AnsweredIsDurable, source
<1> QED
  BY <1>1, <1>2, <1>3, <1>4, <1>5 DEF IInv

(* Lookup(h) keeps the invariant. *)
LEMMA LookupKeeps == ASSUME IInv, NEW h \in Handlers, Lookup(h) PROVE IInv'
<1>1. CASE Reply(h, "replayed") \/ Reply(h, "unavailable")
  <2>m. /\ Moved(h, "reply")
        /\ handler[h].at = "lookup"
        /\ handler'[h].status = "unavailable" \/ answers[handler[h].req] # 0
        /\ UNCHANGED <<clock, source, stores, effects, doubtful>>
    <3>1. CASE Reply(h, "replayed") /\ answers[handler[h].req] # 0
      BY <3>1, ReplyMoves DEF IInv, Lookup, Statuses
    <3>2. CASE Reply(h, "unavailable")
      BY <3>2, ReplyMoves DEF IInv, Lookup, Statuses
    <3>3. CASE handler' = [handler EXCEPT ![h].at = "remember", ![h].now = clock]
      BY <1>1, <3>3 DEF IInv, TypeOK, Reply
    <3> QED
      BY <3>1, <3>2, <3>3 DEF Lookup
  <2>1. TypeOK'
    BY <2>m DEF IInv, TypeOK, Moved, HandlerType, source, stores
  <2>2. NonceGuardsEffect'
    BY <2>m DEF IInv, NonceGuardsEffect, Committed, Moved, stores
  <2>3. AnswersTellEffects'
    BY <2>m DEF IInv, AnswersTellEffects, Moved, stores
  <2>4. Connections'
    BY <2>m, MovedConnections DEF source
  <2>5. AnsweredIsDurable'
    BY <2>m DEF IInv, AnsweredIsDurable, source, stores
  <2> QED
    BY <2>1, <2>2, <2>3, <2>4, <2>5 DEF IInv
<1>2. CASE handler' = [handler EXCEPT ![h].at = "remember", ![h].now = clock]
  <2>0. handler[h] \in HandlerType
    BY DEF IInv, TypeOK, HandlerType
  <2>i. [handler[h] EXCEPT !.at = "remember", !.now = clock] \in HandlerType
    BY <2>0 DEF HandlerType, IInv, TypeOK, Running
  <2>j. handler' = [handler EXCEPT ![h] = [handler[h] EXCEPT !.at = "remember", !.now = clock]]
    BY <1>2 DEF IInv, TypeOK
  <2>m. /\ Moved(h, "remember")
        /\ handler[h].at = "lookup"
        /\ UNCHANGED <<clock, source, stores, effects, doubtful>>
    BY <2>0, <2>i, <2>j DEF IInv, Moved, TypeOK, HandlerType, Lookup
  <2>1. TypeOK'
    BY <2>m DEF IInv, TypeOK, Moved, HandlerType, source, stores
  <2>2. NonceGuardsEffect'
    BY <2>m DEF IInv, NonceGuardsEffect, Committed, Moved, stores
  <2>3. AnswersTellEffects'
    BY <2>m DEF IInv, AnswersTellEffects, Moved, stores
  <2>4. Connections'
    BY <2>m, MovedConnections DEF source
  <2>5. AnsweredIsDurable'
    BY <2>m DEF IInv, AnsweredIsDurable, source, stores
  <2> QED
    BY <2>1, <2>2, <2>3, <2>4, <2>5 DEF IInv
<1> QED
  BY <1>1, <1>2 DEF Lookup

(* RememberNonce(h) keeps the invariant. *)
LEMMA RememberNonceKeeps == ASSUME IInv, NEW h \in Handlers, RememberNonce(h) PROVE IInv'
<1>m. /\ \/ Moved(h, "reply") /\ handler'[h].status \in {"refused", "unavailable"}
         \/ Moved(h, "authorize") /\ handler[h].req \notin nonces
      /\ handler[h].at = "remember"
      /\ \/ nonces' = nonces \cup {handler[h].req}
         \/ nonces' = nonces /\ Moved(h, "reply")
      /\ UNCHANGED <<clock, source, proofs, answers, effects, doubtful>>
  BY GoMoves, ReplyMoves DEF IInv, RememberNonce, Running, Statuses
<1>r. handler[h].req \in Requests
  BY <1>m DEF IInv, Connections, TypeOK
<1>1. TypeOK'
  BY <1>m, <1>r DEF IInv, TypeOK, Moved, HandlerType, source
<1>2. NonceGuardsEffect'
  <2>1. \A g \in Handlers : handler'[g].req = handler[g].req
    BY <1>m DEF Moved
  <2>2. nonces \subseteq nonces' /\ effects' = effects /\ doubtful' = doubtful
    BY <1>m
  <2>3. handler'[h].at = "reply" \/ (handler[h].req \notin nonces /\ handler[h].req \in nonces')
    BY <1>m DEF Moved
  <2>4. \A g \in Handlers : Committed(g)' =>
           \/ Committed(g) /\ handler'[g].at = handler[g].at
           \/ g = h /\ handler[h].req \notin nonces /\ handler[h].req \in nonces'
    BY <1>m, <2>3 DEF Moved, Committed
  <2>g. NonceGuardsEffect
    BY DEF IInv
  <2>5. \A g \in Handlers : Committed(g)' => handler'[g].req \in nonces'
    BY <2>1, <2>2, <2>4, <2>g DEF NonceGuardsEffect
  <2>6. \A g, k \in Handlers :
           Committed(g)' /\ Committed(k)' /\ handler'[g].req = handler'[k].req => g = k
    BY <2>1, <2>4, <2>g DEF NonceGuardsEffect
  <2>7. \A r \in Requests : effects'[r] # 0 /\ r \notin doubtful' =>
           /\ effects'[r] = 1
           /\ r \in nonces'
           /\ \A g \in Handlers :
                 handler'[g].req = r /\ Committed(g)' => handler'[g].at = "record"
    BY <2>1, <2>2, <2>4, <2>g DEF NonceGuardsEffect
  <2> QED
    BY <2>5, <2>6, <2>7 DEF NonceGuardsEffect
<1>3. AnswersTellEffects'
  BY <1>m DEF IInv, AnswersTellEffects, Moved
<1>4. Connections'
  BY <1>m, MovedConnections DEF source
<1>5. AnsweredIsDurable'
  BY <1>m DEF IInv, TypeOK, AnsweredIsDurable, source
<1> QED
  BY <1>1, <1>2, <1>3, <1>4, <1>5 DEF IInv

(* Authorize(h) keeps the invariant. *)
LEMMA AuthorizeKeeps == ASSUME IInv, NEW h \in Handlers, Authorize(h) PROVE IInv'
<1>m. /\ \/ Moved(h, "reply") /\ handler'[h].status \in {"refused", "unavailable"}
         \/ Moved(h, "execute")
      /\ handler[h].at = "authorize"
      /\ UNCHANGED <<clock, source, stores, effects, doubtful>>
  BY GoMoves, ReplyMoves DEF IInv, Authorize, Running, Statuses
<1>1. TypeOK'
  BY <1>m DEF IInv, TypeOK, Moved, HandlerType, source, stores
<1>2. NonceGuardsEffect'
  BY <1>m DEF IInv, NonceGuardsEffect, Committed, Moved, stores
<1>3. AnswersTellEffects'
  BY <1>m DEF IInv, AnswersTellEffects, Moved, stores
<1>4. Connections'
  BY <1>m, MovedConnections DEF source
<1>5. AnsweredIsDurable'
  BY <1>m DEF IInv, TypeOK, AnsweredIsDurable, source, stores
<1> QED
  BY <1>1, <1>2, <1>3, <1>4, <1>5 DEF IInv

(* Execute(h) keeps the invariant. *)
LEMMA ExecuteKeeps == ASSUME IInv, NEW h \in Handlers, Execute(h) PROVE IInv'
<1>m. /\ \/ /\ Moved(h, "record") /\ doubtful' = doubtful
            /\ effects' = [effects EXCEPT ![handler[h].req] = @ + 1]
         \/ Moved(h, "forget") /\ UNCHANGED <<effects, doubtful>>
         \/ /\ Moved(h, "forget") /\ doubtful' = doubtful \cup {handler[h].req}
            /\ effects' = [effects EXCEPT ![handler[h].req] = @ + 1]
      /\ handler[h].at = "execute"
      /\ UNCHANGED <<clock, source, stores>>
  BY GoMoves DEF IInv, Execute, Running, Statuses
<1>r. /\ handler[h].req \in Requests /\ handler[h].req \in nonces
      /\ handler[h].req \notin doubtful => effects[handler[h].req] = 0
  BY <1>m DEF IInv, Connections, TypeOK, NonceGuardsEffect, Committed
<1>e. effects' \in [Requests -> Nat]
  BY <1>m, <1>r DEF IInv, TypeOK
<1>1. TypeOK'
  BY <1>m, <1>r, <1>e DEF IInv, TypeOK, Moved, HandlerType, source, stores
<1>2. NonceGuardsEffect'
  <2>1. \A g \in Handlers : handler'[g].req = handler[g].req
    BY <1>m DEF Moved
  <2>2. nonces' = nonces
    BY <1>m DEF stores
  <2>3. \A g \in Handlers : Committed(g)' =>
           Committed(g) /\ (handler'[g].at = handler[g].at \/ g = h)
    BY <1>m DEF Moved, Committed
  <2>g. NonceGuardsEffect /\ effects \in [Requests -> Nat]
    BY DEF IInv, TypeOK
  <2>4. \A g \in Handlers : Committed(g)' => handler'[g].req \in nonces'
    BY <2>1, <2>2, <2>3, <2>g DEF NonceGuardsEffect
  <2>5. \A g, k \in Handlers :
           Committed(g)' /\ Committed(k)' /\ handler'[g].req = handler'[k].req => g = k
    BY <2>1, <2>3, <2>g DEF NonceGuardsEffect
  <2>6. \A r \in Requests \ {handler[h].req} :
           effects'[r] = effects[r] /\ (r \in doubtful' <=> r \in doubtful)
    BY <1>m, <1>r, <2>g
  <2>7. effects'[handler[h].req] # 0 /\ handler[h].req \notin doubtful' =>
           effects'[handler[h].req] = 1 /\ handler'[h].at = "record"
    BY <1>m, <1>r, <2>g DEF Moved
  <2>8. \A g \in Handlers : Committed(g)' /\ handler'[g].req = handler[h].req => g = h
    <3>1. Committed(h)
      BY <1>m DEF Committed
    <3> QED
      BY <2>1, <2>3, <2>g, <3>1 DEF NonceGuardsEffect
  <2>9. \A r \in Requests : effects'[r] # 0 /\ r \notin doubtful' =>
           /\ effects'[r] = 1
           /\ r \in nonces'
           /\ \A g \in Handlers :
                 handler'[g].req = r /\ Committed(g)' => handler'[g].at = "record"
    <3>1. ASSUME NEW r \in Requests \ {handler[h].req}, effects'[r] # 0, r \notin doubtful'
          PROVE  /\ effects'[r] = 1
                 /\ r \in nonces'
                 /\ \A g \in Handlers :
                       handler'[g].req = r /\ Committed(g)' => handler'[g].at = "record"
      BY <2>1, <2>2, <2>3, <2>6, <2>g, <3>1 DEF NonceGuardsEffect
    <3> QED
      BY <1>r, <2>2, <2>7, <2>8, <3>1
  <2> QED
    BY <2>4, <2>5, <2>9 DEF NonceGuardsEffect
<1>3. AnswersTellEffects'
  <2>1. \A q \in Requests : effects[q] # 0 => effects'[q] # 0
    BY <1>m, <1>r DEF IInv, TypeOK
  <2>2. Moved(h, "record") => effects'[handler[h].req] # 0
    BY <1>m, <1>r DEF IInv, TypeOK, Moved
  <2>3. \A g \in Handlers : handler[g].at # "idle" => handler[g].req \in Requests
    BY DEF IInv, TypeOK, Connections
  <2>4. answers' = answers /\ (Moved(h, "record") \/ Moved(h, "forget"))
    BY <1>m DEF stores
  <2> QED
    BY <2>1, <2>2, <2>3, <2>4 DEF IInv, AnswersTellEffects, Moved
<1>4. Connections'
  BY <1>m, MovedConnections DEF source
<1>5. AnsweredIsDurable'
  BY <1>m, <1>r DEF IInv, TypeOK, AnsweredIsDurable, source, stores
<1> QED
  BY <1>1, <1>2, <1>3, <1>4, <1>5 DEF IInv

(* ForgetNonce(h) keeps the invariant. *)
LEMMA ForgetNonceKeeps == ASSUME IInv, NEW h \in Handlers, ForgetNonce(h) PROVE IInv'
<1>m. /\ Moved(h, "reply") /\ handler'[h].status = "unavailable"
      /\ handler[h].at = "forget"
      /\ nonces' \in {nonces \ {handler[h].req}, nonces}
      /\ UNCHANGED <<clock, source, proofs, answers, effects, doubtful>>
  BY ReplyMoves DEF IInv, ForgetNonce, Running, Statuses
<1>1. TypeOK'
  BY <1>m DEF IInv, TypeOK, Moved, HandlerType, source
<1>2. NonceGuardsEffect'
  BY <1>m DEF IInv, NonceGuardsEffect, Committed, Moved
<1>3. AnswersTellEffects'
  BY <1>m DEF IInv, AnswersTellEffects, Moved
<1>4. Connections'
  BY <1>m, MovedConnections DEF source
<1>5. AnsweredIsDurable'
  BY <1>m DEF IInv, TypeOK, AnsweredIsDurable, source
<1> QED
  BY <1>1, <1>2, <1>3, <1>4, <1>5 DEF IInv

(* RecordAnswer(h) keeps the invariant. *)
LEMMA RecordAnswerKeeps == ASSUME IInv, NEW h \in Handlers, RecordAnswer(h) PROVE IInv'
<1>m. /\ Moved(h, "reply")
      /\ handler[h].at = "record"
      /\ LET r == handler[h].req
             recorded == [answers EXCEPT ![r] = IF @ = 0 THEN effects[r] ELSE @]
         IN  \/ answers' = recorded
             \/ answers' = answers /\ handler'[h].status = "unavailable"
      /\ UNCHANGED <<clock, source, proofs, nonces, effects, doubtful>>
  BY ReplyMoves DEF IInv, RecordAnswer, Running, Statuses
<1>r. handler[h].req \in Requests /\ effects[handler[h].req] # 0
  BY <1>m DEF IInv, Connections, TypeOK, AnswersTellEffects
<1>1. TypeOK'
  BY <1>m, <1>r DEF IInv, TypeOK, Moved, HandlerType, source
<1>a. /\ \A r \in Requests : answers[r] # 0 => answers'[r] # 0
      /\ \A r \in Requests : answers'[r] # 0 => answers[r] # 0 \/ r = handler[h].req
      /\ handler'[h].status # "unavailable" => answers'[handler[h].req] # 0
  BY <1>m, <1>r DEF IInv, TypeOK
<1>2. NonceGuardsEffect'
  BY <1>m DEF IInv, NonceGuardsEffect, Committed, Moved
<1>3. AnswersTellEffects'
  <2>1. \A g \in Handlers : handler[g].at # "idle" => handler[g].req \in Requests
    BY DEF IInv, Connections, TypeOK
  <2> QED
    BY <1>m, <1>r, <1>a, <2>1 DEF IInv, AnswersTellEffects, Moved
<1>4. Connections'
  BY <1>m, MovedConnections DEF source
<1>5. AnsweredIsDurable'
  <2>1. \A c \in Callers : caller[c].at = "answered" => caller[c].req \in Requests
    BY DEF IInv, Connections
  <2> QED
    BY <1>m, <1>a, <2>1 DEF IInv, AnsweredIsDurable, source
<1> QED
  BY <1>1, <1>2, <1>3, <1>4, <1>5 DEF IInv

(* Discard(h) keeps the invariant. *)
LEMMA DiscardKeeps == ASSUME IInv, NEW h \in Handlers, Discard(h) PROVE IInv'
<1> USE DEF IInv, Discard, Idle, source, stores
<1>1. TypeOK'
  BY NoneAssumption DEF TypeOK, Running, Statuses, Waiting
<1>2. NonceGuardsEffect'
  BY NoneAssumption DEF TypeOK, NonceGuardsEffect, Committed, AnswersTellEffects
<1>3. AnswersTellEffects'
  BY NoneAssumption DEF TypeOK, NonceGuardsEffect, Committed, AnswersTellEffects
<1>4. Connections'
  BY NoneAssumption DEF TypeOK, Connections, Waiting
<1>5. AnsweredIsDurable'
  BY NoneAssumption DEF TypeOK, AnsweredIsDurable, AnswersTellEffects, Connections, Waiting
<1> QED
  BY <1>1, <1>2, <1>3, <1>4, <1>5

(* DestinationRestarts keeps the invariant. *)
LEMMA DestinationRestartsKeeps == ASSUME IInv, DestinationRestarts PROVE IInv'
<1> USE DEF IInv, DestinationRestarts, Idle, source, stores
<1>1. TypeOK'
  BY NoneAssumption DEF TypeOK, Running, Statuses, Waiting
<1>2. NonceGuardsEffect'
  BY NoneAssumption DEF TypeOK, NonceGuardsEffect, Committed, AnswersTellEffects
<1>3. AnswersTellEffects'
  BY NoneAssumption DEF TypeOK, NonceGuardsEffect, Committed, AnswersTellEffects
<1>4. Connections'
  BY NoneAssumption DEF TypeOK, Connections, Waiting
<1>5. AnsweredIsDurable'
  BY NoneAssumption DEF TypeOK, AnsweredIsDurable, AnswersTellEffects, Connections, Waiting
<1> QED
  BY <1>1, <1>2, <1>3, <1>4, <1>5

(* SourceRestarts keeps the invariant. *)
LEMMA SourceRestartsKeeps == ASSUME IInv, SourceRestarts PROVE IInv'
<1>1. /\ handler' \in [Handlers -> HandlerType]
      /\ \A h \in Handlers :
            /\ handler'[h].at = handler[h].at /\ handler'[h].req = handler[h].req
            /\ handler'[h].status = handler[h].status /\ handler'[h].waiter = None
  <2>1. \A h \in Handlers : handler[h] \in HandlerType
    BY DEF IInv, TypeOK, HandlerType
  <2> QED
    BY <2>1 DEF SourceRestarts, HandlerType
<1>2. /\ caller' \in [Callers -> CallerType]
      /\ \A c \in Callers : ~(caller'[c].at \in {"post", "wait"})
      /\ \A c \in Callers : caller'[c] = caller[c] \/ caller'[c].at = "failed"
  <2>1. \A c \in Callers : caller[c] \in CallerType
    BY DEF IInv, TypeOK, CallerType
  <2> QED
    BY <2>1 DEF SourceRestarts, CallerType, Ended, Waiting
<1>3. circuit' \in CircuitType /\ UNCHANGED <<clock, proofs, nonces, answers, effects, doubtful, asked>>
  BY DEF SourceRestarts, Succeeded, CircuitType, stores
<1>4. TypeOK'
  BY <1>1, <1>2, <1>3 DEF IInv, TypeOK, CallerType, CircuitType, HandlerType
<1>5. NonceGuardsEffect'
  BY <1>1, <1>3 DEF IInv, NonceGuardsEffect, Committed
<1>6. AnswersTellEffects'
  BY <1>1, <1>3 DEF IInv, AnswersTellEffects
<1>7. Connections'
  BY <1>1, <1>2, <1>3, NoneAssumption DEF IInv, Connections, Waiting
<1>8. AnsweredIsDurable'
  BY <1>2, <1>3 DEF IInv, AnsweredIsDurable
<1> QED
  BY <1>4, <1>5, <1>6, <1>7, <1>8 DEF IInv

(* Tick keeps the invariant. *)
LEMMA TickKeeps == ASSUME IInv, Tick PROVE IInv'
<1> USE DEF IInv, Tick, stores
<1>1. TypeOK'
  BY NoneAssumption DEF TypeOK, Running, Statuses, Waiting
<1>2. NonceGuardsEffect'
  BY NoneAssumption DEF TypeOK, NonceGuardsEffect, Committed, AnswersTellEffects
<1>3. AnswersTellEffects'
  BY NoneAssumption DEF TypeOK, NonceGuardsEffect, Committed, AnswersTellEffects
<1>4. Connections'
  BY NoneAssumption DEF TypeOK, Connections, Waiting
<1>5. AnsweredIsDurable'
  BY NoneAssumption DEF TypeOK, AnsweredIsDurable, AnswersTellEffects, Connections, Waiting
<1> QED
  BY <1>1, <1>2, <1>3, <1>4, <1>5

-----------------------------------------------------------------------------
(* Every step of the specification keeps the invariant. *)
LEMMA NextKeeps == IInv /\ [Next]_vars => IInv'
<1> SUFFICES ASSUME IInv, [Next]_vars PROVE IInv'
  OBVIOUS
<1>1. CASE UNCHANGED vars
  BY <1>1 DEF vars, IInv, TypeOK, NonceGuardsEffect, Committed, AnswersTellEffects, Connections,
              Waiting, AnsweredIsDurable
<1>2. ASSUME NEW c \in Callers, NEW r \in Requests,
             Send(c, r) \/ TurnAway(c, r) \/ CircuitOpen(c, r)
      PROVE  IInv'
  BY <1>2, SendKeeps, TurnAwayKeeps, CircuitOpenKeeps
<1>3. ASSUME NEW c \in Callers, ClientStep(c) PROVE IInv'
  BY <1>3, PostKeeps, TransportFailsKeeps, ReceiveKeeps DEF ClientStep
<1>4. ASSUME NEW h \in Handlers, ServeStep(h) PROVE IInv'
  BY <1>4, AuthenticateKeeps, LookupKeeps, RememberNonceKeeps, AuthorizeKeeps, ExecuteKeeps,
     ForgetNonceKeeps, RecordAnswerKeeps, DiscardKeeps DEF ServeStep
<1> QED
  BY <1>1, <1>2, <1>3, <1>4, DestinationRestartsKeeps, SourceRestartsKeeps, TickKeeps DEF Next

(* The invariant holds in the initial states. *)
LEMMA InitKeeps == Init => IInv
<1> SUFFICES ASSUME Init PROVE IInv
  OBVIOUS
<1>1. TypeOK
  BY DEF Init, TypeOK, Idle, Ended
<1>2. NonceGuardsEffect
  BY DEF Init, NonceGuardsEffect, Committed, Idle
<1>3. AnswersTellEffects
  BY DEF Init, AnswersTellEffects, Idle
<1>4. Connections
  BY NoneAssumption DEF Init, Connections, Waiting, Idle, Ended
<1>5. AnsweredIsDurable
  BY DEF Init, AnsweredIsDurable, Ended
<1> QED
  BY <1>1, <1>2, <1>3, <1>4, <1>5 DEF IInv

(* The invariant holds always. *)
LEMMA Invariance == Spec => []IInv
BY InitKeeps, NextKeeps, PTL DEF Spec

(* The state keeps its type, whatever fails. *)
THEOREM FederationTypeCorrect == Spec => []TypeOK
BY Invariance, PTL DEF IInv

(* serve never executes a request twice unless it was told that an effect  *)
(* had failed: the envelope nonce belongs to one handler until its effect  *)
(* is settled, and to the request for good once it took effect.            *)
THEOREM EffectIsGuarded == Spec => []NonceGuardsEffect
BY Invariance, PTL DEF IInv

(* invoke answers a caller only what record_answer has made durable.       *)
THEOREM AnswersAreDurable == Spec => []AnsweredIsDurable
BY Invariance, PTL DEF IInv

-----------------------------------------------------------------------------
(* The refinement: the concrete steps that change the abstract state.      *)
(* A step that leaves effects, asked and what a caller sees alone. *)
LEMMA Stutters ==
  ASSUME UNCHANGED <<asked, effects, doubtful>>,
         \A c \in Callers : caller'[c].req = caller[c].req /\ CallState(c)' = CallState(c)
  PROVE  UNCHANGED Abstract!vars
BY DEF Abstract!vars, CallState, Waiting

(* The initial states map to initial states. *)
LEMMA InitRefines == Init => Abstract!Init
BY DEF Init, Abstract!Init, CallState, Waiting, Ended

(* Every step of the two nodes is a step of the abstract call, or none. *)
LEMMA StepRefines == IInv /\ [Next]_vars => [Abstract!Next]_(Abstract!vars)
<1> SUFFICES ASSUME IInv, [Next]_vars PROVE [Abstract!Next]_(Abstract!vars)
  OBVIOUS
<1>u. CASE UNCHANGED vars
  BY <1>u, Stutters DEF vars, CallState, Waiting
<1>1. ASSUME NEW c \in Callers, NEW r \in Requests, Send(c, r)
      PROVE  Abstract!Ask(c, r)
  BY <1>1 DEF Send, Abstract!Ask, CallState, Waiting, IInv, TypeOK
<1>2. ASSUME NEW c \in Callers, NEW r \in Requests, TurnAway(c, r) \/ CircuitOpen(c, r)
      PROVE  Abstract!Refuse(c, r)
  <2>1. /\ ~Waiting(c)
        /\ caller' = [caller EXCEPT ![c] = Ended(r, "failed")]
        /\ UNCHANGED <<asked, effects, doubtful>>
    BY <1>2 DEF TurnAway, CircuitOpen
  <2> QED
    BY <2>1 DEF Abstract!Refuse, CallState, Waiting, Ended, IInv, TypeOK
<1>3. ASSUME NEW c \in Callers, Post(c) PROVE UNCHANGED Abstract!vars
  BY <1>3, Stutters DEF Post, CallState, Waiting, IInv, TypeOK
<1>4. ASSUME NEW c \in Callers, Waiting(c), CallerMoved(c), caller'[c].at \in {"post", "failed"},
             UNCHANGED <<effects, doubtful>>
      PROVE  Abstract!Fail({c}) \/ UNCHANGED Abstract!vars
  <2>1. CASE caller'[c].at = "post"
    BY <1>4, <2>1, Stutters DEF CallerMoved, CallState, Waiting
  <2>2. CASE caller'[c].at = "failed"
    BY <1>4, <2>2 DEF CallerMoved, CallState, Waiting, Abstract!Fail
  <2> QED
    BY <1>4, <2>1, <2>2
<1>5. ASSUME NEW c \in Callers, TransportFails(c)
      PROVE  Abstract!Fail({c}) \/ UNCHANGED Abstract!vars
  BY <1>4, <1>5, RetryMoves DEF TransportFails, IInv
<1>6. ASSUME NEW c \in Callers, NEW h \in Handlers, Receive(c, h)
      PROVE  Abstract!Answer(c) \/ Abstract!Fail({c}) \/ UNCHANGED Abstract!vars
  <2>1. /\ CallerMoved(c)
        /\ \/ caller'[c].at \in {"post", "failed"}
           \/ caller'[c].at = "answered" /\ handler[h].status \in {"executed", "replayed"}
    BY <1>6, RetryMoves, EndMoves, BreakerType DEF Receive, IInv
  <2>2. /\ caller[c].at = "wait" /\ handler[h].waiter = c /\ handler[h].at = "reply"
        /\ UNCHANGED <<effects, doubtful>>
    BY <1>6 DEF Receive
  <2>3. CASE caller'[c].at = "answered" /\ handler[h].status \in {"executed", "replayed"}
    <3>1. effects[caller[c].req] # 0
      <4>1. caller[c].req \in Requests /\ caller[c].req = handler[h].req
        BY <2>2 DEF IInv, Connections, TypeOK, Waiting
      <4>2. answers[caller[c].req] # 0
        BY <2>2, <2>3, <4>1 DEF IInv, AnswersTellEffects
      <4> QED
        BY <4>1, <4>2 DEF IInv, AnswersTellEffects
    <3>2. Abstract!Answer(c)
      BY <2>1, <2>2, <2>3, <3>1 DEF Abstract!Answer, CallerMoved, CallState, Waiting
    <3> QED
      BY <3>2
  <2>4. CASE caller'[c].at \in {"post", "failed"}
    BY <1>4, <2>1, <2>2, <2>4 DEF Waiting
  <2> QED
    BY <2>1, <2>3, <2>4
<1>7. ASSUME NEW h \in Handlers, Execute(h)
      PROVE  Abstract!TakeEffect(handler[h].req) \/ UNCHANGED Abstract!vars
  <2>1. /\ handler[h].req \in Requests /\ handler[h].req \in asked
        /\ effects[handler[h].req] = 0 \/ handler[h].req \in doubtful
    BY <1>7 DEF Execute, IInv, Connections, TypeOK, NonceGuardsEffect, Committed
  <2>2. UNCHANGED <<caller, asked>>
    BY <1>7 DEF Execute, source
  <2>3. \/ UNCHANGED <<effects, doubtful>>
        \/ /\ effects' = [effects EXCEPT ![handler[h].req] = @ + 1]
           /\ doubtful' \in {doubtful, doubtful \cup {handler[h].req}}
    BY <1>7 DEF Execute
  <2>4. CASE UNCHANGED <<effects, doubtful>>
    BY <2>2, <2>4, Stutters DEF CallState, Waiting
  <2>5. CASE /\ effects' = [effects EXCEPT ![handler[h].req] = @ + 1]
             /\ doubtful' \in {doubtful, doubtful \cup {handler[h].req}}
    BY <2>1, <2>2, <2>5 DEF Abstract!TakeEffect, CallState, Waiting
  <2> QED
    BY <2>3, <2>4, <2>5
<1>8. ASSUME NEW h \in Handlers, ServeStep(h), ~Execute(h) PROVE UNCHANGED Abstract!vars
  <2>1. UNCHANGED <<caller, asked, effects, doubtful>>
    BY <1>8 DEF ServeStep, Authenticate, Lookup, RememberNonce, Authorize, ForgetNonce,
                RecordAnswer, Discard, source
  <2> QED
    BY <2>1, Stutters DEF CallState, Waiting
<1>9. CASE DestinationRestarts \/ Tick
  BY <1>9, Stutters DEF DestinationRestarts, Tick, source, CallState, Waiting
<1>10. CASE SourceRestarts
  <2>1. PICK C : C = {c \in Callers : Waiting(c)}
    OBVIOUS
  <2>2. C \in SUBSET Callers
    BY <2>1
  <2>3. Abstract!Fail(C)
    BY <1>10, <2>1 DEF SourceRestarts, Abstract!Fail, CallState, Waiting, Ended, IInv, TypeOK
  <2> QED
    BY <2>2, <2>3 DEF Abstract!Next
<1>11. \A c \in Callers : {c} \in SUBSET Callers
  OBVIOUS
<1>12. CASE \E c \in Callers, r \in Requests : Send(c, r) \/ TurnAway(c, r) \/ CircuitOpen(c, r)
  BY <1>1, <1>2, <1>12 DEF Abstract!Next
<1>13. CASE \E c \in Callers : ClientStep(c)
  BY <1>3, <1>5, <1>6, <1>11, <1>13 DEF ClientStep, Abstract!Next
<1>14. ASSUME NEW h \in Handlers, ServeStep(h) PROVE [Abstract!Next]_(Abstract!vars)
  <2>1. CASE Execute(h)
    <3>1. handler[h].req \in Requests
      BY <2>1 DEF Execute, IInv, Connections, TypeOK
    <3> QED
      BY <1>7, <2>1, <3>1 DEF Abstract!Next
  <2> QED
    BY <1>8, <1>14, <2>1
<1> QED
  BY <1>u, <1>9, <1>10, <1>12, <1>13, <1>14 DEF Next

(* The two nodes implement the abstract at-most-once call.                 *)
THEOREM FederationRefines == Spec => ImplementsFederatedCall
<1>1. Spec => Abstract!Init /\ [][Abstract!Next]_(Abstract!vars)
  BY InitRefines, StepRefines, Invariance, PTL DEF Spec
<1> QED
  BY <1>1 DEF ImplementsFederatedCall, Abstract!Spec
=============================================================================
