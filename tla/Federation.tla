----------------------------- MODULE Federation -----------------------------
(***************************************************************************)
(* One cross-node action, from the caller on the source node to the answer *)
(* the destination recorded: the outbound client with its retries and its  *)
(* circuit breaker (modules/federation/http/src/client.rs), the inbound    *)
(* HTTP handler with proof authentication (http.rs, aseman-application/    *)
(* src/identity.rs), ServeFederatedRequest (aseman-application/src/        *)
(* federation.rs) and the durable guards (aseman-capsule/src/federation.rs *)
(* and auto.rs).                                                           *)
(*                                                                         *)
(* One source node, one destination, one signing key, one clock.  Every    *)
(* store access of a handler is a step of its own: other handlers, the     *)
(* clients and the clock run in between, a store access may fail (applied  *)
(* or not), a request or a response may be lost, and either node may die.  *)
(***************************************************************************)
EXTENDS Integers

CONSTANTS
    Callers,    \* threads of the source node in RouterExecutor::federated_answer
    Handlers,   \* server threads of the destination
    Requests,   \* request ids: stable over a caller's retries, also the nonce
    None,       \* no request, no caller
    Attempts,   \* FederationClientConfig.attempts
    Threshold,  \* circuit_failure_threshold
    OpenFor,    \* circuit_open_for
    Lifetime,   \* MAX_LIFETIME_MILLIS
    Skew,       \* FreshnessPolicy.max_clock_skew_millis
    MaxClock    \* bound: the clock stops here

ASSUME NoneAssumption == None \notin Requests \cup Callers
ASSUME ClientAssumption == Attempts \in Nat \ {0} /\ Threshold \in Nat \ {0} /\ OpenFor \in Nat
ASSUME TimeAssumption == Lifetime \in Nat \ {0} /\ Skew \in Nat /\ MaxClock \in Nat

VARIABLES
    clock,
    caller,     \* per caller: where it is, its request, issue time, attempt, outcome
    circuit,    \* the breaker the callers of one destination share
    handler,    \* per handler: where it is, the envelope, serve's `now`, who waits
    proofs,     \* replay_nonce: until when a request's proof nonce is retained
    nonces,     \* federation_nonce: the requests whose envelope nonce is remembered
    answers,    \* federation_answer: the effect each recorded answer tells of
    effects,    \* how often each request took effect
    doubtful,   \* history: requests with an effect serve was told had failed
    asked       \* history: the requests sent so far

vars == <<clock, caller, circuit, handler, proofs, nonces, answers, effects, doubtful, asked>>
source == <<caller, circuit, asked>>
stores == <<proofs, nonces, answers>>

Idle == [at |-> "idle", req |-> None, issued |-> 0, now |-> 0, waiter |-> None, status |-> "none"]

(* A call ends: answered, or failed (refused, unavailable, circuit open,   *)
(* an invalid response: the caller is told which, and nothing more).       *)
Ended(r, outcome) == [at |-> outcome, req |-> r, issued |-> 0, attempt |-> 0]

Init ==
    /\ clock = 0
    /\ caller = [c \in Callers |-> Ended(None, "idle")]
    /\ circuit = [failures |-> 0, open |-> -1]
    /\ handler = [h \in Handlers |-> Idle]
    /\ proofs = [r \in Requests |-> 0]
    /\ nonces = {}
    /\ answers = [r \in Requests |-> 0]
    /\ effects = [r \in Requests |-> 0]
    /\ doubtful = {}
    /\ asked = {}

-----------------------------------------------------------------------------
(* The circuit breaker.  Failures saturate where the code only compares    *)
(* them with the threshold.                                                *)
Admits == circuit.open = -1 \/ clock >= circuit.open

Succeeded == [failures |-> 0, open |-> -1]

Failed ==
    LET n == IF circuit.failures < Threshold THEN circuit.failures + 1 ELSE Threshold
    IN  [failures |-> n, open |-> IF n >= Threshold THEN clock + OpenFor ELSE circuit.open]

End(c, outcome, breaker) ==
    /\ caller' = [caller EXCEPT ![c] = Ended(@.req, outcome)]
    /\ circuit' = breaker
    /\ UNCHANGED asked

Waiting(c) == caller[c].at \in {"post", "wait"}

(* SendFederatedRequest::send builds the envelope (the nonce is the        *)
(* request id) and the client signs its proof once, before the attempts.   *)
Send(c, r) ==
    /\ ~Waiting(c)
    /\ Admits
    /\ caller' = [caller EXCEPT ![c] = [at |-> "post", req |-> r, issued |-> clock, attempt |-> 0]]
    /\ circuit' = [circuit EXCEPT !.open = -1]
    /\ asked' = asked \cup {r}
    /\ UNCHANGED <<clock, handler, stores, effects, doubtful>>

(* Turned away before anything is sent: the directory or the source's own  *)
(* policy says no, the proof cannot be signed once the breaker has let the *)
(* call through, or the circuit is open.                                   *)
TurnAway(c, r) ==
    /\ ~Waiting(c)
    /\ caller' = [caller EXCEPT ![c] = Ended(r, "failed")]
    /\ \/ UNCHANGED circuit
       \/ Admits /\ circuit' = [circuit EXCEPT !.open = -1]
    /\ UNCHANGED <<clock, asked, handler, stores, effects, doubtful>>

CircuitOpen(c, r) ==
    /\ ~Waiting(c)
    /\ ~Admits
    /\ caller' = [caller EXCEPT ![c] = Ended(r, "failed")]
    /\ UNCHANGED <<clock, circuit, asked, handler, stores, effects, doubtful>>

(* An attempt reaches a thread of the destination.                         *)
Post(c) ==
    /\ caller[c].at = "post"
    /\ \E h \in Handlers :
          /\ handler[h].at = "idle"
          /\ handler' = [handler EXCEPT ![h] =
                [Idle EXCEPT !.at = "auth", !.req = caller[c].req,
                             !.issued = caller[c].issued, !.waiter = c]]
    /\ caller' = [caller EXCEPT ![c].at = "wait"]
    /\ UNCHANGED <<clock, circuit, asked, stores, effects, doubtful>>

(* (Mutants, here and below, are plausible bugs the properties catch.)     *)
Mutant_Retry(c) ==
    /\ caller' = [caller EXCEPT ![c].at = "post"]
    /\ UNCHANGED <<circuit, asked>>

(* The attempt failed in a way the client retries; after the last one the  *)
(* breaker counts one failure.                                             *)
Retry(c) ==
    IF caller[c].attempt + 1 < Attempts
    THEN /\ caller' = [caller EXCEPT ![c].at = "post", ![c].attempt = @ + 1]
         /\ UNCHANGED <<circuit, asked>>
    ELSE End(c, "failed", Failed)

Detached(c) ==
    [h \in Handlers |-> IF handler[h].waiter = c
                        THEN [handler[h] EXCEPT !.waiter = None] ELSE handler[h]]

(* The request or the response is lost, or the deadline passes: the        *)
(* destination may still be working on it.                                 *)
TransportFails(c) ==
    /\ Waiting(c)
    /\ handler' = Detached(c)
    /\ Retry(c)
    /\ UNCHANGED <<clock, stores, effects, doubtful>>

(* The response arrives.  401 is not retryable, 503 is; a signed answer    *)
(* that does not verify ends the call and counts as a failure.             *)
Receive(c, h) ==
    LET status == handler[h].status IN
    /\ caller[c].at = "wait"
    /\ handler[h].waiter = c
    /\ handler[h].at = "reply"
    /\ handler' = [handler EXCEPT ![h] = Idle]
    /\ \/ status \in {"executed", "replayed"} /\ End(c, "answered", Succeeded)
       \/ status \in {"refused", "unauthorized"} /\ End(c, "failed", Succeeded)
       \/ status = "unavailable" /\ Retry(c)
       \/ status \in {"executed", "replayed", "refused"} /\ End(c, "failed", Failed)
    /\ UNCHANGED <<clock, stores, effects, doubtful>>

-----------------------------------------------------------------------------
(* FederationService::invoke at the destination.                           *)
Go(h, at) == handler' = [handler EXCEPT ![h].at = at]

Reply(h, status) == handler' = [handler EXCEPT ![h].at = "reply", ![h].status = status]

Expires(h) == handler[h].issued + Lifetime

(* AuthenticateProof: the freshness window, then the proof's nonce, which  *)
(* is refused while an earlier use of it is retained.                      *)
Authenticate(h) ==
    LET r == handler[h].req
        fresh == clock < Expires(h) + Skew
        replay == proofs[r] > clock
    IN
    /\ handler[h].at = "auth"
    /\ \/ /\ fresh /\ ~replay
          /\ proofs' = [proofs EXCEPT ![r] = Expires(h) + Skew]
          /\ Go(h, "lookup")
       \/ /\ ~fresh \/ replay
          /\ Reply(h, "unauthorized")
          /\ UNCHANGED proofs
       \/ /\ Reply(h, "unavailable")
          /\ \/ UNCHANGED proofs
             \/ fresh /\ ~replay /\ proofs' = [proofs EXCEPT ![r] = Expires(h) + Skew]
    /\ UNCHANGED <<clock, source, nonces, answers, effects, doubtful>>

(* serve reads its clock once, then looks for a recorded answer.           *)
Lookup(h) ==
    /\ handler[h].at = "lookup"
    /\ \/ answers[handler[h].req] # 0 /\ Reply(h, "replayed")
       \/ /\ answers[handler[h].req] = 0
          /\ handler' = [handler EXCEPT ![h].at = "remember", ![h].now = clock]
       \/ Reply(h, "unavailable")
    /\ UNCHANGED <<clock, source, stores, effects, doubtful>>

(* remember_nonce and accept: the nonce is recorded whatever accept says.  *)
Mutant_RememberNonce(h) ==
    LET r == handler[h].req IN
    /\ handler[h].at = "remember"
    /\ nonces' = nonces \cup {r}
    /\ IF handler[h].now >= Expires(h) THEN Reply(h, "refused") ELSE Go(h, "authorize")
    /\ UNCHANGED <<clock, source, proofs, answers, effects, doubtful>>

RememberNonce(h) ==
    LET r == handler[h].req IN
    /\ handler[h].at = "remember"
    /\ \/ /\ nonces' = nonces \cup {r}
          /\ IF r \in nonces \/ handler[h].now >= Expires(h)
             THEN Reply(h, "refused")
             ELSE Go(h, "authorize")
       \/ /\ nonces' \in {nonces, nonces \cup {r}}
          /\ Reply(h, "unavailable")
    /\ UNCHANGED <<clock, source, proofs, answers, effects, doubtful>>

(* The peer directory and the destination's own policy.                    *)
Authorize(h) ==
    /\ handler[h].at = "authorize"
    /\ \/ Go(h, "execute")
       \/ Reply(h, "refused")
       \/ Reply(h, "unavailable")
    /\ UNCHANGED <<clock, source, stores, effects, doubtful>>

Mutant_Execute(h) ==
    /\ handler[h].at = "execute"
    /\ effects' = [effects EXCEPT ![handler[h].req] = @ + 1]
    /\ Go(h, "record") \/ Go(h, "forget")
    /\ UNCHANGED <<clock, source, stores, doubtful>>

(* The action runs in one transaction of the destination: it takes effect  *)
(* and answers, or fails and changes nothing.  A commit whose outcome the  *)
(* store could not report is both: it took effect, and serve is told that  *)
(* it failed.                                                              *)
Execute(h) ==
    LET r == handler[h].req
        effect == [effects EXCEPT ![r] = @ + 1]
    IN
    /\ handler[h].at = "execute"
    /\ \/ /\ effects' = effect
          /\ Go(h, "record")
          /\ UNCHANGED doubtful
       \/ /\ Go(h, "forget")
          /\ UNCHANGED <<effects, doubtful>>
       \/ /\ effects' = effect
          /\ doubtful' = doubtful \cup {r}
          /\ Go(h, "forget")
    /\ UNCHANGED <<clock, source, stores>>

(* A failed effect must not poison the nonce.                              *)
ForgetNonce(h) ==
    /\ handler[h].at = "forget"
    /\ nonces' \in {nonces \ {handler[h].req}, nonces}
    /\ Reply(h, "unavailable")
    /\ UNCHANGED <<clock, source, proofs, answers, effects, doubtful>>

(* record_answer: the first answer stands.  If it fails the effect has     *)
(* happened and no answer tells of it.                                     *)
Mutant_RecordAnswer(h) ==
    /\ handler[h].at = "record"
    /\ answers' \in {answers, [answers EXCEPT ![handler[h].req] = effects[handler[h].req]]}
    /\ Reply(h, "executed")
    /\ UNCHANGED <<clock, source, proofs, nonces, effects, doubtful>>

RecordAnswer(h) ==
    LET r == handler[h].req
        recorded == [answers EXCEPT ![r] = IF @ = 0 THEN effects[r] ELSE @]
    IN
    /\ handler[h].at = "record"
    /\ \/ answers' = recorded /\ Reply(h, "executed")
       \/ answers' \in {answers, recorded} /\ Reply(h, "unavailable")
    /\ UNCHANGED <<clock, source, proofs, nonces, effects, doubtful>>

(* Nobody waits for the response any more.                                 *)
Discard(h) ==
    /\ handler[h].at = "reply"
    /\ handler[h].waiter = None
    /\ handler' = [handler EXCEPT ![h] = Idle]
    /\ UNCHANGED <<clock, source, stores, effects, doubtful>>

-----------------------------------------------------------------------------
DestinationRestarts ==
    /\ \E h \in Handlers : handler[h].at # "idle"
    /\ handler' = [h \in Handlers |-> Idle]
    /\ UNCHANGED <<clock, source, stores, effects, doubtful>>

(* The breaker lives in the source's memory.                               *)
SourceRestarts ==
    /\ \E c \in Callers : Waiting(c)
    /\ caller' = [c \in Callers |->
                    IF Waiting(c) THEN Ended(caller[c].req, "failed") ELSE caller[c]]
    /\ circuit' = Succeeded
    /\ handler' = [h \in Handlers |-> [handler[h] EXCEPT !.waiter = None]]
    /\ UNCHANGED <<clock, stores, effects, doubtful, asked>>

Tick ==
    /\ clock < MaxClock
    /\ clock' = clock + 1
    /\ UNCHANGED <<caller, circuit, handler, stores, effects, doubtful, asked>>

ClientStep(c) ==
    \/ Post(c)
    \/ TransportFails(c)
    \/ \E h \in Handlers : Receive(c, h)

ServeStep(h) ==
    \/ Authenticate(h)
    \/ Lookup(h)
    \/ RememberNonce(h)
    \/ Authorize(h)
    \/ Execute(h)
    \/ ForgetNonce(h)
    \/ RecordAnswer(h)
    \/ Discard(h)

Next ==
    \/ \E c \in Callers, r \in Requests : Send(c, r) \/ TurnAway(c, r) \/ CircuitOpen(c, r)
    \/ \E c \in Callers : ClientStep(c)
    \/ \E h \in Handlers : ServeStep(h)
    \/ DestinationRestarts
    \/ SourceRestarts
    \/ Tick

Spec == Init /\ [][Next]_vars

(* A client never blocks for ever: the deadline of the HTTP client bounds  *)
(* every attempt.  Nothing is assumed of the destination or of the network.*)
FairSpec == Spec /\ \A c \in Callers : WF_vars(ClientStep(c))
-----------------------------------------------------------------------------
Running == {"auth", "lookup", "remember", "authorize", "execute", "forget", "record"}
Statuses == {"executed", "replayed", "refused", "unauthorized", "unavailable"}

(* The type of the state.                                                  *)
TypeOK ==
    /\ clock \in Nat
    /\ caller \in [Callers -> [at : {"idle", "post", "wait", "answered", "failed"},
                               req : Requests \cup {None}, issued : Nat, attempt : Nat]]
    /\ circuit \in [failures : Nat, open : Int]
    /\ handler \in [Handlers -> [at : Running \cup {"idle", "reply"},
                                 req : Requests \cup {None}, issued : Nat, now : Nat,
                                 waiter : Callers \cup {None}, status : Statuses \cup {"none"}]]
    /\ proofs \in [Requests -> Nat]
    /\ nonces \in SUBSET Requests
    /\ answers \in [Requests -> Nat]
    /\ effects \in [Requests -> Nat]
    /\ doubtful \in SUBSET Requests
    /\ asked \in SUBSET Requests

(* A handler between remembering a nonce and settling what became of it.   *)
Committed(h) == handler[h].at \in {"authorize", "execute", "forget", "record"}

(* The envelope nonce is what keeps an effect from being repeated: every   *)
(* handler that may still execute holds it alone, and a request that took  *)
(* effect keeps it for good - across retries, late duplicates, failed      *)
(* store accesses and restarts of either node (federation.rs serve).  The  *)
(* one exception is an effect serve was told had failed.                   *)
NonceGuardsEffect ==
    /\ \A h \in Handlers : Committed(h) => handler[h].req \in nonces
    /\ \A g, h \in Handlers :
          Committed(g) /\ Committed(h) /\ handler[g].req = handler[h].req => g = h
    /\ \A r \in Requests :
          effects[r] # 0 /\ r \notin doubtful =>
             /\ effects[r] = 1
             /\ r \in nonces
             /\ \A h \in Handlers : handler[h].req = r /\ Committed(h) => handler[h].at = "record"

(* A caller that holds an answer holds one the destination has on record:  *)
(* however often it asks again, it cannot be told something else           *)
(* (http.rs invoke signs only after record_answer).                        *)
AnsweredIsDurable ==
    \A c \in Callers : caller[c].at = "answered" => answers[caller[c].req] # 0

(* The detailed protocol implements the abstract at-most-once call.        *)
CallState(c) == IF Waiting(c) THEN "pending" ELSE caller[c].at

Abstract == INSTANCE FederatedCall
    WITH call <- [c \in Callers |-> [on |-> caller[c].req, state |-> CallState(c)]]

(* Every behaviour of the two nodes is one of the abstract call: an effect *)
(* is repeated only after one whose commit went unreported, an answer is   *)
(* the answer of an effect that happened.                                  *)
ImplementsFederatedCall == Abstract!Spec

(* A call comes back: bounded attempts, each under the client's deadline,  *)
(* whatever the destination and the network do (client.rs send).           *)
EveryCallReturns == \A c \in Callers : Waiting(c) ~> ~Waiting(c)

(* contracts/federation/http-v1.md: "Every retry reuses the exact          *)
(* envelope, request ID, nonce, payload, and proof, so the destination     *)
(* replays a durable answer".  A retry of a request whose answer is on     *)
(* record is not turned away as unauthorized while its proof is fresh.     *)
RetryIsReplayed ==
    [][\A h \in Handlers :
          /\ handler[h].at = "auth"
          /\ handler'[h].at = "reply" /\ handler'[h].status = "unauthorized"
          /\ clock < Expires(h) + Skew
          => answers[handler[h].req] = 0]_vars
=============================================================================
