---------------------------- MODULE PublicAction ----------------------------
(***************************************************************************)
(* Mutations of the public API under an idempotency key: execute_mutation  *)
(* of crates/aseman-application/src/public_action.rs over the store of     *)
(* crates/aseman-capsule/src/auto.rs, for one key of one subject.          *)
(*                                                                         *)
(* Unlike the VMM's keys (module Idempotency) a claim is never taken over  *)
(* and never purged, and classifying one that exists is a transaction      *)
(* after the one that failed to create it.  The requests of the model are  *)
(* authenticated and allowed.                                              *)
(***************************************************************************)
EXTENDS Naturals

CONSTANTS
    Requests,   \* what clients keep sending under the key
    Bodies,     \* digests of route, action and body
    Body,       \* the digest of each request
    Replies,    \* what the executor may answer
    Nothing,    \* no claim, no response
    MaxFaults   \* bound on failures and ends of the node

VARIABLES
    claim,      \* core.public_idempotency under the key
    request,    \* what each request does
    effects,    \* the requests and replies of executions that succeeded
    unreported, \* the requests whose execution failed after its effect was committed
    first,      \* the first outcome a client got
    lost,       \* whether the store failed or the node ended during a request
    faults      \* how much of MaxFaults is used

publicVars == <<claim, request, effects, unreported, first, lost, faults>>

-----------------------------------------------------------------------------
Outcomes == [body : Bodies, reply : Replies]

Claims == [body : Bodies, response : Outcomes \cup {Nothing}]

ASSUME PublicAssumption ==
    /\ Body \in [Requests -> Bodies]
    /\ MaxFaults \in Nat
    /\ Nothing \notin Claims /\ Nothing \notin Outcomes

Idle == [pc |-> "idle"]
At(p) == [pc |-> p]

Works ==
    {Idle} \cup [pc : {"create", "classify", "run", "failed"}]
           \cup [pc : {"done"}, reply : Replies]

PublicInit ==
    /\ claim = Nothing
    /\ request = [r \in Requests |-> Idle]
    /\ effects = {}
    /\ unreported = {}
    /\ first = Nothing
    /\ lost = FALSE
    /\ faults = 0

Fault == faults < MaxFaults /\ faults' = faults + 1

Lost == Fault /\ lost' = TRUE

Moves(r, w) == request' = [request EXCEPT ![r] = w]

Answered(o) == first' = IF first = Nothing THEN o ELSE first

Outcome(r) == [body |-> Body[r], reply |-> request[r].reply]

-----------------------------------------------------------------------------
(* PublicActionIdempotency::claim *)

Arrive(r) ==
    /\ request[r] = Idle
    /\ Moves(r, At("create"))
    /\ UNCHANGED <<claim, effects, unreported, first, lost, faults>>

Create(r) ==
    /\ request[r].pc = "create"
    /\ claim = Nothing
    /\ claim' = [body |-> Body[r], response |-> Nothing]
    /\ Moves(r, At("run"))
    /\ UNCHANGED <<effects, unreported, first, lost, faults>>

\* The store fails; the claim may have been written.
CreateFails(r) ==
    /\ request[r].pc = "create"
    /\ Lost
    /\ claim' \in IF claim = Nothing THEN {Nothing, [body |-> Body[r], response |-> Nothing]}
                 ELSE {claim}
    /\ Moves(r, Idle)
    /\ UNCHANGED <<effects, unreported, first>>

CreateConflict(r) ==
    /\ request[r].pc = "create"
    /\ claim # Nothing
    /\ Moves(r, At("classify"))
    /\ UNCHANGED <<claim, effects, unreported, first, lost, faults>>

\* The claim was released since: the store has nothing to answer with.
ClassifyNotFound(r) ==
    /\ request[r].pc = "classify"
    /\ claim = Nothing
    /\ Moves(r, Idle)
    /\ UNCHANGED <<claim, effects, unreported, first, lost, faults>>

Matches(r) == claim.body = Body[r]

\* Mismatch, or InProgress: an error either way.
Refuse(r) ==
    /\ request[r].pc = "classify"
    /\ claim # Nothing
    /\ ~Matches(r) \/ claim.response = Nothing
    /\ Moves(r, Idle)
    /\ UNCHANGED <<claim, effects, unreported, first, lost, faults>>

Replay(r) ==
    /\ request[r].pc = "classify"
    /\ claim # Nothing /\ Matches(r) /\ claim.response # Nothing
    /\ Answered(claim.response)
    /\ Moves(r, Idle)
    /\ UNCHANGED <<claim, effects, unreported, lost, faults>>

-----------------------------------------------------------------------------
(* The executor, complete and release *)

Execute(r) ==
    /\ request[r].pc = "run"
    /\ \E x \in Replies : /\ Moves(r, [pc |-> "done", reply |-> x])
                          /\ effects' = effects \cup {<<r, x>>}
    /\ UNCHANGED <<claim, unreported, first, lost, faults>>

\* Mutants are plausible slips in the operator that follows them; no definition
\* uses them.  A failure is answered as if it were an outcome.
Mutant_ExecuteFails(r) ==
    /\ request[r].pc = "run"
    /\ Fault
    /\ \E x \in Replies : Moves(r, [pc |-> "done", reply |-> x])
    /\ UNCHANGED <<claim, effects, unreported, first, lost>>

\* The executor fails: before its effect, or with the effect committed and only the
\* answer to the commit lost (run_action's "storage commit failed").
ExecuteFails(r) ==
    /\ request[r].pc = "run"
    /\ Fault
    /\ Moves(r, At("failed"))
    /\ unreported' \in {unreported, unreported \cup {r}}
    /\ UNCHANGED <<claim, effects, first, lost>>

\* The claim is there: nobody else gives it up.
Complete(r) ==
    /\ request[r].pc = "done"
    /\ claim # Nothing
    /\ claim' = [claim EXCEPT !.response = Outcome(r)]
    /\ Answered(Outcome(r))
    /\ Moves(r, Idle)
    /\ UNCHANGED <<effects, unreported, lost, faults>>

\* The outcome is recorded, but the client is told of a failure.
CompleteLost(r) ==
    /\ request[r].pc = "done"
    /\ Lost
    /\ claim' = [claim EXCEPT !.response = Outcome(r)]
    /\ Moves(r, Idle)
    /\ UNCHANGED <<effects, unreported, first>>

\* The outcome is not recorded: the client is told of a failure, and the claim is
\* released for the effect to be tried again.
Mutant_CompleteFails(r) ==
    /\ request[r].pc = "done"
    /\ Lost
    /\ claim' = Nothing
    /\ Moves(r, Idle)
    /\ UNCHANGED <<effects, unreported, first>>

\* The outcome is not recorded: the client is told of a failure, the claim stays.
CompleteFails(r) ==
    /\ request[r].pc = "done"
    /\ Lost
    /\ Moves(r, Idle)
    /\ UNCHANGED <<claim, effects, unreported, first>>

\* The claim of a failed execution is left.
Mutant_Release(r) ==
    /\ request[r].pc = "failed"
    /\ Moves(r, Idle)
    /\ UNCHANGED <<claim, effects, unreported, first, lost, faults>>

\* The digest is cleared and the row is left.
Mutant_Clears(r) ==
    /\ request[r].pc = "failed"
    /\ claim' = [claim EXCEPT !.body = Nothing]
    /\ Moves(r, Idle)
    /\ UNCHANGED <<effects, unreported, first, lost, faults>>

\* A claim that has its response is left alone.
Release(r) ==
    /\ request[r].pc = "failed"
    /\ claim' = IF claim # Nothing /\ claim.response = Nothing THEN Nothing ELSE claim
    /\ Moves(r, Idle)
    /\ UNCHANGED <<effects, unreported, first, lost, faults>>

\* A failed release is ignored.
ReleaseFails(r) ==
    /\ request[r].pc = "failed"
    /\ Lost
    /\ Moves(r, Idle)
    /\ UNCHANGED <<claim, effects, unreported, first>>

\* The node ends with everything it was doing.
NodeEnds ==
    /\ Lost
    /\ \E r \in Requests : request[r] # Idle
    /\ request' = [r \in Requests |-> Idle]
    /\ UNCHANGED <<claim, effects, unreported, first>>

-----------------------------------------------------------------------------
Serve(r) ==
    \/ Arrive(r) \/ Create(r) \/ CreateConflict(r) \/ ClassifyNotFound(r)
    \/ Refuse(r) \/ Replay(r) \/ Execute(r) \/ Complete(r) \/ Release(r)

Fails(r) ==
    \/ CreateFails(r) \/ ExecuteFails(r) \/ CompleteLost(r) \/ CompleteFails(r)
    \/ ReleaseFails(r)

PublicNext == NodeEnds \/ \E r \in Requests : Serve(r) \/ Fails(r)

PublicSpec == PublicInit /\ [][PublicNext]_publicVars

\* The node's threads run and clients try again.
PublicFairSpec == PublicSpec /\ \A r \in Requests : WF_publicVars(Serve(r))

-----------------------------------------------------------------------------
(* Properties *)

\* The type invariant.
PublicTypeOK ==
    /\ claim \in Claims \cup {Nothing}
    /\ request \in [Requests -> Works]
    /\ effects \subseteq Requests \X Replies
    /\ unreported \subseteq Requests
    /\ first \in Outcomes \cup {Nothing}
    /\ lost \in BOOLEAN
    /\ faults \in Nat

\* Once an execution under a key has reported its effect there is no other, reported
\* or not, through retries, lost answers, failed commits and ends of the node (claim,
\* complete, release).
EffectIsNotRepeated ==
    [][effects # {} => UNCHANGED <<effects, unreported>>]_publicVars

\* What a client is first given, and what is kept for replays, is the outcome of an
\* effect that happened, and it is kept under the digest of the request that had it
\* (complete, claim).
OutcomeOfTheEffect ==
    /\ first # Nothing => \E e \in effects : first = [body |-> Body[e[1]], reply |-> e[2]]
    /\ claim # Nothing /\ claim.response # Nothing =>
           \E e \in effects : /\ claim.response = [body |-> Body[e[1]], reply |-> e[2]]
                              /\ claim.body = Body[e[1]]

\* Unless the store fails or the node ends during a request, the key comes to have
\* an outcome, however often the executor failed (release).
OutcomeComes == []<>(lost \/ (claim # Nothing /\ claim.response # Nothing))

\* Finding: a retry returns the first outcome.  A claim whose node ended, or whose
\* outcome could not be recorded, is in progress for ever.
RetriesAreAnswered == []<>(claim # Nothing /\ claim.response # Nothing)

\* Finding: a retry does not repeat the effect.  One whose commit was not reported has
\* its claim released, and the retry executes again.
UnreportedEffectIsTheOnlyOne == unreported = {} \/ effects = {}
=============================================================================
