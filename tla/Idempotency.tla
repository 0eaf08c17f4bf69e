----------------------------- MODULE Idempotency -----------------------------
(***************************************************************************)
(* Idempotency keys of the VMM service: mutate of                          *)
(* modules/vmm-http/src/server.rs over the store of                        *)
(* crates/aseman-capsule/src/vmm.rs, for one key of one owner.             *)
(*                                                                         *)
(* A request claims the key, runs its handler and completes the claim with *)
(* the handler's reply, or releases it after a server error.  A claim that *)
(* was not completed in time is taken over; completing and releasing name  *)
(* the key and not the claim.                                              *)
(*                                                                         *)
(* Taking over, releasing and purging read the row, decide, and write with *)
(* Trx::update or Trx::delete, which read it again (engine.rs): a row that *)
(* was written in between either makes the commit conflict, and the call   *)
(* decides again, or is overwritten.  `asRead` and `purge` tell the rows   *)
(* that were written in between, `overtaken` remembers the overwriting.    *)
(*                                                                         *)
(* Times are ages: what the code stores is the time of the claim, what it  *)
(* compares is that time and the one it read before the transaction.  An   *)
(* age above what the service tells apart counts as MaxAge.                *)
(***************************************************************************)
EXTENDS Integers

CONSTANTS
    Requests,   \* what clients keep sending under the key
    Bodies,     \* digests of method, path, query and body
    Body,       \* the digest of each request
    Replies,    \* what a handler may answer that is not a server error
    Ttl,        \* CLAIM_TTL_MILLIS
    Retention,  \* IDEMPOTENCY_RETENTION_MILLIS
    None,       \* no row, no response
    Error,      \* a reply with a server error
    MaxDelay,   \* bound on the time between reading the clock and the claim
    MaxFaults   \* bound on store failures, server errors and ends of handlers

VARIABLES
    row,        \* core.vmm_idempotency under the key
    request,    \* what each request does
    first,      \* the first final answer a client got since the last purge
    overrun,    \* whether a handler ever worked for longer than Ttl
    asRead,     \* the requests that mean to write the row as they read it
    purge,      \* whether the purge picked the row, and it was written since
    overtaken,  \* whether a row was ever overwritten that was not as read
    faults      \* how much of MaxFaults is used

keyVars == <<row, request, first, overrun, asRead, purge, overtaken, faults>>

-----------------------------------------------------------------------------
MaxAge == Retention + MaxDelay + 1

\* A final answer, and the digest of the request it was made for.
Answers == [body : Bodies, reply : Replies]

Rows == [body : Bodies, age : 0..MaxAge, response : Answers \cup {None}]

ASSUME IdempotencyAssumption ==
    /\ Body \in [Requests -> Bodies]
    /\ {Ttl, Retention, MaxDelay, MaxFaults} \subseteq Nat
    /\ MaxDelay < Ttl /\ Ttl <= Retention
    /\ Error \notin Replies
    /\ None \notin Rows /\ None \notin Answers

KeyIdle == [pc |-> "idle"]

Works ==
    {KeyIdle} \cup [pc : {"run", "release"}]
              \cup [pc : {"claim", "takeover"}, late : 0..MaxDelay]
              \cup [pc : {"finish"}, reply : Replies \cup {Error}]

KeyInit ==
    /\ row = None
    /\ request = [r \in Requests |-> KeyIdle]
    /\ first = None
    /\ overrun = FALSE
    /\ asRead = {}
    /\ purge = "idle"
    /\ overtaken = FALSE
    /\ faults = 0

Fault == faults < MaxFaults /\ faults' = faults + 1

Claiming == {r \in Requests : request[r].pc \in {"claim", "takeover"}}

\* The handlers that have claimed the key and not given it up.
Working == {r \in Requests : request[r].pc \in {"run", "finish", "release"}}

\* The row is written: it is not as anyone read it.
Writes == asRead' = {} /\ purge' = IF purge = "picked" THEN "late" ELSE purge

\* Every other step leaves what was read as it was.
Quiet == UNCHANGED <<asRead, purge, overtaken>>

Older(a) == IF a < MaxAge THEN a + 1 ELSE a

KeyTick ==
    /\ \A r \in Claiming : request[r].late < MaxDelay
    /\ request' = [r \in Requests |->
           IF r \in Claiming THEN [request[r] EXCEPT !.late = @ + 1] ELSE request[r]]
    /\ row' = IF row = None THEN None ELSE [row EXCEPT !.age = Older(@)]
    /\ overrun' = (overrun \/ (Working # {} /\ row' # None /\ row'.age >= Ttl))
    /\ UNCHANGED <<first, faults>> /\ Quiet

-----------------------------------------------------------------------------
(* mutate up to the claim *)

Arrive(r) ==
    /\ request[r] = KeyIdle
    /\ request' = [request EXCEPT ![r] = [pc |-> "claim", late |-> 0]]
    /\ UNCHANGED <<row, first, overrun, faults>> /\ Quiet

\* The request ends with an answer that says nothing of the mutation.
Ends(r) == request' = [request EXCEPT ![r] = KeyIdle]

\* A client has a final answer.
Answered(a) == first' = IF first = None THEN a ELSE first

ClaimNew(r) ==
    /\ request[r].pc = "claim"
    /\ row = None
    /\ row' = [body |-> Body[r], age |-> request[r].late, response |-> None]
    /\ request' = [request EXCEPT ![r] = [pc |-> "run"]]
    /\ Writes
    /\ UNCHANGED <<first, overrun, overtaken, faults>>

ClaimMismatch(r) ==
    /\ request[r].pc = "claim"
    /\ row # None /\ row.body # Body[r]
    /\ Ends(r)
    /\ UNCHANGED <<row, first, overrun, faults>> /\ Quiet

SameRequest(r) == request[r].pc = "claim" /\ row # None /\ row.body = Body[r]

\* Completed: the stored response is replayed.
ClaimReplay(r) ==
    /\ SameRequest(r)
    /\ row.response # None
    /\ Answered(row.response)
    /\ Ends(r)
    /\ UNCHANGED <<row, overrun, faults>> /\ Quiet

\* Mutants are plausible slips in the operator that follows them; no definition
\* uses them.  A completed claim is taken over too.
Mutant_Forgets(late) == row.age - late >= Ttl

\* A claim is taken over at once.
Mutant_Grabs(late) == row.response = None

\* The difference is taken the other way round.
Mutant_Waits(late) == row.response = None /\ late - row.age >= Ttl

\* A claim that never completed.
Abandoned(late) == row.response = None /\ row.age - late >= Ttl

ClaimInProgress(r) ==
    /\ SameRequest(r)
    /\ row.response = None /\ ~Abandoned(request[r].late)
    /\ Ends(r)
    /\ UNCHANGED <<row, first, overrun, faults>> /\ Quiet

ClaimAbandoned(r) ==
    /\ SameRequest(r)
    /\ Abandoned(request[r].late)
    /\ request' = [request EXCEPT ![r] = [pc |-> "takeover", late |-> request[r].late]]
    /\ asRead' = asRead \cup {r}
    /\ UNCHANGED <<row, first, overrun, purge, overtaken, faults>>

\* The time of the claim is all that is written; a row that is gone is not missed.
ClaimTakeOver(r) ==
    /\ request[r].pc = "takeover"
    /\ row' = IF row = None THEN None ELSE [row EXCEPT !.age = request[r].late]
    /\ overtaken' = (overtaken \/ r \notin asRead)
    /\ request' = [request EXCEPT ![r] = [pc |-> "run"]]
    /\ Writes
    /\ UNCHANGED <<first, overrun, faults>>

\* Another writer's commit won: the request decides again, by the time it has.
ClaimConflict(r) ==
    /\ request[r].pc = "takeover" /\ r \notin asRead
    /\ request' = [request EXCEPT ![r] = [pc |-> "claim", late |-> request[r].late]]
    /\ UNCHANGED <<row, first, overrun, faults>> /\ Quiet

ClaimFails(r) ==
    /\ r \in Claiming
    /\ Fault
    /\ Ends(r)
    /\ asRead' = asRead \ {r}
    /\ UNCHANGED <<row, first, overrun, purge, overtaken>>

-----------------------------------------------------------------------------
(* The handler and what follows it *)

Handle(r) ==
    /\ request[r].pc = "run"
    /\ \E x \in Replies : request' = [request EXCEPT ![r] = [pc |-> "finish", reply |-> x]]
    /\ UNCHANGED <<row, first, overrun, faults>> /\ Quiet

HandleError(r) ==
    /\ request[r].pc = "run"
    /\ Fault
    /\ request' = [request EXCEPT ![r] = [pc |-> "finish", reply |-> Error]]
    /\ UNCHANGED <<row, first, overrun>> /\ Quiet

\* A server error is completed like any other reply.
Mutant_IsServerError(x) == FALSE

IsServerError(x) == x = Error

Answer(r) == [body |-> Body[r], reply |-> request[r].reply]

Completes(r) == request[r].pc = "finish" /\ ~IsServerError(request[r].reply)

Complete(r) ==
    /\ Completes(r)
    /\ row # None
    /\ row' = [row EXCEPT !.response = Answer(r)]
    /\ Answered(Answer(r))
    /\ Ends(r)
    /\ Writes
    /\ UNCHANGED <<overrun, overtaken, faults>>

\* The commit's answer is lost: the client is told that the service is unavailable.
CompleteLost(r) ==
    /\ Completes(r)
    /\ row # None
    /\ Fault
    /\ row' = [row EXCEPT !.response = Answer(r)]
    /\ Ends(r)
    /\ Writes
    /\ UNCHANGED <<first, overrun, overtaken>>

\* NotFound: another request released the claim, or it was purged.
CompleteNotFound(r) ==
    /\ Completes(r)
    /\ row = None
    /\ Ends(r)
    /\ UNCHANGED <<row, first, overrun, faults>> /\ Quiet

Releases(r) == request[r].pc = "finish" /\ IsServerError(request[r].reply)

InProgress == row # None /\ row.response = None

\* A claim that has a response is left alone.
ReleaseNothing(r) ==
    /\ Releases(r)
    /\ ~InProgress
    /\ Ends(r)
    /\ UNCHANGED <<row, first, overrun, faults>> /\ Quiet

ReleaseReads(r) ==
    /\ Releases(r)
    /\ InProgress
    /\ request' = [request EXCEPT ![r] = [pc |-> "release"]]
    /\ asRead' = asRead \cup {r}
    /\ UNCHANGED <<row, first, overrun, purge, overtaken, faults>>

Release(r) ==
    /\ request[r].pc = "release"
    /\ row' = None
    /\ overtaken' = (overtaken \/ r \notin asRead)
    /\ Ends(r)
    /\ Writes
    /\ UNCHANGED <<first, overrun, faults>>

ReleaseConflict(r) ==
    /\ request[r].pc = "release" /\ r \notin asRead
    /\ request' = [request EXCEPT ![r] = [pc |-> "finish", reply |-> Error]]
    /\ UNCHANGED <<row, first, overrun, faults>> /\ Quiet

\* The store fails, or the handler panics: the claim stays.
FinishFails(r) ==
    /\ r \in Working
    /\ Fault
    /\ Ends(r)
    /\ asRead' = asRead \ {r}
    /\ UNCHANGED <<row, first, overrun, purge, overtaken>>

\* The service ends with everything it was doing.
Crash ==
    /\ Fault
    /\ request' = [r \in Requests |-> KeyIdle]
    /\ asRead' = {} /\ purge' = "idle"
    /\ UNCHANGED <<row, first, overrun, overtaken>>

\* purge_before, in the worker's tick: delete_many finds the rows ...
PurgePicks ==
    /\ purge = "idle"
    /\ row # None /\ row.age > Retention
    /\ purge' = "picked"
    /\ UNCHANGED <<row, request, first, overrun, asRead, overtaken, faults>>

\* ... and deletes each one it finds again by its id, which is that of the key.
Purge ==
    /\ purge # "idle"
    /\ row' = None /\ first' = None
    /\ overtaken' = (overtaken \/ purge = "late")
    /\ asRead' = {} /\ purge' = "idle"
    /\ UNCHANGED <<request, overrun, faults>>

PurgeConflict ==
    /\ purge = "late"
    /\ purge' = "idle"
    /\ UNCHANGED <<row, request, first, overrun, asRead, overtaken, faults>>

-----------------------------------------------------------------------------
Claim(r) ==
    \/ ClaimNew(r) \/ ClaimMismatch(r) \/ ClaimReplay(r) \/ ClaimInProgress(r)
    \/ ClaimAbandoned(r) \/ ClaimTakeOver(r) \/ ClaimConflict(r)

Finish(r) ==
    \/ Complete(r) \/ CompleteNotFound(r)
    \/ ReleaseNothing(r) \/ ReleaseReads(r) \/ Release(r) \/ ReleaseConflict(r)

Serve(r) == Arrive(r) \/ Claim(r) \/ Handle(r) \/ Finish(r)

KeyNext ==
    \/ KeyTick \/ Crash \/ PurgePicks \/ Purge \/ PurgeConflict
    \/ \E r \in Requests : \/ Serve(r) \/ HandleError(r) \/ ClaimFails(r)
                           \/ CompleteLost(r) \/ FinishFails(r)

KeySpec == KeyInit /\ [][KeyNext]_keyVars

\* Time passes, the service's threads run and the clients try again.
KeyFairSpec == KeySpec /\ WF_keyVars(KeyTick) /\ \A r \in Requests : WF_keyVars(Serve(r))

-----------------------------------------------------------------------------
(* Properties *)

\* The type invariant.
KeyTypeOK ==
    /\ row \in Rows \cup {None}
    /\ request \in [Requests -> Works]
    /\ first \in Answers \cup {None}
    /\ overrun \in BOOLEAN
    /\ asRead \subseteq Requests
    /\ purge \in {"idle", "picked", "late"}
    /\ overtaken \in BOOLEAN
    /\ faults \in Nat

\* While no handler works for longer than Ttl and no decision on the row is
\* overtaken by another writer, the key has at most one handler at work and the
\* claim is its own, whatever was released, lost or taken over before: two requests
\* never run the mutation side by side (claim, release).
OneHandlerAtATime ==
    ~overrun /\ ~overtaken =>
        \A r \in Working : Working = {r} /\ row # None /\ row.body = Body[r]

\* What a replay returns is what a client was first given, and was made for the
\* request that is stored with it.
ReplayIsFirst ==
    row # None /\ row.response # None =>
        /\ row.response.body = row.body
        /\ first # None => first = row.response

\* While no handler works for longer than Ttl and no decision on the row is
\* overtaken, replays are faithful through server errors, lost commits, crashes,
\* abandoned claims and purges (complete, claim).
ReplaysAreFaithful == ~overrun /\ ~overtaken => ReplayIsFirst

\* A handler works on a claim that is no longer its own to finish.
Overdue == Working # {} /\ (row = None \/ row.age >= Ttl)

\* When handlers come to finish within Ttl, the key comes to have a response,
\* whatever claim a crash, a panic or a failed commit left behind and without
\* waiting for its purge (claim, release).
KeyIsAnswered == <>[]~Overdue => []<>(row # None /\ row.response # None)

\* Finding: a replay returns the first response.  A handler that works for longer
\* than Ttl completes a claim that was taken over and answered.
AReplayReturnsTheFirstResponse == ReplayIsFirst

\* Finding: an abandoned claim is taken over by one request.  Two that read it both
\* take it over, since the second's update does not carry the revision it read.
OneRequestTakesOver == ~overrun => \A r, s \in Working : r = s
=============================================================================
