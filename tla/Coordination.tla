---------------------------- MODULE Coordination ----------------------------
(***************************************************************************)
(* Fenced singleton leases: the lease row and the fence row kept by the    *)
(* storage provider (aseman-capsule/src/coordination.rs), the pure rules   *)
(* (aseman-domain/src/coordination.rs) and the worker loop of every        *)
(* replica (aseman-application/src/singleton.rs).                          *)
(*                                                                         *)
(* One lease name.  A provider call is one AutoCommit::decide transaction  *)
(* in three steps: read the provider's clock, read the row and decide on   *)
(* it, write and commit.  Time passes and other replicas run between any   *)
(* two of them, and while a replica is inside its work.                    *)
(*                                                                         *)
(* The write does not carry the revision the decision read.  Trx::update   *)
(* (crates/aseman-storage/src/engine.rs) finds the row again, puts the     *)
(* given fields over what it found, then reads it once more and expects    *)
(* that last revision, so only a change after the last read conflicts; an  *)
(* earlier one is overwritten, its other fields too when the row was found *)
(* before it.  These reads and the commit are one step here and a changed  *)
(* row leaves all outcomes open: the conflict (TxConflict) and the         *)
(* overwriting.  The history variable `blind` remembers which rows were    *)
(* ever overwritten so.                                                    *)
(***************************************************************************)
EXTENDS Integers

CONSTANTS
    Replicas,   \* the instances that take part in the lease
    None,       \* no instance
    Ttl,        \* lease_ttl_millis
    Margin,     \* SafetyMargin.millis
    MaxToken,   \* the last token the counter can hold (TokenOverflow beyond)
    MaxClock    \* bound: the provider's clock stops here

ASSUME NoneAssumption == None \notin Replicas
ASSUME TtlAssumption == Ttl \in Nat \ {0}
ASSUME MarginAssumption == Margin \in Nat \ {0}
ASSUME BoundAssumption == MaxToken \in Nat /\ MaxClock \in Nat

VARIABLES
    clock,  \* the provider's clock, the only time anyone decides by
    row,    \* core.coordination_lease: the lease row
    fence,  \* core.coordination_fence: the last token accepted, and by whom
    owner,  \* history: the replica each token was granted to
    pc,     \* where a replica's worker thread is
    op,     \* the provider call it is in
    held,   \* Singleton.held
    arg,    \* the lease that call was given
    txNow,  \* `now` as that call's transaction read it
    txRow,  \* the row as that call's transaction read it
    txFence,\* the fence's token as the transaction of accept read it
    blind   \* history: the rows a commit has overwritten unread

vars == <<clock, row, fence, owner, pc, op, held, arg, txNow, txRow, txFence, blind>>

Leases == [instance : Replicas \cup {None}, token : Nat, acquired : Nat, expires : Nat]

(* Tokens start at 1: the zero record is the missing row and the empty     *)
(* Option<Lease>.                                                          *)
NoLease == [instance |-> None, token |-> 0, acquired |-> 0, expires |-> 0]

Init ==
    /\ clock = 0
    /\ row = NoLease
    /\ fence = [token |-> 0, by |-> None]
    /\ owner = [t \in 1..MaxToken |-> None]
    /\ pc = [r \in Replicas |-> "idle"]
    /\ op = [r \in Replicas |-> "none"]
    /\ held = [r \in Replicas |-> NoLease]
    /\ arg = [r \in Replicas |-> NoLease]
    /\ txNow = [r \in Replicas |-> 0]
    /\ txRow = [r \in Replicas |-> NoLease]
    /\ txFence = [r \in Replicas |-> 0]
    /\ blind = {}

-----------------------------------------------------------------------------
(* The rules.                                                              *)

Deadline(lease) == lease.expires - Margin

(* standing(): Stop inside the margin, Renew once half is spent.           *)
standing(lease, now) ==
    IF now >= Deadline(lease) THEN "Stop"
    ELSE IF now >= lease.acquired + (Deadline(lease) - lease.acquired) \div 2 THEN "Renew"
    ELSE "Held"

(* Mutants are plausible slips in the operator that follows them; no       *)
(* definition uses them.  Here: the margin is taken off the incumbent's    *)
(* expiry instead of off the holder's own deadline.                        *)
Mutant_may_acquire(current, instance, now) ==
    current = NoLease \/ current.expires <= now + Margin \/ current.instance = instance

(* plan_acquisition(): who may be granted the lease.                       *)
may_acquire(current, instance, now) ==
    current = NoLease \/ current.expires <= now \/ current.instance = instance

granted(current, instance, now) ==
    [instance |-> instance, token |-> current.token + 1, acquired |-> now, expires |-> now + Ttl]

(* StorageCoordination::renew: owner, token and an unexpired row.          *)
may_renew(current, lease, now) ==
    current.instance = lease.instance /\ current.token = lease.token /\ current.expires > now

renewed(current, now) == [current EXCEPT !.expires = now + Ttl]

(* StorageCoordination::release: scoped to this holder and token; the row  *)
(* is kept, expired.                                                       *)
may_release(current, lease) ==
    current.instance = lease.instance /\ current.token = lease.token

released(current, now) ==
    [current EXCEPT !.expires = IF current.acquired > now THEN current.acquired ELSE now]

(* Mutant: the destination does not compare tokens.                        *)
Mutant_may_commit(token, lastAccepted) == TRUE

(* may_commit(): equal tokens pass, older ones do not.                     *)
may_commit(token, lastAccepted) == token >= lastAccepted

-----------------------------------------------------------------------------
(* One pass of Singleton::run.                                             *)

(* The provider's clock moves.                                             *)
Advance ==
    /\ clock < MaxClock
    /\ clock' = clock + 1
    /\ UNCHANGED <<row, fence, owner, pc, op, held, arg, txNow, txRow, txFence, blind>>

Call(r, call, lease) ==
    /\ pc' = [pc EXCEPT ![r] = "clock"]
    /\ op' = [op EXCEPT ![r] = call]
    /\ arg' = [arg EXCEPT ![r] = lease]
    /\ UNCHANGED <<clock, row, fence, owner, txNow, txRow, txFence, blind>>

(* Singleton::standing with the provider out of reach: now_millis fails.   *)
StandingUnreachable(r) ==
    /\ pc[r] = "idle"
    /\ held' = [held EXCEPT ![r] = NoLease]
    /\ UNCHANGED <<clock, row, fence, owner, pc, op, arg, txNow, txRow, txFence, blind>>

StandingAcquire(r) ==
    /\ pc[r] = "idle" /\ held[r] = NoLease
    /\ Call(r, "acquire", NoLease)
    /\ UNCHANGED held

StandingHeld(r) ==
    /\ pc[r] = "idle" /\ held[r] # NoLease
    /\ standing(held[r], clock) = "Held"
    /\ pc' = [pc EXCEPT ![r] = "working"]
    /\ UNCHANGED <<clock, row, fence, owner, op, held, arg, txNow, txRow, txFence, blind>>

StandingRenew(r) ==
    /\ pc[r] = "idle" /\ held[r] # NoLease
    /\ standing(held[r], clock) = "Renew"
    /\ Call(r, "renew", held[r])
    /\ UNCHANGED held

(* Stop gives the lease up before it tells the provider.                   *)
StandingStop(r) ==
    /\ pc[r] = "idle" /\ held[r] # NoLease
    /\ standing(held[r], clock) = "Stop"
    /\ Call(r, "release", held[r])
    /\ held' = [held EXCEPT ![r] = NoLease]

(* Singleton::resign at shutdown, after the last pass.                     *)
Resign(r) ==
    /\ pc[r] = "idle" /\ held[r] # NoLease
    /\ Call(r, "resign", held[r])
    /\ held' = [held EXCEPT ![r] = NoLease]

(* Shutdown of a replica that holds nothing: resign does not call.         *)
ResignNothing(r) ==
    /\ pc[r] = "idle" /\ held[r] = NoLease
    /\ pc' = [pc EXCEPT ![r] = "down"]
    /\ UNCHANGED <<clock, row, fence, owner, op, held, arg, txNow, txRow, txFence, blind>>

-----------------------------------------------------------------------------
(* AutoCommit::decide around acquire, renew and release.                   *)

TxNow(r) ==
    /\ pc[r] = "clock"
    /\ pc' = [pc EXCEPT ![r] = "read"]
    /\ txNow' = [txNow EXCEPT ![r] = clock]
    /\ UNCHANGED <<clock, row, fence, owner, op, held, arg, txRow, txFence, blind>>

TxRead(r) ==
    /\ pc[r] = "read"
    /\ pc' = [pc EXCEPT ![r] = "commit"]
    /\ txRow' = [txRow EXCEPT ![r] = row]
    /\ UNCHANGED <<clock, row, fence, owner, op, held, arg, txNow, txFence, blind>>

(* Rows are compared by value where the provider compares revisions; two   *)
(* writes that leave the same row leave the same decision.                 *)
RowAsRead(r) == row = txRow[r]

(* A commit another writer won: the operation reads and decides again.     *)
TxConflict(r) ==
    /\ pc[r] = "commit" /\ ~RowAsRead(r)
    /\ pc' = [pc EXCEPT ![r] = "clock"]
    /\ UNCHANGED <<clock, row, fence, owner, op, held, arg, txNow, txRow, txFence, blind>>

(* Trx::update writes whatever the row has become since the decision.      *)
UpdateRow(r) == blind' = IF RowAsRead(r) THEN blind ELSE blind \cup {"lease"}

(* The fields are put over the row as it is, or as it was.                 *)
Found(r) == {row, txRow[r]}

(* Trx::create refuses a row that has come into being since.               *)
CreateRow(r) == row = NoLease /\ UNCHANGED blind

(* Mutant: the counter is found full one token early.                      *)
Mutant_Overflows(r) == txRow[r].token >= MaxToken - 1

Overflows(r) == txRow[r].token >= MaxToken

(* What each call writes: acquire every field, from the row it read; renew *)
(* and release the expiry alone, over the row as it was found.             *)
AcquireWrites(r) ==
    /\ op[r] = "acquire"
    /\ may_acquire(txRow[r], r, txNow[r]) /\ ~Overflows(r)
    /\ IF txRow[r] = NoLease THEN CreateRow(r) ELSE UpdateRow(r)
    /\ row' = granted(txRow[r], r, txNow[r])
    /\ owner' = [owner EXCEPT ![row'.token] = r]

RenewWrites(r) ==
    /\ op[r] = "renew"
    /\ may_renew(txRow[r], arg[r], txNow[r])
    /\ UpdateRow(r)
    /\ \E found \in Found(r) : row' = renewed(found, txNow[r])
    /\ UNCHANGED owner

ReleaseWrites(r) ==
    /\ op[r] \in {"release", "resign"}
    /\ may_release(txRow[r], arg[r])
    /\ UpdateRow(r)
    /\ \E found \in Found(r) :
         row' = [found EXCEPT !.expires = released(txRow[r], txNow[r]).expires]
    /\ UNCHANGED owner

(* The call is over: back to the loop, or out of it after resign.          *)
Return(r) ==
    /\ pc' = [pc EXCEPT ![r] = IF op[r] = "resign" THEN "down" ELSE "idle"]
    /\ op' = [op EXCEPT ![r] = "none"]
    /\ arg' = [arg EXCEPT ![r] = NoLease]
    /\ txNow' = [txNow EXCEPT ![r] = 0]
    /\ txRow' = [txRow EXCEPT ![r] = NoLease]
    /\ UNCHANGED <<clock, fence, txFence>>

(* The pass goes on to the work under a lease just granted or renewed.     *)
Work(r, lease) ==
    /\ pc' = [pc EXCEPT ![r] = "working"]
    /\ op' = [op EXCEPT ![r] = "none"]
    /\ arg' = [arg EXCEPT ![r] = NoLease]
    /\ txNow' = [txNow EXCEPT ![r] = 0]
    /\ txRow' = [txRow EXCEPT ![r] = NoLease]
    /\ held' = [held EXCEPT ![r] = lease]
    /\ UNCHANGED <<clock, fence, txFence>>

AcquireGranted(r) ==
    /\ pc[r] = "commit"
    /\ AcquireWrites(r)
    /\ Work(r, granted(txRow[r], r, txNow[r]))

(* Nothing is written: the holder keeps its row and its expiry.            *)
AcquireStandby(r) ==
    /\ pc[r] = "commit" /\ op[r] = "acquire"
    /\ ~may_acquire(txRow[r], r, txNow[r])
    /\ Return(r)
    /\ UNCHANGED <<row, owner, held, blind>>

(* The lease the caller goes on with is the row as it was written.         *)
RenewGranted(r) ==
    /\ pc[r] = "commit"
    /\ RenewWrites(r)
    /\ Work(r, row')

(* Taken over or expired: stop this pass, without doing the work.          *)
RenewRefused(r) ==
    /\ pc[r] = "commit" /\ op[r] = "renew"
    /\ ~may_renew(txRow[r], arg[r], txNow[r])
    /\ Return(r)
    /\ held' = [held EXCEPT ![r] = NoLease]
    /\ UNCHANGED <<row, owner, blind>>

ReleaseDone(r) ==
    /\ pc[r] = "commit"
    /\ ReleaseWrites(r)
    /\ Return(r)
    /\ UNCHANGED held

(* The lease is somebody else's by now: its claim is not disturbed.        *)
ReleaseNothing(r) ==
    /\ pc[r] = "commit" /\ op[r] \in {"release", "resign"}
    /\ ~may_release(txRow[r], arg[r])
    /\ Return(r)
    /\ UNCHANGED <<row, owner, held, blind>>

(* What the caller does with an error: a release is best effort, acquire   *)
(* and renew return it with held as it is.                                 *)
Fail(r) ==
    /\ Return(r)
    /\ UNCHANGED held

(* The call fails with nothing written: the provider is unreachable, the   *)
(* contention outlasted MAX_CAS_ATTEMPTS, or the token counter is full.    *)
TxFail(r) ==
    /\ pc[r] \in {"clock", "read", "commit"}
    /\ Fail(r)
    /\ UNCHANGED <<row, owner, blind>>

(* The commit lands but its answer is lost: the caller sees an error.      *)
TxLost(r) ==
    /\ pc[r] = "commit"
    /\ AcquireWrites(r) \/ RenewWrites(r) \/ ReleaseWrites(r)
    /\ Fail(r)

-----------------------------------------------------------------------------
(* The work.                                                               *)

(* FencedDestination::accept guarding one effect of the work: the fence is *)
(* read and compared ...                                                   *)
AcceptRead(r) ==
    /\ pc[r] = "working"
    /\ may_commit(held[r].token, fence.token)
    /\ pc' = [pc EXCEPT ![r] = "accepting"]
    /\ txFence' = [txFence EXCEPT ![r] = fence.token]
    /\ UNCHANGED <<clock, row, fence, owner, op, held, arg, txNow, txRow, blind>>

Accepted(r) ==
    /\ pc[r] = "accepting"
    /\ pc' = [pc EXCEPT ![r] = "working"]
    /\ txFence' = [txFence EXCEPT ![r] = 0]
    /\ UNCHANGED <<clock, row, owner, op, held, arg, txNow, txRow>>

(* ... then written, over a fence that may have moved; the first write is  *)
(* a create and does not find one.                                         *)
Accept(r) ==
    /\ Accepted(r)
    /\ txFence[r] = 0 => fence.token = 0
    /\ fence' = [token |-> held[r].token, by |-> r]
    /\ blind' = IF fence.token = txFence[r] THEN blind ELSE blind \cup {"fence"}

(* A conflict, or an error: the work may ask again.                        *)
AcceptFails(r) ==
    /\ Accepted(r)
    /\ UNCHANGED <<fence, blind>>

(* The work returns; its own errors do not lose the lease.                 *)
WorkDone(r) ==
    /\ pc[r] = "working"
    /\ pc' = [pc EXCEPT ![r] = "idle"]
    /\ UNCHANGED <<clock, row, fence, owner, op, held, arg, txNow, txRow, txFence, blind>>

(* The process dies anywhere; a restarted one is a new Singleton under the *)
(* same instance name.                                                     *)
Crash(r) ==
    /\ pc[r] # "down"
    /\ pc' = [pc EXCEPT ![r] = "down"]
    /\ op' = [op EXCEPT ![r] = "none"]
    /\ held' = [held EXCEPT ![r] = NoLease]
    /\ arg' = [arg EXCEPT ![r] = NoLease]
    /\ txNow' = [txNow EXCEPT ![r] = 0]
    /\ txRow' = [txRow EXCEPT ![r] = NoLease]
    /\ txFence' = [txFence EXCEPT ![r] = 0]
    /\ UNCHANGED <<clock, row, fence, owner, blind>>

Restart(r) ==
    /\ pc[r] = "down"
    /\ pc' = [pc EXCEPT ![r] = "idle"]
    /\ UNCHANGED <<clock, row, fence, owner, op, held, arg, txNow, txRow, txFence, blind>>

-----------------------------------------------------------------------------
Standing(r) ==
    StandingAcquire(r) \/ StandingHeld(r) \/ StandingRenew(r) \/ StandingStop(r)

Transaction(r) ==
    \/ TxNow(r) \/ TxRead(r) \/ TxConflict(r)
    \/ AcquireGranted(r) \/ AcquireStandby(r)
    \/ RenewGranted(r) \/ RenewRefused(r)
    \/ ReleaseDone(r) \/ ReleaseNothing(r)

Faults(r) ==
    StandingUnreachable(r) \/ TxFail(r) \/ TxLost(r) \/ Crash(r) \/ Restart(r)

Step(r) ==
    \/ Standing(r) \/ Transaction(r) \/ Faults(r)
    \/ Resign(r) \/ ResignNothing(r) \/ WorkDone(r)
    \/ AcceptRead(r) \/ Accept(r) \/ AcceptFails(r)

Next == Advance \/ \E r \in Replicas : Step(r)

Spec == Init /\ [][Next]_vars

(* The clock runs and every replica's worker thread keeps looping; a dead  *)
(* process is restarted.  Provider errors, crashes and shutdowns may be    *)
(* many but stop at some time.                                             *)
Progress(r) ==
    Standing(r) \/ Transaction(r) \/ Accept(r) \/ AcceptFails(r) \/ WorkDone(r) \/ Restart(r)

Disturbance(r) ==
    StandingUnreachable(r) \/ TxFail(r) \/ TxLost(r) \/ Crash(r) \/ Resign(r) \/ ResignNothing(r)

Fairness ==
    /\ WF_vars(Advance)
    /\ \A r \in Replicas : WF_vars(Progress(r))
    /\ <>[][\A r \in Replicas : ~Disturbance(r)]_vars

FairSpec == Spec /\ Fairness

-----------------------------------------------------------------------------
(* Properties.                                                             *)

OwnerOK == owner \in [1..MaxToken -> Replicas \cup {None}]

TypeOK ==
    /\ clock \in Nat
    /\ row \in Leases
    /\ fence \in [token : Nat, by : Replicas \cup {None}]
    /\ OwnerOK
    /\ pc \in [Replicas -> {"idle", "clock", "read", "commit", "working", "accepting", "down"}]
    /\ op \in [Replicas -> {"none", "acquire", "renew", "release", "resign"}]
    /\ held \in [Replicas -> Leases]
    /\ arg \in [Replicas -> Leases]
    /\ txNow \in [Replicas -> Nat]
    /\ txRow \in [Replicas -> Leases]
    /\ txFence \in [Replicas -> Nat]
    /\ blind \subseteq {"lease", "fence"}

(* A lease a replica believes in and that the provider's clock has not yet *)
(* expired is the lease in the row: whatever errors, lost answers, crashes *)
(* and races came before, no second replica has been let in                *)
(* (plan_acquisition's "taking over early is exactly the double-execution  *)
(* this module prevents"), unless the lease row was overwritten unread.    *)
UnexpiredLeaseIsCurrent ==
    "lease" \notin blind =>
        \A r \in Replicas :
            held[r] # NoLease /\ clock < held[r].expires =>
                row.instance = r /\ row.token = held[r].token

(* No two replicas ever hold the same fencing token, expired or not: "of   *)
(* two replicas racing for a lease exactly one commits and the other       *)
(* decides again on what it wrote" (coordination.rs).  It holds while the  *)
(* lease row is not overwritten unread and fails once it is.               *)
TokensAreNotShared ==
    \A r, s \in Replicas :
        held[r] # NoLease /\ held[s] # NoLease /\ held[r].token = held[s].token => r = s

(* The destination accepts effects in token order unless the fence itself  *)
(* was overwritten unread, and all effects of one token come from one      *)
(* replica unless the lease row was: once a newer holder has committed, a  *)
(* paused older one never commits behind it (FencedDestination::accept).   *)
EffectsInTokenOrder ==
    [][fence' # fence =>
         \/ fence'.token > fence.token
         \/ fence'.token = fence.token /\ (fence'.by = fence.by \/ "lease" \in blind)
         \/ "fence" \in blind']_vars

(* What a lease is to its users: terms that follow each other, each with   *)
(* one owner, a time by which it ends, and effects in the order of terms.  *)
Abstract == INSTANCE FencedLease WITH term <- row.token, until <- row.expires

(* The transactions of acquire, renew and release, however their reads     *)
(* interleave with other replicas and the clock and whatever becomes of    *)
(* their answers, and the fence of accept come to one step each of         *)
(* FencedLease, up to the first row overwritten unread.                    *)
ImplementsFencedLease ==
    Abstract!Init /\ [][Abstract!Next \/ blind' # {}]_(Abstract!vars)

(* A lease nobody holds any more (its holder crashed, gave it up, or never *)
(* heard that it was granted) is granted again, to whoever comes first,    *)
(* unless the row was overwritten unread before.  The bounds stand for a   *)
(* clock and a counter that have not run out.                              *)
Abandoned(t) ==
    /\ row.token = t /\ t < MaxToken
    /\ row.expires <= MaxClock
    /\ \A r \in Replicas : held[r].token # t

AbandonedLeaseIsTaken ==
    \A t \in 1..MaxToken : Abandoned(t) ~> (row.token > t \/ "lease" \in blind)

(* The SafetyMargin's documented promise: a holder that stops this early   *)
(* "can never still be working when the provider hands the lease on".      *)
OneWorkerAtATime ==
    \A r, s \in Replicas : pc[r] = "working" /\ pc[s] = "working" => r = s
=============================================================================
