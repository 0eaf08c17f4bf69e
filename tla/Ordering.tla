------------------------------ MODULE Ordering ------------------------------
(***************************************************************************)
(* Ordering of the finance journal: the hashgraph consensus provider       *)
(* (modules/consensus/hashgraph/src/provider.rs) on every validator of a   *)
(* mesh, and the hand-over check an operator runs against one of them      *)
(* (crates/aseman-application/src/consensus.rs).                            *)
(*                                                                         *)
(* A record is accepted by one validator, waits in its transaction pool,   *)
(* is put into an event of that validator, and is ordered when a round     *)
(* that received the event is decided.  What the hashgraph decides is kept *)
(* abstract: it is the sequence of blocks every validator computes, each   *)
(* in its own time.  What the provider makes of these blocks is modelled   *)
(* in full: a record may reach the order more than once, from several      *)
(* validators or from one that lost its memory, and every validator must   *)
(* still finalize it once, at the same place.                              *)
(*                                                                         *)
(* The digest of a record is computed from its key alone (journal_digest), *)
(* so two records with one key never differ and the refusals of a key with *)
(* another digest are out of reach.  So are the failures of submit_tx: the *)
(* proxy keeps the receiving end of its own channel.                       *)
(***************************************************************************)
EXTENDS Naturals, Sequences, FiniteSets

CONSTANTS
    Nodes,        \* the validators
    Asked,        \* the validators whose readiness an operator checks
    Records,      \* idempotency keys of finance journal records
    MaxRestarts,  \* bound on the restarts
    MaxChecks,    \* bound on the hand-over checks
    None          \* no validator

ASSUME MeshAssumption == None \notin Nodes /\ Asked \subseteq Nodes

ASSUME BoundsAssumption == MaxRestarts \in Nat /\ MaxChecks \in Nat

VARIABLES
    pending,    \* ProviderState::pending of each validator
    finalized,  \* ProviderState::finalized of each validator
    pool,       \* its submit channel and transaction_pool
    events,     \* its events with transactions that no block holds yet
    blocks,     \* the blocks of the decided rounds
    committed,  \* how many of them each validator has committed
    fresh,      \* validators that restarted and have not synced since
    check,      \* the hand-over check in progress
    restarts,   \* restarts so far
    checks      \* hand-over checks so far

vars == <<pending, finalized, pool, events, blocks, committed, fresh, check,
          restarts, checks>>

-----------------------------------------------------------------------------
(* Records and their order *)

\* Finalized: a record's key and its place.
Place == [key : Records, epoch : Nat, position : Nat]

Keys(places) == {f.key : f \in places}

\* ProviderState::epoch: the last epoch that finalized a record, 0 for none.
Epoch(places) ==
    IF places = {} THEN 0
    ELSE CHOOSE e \in {f.epoch : f \in places} : \A f \in places : f.epoch <= e

NoCheck == [phase |-> "idle", node |-> None, epoch |-> 0, pending |-> 0,
            accepted |-> {}, checkpoint |-> {}]

Init ==
    /\ pending = [n \in Nodes |-> {}]
    /\ finalized = [n \in Nodes |-> {}]
    /\ pool = [n \in Nodes |-> <<>>]
    /\ events = [n \in Nodes |-> <<>>]
    /\ blocks = <<>>
    /\ committed = [n \in Nodes |-> 0]
    /\ fresh = {}
    /\ check = NoCheck
    /\ restarts = 0
    /\ checks = 0

-----------------------------------------------------------------------------
(* Submission *)

\* submit of a record that is neither finalized nor pending here.
Submit(n, k) ==
    /\ k \notin Keys(finalized[n])
    /\ k \notin pending[n]
    /\ pending' = [pending EXCEPT ![n] = @ \cup {k}]
    /\ pool' = [pool EXCEPT ![n] = Append(@, k)]
    /\ UNCHANGED <<finalized, events, blocks, committed, fresh, check, restarts, checks>>

\* submit of a record that is finalized or pending here: nothing changes.
Repeat(n, k) ==
    /\ k \in Keys(finalized[n]) \cup pending[n]
    /\ UNCHANGED vars

\* A record_heads that makes an event only to acknowledge another validator's.
Mutant_AddSelfEvent(n) ==
    /\ n \notin fresh
    /\ pool[n] # <<>>
    /\ \E m \in Nodes \ {n} : events[m] # <<>>
    /\ events' = [events EXCEPT ![n] = Append(@, pool[n])]
    /\ pool' = [pool EXCEPT ![n] = <<>>]
    /\ UNCHANGED <<pending, finalized, blocks, committed, fresh, check, restarts, checks>>

\* add_self_event: the whole pool goes into one event.  A validator that has
\* nothing but its genesis syncs before it makes an event of its own.
AddSelfEvent(n) ==
    /\ n \notin fresh
    /\ pool[n] # <<>>
    /\ events' = [events EXCEPT ![n] = Append(@, pool[n])]
    /\ pool' = [pool EXCEPT ![n] = <<>>]
    /\ UNCHANGED <<pending, finalized, blocks, committed, fresh, check, restarts, checks>>

-----------------------------------------------------------------------------
(* The hashgraph *)

\* process_decided_rounds: the events a decided round received become the next
\* block, those of one validator in their order.  At most two go into a block.
DecideRound ==
    \E n \in Nodes :
        /\ events[n] # <<>>
        /\ \/ /\ blocks' = Append(blocks, Head(events[n]))
              /\ events' = [events EXCEPT ![n] = Tail(@)]
           \/ \E m \in Nodes \ {n} :
                /\ events[m] # <<>>
                /\ blocks' = Append(blocks, Head(events[n]) \o Head(events[m]))
                /\ events' = [events EXCEPT ![n] = Tail(@), ![m] = Tail(@)]
    /\ UNCHANGED <<pending, finalized, pool, committed, fresh, check, restarts, checks>>

-----------------------------------------------------------------------------
(* Finalization *)

\* A commit handler that looks for an earlier copy in the block only.
Mutant_NewPlaces(n, e) ==
    {[key |-> blocks[e][i], epoch |-> e, position |-> i - 1] :
        i \in {i \in DOMAIN blocks[e] : \A j \in 1..(i - 1) : blocks[e][j] # blocks[e][i]}}

\* What commit_handler finalizes of block e: the records not finalized by an
\* earlier block or earlier in this one, at their position in the block.
NewPlaces(n, e) ==
    {[key |-> blocks[e][i], epoch |-> e, position |-> i - 1] :
        i \in {i \in DOMAIN blocks[e] :
                /\ blocks[e][i] \notin Keys(finalized[n])
                /\ \A j \in 1..(i - 1) : blocks[e][j] # blocks[e][i]}}

\* The transactions of a block.
Transactions(e) == {blocks[e][i] : i \in 1..Len(blocks[e])}

\* commit_handler, under the provider's lock for the whole block.
Commit(n) ==
    LET e == committed[n] + 1
    IN  /\ n \notin fresh
        /\ e <= Len(blocks)
        /\ finalized' = [finalized EXCEPT ![n] = @ \cup NewPlaces(n, e)]
        /\ pending' = [pending EXCEPT ![n] = @ \ Transactions(e)]
        /\ committed' = [committed EXCEPT ![n] = e]
        /\ UNCHANGED <<pool, events, blocks, fresh, check, restarts, checks>>

-----------------------------------------------------------------------------
(* Restarts *)

\* A validator restarts from genesis: its log is set aside, its memory is gone,
\* and so are its events that no peer has.  A check that was asking it ends with
\* it.  Another validator keeps the order.
Restart(n) ==
    /\ restarts < MaxRestarts
    /\ fresh \cup {n} # Nodes
    /\ pending' = [pending EXCEPT ![n] = {}]
    /\ finalized' = [finalized EXCEPT ![n] = {}]
    /\ pool' = [pool EXCEPT ![n] = <<>>]
    /\ \E kept \in 0..Len(events[n]) :
          events' = [events EXCEPT ![n] = SubSeq(@, 1, kept)]
    /\ committed' = [committed EXCEPT ![n] = 0]
    /\ fresh' = fresh \cup {n}
    /\ check' = IF check.node = n /\ check.phase # "switch" THEN NoCheck ELSE check
    /\ restarts' = restarts + 1
    /\ UNCHANGED <<blocks, checks>>

\* sync: a peer sends the events the validator does not know, its own included.
Sync(n) ==
    /\ n \in fresh
    /\ fresh' = fresh \ {n}
    /\ UNCHANGED <<pending, finalized, pool, events, blocks, committed, check,
                   restarts, checks>>

-----------------------------------------------------------------------------
(* The hand-over check *)

\* FinanceConsensusStatus::finalized_epoch, on the validator the operator asks.
ReadEpoch(n) ==
    /\ check.phase = "idle"
    /\ checks < MaxChecks
    /\ check' = [NoCheck EXCEPT !.phase = "epoch", !.node = n,
                                !.epoch = Epoch(finalized[n])]
    /\ checks' = checks + 1
    /\ UNCHANGED <<pending, finalized, pool, events, blocks, committed, fresh, restarts>>

\* CheckHandoverReadiness::execute, its first call of the provider.  accepted
\* notes which records the validator has answered for by then.
ReadPending ==
    /\ check.phase = "epoch"
    /\ LET n == check.node
       IN  check' = [check EXCEPT
                       !.phase = "pending",
                       !.pending = Cardinality(pending[n]),
                       !.accepted = pending[n] \cup Keys(finalized[n])]
    /\ UNCHANGED <<pending, finalized, pool, events, blocks, committed, fresh,
                   restarts, checks>>

\* may_switch that does not compare the epochs.
Mutant_MaySwitch(places) == check.pending = 0

\* may_switch, given the checkpoint over these places.
MaySwitch(places) ==
    /\ Epoch(places) = check.epoch
    /\ check.pending = 0

\* Its second call, and may_switch on what the calls returned: the operator
\* switches or starts over.  The digest of a checkpoint stands for the records
\* it is over.
TakeCheckpoint ==
    /\ check.phase = "pending"
    /\ LET places == finalized[check.node]
       IN  check' = IF MaySwitch(places)
                    THEN [check EXCEPT !.phase = "switch", !.checkpoint = places]
                    ELSE NoCheck
    /\ UNCHANGED <<pending, finalized, pool, events, blocks, committed, fresh,
                   restarts, checks>>

-----------------------------------------------------------------------------
Next ==
    \/ \E n \in Nodes, k \in Records : Submit(n, k) \/ Repeat(n, k)
    \/ \E n \in Nodes : AddSelfEvent(n) \/ Commit(n) \/ Restart(n) \/ Sync(n)
    \/ \E n \in Asked : ReadEpoch(n)
    \/ DecideRound \/ ReadPending \/ TakeCheckpoint

Spec == Init /\ [][Next]_vars

\* The validators gossip on a timer, and blocks are committed as they come out.
Fairness ==
    /\ \A n \in Nodes : WF_vars(AddSelfEvent(n)) /\ WF_vars(Commit(n)) /\ WF_vars(Sync(n))
    /\ WF_vars(DecideRound)

FairSpec == Spec /\ Fairness

-----------------------------------------------------------------------------
(* Properties *)

\* The type of the check: what was read is kept while it goes on, and only then.
CheckOK ==
    \/ check = NoCheck
    \/ check \in [phase : {"epoch", "pending", "switch"}, node : Nodes,
                   epoch : Nat, pending : Nat, accepted : SUBSET Records,
                   checkpoint : SUBSET Place]

\* Types of the provider's state; some validator has not lost its memory.
TypeOK ==
    /\ pending \in [Nodes -> SUBSET Records]
    /\ finalized \in [Nodes -> SUBSET Place]
    /\ pool \in [Nodes -> Seq(Records)]
    /\ events \in [Nodes -> Seq(Seq(Records))]
    /\ blocks \in Seq(Seq(Records))
    /\ committed \in [Nodes -> 0..Len(blocks)]
    /\ fresh \in SUBSET Nodes
    /\ CheckOK
    /\ restarts \in 0..MaxRestarts
    /\ checks \in 0..MaxChecks

\* Transaction i of block e has no copy before it.
ComesFirst(e, i) ==
    \A d \in 1..e : \A j \in DOMAIN blocks[d] :
        blocks[d][j] = blocks[e][i] => d = e /\ i <= j

\* The order the first e blocks make: every record once, where it comes first.
Order(e) ==
    UNION {{[key |-> blocks[d][i], epoch |-> d, position |-> i - 1] :
                i \in {i \in DOMAIN blocks[d] : ComesFirst(d, i)}} : d \in 1..e}

\* What a validator has finalized is the one order of the blocks it committed
\* (commit_handler): validators agree on every record's place, though a record
\* may come several times, from several validators, and after a restart.
FinalizedIsTheOrder == \A n \in Nodes : finalized[n] = Order(committed[n])

\* Whether k is in the sequence s, or in one of the sequences of s.
In(s, k) == \E i \in DOMAIN s : s[i] = k
Holds(s, k) == \E i \in DOMAIN s : In(s[i], k)

\* Validator n still has record k in its pool, an event or a block to commit.
OnItsWay(n, k) ==
    \/ In(pool[n], k)
    \/ Holds(events[n], k)
    \/ \E e \in (committed[n] + 1)..Len(blocks) : In(blocks[e], k)

\* A record a validator counts as pending (submit) is not finalized there and
\* is really on its way: in the pool, in an event or in a block to commit.
PendingIsInFlight ==
    \A n \in Nodes : \A k \in pending[n] : k \notin Keys(finalized[n]) /\ OnItsWay(n, k)

\* A switch that was allowed (may_switch) hands over the whole order up to the
\* outgoing epoch, and with it every record the validator had accepted when its
\* pending records were counted, though the three reads are not one step.
SwitchInheritsTheOrder ==
    check.phase = "switch" =>
        /\ check.checkpoint = Order(check.epoch)
        /\ check.accepted \subseteq Keys(check.checkpoint)

\* Every record a validator accepts (submit) is finalized there in the end, or
\* lost with the validator's memory: when no more records come, the pending
\* count of every validator comes down to 0 and a hand-over is possible.
PendingDrains == []<>(\A n \in Nodes : pending[n] = {})
=============================================================================
