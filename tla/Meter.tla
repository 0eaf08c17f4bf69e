-------------------------------- MODULE Meter --------------------------------
(***************************************************************************)
(* Metering and settlement: aseman-meter's loop                            *)
(* (crates/aseman-application/src/meter.rs, apps/aseman-meter) over the    *)
(* stores of crates/aseman-capsule/src/metering.rs and the rules of        *)
(* crates/aseman-domain/src/finance.rs.                                    *)
(*                                                                         *)
(* One pass reads the usage of every workload, stores it as a sample,      *)
(* derives the interval since the sample before it, and then prices the    *)
(* oldest intervals without a journal record and commits their records.    *)
(* Every call of a store is a transaction of its own, so the process can   *)
(* end between any two of them; an error ends it too, and its supervisor   *)
(* starts it again.                                                        *)
(*                                                                         *)
(* Of the dimensions the model keeps one that is billable.  A list that    *)
(* does not name it has the rate 0, which validate refuses as a rate.      *)
(* The entries of a record are the amount taken from the wallet of the     *)
(* creature and the same amount given to the revenue account: they balance *)
(* as they are built.  Amounts are far from the width of u64.              *)
(***************************************************************************)
EXTENDS Integers, FiniteSets, Functions

CONSTANTS
    Workloads,  \* what the VMM lists for the meter
    Nomad,      \* those the Nomad backend runs; the native backend runs the others
    Versions,   \* versions of price lists, ordered as their keys are
    Rates,      \* rates a list may name, scaled by Scale
    Effective,  \* instants a list may take effect
    Scale,      \* PRICE_SCALE
    Batch,      \* settlement_batch
    None,       \* no sample
    MaxClock,   \* bound on the clock
    MaxUse,     \* bound on what one workload consumes
    MaxFaults   \* bound on the ends of the process and of backend instances

ASSUME MeterAssumption ==
    /\ Nomad \subseteq Workloads
    /\ IsFiniteSet(Workloads)
    /\ Versions \subseteq Nat
    /\ Rates \subseteq Nat \ {0}
    /\ Effective \subseteq Nat
    /\ {Scale, Batch} \subseteq Nat \ {0}
    /\ {MaxClock, MaxUse, MaxFaults} \subseteq Nat

VARIABLES
    clock,      \* the clock of the backends' host
    usage,      \* what the backend counts of each workload
    used,       \* what each workload really consumed
    samples,    \* core.usage_sample
    intervals,  \* core.usage_interval
    prices,     \* core.price_list
    journal,    \* core.journal_record
    pc,         \* where the pass is, "down" when the process ended
    todo,       \* workloads the pass has still to collect
    sample,     \* the sample of the workload being collected
    previous,   \* the sample before it
    lists,      \* the price lists the pass read
    batch,      \* the intervals it has still to settle
    faults      \* how much of MaxFaults is used

backend == <<clock, usage, used>>
stores == <<samples, intervals, prices, journal>>
pass == <<pc, todo, sample, previous, lists, batch>>
vars == <<clock, usage, used, samples, intervals, prices, journal, pc, todo,
          sample, previous, lists, batch, faults>>

-----------------------------------------------------------------------------
(* Records *)

Usages == [at : Nat, seq : Nat, cpu : Nat]

\* UsageSample: at and seq are the provider_sample_id, unique per workload.
Samples == [workload : Workloads, at : Nat, seq : Nat, cpu : Nat]

\* UsageInterval: all but the delta are the settlement_key.
Intervals == [workload : Workloads, start : Nat, end : Nat, seq : Nat, delta : Nat]

\* PriceList
Lists == [version : Versions, from : Effective, rate : Rates \cup {0}]

\* JournalRecord of a settlement, with the interval whose key it carries.
Records == [interval : Intervals, version : Versions, amount : Nat]

NoUsage == [at |-> 0, seq |-> 0, cpu |-> 0]

SettlementKey(i) == <<i.workload, i.start, i.end, i.seq>>

Init ==
    /\ clock = 1
    /\ usage = [w \in Workloads |-> NoUsage]
    /\ used = [w \in Workloads |-> 0]
    /\ samples = {} /\ intervals = {} /\ prices = {} /\ journal = {}
    /\ pc = "idle" /\ todo = {} /\ sample = None /\ previous = None
    /\ lists = {} /\ batch = {}
    /\ faults = 0

-----------------------------------------------------------------------------
(* The rules of aseman-domain *)

\* interval_between: a counter that went backwards was reset.
Delta(before, now) == IF now >= before THEN now - before ELSE now

interval_between(p, s) ==
    [workload |-> s.workload, start |-> p.at, end |-> s.at, seq |-> s.seq,
     delta |-> Delta(p.cpu, s.cpu)]

\* price_list_at: the newest list that had taken effect, by key among equals.
InForce(ls, at) ==
    {l \in ls : /\ l.from <= at
                /\ \A m \in ls : m.from <= at =>
                       m.from < l.from \/ (m.from = l.from /\ m.version <= l.version)}

\* price succeeds: the list names the dimension if any of it was used.
Priceable(i, l) == i.delta = 0 \/ l.rate > 0

\* price: rounded up.
price(i, l) == (i.delta * l.rate + Scale - 1) \div Scale

\* settle
settle(i, l) == [interval |-> i, version |-> l.version, amount |-> price(i, l)]

Settled(i) == \E r \in journal : SettlementKey(r.interval) = SettlementKey(i)

-----------------------------------------------------------------------------
(* The backends *)

Fault == faults < MaxFaults /\ faults' = faults + 1

Tick ==
    /\ clock < MaxClock
    /\ clock' = clock + 1
    /\ UNCHANGED <<usage, used, stores, pass, faults>>

\* invoke of the native backend stamps what it counts with the time it ended.
\* Nomad stamps a reading when it is taken.
Counted(w) ==
    IF w \in Nomad THEN [usage[w] EXCEPT !.cpu = @ + 1]
    ELSE [at |-> clock, seq |-> usage[w].seq + 1, cpu |-> usage[w].cpu + 1]

Consume(w) ==
    /\ used[w] < MaxUse
    /\ used' = [used EXCEPT ![w] = @ + 1]
    /\ usage' = [usage EXCEPT ![w] = Counted(w)]
    /\ UNCHANGED <<clock, stores, pass, faults>>

\* A restarted backend or instance counts from zero.
Reset(w) ==
    /\ Fault
    /\ usage[w] # NoUsage
    /\ usage' = [usage EXCEPT ![w] = NoUsage]
    /\ UNCHANGED <<clock, used, stores, pass>>

\* What usage() can answer.  The native backend answers what it holds.  Nomad
\* answers the time and the counter, or zero when there is no allocation or its
\* client cannot be reached.  Its sequence is left out: the time tells two of its
\* readings apart.
Readings(w) ==
    IF w \in Nomad THEN {[at |-> clock, seq |-> 0, cpu |-> c] : c \in {usage[w].cpu, 0}}
    ELSE {usage[w]}

-----------------------------------------------------------------------------
(* RunMeterPass::execute: collection *)

Begin ==
    /\ pc = "idle"
    /\ pc' = "collect"
    /\ todo' = Workloads
    /\ UNCHANGED <<backend, stores, sample, previous, lists, batch, faults>>

\* usage() and usage_sample
Read(w) ==
    /\ pc = "collect" /\ w \in todo
    /\ todo' = todo \ {w}
    /\ \E u \in Readings(w) :
          sample' = [workload |-> w, at |-> u.at, seq |-> u.seq, cpu |-> u.cpu]
    /\ pc' = "previous"
    /\ UNCHANGED <<backend, stores, previous, lists, batch, faults>>

\* previous_sample: one of the newest before the reading's time.
Before(s) == {p \in samples : p.workload = s.workload /\ p.at < s.at}

\* Mutants are plausible slips in the operator that follows them; no definition
\* uses them.  The order of the query is ascending.
Mutant_Newest(ps) == {p \in ps : \A q \in ps : p.at <= q.at}

Newest(ps) == {p \in ps : \A q \in ps : q.at <= p.at}

PreviousSample ==
    /\ pc = "previous"
    /\ IF Before(sample) = {} THEN previous' = None
       ELSE previous' \in Newest(Before(sample))
    /\ pc' = "sample"
    /\ UNCHANGED <<backend, stores, todo, sample, lists, batch, faults>>

Recorded(s) ==
    \E r \in samples : r.workload = s.workload /\ r.at = s.at /\ r.seq = s.seq

\* record_sample refuses a repeated reading, which the pass then leaves.
SampleConflict ==
    /\ pc = "sample"
    /\ Recorded(sample)
    /\ pc' = "collect"
    /\ UNCHANGED <<backend, stores, todo, sample, previous, lists, batch, faults>>

RecordSample ==
    /\ pc = "sample"
    /\ ~Recorded(sample)
    /\ samples' = samples \cup {sample}
    /\ pc' = IF previous = None THEN "collect" ELSE "interval"
    /\ UNCHANGED <<backend, intervals, prices, journal, todo, sample, previous,
                   lists, batch, faults>>

\* record_interval leaves an interval with the same key alone.
RecordInterval ==
    /\ pc = "interval"
    /\ LET i == interval_between(previous, sample)
       IN  intervals' =
               IF \E j \in intervals : SettlementKey(j) = SettlementKey(i)
               THEN intervals ELSE intervals \cup {i}
    /\ pc' = "collect"
    /\ UNCHANGED <<backend, samples, prices, journal, todo, sample, previous,
                   lists, batch, faults>>

-----------------------------------------------------------------------------
(* RunMeterPass::execute: settlement *)

\* The last page is collected: the lists are read once for the pass.
PriceLists ==
    /\ pc = "collect" /\ todo = {}
    /\ lists' = prices
    /\ pc' = "unsettled"
    /\ UNCHANGED <<backend, stores, todo, sample, previous, batch, faults>>

\* The limit is tested before the interval is added.
Mutant_Oldest(is) ==
    {b \in SUBSET is :
        /\ Cardinality(b) < Batch
        /\ Cardinality(b) = Batch - 1 \/ b = is
        /\ \A i \in b, j \in is \ b : i.start <= j.start}

\* unsettled: the oldest ones up to the batch.
Oldest(is) ==
    {b \in SUBSET is :
        /\ Cardinality(b) <= Batch
        /\ Cardinality(b) = Batch \/ b = is
        /\ \A i \in b, j \in is \ b : i.start <= j.start}

Unsettled ==
    /\ pc = "unsettled"
    /\ batch' \in Oldest({i \in intervals : ~Settled(i)})
    /\ pc' = "settle"
    /\ UNCHANGED <<backend, stores, todo, sample, previous, lists, faults>>

\* The next interval of the batch, in its order.
IsNext(i) == pc = "settle" /\ i \in batch /\ \A j \in batch : i.start <= j.start

\* Ledger::commit: a key that has a record is left alone.
Settle(i) ==
    /\ IsNext(i)
    /\ \E l \in InForce(lists, i.start) :
          /\ Priceable(i, l)
          /\ journal' = IF Settled(i) THEN journal ELSE journal \cup {settle(i, l)}
    /\ batch' = batch \ {i}
    /\ UNCHANGED <<backend, samples, intervals, prices, pc, todo, sample,
                   previous, lists, faults>>

\* The end of the process: what the pass knew is gone.
Ended ==
    /\ pc' = "down"
    /\ todo' = {} /\ sample' = None /\ previous' = None /\ lists' = {} /\ batch' = {}

\* No list covers the interval, or the list does not name what was used: the
\* error leaves the pass and main.
SettleFails(i) ==
    /\ IsNext(i)
    /\ ~\E l \in InForce(lists, i.start) : Priceable(i, l)
    /\ Ended
    /\ UNCHANGED <<backend, stores, faults>>

\* The poll interval, or the supervisor's delay, is longer than the clock's unit.
Sleep == clock' = IF clock < MaxClock THEN clock + 1 ELSE clock

PassDone ==
    /\ pc = "settle" /\ batch = {}
    /\ pc' = "idle"
    /\ sample' = None /\ previous' = None /\ lists' = {}
    /\ Sleep
    /\ UNCHANGED <<usage, used, stores, todo, batch, faults>>

\* A call fails or the process is killed; what was committed stays.
Crash ==
    /\ pc \notin {"idle", "down"}
    /\ Fault
    /\ Ended
    /\ UNCHANGED <<backend, stores>>

Restart ==
    /\ pc = "down"
    /\ pc' = "idle"
    /\ Sleep
    /\ UNCHANGED <<usage, used, stores, todo, sample, previous, lists, batch, faults>>

-----------------------------------------------------------------------------
(* PricingStore::publish: a published version is never edited. *)

\* The version is not looked up first.
Mutant_Publish(l) ==
    /\ prices' = {m \in prices : m.version # l.version} \cup {l}
    /\ UNCHANGED <<backend, samples, intervals, journal, pass, faults>>

Publish(l) ==
    /\ \A m \in prices : m.version # l.version
    /\ prices' = prices \cup {l}
    /\ UNCHANGED <<backend, samples, intervals, journal, pass, faults>>

Collect ==
    \/ Begin \/ (\E w \in todo : Read(w)) \/ PreviousSample
    \/ SampleConflict \/ RecordSample \/ RecordInterval

Pass ==
    \/ Collect \/ PriceLists \/ Unsettled \/ PassDone \/ Restart
    \/ \E i \in batch : Settle(i) \/ SettleFails(i)

Environment ==
    \/ Tick \/ Crash
    \/ \E w \in Workloads : Consume(w) \/ Reset(w)
    \/ \E l \in Lists : Publish(l)

Next == Pass \/ Environment

Spec == Init /\ [][Next]_vars

\* The loop of main runs and its supervisor restarts it.
FairSpec == Spec /\ WF_vars(Pass)

-----------------------------------------------------------------------------
(* Properties *)

\* The type invariant.
TypeOK ==
    /\ clock \in Nat
    /\ usage \in [Workloads -> Usages]
    /\ used \in [Workloads -> Nat]
    /\ samples \subseteq Samples
    /\ intervals \subseteq Intervals
    /\ prices \subseteq Lists
    /\ journal \subseteq Records
    /\ pc \in {"idle", "collect", "previous", "sample", "interval", "unsettled",
               "settle", "down"}
    /\ todo \subseteq Workloads
    /\ sample \in Samples \cup {None}
    /\ previous \in Samples \cup {None}
    /\ lists \subseteq Lists
    /\ batch \subseteq Intervals
    /\ faults \in Nat

\* Two intervals of a workload meet at most at their ends, or span the same time:
\* whatever the passes read, repeated or lost by ending early, no time is charged
\* as part of a longer and of a shorter interval (previous_sample, record_sample).
ChargedSpansDoNotOverlap ==
    \A i, j \in intervals :
        i.workload = j.workload =>
            \/ i.end <= j.start \/ j.end <= i.start
            \/ i.start = j.start /\ i.end = j.end

\* Reconciliation finds nothing: a record was made for a stored interval, which
\* follows from two stored samples, at a published list in effect when the
\* interval started, and pricing it again at that list gives the same amount
\* (settle and commit, with lists published between reading and settling).
ReconciliationIsClean ==
    \A r \in journal :
        /\ r.interval \in intervals
        /\ \E p, s \in samples :
              p.workload = s.workload /\ r.interval = interval_between(p, s)
        /\ \E l \in prices : /\ l.version = r.version
                            /\ l.from <= r.interval.start
                            /\ r.amount = price(r.interval, l)

\* What the records of w charge for.
Charged(w) == SumFunctionOnSet([r \in journal |-> r.interval.delta],
                               {r \in journal : r.interval.workload = w})

OneSamplePerInstant(w) ==
    \A s, t \in samples : s.workload = w /\ t.workload = w /\ s.at = t.at => s = t

\* A workload of the native backend is charged for no more than it consumed, through
\* resets of its counter and ends of the meter, as long as no two of its readings
\* carry the same instant (interval_between, the identity of a settlement).
ChargesWithinUse ==
    \A w \in Workloads \ Nomad : OneSamplePerInstant(w) => Charged(w) <= used[w]

\* Finding: no workload is charged twice for what it consumed.  Nomad's zero for a
\* client that cannot be reached reads as a reset counter.
NothingIsChargedTwice == \A w \in Workloads : Charged(w) <= used[w]

Chargeable == \A i \in intervals : \E l \in InForce(prices, i.start) : Priceable(i, l)

\* When the lists come to price every interval, every interval is settled, although
\* one that cannot be priced ended every pass before (unsettled, settle).
EveryIntervalSettles ==
    <>[]Chargeable => []<>(\A i \in intervals : \E r \in journal : r.interval = i)

\* A sample that follows another one and for which no interval is stored.
Unmetered ==
    {s \in samples : /\ \E p \in samples : p.workload = s.workload /\ p.at < s.at
                     /\ ~\E i \in intervals : /\ i.workload = s.workload
                                              /\ i.end = s.at /\ i.seq = s.seq}

\* Finding: every sample comes to be part of a settlement.  A process that ends
\* between record_sample and record_interval never makes the interval: the sample
\* is refused or is the next interval's start.
EverySampleIsMetered == []<>(Unmetered = {})
=============================================================================
