----------------------------- MODULE MeterProofs -----------------------------
(***************************************************************************)
(* What metering and settlement guarantee, for any workloads, lists, uses, *)
(* resets and ends of the process.                                         *)
(*                                                                         *)
(* Spans do not overlap because no sample is ever stored inside one: the   *)
(* readings of a workload carry times that do not go back, but for the     *)
(* zero of a reset instance, which starts no interval.  That holds of what *)
(* the backend counts, of the reading a pass carries and of the samples,   *)
(* which is what the invariant below says of each of them.                 *)
(*                                                                         *)
(* Charges stay within the use because what the intervals add up to does,  *)
(* together with whatever the readings not yet stored would add: for the   *)
(* newest sample and for the reading a pass carries, the counter's advance *)
(* since is still free, and a reset only makes it smaller.                 *)
(***************************************************************************)
EXTENDS Meter, Sums, TLAPS

\* The samples of w are not after t, unless t is the zero of a reset instance.
NotBeforeSamples(t, w) ==
    t = 0 \/ \A s \in samples : s.workload = w => s.at <= t

\* What the backend counts is stamped after the samples.
UsageIsNewest ==
    /\ \A w \in Workloads : /\ usage[w].at <= clock
                            /\ NotBeforeSamples(usage[w].at, w)
                            /\ w \in Nomad => usage[w].at = 0
    /\ \A s \in samples : s.at <= clock

\* The reading a pass carries is after the samples and not after the backend.
ReadingIsNewest ==
    pc \in {"previous", "sample", "interval"} =>
        /\ sample \in Samples
        /\ sample.at <= clock
        /\ NotBeforeSamples(sample.at, sample.workload)
        /\ usage[sample.workload].at = 0 \/ sample.at <= usage[sample.workload].at

\* The sample before the reading is the newest one before it.
PreviousIsNewest ==
    /\ pc = "sample" /\ previous # None => previous \in Newest(Before(sample))
    /\ pc = "interval" => sample \in samples /\ previous \in Newest(Before(sample))

\* An interval follows from two samples, and has none inside.
IntervalsAreSound ==
    \A i \in intervals :
        /\ \E p, s \in samples : /\ p.workload = s.workload /\ p.at < s.at
                                 /\ i = interval_between(p, s)
        /\ \A s \in samples : s.workload = i.workload => s.at <= i.start \/ i.end <= s.at

\* A pass settles stored intervals at published lists.
PassIsSound == lists \subseteq prices /\ batch \subseteq intervals

\* The inductive invariant.
IInv ==
    /\ TypeOK
    /\ UsageIsNewest
    /\ ReadingIsNewest
    /\ PreviousIsNewest
    /\ IntervalsAreSound
    /\ PassIsSound
    /\ ReconciliationIsClean

-----------------------------------------------------------------------------
(* Lemmas *)

\* A quotient of a natural number is one.
LEMMA Quotient ==
    ASSUME NEW n \in Nat, NEW d \in Nat \ {0}
    PROVE  n \div d \in Nat
    OBVIOUS

\* A price is an amount.
LEMMA PriceType ==
    ASSUME NEW i \in Intervals, NEW l \in Lists
    PROVE  price(i, l) \in Nat
<1>a. i.delta \in Nat
    BY DEF Intervals
<1>b. Rates \cup {0} \subseteq Nat
    BY MeterAssumption
<1>c. l.rate \in Rates \cup {0}
    BY DEF Lists
<1>1. i.delta \in Nat /\ l.rate \in Nat
    BY <1>a, <1>b, <1>c
<1>2. i.delta * l.rate \in Nat
    BY <1>1
<1>3. Scale \in Nat \ {0}
    BY MeterAssumption
<1> DEFINE n == i.delta * l.rate + Scale - 1
<1>4. n \in Nat
    BY <1>2, <1>3
<1> HIDE DEF n
<1>5. n \div Scale \in Nat
    BY <1>3, <1>4, Quotient
<1> QED
    BY <1>5 DEF n, price

\* The interval of two samples is one.
LEMMA IntervalType ==
    ASSUME NEW p \in Samples, NEW s \in Samples
    PROVE  interval_between(p, s) \in Intervals
    BY DEF interval_between, Delta, Samples, Intervals

\* What reconciliation finds clean stays so when the stores grow.
LEMMA CleanGrows ==
    ASSUME ReconciliationIsClean, samples \subseteq samples',
           intervals \subseteq intervals', prices \subseteq prices',
           journal' = journal
    PROVE  ReconciliationIsClean'
    BY DEF ReconciliationIsClean, interval_between, price, Delta

\* Spans that have no sample inside do not overlap.
LEMMA SpansFollow == TypeOK /\ IntervalsAreSound => ChargedSpansDoNotOverlap
<1> SUFFICES ASSUME TypeOK, IntervalsAreSound,
                    NEW i \in intervals, NEW j \in intervals, i.workload = j.workload
             PROVE  \/ i.end <= j.start \/ j.end <= i.start
                    \/ i.start = j.start /\ i.end = j.end
    BY DEF ChargedSpansDoNotOverlap
<1>1. PICK p \in samples, s \in samples :
          p.workload = s.workload /\ p.at < s.at /\ i = interval_between(p, s)
    BY DEF IntervalsAreSound
<1>2. PICK q \in samples, t \in samples :
          q.workload = t.workload /\ q.at < t.at /\ j = interval_between(q, t)
    BY DEF IntervalsAreSound
<1>3. /\ i.start = p.at /\ i.end = s.at /\ i.workload = s.workload
      /\ j.start = q.at /\ j.end = t.at /\ j.workload = t.workload
    BY <1>1, <1>2 DEF interval_between
<1>4. /\ q.at <= i.start \/ i.end <= q.at
      /\ t.at <= i.start \/ i.end <= t.at
      /\ p.at <= j.start \/ j.end <= p.at
      /\ s.at <= j.start \/ j.end <= s.at
    BY <1>1, <1>2, <1>3 DEF IntervalsAreSound
<1>5. p.at \in Nat /\ q.at \in Nat /\ s.at \in Nat /\ t.at \in Nat
    BY DEF TypeOK, Samples
<1> QED
    BY <1>1, <1>2, <1>3, <1>4, <1>5

-----------------------------------------------------------------------------
(* Every step *)

\* A new meter has stored nothing.
LEMMA InitSound == Init => IInv
    BY MeterAssumption
    DEF Init, NoUsage, Usages, ReconciliationIsClean, IInv, TypeOK,
        UsageIsNewest, NotBeforeSamples, ReadingIsNewest, PreviousIsNewest,
        IntervalsAreSound, PassIsSound

\* time passes
LEMMA TickSound ==
    ASSUME IInv, Tick
    PROVE  IInv'
<1>1. ReconciliationIsClean'
    BY CleanGrows DEF Tick, backend, stores, pass, IInv
<1> QED
    BY <1>1, MeterAssumption
    DEF Tick, backend, stores, pass, IInv, TypeOK, UsageIsNewest,
        NotBeforeSamples, ReadingIsNewest, PreviousIsNewest, IntervalsAreSound,
        PassIsSound, Before, Newest, Usages, Samples

\* use
LEMMA ConsumeSound ==
    ASSUME IInv, NEW w \in Workloads, Consume(w)
    PROVE  IInv'
<1>1. ReconciliationIsClean'
    BY CleanGrows DEF Consume, stores, pass, IInv
<1>2. /\ UNCHANGED <<clock, samples, intervals, prices, journal, faults>>
      /\ UNCHANGED <<pc, todo, sample, previous, lists, batch>>
    BY DEF Consume, stores, pass
<1>a. usage[w] \in Usages /\ clock \in Nat /\ used[w] \in Nat
    BY DEF IInv, TypeOK
<1>b. /\ Counted(w) \in Usages
      /\ Counted(w).at = usage[w].at \/ (w \notin Nomad /\ Counted(w).at = clock)
    BY <1>a DEF Counted, Usages
<1>c. /\ usage' = [usage EXCEPT ![w] = Counted(w)]
      /\ used' = [used EXCEPT ![w] = @ + 1]
    BY DEF Consume
<1>3. /\ usage' \in [Workloads -> Usages]
      /\ used' \in [Workloads -> Nat]
      /\ \A v \in Workloads :
             usage'[v].at = usage[v].at \/ (v \notin Nomad /\ usage'[v].at = clock)
    BY <1>a, <1>b, <1>c DEF IInv, TypeOK
<1>4. TypeOK'
    BY <1>2, <1>3 DEF IInv, TypeOK
<1>5. UsageIsNewest'
    BY <1>2, <1>3 DEF IInv, TypeOK, Usages, UsageIsNewest, NotBeforeSamples
<1>6. ReadingIsNewest'
    BY <1>2, <1>3 DEF IInv, TypeOK, Usages, Samples, ReadingIsNewest, NotBeforeSamples
<1> QED
    BY <1>1, <1>2, <1>4, <1>5, <1>6
    DEF IInv, PreviousIsNewest, Before, Newest, IntervalsAreSound, PassIsSound

\* a reset of the counter
LEMMA ResetSound ==
    ASSUME IInv, NEW w \in Workloads, Reset(w)
    PROVE  IInv'
<1>1. ReconciliationIsClean'
    BY CleanGrows DEF Reset, NoUsage, Fault, stores, pass, IInv
<1> QED
    BY <1>1, MeterAssumption
    DEF Reset, NoUsage, Fault, stores, pass, IInv, TypeOK, UsageIsNewest,
        NotBeforeSamples, ReadingIsNewest, PreviousIsNewest, IntervalsAreSound,
        PassIsSound, Before, Newest, Usages, Samples

\* a pass starts
LEMMA BeginSound ==
    ASSUME IInv, Begin
    PROVE  IInv'
<1>1. ReconciliationIsClean'
    BY CleanGrows DEF Begin, backend, stores, IInv
<1> QED
    BY <1>1, MeterAssumption
    DEF Begin, backend, stores, IInv, TypeOK, UsageIsNewest, NotBeforeSamples,
        ReadingIsNewest, PreviousIsNewest, IntervalsAreSound, PassIsSound,
        Before, Newest, Usages, Samples

\* usage
LEMMA ReadSound ==
    ASSUME IInv, NEW w \in Workloads, Read(w)
    PROVE  IInv'
<1>1. ReconciliationIsClean'
    BY CleanGrows DEF Read, backend, stores, IInv
<1>2. /\ UNCHANGED <<clock, usage, used, samples, intervals, prices, journal, faults>>
      /\ UNCHANGED <<previous, lists, batch>>
      /\ pc' = "previous" /\ todo' \subseteq todo
    BY DEF Read, backend, stores
<1>3. PICK u \in Readings(w) :
          sample' = [workload |-> w, at |-> u.at, seq |-> u.seq, cpu |-> u.cpu]
    BY DEF Read
<1>4. /\ u \in Usages
      /\ u.at = usage[w].at \/ (usage[w].at = 0 /\ u.at = clock)
    BY DEF Readings, IInv, TypeOK, Usages, UsageIsNewest
<1>5. sample' \in Samples /\ sample'.workload = w /\ sample'.at = u.at
    BY <1>3, <1>4 DEF Usages, Samples
<1>6. TypeOK'
    BY <1>2, <1>5 DEF IInv, TypeOK
<1>7. ReadingIsNewest'
    BY <1>2, <1>4, <1>5
    DEF IInv, TypeOK, Usages, ReadingIsNewest, UsageIsNewest, NotBeforeSamples
<1> QED
    BY <1>1, <1>2, <1>6, <1>7
    DEF IInv, UsageIsNewest, NotBeforeSamples, PreviousIsNewest, IntervalsAreSound,
        PassIsSound

\* previous_sample
LEMMA PreviousSampleSound ==
    ASSUME IInv, PreviousSample
    PROVE  IInv'
<1>1. ReconciliationIsClean'
    BY CleanGrows DEF PreviousSample, backend, stores, IInv
<1> QED
    BY <1>1, MeterAssumption
    DEF PreviousSample, backend, stores, IInv, TypeOK, UsageIsNewest,
        NotBeforeSamples, ReadingIsNewest, PreviousIsNewest, IntervalsAreSound,
        PassIsSound, Before, Newest, Usages, Samples

\* a repeated reading
LEMMA SampleConflictSound ==
    ASSUME IInv, SampleConflict
    PROVE  IInv'
<1>1. ReconciliationIsClean'
    BY CleanGrows DEF SampleConflict, backend, stores, IInv
<1> QED
    BY <1>1, MeterAssumption
    DEF SampleConflict, backend, stores, IInv, TypeOK, UsageIsNewest,
        NotBeforeSamples, ReadingIsNewest, PreviousIsNewest, IntervalsAreSound,
        PassIsSound, Before, Newest, Usages, Samples

\* price_lists
LEMMA PriceListsSound ==
    ASSUME IInv, PriceLists
    PROVE  IInv'
<1>1. ReconciliationIsClean'
    BY CleanGrows DEF PriceLists, backend, stores, IInv
<1> QED
    BY <1>1, MeterAssumption
    DEF PriceLists, backend, stores, IInv, TypeOK, UsageIsNewest,
        NotBeforeSamples, ReadingIsNewest, PreviousIsNewest, IntervalsAreSound,
        PassIsSound, Before, Newest, Usages, Samples

\* unsettled
LEMMA UnsettledSound ==
    ASSUME IInv, Unsettled
    PROVE  IInv'
<1>1. ReconciliationIsClean'
    BY CleanGrows DEF Unsettled, Oldest, backend, stores, IInv
<1> QED
    BY <1>1, MeterAssumption
    DEF Unsettled, Oldest, backend, stores, IInv, TypeOK, UsageIsNewest,
        NotBeforeSamples, ReadingIsNewest, PreviousIsNewest, IntervalsAreSound,
        PassIsSound, Before, Newest, Usages, Samples

\* an interval that cannot be priced
LEMMA SettleFailsSound ==
    ASSUME IInv, NEW i \in batch, SettleFails(i)
    PROVE  IInv'
<1>1. ReconciliationIsClean'
    BY CleanGrows DEF SettleFails, IsNext, Ended, backend, stores, IInv
<1> QED
    BY <1>1, MeterAssumption
    DEF SettleFails, IsNext, Ended, backend, stores, IInv, TypeOK,
        UsageIsNewest, NotBeforeSamples, ReadingIsNewest, PreviousIsNewest,
        IntervalsAreSound, PassIsSound, Before, Newest, Usages, Samples

\* the end of a pass
LEMMA PassDoneSound ==
    ASSUME IInv, PassDone
    PROVE  IInv'
<1>1. ReconciliationIsClean'
    BY CleanGrows DEF PassDone, Sleep, stores, IInv
<1> QED
    BY <1>1, MeterAssumption
    DEF PassDone, Sleep, stores, IInv, TypeOK, UsageIsNewest, NotBeforeSamples,
        ReadingIsNewest, PreviousIsNewest, IntervalsAreSound, PassIsSound,
        Before, Newest, Usages, Samples

\* the end of the process
LEMMA CrashSound ==
    ASSUME IInv, Crash
    PROVE  IInv'
<1>1. ReconciliationIsClean'
    BY CleanGrows DEF Crash, Fault, Ended, backend, stores, IInv
<1> QED
    BY <1>1, MeterAssumption
    DEF Crash, Fault, Ended, backend, stores, IInv, TypeOK, UsageIsNewest,
        NotBeforeSamples, ReadingIsNewest, PreviousIsNewest, IntervalsAreSound,
        PassIsSound, Before, Newest, Usages, Samples

\* its restart
LEMMA RestartSound ==
    ASSUME IInv, Restart
    PROVE  IInv'
<1>1. ReconciliationIsClean'
    BY CleanGrows DEF Restart, Sleep, stores, IInv
<1> QED
    BY <1>1, MeterAssumption
    DEF Restart, Sleep, stores, IInv, TypeOK, UsageIsNewest, NotBeforeSamples,
        ReadingIsNewest, PreviousIsNewest, IntervalsAreSound, PassIsSound,
        Before, Newest, Usages, Samples

\* publish
LEMMA PublishSound ==
    ASSUME IInv, NEW l \in Lists, Publish(l)
    PROVE  IInv'
<1>1. ReconciliationIsClean'
    BY CleanGrows DEF Publish, backend, pass, IInv
<1> QED
    BY <1>1, MeterAssumption
    DEF Publish, backend, pass, IInv, TypeOK, UsageIsNewest, NotBeforeSamples,
        ReadingIsNewest, PreviousIsNewest, IntervalsAreSound, PassIsSound,
        Before, Newest, Usages, Samples

\* record_sample
LEMMA RecordSampleSound ==
    ASSUME IInv, RecordSample
    PROVE  IInv'
<1>1. ReconciliationIsClean'
    BY CleanGrows DEF RecordSample, IInv
<1>2. /\ UNCHANGED <<clock, usage, used, intervals, prices, journal, faults>>
      /\ UNCHANGED <<todo, sample, previous, lists, batch>>
      /\ samples' = samples \cup {sample}
      /\ pc' \in {"collect", "interval"} /\ (pc' = "interval" => previous # None)
    BY DEF RecordSample, backend
<1>3. pc = "sample" /\ sample \in Samples /\ sample.at \in Nat
    BY DEF RecordSample, IInv, ReadingIsNewest, Samples
<1>4. TypeOK'
    BY <1>2, <1>3 DEF IInv, TypeOK
<1>5. UsageIsNewest'
    BY <1>2, <1>3
    DEF IInv, TypeOK, Usages, Samples, UsageIsNewest, ReadingIsNewest, NotBeforeSamples
<1>6. ReadingIsNewest'
    BY <1>2, <1>3 DEF IInv, ReadingIsNewest, NotBeforeSamples
<1>7. Before(sample)' = Before(sample)
    BY <1>2, <1>3 DEF Before
<1>8. PreviousIsNewest'
    BY <1>2, <1>3, <1>7 DEF IInv, PreviousIsNewest, Newest
<1>9. IntervalsAreSound'
  <2> SUFFICES ASSUME NEW i \in intervals, sample.workload = i.workload
               PROVE  sample.at <= i.start \/ i.end <= sample.at
    BY <1>2 DEF IInv, IntervalsAreSound
  <2>1. PICK p \in samples, s \in samples :
            p.workload = s.workload /\ p.at < s.at /\ i = interval_between(p, s)
    BY DEF IInv, IntervalsAreSound
  <2>2. i.start = p.at /\ i.end = s.at /\ i.workload = s.workload
    BY <2>1 DEF interval_between
  <2>3. p.at \in Nat
    BY DEF IInv, TypeOK, Samples
  <2> QED
    BY <1>3, <2>2, <2>3 DEF IInv, ReadingIsNewest, NotBeforeSamples
<1> QED
    BY <1>1, <1>2, <1>4, <1>5, <1>6, <1>8, <1>9 DEF IInv, PassIsSound

\* record_interval
LEMMA RecordIntervalSound ==
    ASSUME IInv, RecordInterval
    PROVE  IInv'
<1>1. ReconciliationIsClean'
    BY CleanGrows DEF RecordInterval, IInv
<1> DEFINE new == interval_between(previous, sample)
<1>2. /\ UNCHANGED <<clock, usage, used, samples, prices, journal, faults>>
      /\ UNCHANGED <<todo, sample, previous, lists, batch>>
      /\ intervals' = intervals \/ intervals' = intervals \cup {new}
      /\ pc' = "collect"
    BY DEF RecordInterval, backend
<1>3. /\ sample \in samples /\ previous \in samples
      /\ previous.workload = sample.workload /\ previous.at < sample.at
      /\ \A s \in samples :
             s.workload = sample.workload /\ s.at < sample.at => s.at <= previous.at
    BY DEF RecordInterval, IInv, PreviousIsNewest, Newest, Before
<1>4. new \in Intervals
    BY <1>3, IntervalType DEF IInv, TypeOK
<1>5. new.workload = sample.workload /\ new.start = previous.at /\ new.end = sample.at
    BY DEF interval_between
<1> HIDE DEF new
<1>6. TypeOK'
    BY <1>2, <1>4 DEF IInv, TypeOK
<1>7. \A s \in samples : s.workload = new.workload => s.at <= new.start \/ new.end <= s.at
    BY <1>3, <1>5 DEF IInv, TypeOK, Samples
<1>8. \E p, s \in samples : /\ p.workload = s.workload /\ p.at < s.at
                            /\ new = interval_between(p, s)
    BY <1>3 DEF new
<1>9. IntervalsAreSound'
    BY <1>2, <1>7, <1>8 DEF IInv, IntervalsAreSound, interval_between, Delta
<1> QED
    BY <1>1, <1>2, <1>6, <1>9
    DEF IInv, UsageIsNewest, NotBeforeSamples, ReadingIsNewest, PreviousIsNewest,
        PassIsSound

\* commit
LEMMA SettleSound ==
    ASSUME IInv, NEW i \in batch, Settle(i)
    PROVE  IInv'
<1>1. /\ UNCHANGED <<clock, usage, used, samples, intervals, prices, faults>>
      /\ UNCHANGED <<pc, todo, sample, previous, lists>>
      /\ batch' \subseteq batch
    BY DEF Settle, backend
<1>2. i \in intervals /\ i \in Intervals
    BY DEF IInv, TypeOK, PassIsSound
<1>3. PICK l \in InForce(lists, i.start) :
          journal' = IF Settled(i) THEN journal ELSE journal \cup {settle(i, l)}
    BY DEF Settle
<1>4. l \in Lists /\ l \in prices /\ l.from <= i.start
    BY DEF InForce, IInv, TypeOK, PassIsSound
<1>5. settle(i, l) \in Records
    BY <1>2, <1>4, PriceType DEF settle, Records, Lists
<1>6. TypeOK'
    BY <1>1, <1>3, <1>5 DEF IInv, TypeOK
<1>7. /\ settle(i, l).interval = i
      /\ settle(i, l).version = l.version
      /\ settle(i, l).amount = price(i, l)
    BY DEF settle
<1>8. \E p, s \in samples : p.workload = s.workload /\ i = interval_between(p, s)
    BY <1>2 DEF IInv, IntervalsAreSound
<1>9. ReconciliationIsClean'
  <2> SUFFICES ASSUME NEW r \in journal'
               PROVE  /\ r.interval \in intervals
                      /\ \E p, s \in samples :
                            p.workload = s.workload /\ r.interval = interval_between(p, s)
                      /\ \E m \in prices : /\ m.version = r.version
                                          /\ m.from <= r.interval.start
                                          /\ r.amount = price(r.interval, m)
    BY <1>1 DEF ReconciliationIsClean, interval_between, price, Delta
  <2>1. CASE r \in journal
    BY <2>1 DEF IInv, ReconciliationIsClean
  <2>2. CASE r = settle(i, l)
    BY <2>2, <1>2, <1>4, <1>7, <1>8
  <2> QED
    BY <1>3, <2>1, <2>2
<1> QED
    BY <1>1, <1>6, <1>9
    DEF IInv, UsageIsNewest, NotBeforeSamples, ReadingIsNewest, PreviousIsNewest,
        Before, Newest, IntervalsAreSound, PassIsSound

\* Every step preserves the invariant.
LEMMA NextSound == IInv /\ [Next]_vars => IInv'
<1> SUFFICES ASSUME IInv, [Next]_vars PROVE IInv'
    OBVIOUS
<1>1. CASE Pass
    BY <1>1, BeginSound, ReadSound, PreviousSampleSound, SampleConflictSound,
       RecordSampleSound, RecordIntervalSound, PriceListsSound, UnsettledSound,
       PassDoneSound, RestartSound, SettleSound, SettleFailsSound
    DEF Pass, Collect, IInv, TypeOK
<1>2. CASE Environment
    BY <1>2, TickSound, CrashSound, ConsumeSound, ResetSound, PublishSound
    DEF Environment
<1>3. CASE UNCHANGED vars
    BY <1>3
    DEF vars, IInv, TypeOK, UsageIsNewest, NotBeforeSamples, ReadingIsNewest,
        PreviousIsNewest, Before, Newest, IntervalsAreSound, PassIsSound,
        ReconciliationIsClean
<1> QED
    BY <1>1, <1>2, <1>3 DEF Next

-----------------------------------------------------------------------------
(* Charges and use *)

\* What an interval charges for.
IntervalDeltas == [i \in Intervals |-> i.delta]

IntervalsOf(w) == {i \in intervals : i.workload = w}

SettledOf(w) == {i \in IntervalsOf(w) : \E r \in journal : r.interval = i}

\* What the intervals of w add up to, settled or not.
Metered(w) == SumFunctionOnSet(IntervalDeltas, IntervalsOf(w))

NewestOf(w) ==
    {s \in samples : s.workload = w /\ \A t \in samples : t.workload = w => t.at <= s.at}

\* What is metered and what the next readings would add to it is within the use:
\* after the newest sample, after the reading a pass carries, and after the sample
\* whose interval is still to be stored.
MeteredWithinUse(w) ==
    /\ Metered(w) <= used[w]
    /\ \A s \in NewestOf(w) : Metered(w) + Delta(s.cpu, usage[w].cpu) <= used[w]
    /\ pc \in {"previous", "sample"} /\ sample.workload = w =>
          /\ Metered(w) + Delta(sample.cpu, usage[w].cpu) <= used[w]
          /\ \A s \in NewestOf(w) :
                Metered(w) + Delta(s.cpu, sample.cpu) + Delta(sample.cpu, usage[w].cpu) <= used[w]
    /\ pc = "interval" /\ sample.workload = w =>
          Metered(w) + Delta(previous.cpu, sample.cpu) + Delta(sample.cpu, usage[w].cpu) <= used[w]

StoresAreFinite == IsFiniteSet(intervals) /\ IsFiniteSet(journal)

\* A record charges for the interval it carries, and no other does.
ChargesAreSettled ==
    \A w \in Workloads : Charged(w) = SumFunctionOnSet(IntervalDeltas, SettledOf(w))

UseIsMetered ==
    \A w \in Workloads \ Nomad : OneSamplePerInstant(w) => MeteredWithinUse(w)

\* The inductive invariant of charges.
UseInv == IInv /\ StoresAreFinite /\ ChargesAreSettled /\ UseIsMetered

\* What a counter has advanced by is a natural number.
LEMMA DeltaType ==
    ASSUME NEW a \in Nat, NEW b \in Nat
    PROVE  Delta(a, b) \in Nat
    BY DEF Delta

\* A unit of use adds at most one to any difference; a reset adds nothing.
LEMMA DeltaUse ==
    ASSUME NEW a \in Nat, NEW b \in Nat
    PROVE  /\ Delta(a, b + 1) <= Delta(a, b) + 1
           /\ Delta(a, 0) = 0 /\ Delta(b, b) = 0
    BY DEF Delta

\* Sums over the intervals of a workload.
LEMMA MeteredType ==
    ASSUME TypeOK, IsFiniteSet(intervals), NEW w
    PROVE  /\ \A i \in intervals : IntervalDeltas[i] = i.delta /\ IntervalDeltas[i] \in Nat
           /\ IsFiniteSet(IntervalsOf(w)) /\ IsFiniteSet(SettledOf(w))
           /\ Metered(w) \in Nat
<1>1. \A i \in intervals : IntervalDeltas[i] = i.delta /\ IntervalDeltas[i] \in Nat
    BY DEF TypeOK, Intervals, IntervalDeltas
<1>2. IntervalsOf(w) \subseteq intervals /\ SettledOf(w) \subseteq intervals
    BY DEF IntervalsOf, SettledOf
<1>3. IsFiniteSet(IntervalsOf(w)) /\ IsFiniteSet(SettledOf(w))
    BY <1>2, FS_Subset
<1>4. \A i \in IntervalsOf(w) : IntervalDeltas[i] \in Nat
    BY <1>1, <1>2
<1>5. Metered(w) \in Nat
    BY <1>3, <1>4, SumNat DEF Metered
<1> QED
    BY <1>1, <1>3, <1>5

\* The counters are naturals.
LEMMA CountersType ==
    ASSUME TypeOK
    PROVE  /\ \A w \in Workloads : usage[w].cpu \in Nat /\ used[w] \in Nat
           /\ \A s \in samples : s \in Samples /\ s.cpu \in Nat /\ s.at \in Nat
           /\ sample \in Samples => sample.cpu \in Nat /\ sample.at \in Nat
    BY DEF TypeOK, Usages, Samples

\* A step that stores neither a sample nor an interval, and that uses as much as it
\* counts, keeps what is metered within the use.
LEMMA UseKept ==
    ASSUME UseInv, TypeOK', UNCHANGED <<samples, intervals>>,
           \A w \in Workloads \ Nomad :
               /\ used[w] <= used'[w]
               /\ \A a \in Nat :
                     Delta(a, usage'[w].cpu) + used[w] <= Delta(a, usage[w].cpu) + used'[w],
           \/ pc' \notin {"previous", "sample", "interval"}
           \/ UNCHANGED <<pc, sample, previous>>
           \/ pc = "previous" /\ pc' = "sample" /\ sample' = sample
    PROVE  UseIsMetered'
<1> SUFFICES ASSUME NEW w \in Workloads \ Nomad, OneSamplePerInstant(w)'
             PROVE  MeteredWithinUse(w)'
    BY DEF UseIsMetered
<1>1. OneSamplePerInstant(w)
    BY DEF OneSamplePerInstant
<1>2. MeteredWithinUse(w)
    BY <1>1 DEF UseInv, UseIsMetered
<1>3. /\ Metered(w)' = Metered(w)
      /\ NewestOf(w)' = NewestOf(w)
    BY DEF Metered, IntervalsOf, NewestOf, IntervalDeltas
<1>4. Metered(w) \in Nat
    BY MeteredType DEF UseInv, IInv, StoresAreFinite
<1>5. /\ used[w] \in Nat /\ used'[w] \in Nat
      /\ usage[w].cpu \in Nat /\ usage'[w].cpu \in Nat
      /\ \A s \in NewestOf(w) : s.cpu \in Nat
    BY DEF UseInv, IInv, TypeOK, Usages, Samples, NewestOf
<1>6. pc \in {"previous", "sample", "interval"} => sample \in Samples /\ sample.cpu \in Nat
    BY DEF UseInv, IInv, ReadingIsNewest, Samples
<1>7. pc = "interval" => previous \in Samples /\ previous.cpu \in Nat
    BY DEF UseInv, IInv, PreviousIsNewest, Newest, Before, TypeOK, Samples
<1>8. \A a \in Nat : /\ Delta(a, usage[w].cpu) \in Nat /\ Delta(a, usage'[w].cpu) \in Nat
                     /\ Delta(a, usage'[w].cpu) + used[w] <= Delta(a, usage[w].cpu) + used'[w]
    BY <1>5, DeltaType
<1>a. \A a, b \in Nat : Delta(a, b) \in Nat
    BY DeltaType
<1>9. Metered(w)' <= used'[w]
    BY <1>2, <1>3, <1>4, <1>5 DEF MeteredWithinUse
<1>10. ASSUME NEW s \in NewestOf(w)
       PROVE  Metered(w)' + Delta(s.cpu, usage'[w].cpu) <= used'[w]
    BY <1>2, <1>3, <1>4, <1>5, <1>8 DEF MeteredWithinUse
<1>11. ASSUME pc' \in {"previous", "sample"}, sample'.workload = w
       PROVE  /\ Metered(w)' + Delta(sample'.cpu, usage'[w].cpu) <= used'[w]
              /\ \A s \in NewestOf(w) : Metered(w)' + Delta(s.cpu, sample'.cpu)
                                            + Delta(sample'.cpu, usage'[w].cpu) <= used'[w]
  <2>1. sample' = sample /\ pc \in {"previous", "sample"}
    BY <1>11
  <2>2. Metered(w) + Delta(sample.cpu, usage[w].cpu) <= used[w]
    BY <1>2, <1>11, <2>1 DEF MeteredWithinUse
  <2>3. \A s \in NewestOf(w) : Metered(w) + Delta(s.cpu, sample.cpu)
                                   + Delta(sample.cpu, usage[w].cpu) <= used[w]
    BY <1>2, <1>11, <2>1 DEF MeteredWithinUse
  <2>4. sample.cpu \in Nat
    BY <1>6, <2>1
  <2>5. Metered(w)' + Delta(sample'.cpu, usage'[w].cpu) <= used'[w]
    BY <1>3, <1>4, <1>5, <1>8, <2>1, <2>2, <2>4
  <2>6. ASSUME NEW s \in NewestOf(w)
        PROVE  Metered(w)' + Delta(s.cpu, sample'.cpu)
                   + Delta(sample'.cpu, usage'[w].cpu) <= used'[w]
    <3>1. Delta(s.cpu, sample.cpu) \in Nat
      BY <1>5, <1>a, <2>4
    <3> QED BY <1>3, <1>4, <1>5, <1>8, <2>1, <2>3, <2>4, <3>1
  <2> QED BY <2>5, <2>6
<1>12. ASSUME pc' = "interval", sample'.workload = w
       PROVE  Metered(w)' + Delta(previous'.cpu, sample'.cpu)
                  + Delta(sample'.cpu, usage'[w].cpu) <= used'[w]
  <2>1. UNCHANGED <<pc, sample, previous>>
    BY <1>12
  <2>2. Metered(w) + Delta(previous.cpu, sample.cpu) + Delta(sample.cpu, usage[w].cpu) <= used[w]
    BY <1>2, <1>12, <2>1 DEF MeteredWithinUse
  <2>3. sample.cpu \in Nat /\ Delta(previous.cpu, sample.cpu) \in Nat
    BY <1>6, <1>7, <1>12, <1>a, <2>1
  <2> QED BY <1>3, <1>4, <1>5, <1>8, <2>1, <2>2, <2>3
<1> QED
    BY <1>3, <1>9, <1>10, <1>11, <1>12 DEF MeteredWithinUse

\* A step that changes no store of what is charged.
LEMMA SettledKept ==
    ASSUME UseInv, UNCHANGED <<intervals, journal>>
    PROVE  StoresAreFinite' /\ ChargesAreSettled'
    BY DEF UseInv, StoresAreFinite, ChargesAreSettled, Charged, SettledOf, IntervalsOf,
           IntervalDeltas

\* Nothing is used or counted.
LEMMA NothingUsed ==
    ASSUME UseInv, UNCHANGED <<usage, used>>
    PROVE  \A w \in Workloads \ Nomad :
               /\ used[w] <= used'[w]
               /\ \A a \in Nat :
                     Delta(a, usage'[w].cpu) + used[w] <= Delta(a, usage[w].cpu) + used'[w]
<1> SUFFICES ASSUME NEW w \in Workloads \ Nomad, NEW a \in Nat
             PROVE  /\ used[w] <= used'[w]
                    /\ Delta(a, usage'[w].cpu) + used[w] <= Delta(a, usage[w].cpu) + used'[w]
    OBVIOUS
<1>1. used[w] \in Nat /\ usage[w].cpu \in Nat
    BY CountersType DEF UseInv, IInv
<1>2. Delta(a, usage[w].cpu) \in Nat
    BY <1>1, DeltaType
<1> QED BY <1>1, <1>2

\* use
LEMMA ConsumeUse ==
    ASSUME UseInv, NEW w \in Workloads, Consume(w)
    PROVE  UseInv'
<1>1. IInv'
    BY ConsumeSound DEF UseInv
<1>2. /\ UNCHANGED <<samples, intervals, journal, pc, sample, previous>>
      /\ usage' = [usage EXCEPT ![w] = Counted(w)]
      /\ used' = [used EXCEPT ![w] = @ + 1]
    BY DEF Consume, stores, pass
<1>3. ASSUME NEW v \in Workloads \ Nomad, NEW a \in Nat
      PROVE  /\ used[v] <= used'[v]
             /\ Delta(a, usage'[v].cpu) + used[v] <= Delta(a, usage[v].cpu) + used'[v]
  <2>1. usage \in [Workloads -> Usages] /\ used \in [Workloads -> Nat]
    BY DEF UseInv, IInv, TypeOK
  <2>2. used[v] \in Nat /\ usage[v].cpu \in Nat /\ usage[v].cpu + 1 \in Nat
    BY <2>1 DEF Usages
  <2>3. Delta(a, usage[v].cpu) \in Nat /\ Delta(a, usage[v].cpu + 1) \in Nat
    BY <2>2, DeltaType
  <2>4. CASE v = w
    <3>1. used'[v] = used[v] + 1 /\ usage'[v].cpu = usage[v].cpu + 1
      BY <1>2, <2>1, <2>4 DEF Counted
    <3> QED BY <2>2, <2>3, <3>1, DeltaUse
  <2>5. CASE v # w
    <3>1. used'[v] = used[v] /\ usage'[v] = usage[v]
      BY <1>2, <2>1, <2>5
    <3> QED BY <2>2, <2>3, <3>1
  <2> QED BY <2>4, <2>5
<1>4. TypeOK'
    BY <1>1 DEF IInv
<1>5. UseIsMetered'
    BY <1>2, <1>3, <1>4, UseKept
<1> QED
    BY <1>1, <1>2, <1>5, SettledKept DEF UseInv

\* a reset of the counter
LEMMA ResetUse ==
    ASSUME UseInv, NEW w \in Workloads, Reset(w)
    PROVE  UseInv'
<1>1. IInv'
    BY ResetSound DEF UseInv
<1>2. /\ UNCHANGED <<used, samples, intervals, journal, pc, sample, previous>>
      /\ usage' = [usage EXCEPT ![w] = NoUsage]
    BY DEF Reset, stores, pass
<1>3. ASSUME NEW v \in Workloads \ Nomad, NEW a \in Nat
      PROVE  /\ used[v] <= used'[v]
             /\ Delta(a, usage'[v].cpu) + used[v] <= Delta(a, usage[v].cpu) + used'[v]
  <2>1. usage \in [Workloads -> Usages] /\ used \in [Workloads -> Nat]
    BY DEF UseInv, IInv, TypeOK
  <2>2. used'[v] = used[v] /\ used[v] \in Nat /\ usage[v].cpu \in Nat
    BY <1>2, <2>1 DEF Usages
  <2>3. Delta(a, usage[v].cpu) \in Nat
    BY <2>2, DeltaType
  <2>4. CASE v = w
    <3>1. usage'[v].cpu = 0
      BY <1>2, <2>1, <2>4 DEF NoUsage
    <3>2. Delta(a, usage'[v].cpu) = 0
      BY <3>1, DeltaUse
    <3> QED BY <2>2, <2>3, <3>2
  <2>5. CASE v # w
    <3>1. usage'[v] = usage[v]
      BY <1>2, <2>1, <2>5
    <3> QED BY <2>2, <2>3, <3>1
  <2> QED BY <2>4, <2>5
<1>4. TypeOK'
    BY <1>1 DEF IInv
<1>5. UseIsMetered'
    BY <1>2, <1>3, <1>4, UseKept
<1> QED
    BY <1>1, <1>2, <1>5, SettledKept DEF UseInv

\* The steps that leave the counters, the samples, the intervals and the records.
LEMMA QuietUse ==
    ASSUME UseInv, IInv',
           \/ Tick \/ Crash \/ Begin \/ PreviousSample \/ SampleConflict \/ PriceLists
           \/ Unsettled \/ PassDone \/ Restart
           \/ \E i \in batch : SettleFails(i)
           \/ \E l \in Lists : Publish(l)
    PROVE  UseInv'
<1>1. UNCHANGED <<usage, used, samples, intervals, journal>>
    BY DEF Tick, Crash, Begin, PreviousSample, SampleConflict, PriceLists, Unsettled,
           PassDone, Restart, SettleFails, Publish, backend, stores
<1>2. \/ pc' \notin {"previous", "sample", "interval"}
      \/ UNCHANGED <<pc, sample, previous>>
      \/ pc = "previous" /\ pc' = "sample" /\ sample' = sample
    BY DEF Tick, Crash, Begin, PreviousSample, SampleConflict, PriceLists, Unsettled,
           PassDone, Restart, SettleFails, Publish, pass, Ended
<1>3. TypeOK'
    BY DEF IInv
<1>4. UseIsMetered'
    BY <1>1, <1>2, <1>3, NothingUsed, UseKept
<1> QED
    BY <1>1, <1>4, SettledKept DEF UseInv

\* usage: the reading adds to the newest sample what the counter has advanced by.
LEMMA ReadUse ==
    ASSUME UseInv, NEW w \in Workloads, Read(w)
    PROVE  UseInv'
<1>1. IInv'
    BY ReadSound DEF UseInv
<1>2. /\ UNCHANGED <<usage, used, samples, intervals, journal>> /\ pc' = "previous"
      /\ sample'.workload = w
      /\ w \notin Nomad => sample'.cpu = usage[w].cpu
    BY DEF Read, backend, stores, Readings
<1>3. UseIsMetered'
  <2> SUFFICES ASSUME NEW v \in Workloads \ Nomad, OneSamplePerInstant(v)'
               PROVE  MeteredWithinUse(v)'
    BY DEF UseIsMetered
  <2>1. MeteredWithinUse(v)
    BY <1>2 DEF UseInv, UseIsMetered, OneSamplePerInstant
  <2>2. Metered(v)' = Metered(v) /\ NewestOf(v)' = NewestOf(v)
    BY <1>2 DEF Metered, IntervalsOf, NewestOf, IntervalDeltas
  <2>3. /\ Metered(v) \in Nat /\ usage[v].cpu \in Nat /\ used[v] \in Nat
        /\ \A s \in NewestOf(v) : s.cpu \in Nat
    BY MeteredType, CountersType DEF UseInv, IInv, StoresAreFinite, NewestOf
  <2>4. ASSUME v = w
        PROVE  /\ Metered(v) + Delta(sample'.cpu, usage[v].cpu) <= used[v]
               /\ \A s \in NewestOf(v) : Metered(v) + Delta(s.cpu, sample'.cpu)
                                             + Delta(sample'.cpu, usage[v].cpu) <= used[v]
    <3>1. Delta(sample'.cpu, usage[v].cpu) = 0 /\ sample'.cpu = usage[v].cpu
      BY <1>2, <2>3, <2>4, DeltaUse
    <3>2. \A s \in NewestOf(v) : Delta(s.cpu, usage[v].cpu) \in Nat
      BY <2>3, DeltaType
    <3> QED BY <2>1, <2>3, <3>1, <3>2 DEF MeteredWithinUse
  <2> QED
    BY <1>2, <2>1, <2>2, <2>4 DEF MeteredWithinUse
<1> QED
    BY <1>1, <1>2, <1>3, SettledKept DEF UseInv

\* record_sample: the reading becomes the newest sample, and the one before it was.
LEMMA RecordSampleUse ==
    ASSUME UseInv, RecordSample
    PROVE  UseInv'
<1>1. IInv'
    BY RecordSampleSound DEF UseInv
<1>2. /\ UNCHANGED <<usage, used, intervals, journal, sample, previous>>
      /\ samples' = samples \cup {sample}
      /\ pc = "sample" /\ pc' \in {"collect", "interval"}
      /\ pc' = "interval" => previous # None
      /\ ~Recorded(sample)
    BY DEF RecordSample, backend
<1>3. /\ sample \in Samples
      /\ NotBeforeSamples(sample.at, sample.workload)
      /\ previous # None => previous \in Newest(Before(sample))
    BY <1>2 DEF UseInv, IInv, ReadingIsNewest, PreviousIsNewest
<1>4. UseIsMetered'
  <2> SUFFICES ASSUME NEW v \in Workloads \ Nomad, OneSamplePerInstant(v)'
               PROVE  MeteredWithinUse(v)'
    BY DEF UseIsMetered
  <2>1. MeteredWithinUse(v)
    BY <1>2 DEF UseInv, UseIsMetered, OneSamplePerInstant
  <2>2. Metered(v)' = Metered(v)
    BY <1>2 DEF Metered, IntervalsOf, IntervalDeltas
  <2>3. ASSUME NEW s \in NewestOf(v)'
        PROVE  Metered(v) + Delta(s.cpu, usage[v].cpu) <= used[v]
    <3>1. s \in samples \cup {sample} /\ s.workload = v
      BY <1>2 DEF NewestOf
    <3>2. CASE s \in samples
      <4>1. s \in NewestOf(v)
        BY <1>2, <2>3, <3>2 DEF NewestOf
      <4> QED BY <2>1, <4>1 DEF MeteredWithinUse
    <3>3. CASE s = sample
      BY <1>2, <2>1, <3>1, <3>3 DEF MeteredWithinUse
    <3> QED BY <3>1, <3>2, <3>3
  <2>4. ASSUME pc' = "interval", sample.workload = v
        PROVE  Metered(v) + Delta(previous.cpu, sample.cpu)
                   + Delta(sample.cpu, usage[v].cpu) <= used[v]
    <3>1. /\ previous \in samples /\ previous.workload = v /\ previous.at < sample.at
          /\ \A t \in samples : t.workload = v /\ t.at < sample.at => t.at <= previous.at
      BY <1>2, <1>3, <2>4 DEF Newest, Before
    <3>2. sample.at \in Nat /\ \A t \in samples : t.at \in Nat
      BY <1>3 DEF UseInv, IInv, TypeOK, Samples
    <3>3. sample.at # 0
      BY <3>1, <3>2
    <3>4. ASSUME NEW t \in samples, t.workload = v
          PROVE  t.at <= previous.at
      <4>1. t.at <= sample.at
        BY <1>3, <2>4, <3>3, <3>4 DEF NotBeforeSamples
      <4>2. t.at # sample.at
        <5> SUFFICES ASSUME t.at = sample.at PROVE FALSE
          OBVIOUS
        <5>1. t = sample
          BY <1>2, <2>4, <3>4 DEF OneSamplePerInstant
        <5> QED BY <1>2, <5>1 DEF Recorded
      <4> QED BY <3>1, <3>2, <3>4, <4>1, <4>2
    <3>5. previous \in NewestOf(v)
      BY <3>1, <3>4 DEF NewestOf
    <3> QED BY <1>2, <2>1, <2>4, <3>5 DEF MeteredWithinUse
  <2> QED
    BY <1>2, <2>1, <2>2, <2>3, <2>4 DEF MeteredWithinUse
<1> QED
    BY <1>1, <1>2, <1>4, SettledKept DEF UseInv

\* record_interval: what the reading adds becomes metered.
LEMMA RecordIntervalUse ==
    ASSUME UseInv, RecordInterval
    PROVE  UseInv'
<1> DEFINE new == interval_between(previous, sample)
<1>1. IInv'
    BY RecordIntervalSound DEF UseInv
<1>2. /\ UNCHANGED <<usage, used, samples, journal, sample>>
      /\ pc = "interval" /\ pc' = "collect"
      /\ intervals' = intervals \/ intervals' = intervals \cup {new}
    BY DEF RecordInterval, backend
<1>3. /\ sample \in samples /\ sample \in Samples /\ previous \in Samples
      /\ previous.at < sample.at /\ NotBeforeSamples(sample.at, sample.workload)
    BY <1>2 DEF UseInv, IInv, ReadingIsNewest, PreviousIsNewest, Newest, Before, TypeOK
<1>4. /\ new \in Intervals /\ new.workload = sample.workload
      /\ new.delta = Delta(previous.cpu, sample.cpu)
    BY <1>3, IntervalType DEF interval_between
<1> HIDE DEF new
<1>5. IsFiniteSet(intervals) /\ IsFiniteSet(intervals')
  <2>1. IsFiniteSet(intervals)
    BY DEF UseInv, StoresAreFinite
  <2> QED BY <1>2, <2>1, FS_AddElement
<1>6. ASSUME NEW w
      PROVE  \/ Metered(w)' = Metered(w)
             \/ new.workload = w /\ Metered(w)' = Metered(w) + new.delta
  <2>1. CASE intervals' = intervals \/ new \in intervals \/ new.workload # w
    <3>1. IntervalsOf(w)' = IntervalsOf(w)
      BY <1>2, <2>1 DEF IntervalsOf
    <3> QED BY <3>1 DEF Metered, IntervalDeltas
  <2>2. CASE intervals' = intervals \cup {new} /\ new \notin intervals /\ new.workload = w
    <3>1. IntervalsOf(w)' = IntervalsOf(w) \cup {new} /\ new \notin IntervalsOf(w)
      BY <2>2 DEF IntervalsOf
    <3>2. IsFiniteSet(IntervalsOf(w)) /\ \A i \in IntervalsOf(w) : IntervalDeltas[i] \in Nat
      BY <1>5, MeteredType DEF UseInv, IInv, IntervalsOf
    <3>3. IntervalDeltas[new] = new.delta /\ new.delta \in Nat
      BY <1>4 DEF IntervalDeltas, Intervals
    <3>4. \A i \in IntervalsOf(w) \cup {new} : IntervalDeltas[i] \in Int
      BY <3>2, <3>3
    <3>5. SumFunctionOnSet(IntervalDeltas, IntervalsOf(w) \cup {new})
              = IntervalDeltas[new] + SumFunctionOnSet(IntervalDeltas, IntervalsOf(w))
      BY <3>1, <3>2, <3>4, SumInsert
    <3>6. Metered(w)' = SumFunctionOnSet(IntervalDeltas, IntervalsOf(w) \cup {new})
      BY <3>1 DEF Metered, IntervalDeltas
    <3>7. Metered(w) = SumFunctionOnSet(IntervalDeltas, IntervalsOf(w)) /\ Metered(w) \in Nat
      BY <1>5, MeteredType DEF UseInv, IInv, Metered
    <3> HIDE DEF Metered
    <3> QED BY <2>2, <3>3, <3>5, <3>6, <3>7
  <2> QED BY <1>2, <2>1, <2>2
<1>7. UseIsMetered'
  <2> SUFFICES ASSUME NEW v \in Workloads \ Nomad, OneSamplePerInstant(v)'
               PROVE  MeteredWithinUse(v)'
    BY DEF UseIsMetered
  <2>1. OneSamplePerInstant(v) /\ MeteredWithinUse(v)
    BY <1>2 DEF UseInv, UseIsMetered, OneSamplePerInstant
  <2>2. NewestOf(v)' = NewestOf(v)
    BY <1>2 DEF NewestOf
  <2>3. CASE Metered(v)' = Metered(v)
    BY <1>2, <2>1, <2>2, <2>3 DEF MeteredWithinUse
  <2>4. CASE new.workload = v /\ Metered(v)' = Metered(v) + new.delta
    <3>1. Metered(v)' + Delta(sample.cpu, usage[v].cpu) <= used[v]
      BY <1>2, <1>4, <2>1, <2>4 DEF MeteredWithinUse
    <3>2. /\ Metered(v) \in Nat /\ new.delta \in Nat /\ used[v] \in Nat
          /\ Delta(sample.cpu, usage[v].cpu) \in Nat
      <4>1. usage[v].cpu \in Nat /\ used[v] \in Nat /\ sample.cpu \in Nat
        BY <1>3, CountersType DEF UseInv, IInv
      <4>2. Metered(v) \in Nat
        BY <1>5, MeteredType DEF UseInv, IInv
      <4> QED BY <1>4, <4>1, <4>2, DeltaType DEF Intervals
    <3>3. Metered(v)' <= used[v]
      BY <2>4, <3>1, <3>2
    <3>4. ASSUME NEW s \in NewestOf(v) PROVE s = sample
      <4>1. s \in samples /\ s.workload = v /\ sample.at <= s.at
        BY <1>3, <1>4, <2>4 DEF NewestOf
      <4>2. sample.at \in Nat /\ s.at \in Nat /\ previous.at \in Nat
        BY <1>3, <4>1 DEF UseInv, IInv, TypeOK, Samples
      <4>3. s.at <= sample.at
        BY <1>3, <1>4, <2>4, <4>1, <4>2 DEF NotBeforeSamples
      <4>4. s.at = sample.at
        BY <4>1, <4>2, <4>3
      <4> QED BY <1>3, <1>4, <2>1, <2>4, <4>1, <4>4 DEF OneSamplePerInstant
    <3> QED
      BY <1>2, <2>2, <3>1, <3>3, <3>4 DEF MeteredWithinUse
  <2> QED BY <1>6, <2>3, <2>4
<1>8. ChargesAreSettled'
  <2>1. \A r \in journal : r.interval \in intervals
    BY DEF UseInv, IInv, ReconciliationIsClean
  <2>2. \A w \in Workloads : SettledOf(w)' = SettledOf(w)
    BY <1>2, <2>1 DEF SettledOf, IntervalsOf
  <2>3. \A w \in Workloads : Charged(w)' = Charged(w)
    BY <1>2 DEF Charged
  <2> QED
    BY <2>2, <2>3 DEF UseInv, ChargesAreSettled, IntervalDeltas
<1> QED
    BY <1>1, <1>2, <1>5, <1>7, <1>8 DEF UseInv, StoresAreFinite

\* commit: an interval without a record gets one.
LEMMA SettleUse ==
    ASSUME UseInv, NEW i \in batch, Settle(i)
    PROVE  UseInv'
<1>1. IInv'
    BY SettleSound DEF UseInv
<1>2. UNCHANGED <<usage, used, samples, intervals, pc, sample, previous>>
    BY DEF Settle, backend
<1>3. UseIsMetered'
    BY <1>1, <1>2, NothingUsed, UseKept DEF IInv
<1>4. PICK l \in InForce(lists, i.start) :
          journal' = IF Settled(i) THEN journal ELSE journal \cup {settle(i, l)}
    BY DEF Settle
<1>5. CASE Settled(i)
    BY <1>1, <1>2, <1>3, <1>4, <1>5, SettledKept DEF UseInv
<1>6. CASE ~Settled(i)
  <2> DEFINE rec == settle(i, l)
             Was == [r \in journal |-> r.interval.delta]
             Is == [r \in journal' |-> r.interval.delta]
  <2>1. journal' = journal \cup {rec} /\ rec.interval = i
    BY <1>4, <1>6 DEF settle
  <2> HIDE DEF rec
  <2>2. i \in intervals /\ i \in Intervals
    BY DEF UseInv, IInv, TypeOK, PassIsSound
  <2>3. \A r \in journal : r.interval # i /\ r.interval \in Intervals /\ r # rec
    BY <1>6, <2>1 DEF Settled, UseInv, IInv, TypeOK, Records
  <2>4. IsFiniteSet(journal) /\ IsFiniteSet(journal')
    BY <2>1, FS_AddElement DEF UseInv, StoresAreFinite
  <2>5. ASSUME NEW w \in Workloads
        PROVE  Charged(w)' = SumFunctionOnSet(IntervalDeltas, SettledOf(w))'
    <3> DEFINE Of == {r \in journal : r.interval.workload = w}
    <3>1. Charged(w) = SumFunctionOnSet(Was, Of)
      BY DEF Charged
    <3>2. Charged(w)' = SumFunctionOnSet(Is, {r \in journal' : r.interval.workload = w})
      BY DEF Charged
    <3>3. IsFiniteSet(Of)
      BY <2>4, FS_Subset
    <3>4. \A r \in Of : Was[r] = Is[r]
      BY <2>1
    <3>5. SumFunctionOnSet(Is, Of) = Charged(w)
      BY <3>1, <3>3, <3>4, SumSame
    <3>6. IsFiniteSet(SettledOf(w)) /\ \A j \in SettledOf(w) : IntervalDeltas[j] \in Nat
      BY MeteredType DEF UseInv, IInv, StoresAreFinite, SettledOf, IntervalsOf
    <3>7. Charged(w) = SumFunctionOnSet(IntervalDeltas, SettledOf(w))
      BY DEF UseInv, ChargesAreSettled
    <3>8. CASE i.workload # w
      <4>1. {r \in journal' : r.interval.workload = w} = Of
        BY <2>1, <3>8
      <4>2. SettledOf(w)' = SettledOf(w)
        BY <1>2, <2>1, <3>8 DEF SettledOf, IntervalsOf
      <4> QED BY <3>2, <3>5, <3>7, <4>1, <4>2 DEF IntervalDeltas
    <3>9. CASE i.workload = w
      <4>1. {r \in journal' : r.interval.workload = w} = Of \cup {rec} /\ rec \notin Of
        BY <2>1, <2>3, <3>9
      <4>2. SettledOf(w)' = SettledOf(w) \cup {i} /\ i \notin SettledOf(w)
        BY <1>2, <2>1, <2>2, <2>3, <3>9 DEF SettledOf, IntervalsOf
      <4>3. Is[rec] = i.delta /\ i.delta \in Int /\ IntervalDeltas[i] = i.delta
        BY <2>1, <2>2 DEF Intervals, IntervalDeltas
      <4>4. \A r \in Of \cup {rec} : Is[r] \in Int
        BY <2>1, <2>3, <4>3 DEF Intervals
      <4> HIDE DEF Of, Is
      <4>5. SumFunctionOnSet(Is, Of \cup {rec}) = Is[rec] + SumFunctionOnSet(Is, Of)
        BY <3>3, <4>1, <4>4, SumInsert
      <4>6. \A j \in SettledOf(w) \cup {i} : IntervalDeltas[j] \in Int
        BY <3>6, <4>3
      <4>7. SumFunctionOnSet(IntervalDeltas, SettledOf(w) \cup {i})
                = IntervalDeltas[i] + SumFunctionOnSet(IntervalDeltas, SettledOf(w))
        BY <3>6, <4>2, <4>6, SumInsert
      <4>8. Charged(w)' = i.delta + Charged(w)
        BY <3>2, <3>5, <4>1, <4>3, <4>5
      <4>9. SumFunctionOnSet(IntervalDeltas, SettledOf(w))'
                = SumFunctionOnSet(IntervalDeltas, SettledOf(w) \cup {i})
        BY <4>2 DEF IntervalDeltas
      <4> QED BY <3>7, <4>3, <4>7, <4>8, <4>9
    <3> QED BY <3>8, <3>9
  <2>6. ChargesAreSettled'
    BY <2>5 DEF ChargesAreSettled
  <2> QED
    BY <1>1, <1>2, <1>3, <2>4, <2>6 DEF UseInv, StoresAreFinite
<1> QED BY <1>5, <1>6

\* A new meter has charged for nothing.
LEMMA InitUse == Init => UseInv
<1> SUFFICES ASSUME Init PROVE UseInv
    OBVIOUS
<1>1. IInv
    BY InitSound
<1>2. /\ samples = {} /\ intervals = {} /\ journal = {} /\ pc = "idle"
      /\ used = [w \in Workloads |-> 0]
    BY DEF Init
<1>3. StoresAreFinite
    BY <1>2, FS_EmptySet DEF StoresAreFinite
<1>4. ASSUME NEW w \in Workloads
      PROVE  /\ Charged(w) = 0 /\ Metered(w) = 0
             /\ SumFunctionOnSet(IntervalDeltas, SettledOf(w)) = 0
  <2>1. IntervalsOf(w) = {} /\ SettledOf(w) = {} /\ {r \in journal : r.interval.workload = w} = {}
    BY <1>2 DEF IntervalsOf, SettledOf
  <2> QED BY <2>1, SumEmpty DEF Charged, Metered
<1>5. ChargesAreSettled
    BY <1>4 DEF ChargesAreSettled
<1>6. UseIsMetered
    BY <1>2, <1>4 DEF UseIsMetered, MeteredWithinUse, NewestOf
<1> QED
    BY <1>1, <1>3, <1>5, <1>6 DEF UseInv

\* Every step keeps the invariant of charges.
LEMMA NextUse == UseInv /\ [Next]_vars => UseInv'
<1> SUFFICES ASSUME UseInv, [Next]_vars PROVE UseInv'
    OBVIOUS
<1>1. IInv'
    BY NextSound DEF UseInv
<1>2. CASE Pass
    BY <1>1, <1>2, QuietUse, ReadUse, RecordSampleUse, RecordIntervalUse, SettleUse
    DEF Pass, Collect, UseInv, IInv, TypeOK
<1>3. CASE Environment
    BY <1>1, <1>3, QuietUse, ConsumeUse, ResetUse DEF Environment
<1>4. CASE UNCHANGED vars
  <2>1. /\ UNCHANGED <<usage, used, samples, intervals, journal>>
        /\ UNCHANGED <<pc, sample, previous>>
    BY <1>4 DEF vars
  <2>2. UseIsMetered'
    BY <1>1, <2>1, NothingUsed, UseKept DEF IInv
  <2> QED BY <1>1, <2>1, <2>2, SettledKept DEF UseInv
<1> QED
    BY <1>2, <1>3, <1>4 DEF Next

\* What is settled is a part of what is metered.
LEMMA ChargesFollow == UseInv => ChargesWithinUse
<1> SUFFICES ASSUME UseInv, NEW w \in Workloads \ Nomad, OneSamplePerInstant(w)
             PROVE  Charged(w) <= used[w]
    BY DEF ChargesWithinUse
<1>1. /\ IsFiniteSet(IntervalsOf(w)) /\ Metered(w) \in Nat
      /\ \A i \in IntervalsOf(w) : IntervalDeltas[i] \in Nat
    BY MeteredType DEF UseInv, IInv, StoresAreFinite, IntervalsOf
<1>2. SettledOf(w) \in SUBSET IntervalsOf(w)
    BY DEF SettledOf
<1>3. SumFunctionOnSet(IntervalDeltas, SettledOf(w)) <= Metered(w)
    BY <1>1, <1>2, SumWithin DEF Metered
<1>4. SumFunctionOnSet(IntervalDeltas, SettledOf(w)) \in Int
  <2>1. IsFiniteSet(SettledOf(w)) /\ \A i \in SettledOf(w) : IntervalDeltas[i] \in Int
    BY <1>1, <1>2, FS_Subset
  <2> QED BY <2>1, SumInt
<1>5. /\ Charged(w) = SumFunctionOnSet(IntervalDeltas, SettledOf(w))
      /\ Metered(w) <= used[w] /\ used[w] \in Nat
    BY CountersType
    DEF UseInv, IInv, ChargesAreSettled, UseIsMetered, MeteredWithinUse
<1> QED
    BY <1>1, <1>3, <1>4, <1>5

-----------------------------------------------------------------------------
(* Theorems *)

\* The invariant holds of every behaviour.
THEOREM Invariance == Spec => []IInv
    BY InitSound, NextSound, PTL DEF Spec

\* The type invariant.
THEOREM TypeCorrect == Spec => []TypeOK
    BY Invariance, PTL DEF IInv

\* No sequence of passes, repeated readings, resets and ends of the process makes
\* two intervals of one workload that overlap without spanning the same time
\* (previous_sample, record_sample, record_interval).
THEOREM SpansNeverOverlap == Spec => []ChargedSpansDoNotOverlap
<1>1. IInv => ChargedSpansDoNotOverlap
    BY SpansFollow DEF IInv
<1> QED
    BY <1>1, Invariance, PTL

\* Every journal record can be recomputed from stored samples and a published list,
\* whatever is published between a pass reading the lists and settling.
THEOREM AlwaysReconciled == Spec => []ReconciliationIsClean
    BY Invariance, PTL DEF IInv

\* Whatever is reset, read twice, lost with the process or settled late, a workload
\* of the native backend is charged for no more than it consumed, as long as no two
\* of its samples carry the same instant.
THEOREM NeverOvercharged == Spec => []ChargesWithinUse
<1>1. Spec => []UseInv
    BY InitUse, NextUse, PTL DEF Spec
<1> QED
    BY <1>1, ChargesFollow, PTL
=============================================================================
