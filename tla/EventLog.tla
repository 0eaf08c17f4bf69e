------------------------------ MODULE EventLog ------------------------------
(***************************************************************************)
(* The VMM service's event log (VmmEventLog of                             *)
(* crates/aseman-capsule/src/vmm.rs), what is written to it while events   *)
(* are dropped by age, and the streams that nodes follow it with           *)
(* (event_stream of modules/vmm-http/src/server.rs).                       *)
(*                                                                         *)
(* A write carries the revision that the storage engine reads when it is   *)
(* made, not the one of the value it was computed from                     *)
(* (crates/aseman-storage/src/engine.rs): an append and a truncation may   *)
(* write over a counter that changed since they read it.  Only an event    *)
(* that exists is never written over.  raced tells what was not as it was  *)
(* read.                                                                   *)
(*                                                                         *)
(* A stream reads a batch, hands its events over one by one, and may break *)
(* anywhere; a node comes back with the identifier of the last event it    *)
(* received.  The owner and the workload of an event, by which a stream    *)
(* selects, are its topic.                                                 *)
(***************************************************************************)
EXTENDS Naturals, FiniteSets

CONSTANTS
    Writers,    \* threads that append: handlers and the worker
    Topics,     \* owners and workloads
    Nodes,      \* followers of the log
    Follows,    \* the topics each node's stream selects
    Keep,       \* EVENT_RETENTION_MILLIS
    Limit,      \* STREAM_BATCH
    MaxEvents,  \* bound on the events made
    MaxClock,   \* bound on the clock
    MaxBreaks   \* bound on streams that break

ASSUME LogAssumption ==
    /\ Follows \in [Nodes -> SUBSET Topics]
    /\ {Keep, MaxEvents, MaxClock, MaxBreaks} \subseteq Nat
    /\ Limit \in Nat \ {0}

VARIABLES
    clock,      \* the clock of the VMM service
    last,       \* the counter LAST_SEQUENCE
    truncated,  \* the counter TRUNCATED_THROUGH
    events,     \* core.vmm_event
    history,    \* every event that was ever appended
    writer,     \* each thread's append
    cut,        \* the worker's truncation
    stream,     \* each node's stream: what it read and has not handed over
    seen,       \* the last event identifier each node received
    got,        \* what it received
    raced,      \* the races that were lost: see Races
    breaks      \* how much of MaxBreaks is used

log == <<last, truncated, events, history>>
node == <<seen, got>>
vars == <<clock, last, truncated, events, history, writer, cut, stream, seen, got,
          raced, breaks>>

-----------------------------------------------------------------------------
Events == [seq : Nat, topic : Topics, at : Nat]

\* LAST_SEQUENCE was written over, an event above the mark was dropped, the mark
\* moved before the batch that it was compared for was read.
Races == {"rewound", "dropped", "moved"}

\* An append in progress: the event's topic and time, and the sequence it computed.
Idle == [pc |-> "idle"]

Appends ==
    {Idle} \cup [pc : {"made"}, topic : Topics, at : Nat]
           \cup [pc : {"read"}, topic : Topics, at : Nat, seq : Nat]

\* A truncation: the last event it found, and LAST_SEQUENCE as it read it.
Cuts ==
    {Idle} \cup [pc : {"found"}, cutoff : Nat, highest : Nat]
           \cup [pc : {"read"}, cutoff : Nat, highest : Nat, last : Nat]

\* A stream is closed, told its node to list again, or is after an event, where it
\* may have compared its position with the mark.
Closed == [pc |-> "closed"]
Resync == [pc |-> "resync"]

Streams ==
    {Closed, Resync} \cup [pc : {"open"}, after : Nat, pending : SUBSET Events]
                     \cup [pc : {"checked"}, after : Nat, mark : Nat]

Init ==
    /\ clock = 0
    /\ last = 0 /\ truncated = 0
    /\ events = {} /\ history = {}
    /\ writer = [w \in Writers |-> Idle]
    /\ cut = Idle
    /\ stream = [n \in Nodes |-> Closed]
    /\ seen = [n \in Nodes |-> 0]
    /\ got = [n \in Nodes |-> {}]
    /\ raced = {}
    /\ breaks = 0

Tick ==
    /\ clock < MaxClock
    /\ clock' = clock + 1
    /\ UNCHANGED <<log, writer, cut, stream, node, raced, breaks>>

-----------------------------------------------------------------------------
(* append *)

InFlight == {w \in Writers : writer[w] # Idle}

\* VmmService::event stamps the event before the transaction begins.
Make(w, t) ==
    /\ writer[w] = Idle
    /\ Cardinality(history) + Cardinality(InFlight) < MaxEvents
    /\ writer' = [writer EXCEPT ![w] = [pc |-> "made", topic |-> t, at |-> clock]]
    /\ UNCHANGED <<clock, log, cut, stream, node, raced, breaks>>

AppendRead(w) ==
    /\ writer[w].pc = "made"
    /\ writer' = [writer EXCEPT ![w] =
           [pc |-> "read", topic |-> writer[w].topic, at |-> writer[w].at,
            seq |-> last + 1]]
    /\ UNCHANGED <<clock, log, cut, stream, node, raced, breaks>>

\* Its key is that of an event.
Taken(seq) == \E e \in events : e.seq = seq

\* The sequence is not the one after LAST_SEQUENCE, which was written since.
Outdated(w) == last # writer[w].seq - 1

\* Mutants are plausible slips in the operator that follows them; no definition
\* uses them.  Here: the append does not write the counter.
Mutant_Append(w) ==
    /\ writer[w].pc = "read" /\ ~Taken(writer[w].seq)
    /\ LET e == [seq |-> writer[w].seq, topic |-> writer[w].topic, at |-> writer[w].at]
       IN  events' = events \cup {e} /\ history' = history \cup {e}
    /\ raced' = IF Outdated(w) THEN raced \cup {"rewound"} ELSE raced
    /\ writer' = [writer EXCEPT ![w] = Idle]
    /\ UNCHANGED <<clock, last, truncated, cut, stream, node, breaks>>

\* The counter is upserted and the event is created, which its key may refuse.
Append(w) ==
    /\ writer[w].pc = "read" /\ ~Taken(writer[w].seq)
    /\ LET e == [seq |-> writer[w].seq, topic |-> writer[w].topic, at |-> writer[w].at]
       IN  /\ last' = e.seq
           /\ events' = events \cup {e}
           /\ history' = history \cup {e}
    /\ raced' = IF Outdated(w) THEN raced \cup {"rewound"} ELSE raced
    /\ writer' = [writer EXCEPT ![w] = Idle]
    /\ UNCHANGED <<clock, truncated, cut, stream, node, breaks>>

\* Another transaction won: decide runs it again.  (A conflict with a transaction
\* that left the counter as it was reads what it read.)
AppendConflict(w) ==
    /\ writer[w].pc = "read"
    /\ Outdated(w) \/ Taken(writer[w].seq)
    /\ writer' = [writer EXCEPT ![w] =
           [pc |-> "made", topic |-> writer[w].topic, at |-> writer[w].at]]
    /\ UNCHANGED <<clock, log, cut, stream, node, raced, breaks>>

\* The store fails, the retries run out or the thread ends: there is no event.
AppendFails(w) ==
    /\ writer[w] # Idle
    /\ writer' = [writer EXCEPT ![w] = Idle]
    /\ UNCHANGED <<clock, log, cut, stream, node, raced, breaks>>

-----------------------------------------------------------------------------
(* truncate_before *)

Expired(cutoff) == {e \in events : e.at < cutoff}

Highest(es) == {e \in es : \A f \in es : f.seq <= e.seq}

\* Without an expired event it ends here.
TruncateFind ==
    /\ cut = Idle
    /\ clock > Keep
    /\ \E e \in Highest(Expired(clock - Keep)) :
          cut' = [pc |-> "found", cutoff |-> clock - Keep, highest |-> e.seq]
    /\ UNCHANGED <<clock, log, writer, stream, node, raced, breaks>>

TruncateRead ==
    /\ cut.pc = "found"
    /\ cut' = [pc |-> "read", cutoff |-> cut.cutoff, highest |-> cut.highest, last |-> last]
    /\ UNCHANGED <<clock, log, writer, stream, node, raced, breaks>>

Larger(a, b) == IF a > b THEN a ELSE b

Mark(highest) == Larger(truncated, highest)

\* An append that committed since goes back out of the counter, or out of the log.
CutRaces ==
    (IF last # cut.last THEN {"rewound"} ELSE {}) \cup
    (IF \E e \in Expired(cut.cutoff) : e.seq > Mark(cut.highest) THEN {"dropped"} ELSE {})

\* The rows that match when the transaction commits are deleted.
Truncate ==
    /\ cut.pc = "read"
    /\ last' = cut.last
    /\ truncated' = Mark(cut.highest)
    /\ events' = events \ Expired(cut.cutoff)
    /\ raced' = raced \cup CutRaces
    /\ cut' = Idle
    /\ UNCHANGED <<clock, history, writer, stream, node, breaks>>

\* Conflicts or a failure: the next pass of the worker begins again.
TruncateFails ==
    /\ cut # Idle
    /\ cut' = Idle
    /\ UNCHANGED <<clock, log, writer, stream, node, raced, breaks>>

-----------------------------------------------------------------------------
(* event_stream *)

\* The stream begins at the start, whatever the node received.
Mutant_Connect(n) ==
    /\ stream[n] = Closed
    /\ stream' = [stream EXCEPT ![n] = [pc |-> "open", after |-> 0, pending |-> {}]]
    /\ UNCHANGED <<clock, log, writer, cut, node, raced, breaks>>

\* A node connects with the last event it received.
Connect(n) ==
    /\ stream[n] = Closed
    /\ stream' = [stream EXCEPT ![n] = [pc |-> "open", after |-> seen[n], pending |-> {}]]
    /\ UNCHANGED <<clock, log, writer, cut, node, raced, breaks>>

\* A stream that handed everything over reads again.
Reads(n) == stream[n].pc = "open" /\ stream[n].pending = {}

\* events_after compares the position with the mark.
Check(n) ==
    /\ Reads(n)
    /\ stream[n].after >= truncated
    /\ stream' = [stream EXCEPT ![n] =
           [pc |-> "checked", after |-> stream[n].after, mark |-> truncated]]
    /\ UNCHANGED <<clock, log, writer, cut, node, raced, breaks>>

\* The stream ends without a word.
Mutant_TooOld(n) ==
    /\ Reads(n)
    /\ stream[n].after < truncated
    /\ stream' = [stream EXCEPT ![n] = Closed]
    /\ UNCHANGED <<clock, log, writer, cut, node, raced, breaks>>

\* The position is in the dropped range: the node is told.
TooOld(n) ==
    /\ Reads(n)
    /\ stream[n].after < truncated
    /\ stream' = [stream EXCEPT ![n] = Resync]
    /\ UNCHANGED <<clock, log, writer, cut, node, raced, breaks>>

\* The events above the position that the node selects.
After(n, after) == {e \in events : e.topic \in Follows[n] /\ e.seq > after}

\* The batch is not ordered by sequence.
Mutant_FirstOf(es) ==
    {b \in SUBSET es : Cardinality(b) <= Limit /\ (Cardinality(b) = Limit \/ b = es)}

FirstOf(es) ==
    {b \in SUBSET es : /\ Cardinality(b) <= Limit
                       /\ Cardinality(b) = Limit \/ b = es
                       /\ \A e \in b, f \in es \ b : e.seq < f.seq}

\* With events the stream's position moves to the last of them.
Batch(n) ==
    /\ stream[n].pc = "checked"
    /\ \E b \in FirstOf(After(n, stream[n].after)) : \E e \in Highest(b) :
          stream' = [stream EXCEPT ![n] = [pc |-> "open", after |-> e.seq, pending |-> b]]
    /\ raced' = IF truncated # stream[n].mark THEN raced \cup {"moved"} ELSE raced
    /\ UNCHANGED <<clock, log, writer, cut, node, breaks>>

\* Without events a stream that follows reads again later, and one that does not
\* ends.
NothingNew(n, s) ==
    /\ stream[n].pc = "checked"
    /\ After(n, stream[n].after) = {}
    /\ stream' = [stream EXCEPT ![n] = s]
    /\ UNCHANGED <<clock, log, writer, cut, node, raced, breaks>>

Poll(n) ==
    /\ stream[n].pc = "checked"
    /\ NothingNew(n, [pc |-> "open", after |-> stream[n].after, pending |-> {}])

EndOfLog(n) == NothingNew(n, Closed)

\* The next event of the batch reaches the node.
Deliver(n) ==
    /\ stream[n].pc = "open"
    /\ \E e \in stream[n].pending :
          /\ \A f \in stream[n].pending : e.seq <= f.seq
          /\ stream' = [stream EXCEPT ![n] =
                 [pc |-> "open", after |-> stream[n].after,
                  pending |-> stream[n].pending \ {e}]]
          /\ seen' = [seen EXCEPT ![n] = e.seq]
          /\ got' = [got EXCEPT ![n] = @ \cup {e.seq}]
    /\ UNCHANGED <<clock, log, writer, cut, raced, breaks>>

\* The connection or the store fails: what was not delivered is forgotten.
Break(n) ==
    /\ stream[n] # Closed
    /\ breaks < MaxBreaks
    /\ breaks' = breaks + 1
    /\ stream' = [stream EXCEPT ![n] = Closed]
    /\ UNCHANGED <<clock, log, writer, cut, node, raced>>

\* The node is told to list, and neither the resync event nor a listing has a
\* sequence: it comes back with the last event it received.
ListAgain(n) ==
    /\ stream[n] = Resync
    /\ stream' = [stream EXCEPT ![n] = Closed]
    /\ UNCHANGED <<clock, log, writer, cut, node, raced, breaks>>

-----------------------------------------------------------------------------
Writing(w) == AppendRead(w) \/ Append(w) \/ AppendConflict(w)

Truncating == TruncateFind \/ TruncateRead \/ Truncate \/ TruncateFails

Streaming(n) ==
    Connect(n) \/ Check(n) \/ TooOld(n) \/ Batch(n) \/ Poll(n) \/ Deliver(n) \/ ListAgain(n)

Next ==
    \/ Tick \/ Truncating
    \/ \E w \in Writers : Writing(w) \/ AppendFails(w) \/ \E t \in Topics : Make(w, t)
    \/ \E n \in Nodes : Streaming(n) \/ EndOfLog(n) \/ Break(n)

Spec == Init /\ [][Next]_vars

\* A server polls its stream, and a node keeps following.
FairSpec == Spec /\ \A n \in Nodes : WF_vars(Streaming(n))

-----------------------------------------------------------------------------
(* Properties *)

\* The type invariant.
TypeOK ==
    /\ clock \in Nat
    /\ last \in Nat /\ truncated \in Nat
    /\ events \subseteq Events /\ history \subseteq Events
    /\ writer \in [Writers -> Appends]
    /\ cut \in Cuts
    /\ stream \in [Nodes -> Streams]
    /\ seen \in [Nodes -> Nat]
    /\ got \in [Nodes -> SUBSET Nat]
    /\ raced \subseteq Races
    /\ breaks \in Nat

\* A sequence is the identity of one event.
OneEventEach == \A e, f \in history : e.seq = f.seq => e = f

\* Though threads append at once beside the worker that truncates, a sequence names
\* one event as long as no commit writes over a LAST_SEQUENCE that changed since it
\* was read (append, truncate_before).
SequencesAreUnique == "rewound" \notin raced => OneEventEach

\* A node has received every event it selects up to the last one it received: no
\* truncation beside a slow or broken stream, no append that commits late and no
\* reconnection leaves a gap it is not told of, as long as none of the races is
\* lost (events_after, truncate_before, event_stream).
NoEventIsMissed ==
    raced = {} =>
        \A n \in Nodes : \A e \in history :
            e.topic \in Follows[n] /\ e.seq <= seen[n] => e.seq \in got[n]

\* What a node receives is newer than everything it received: none twice, none out
\* of order, also when it comes back and whatever races are lost (event_stream).
EventsComeInOrder ==
    [][\A n \in Nodes : /\ seen'[n] >= seen[n]
                        /\ Deliver(n) => seen'[n] > seen[n]]_vars

\* An event reaches every node that follows its topic, or the node is told that it
\* was dropped, as long as none of the races is lost (event_stream).
EveryEventArrives ==
    \A n \in Nodes : \A k \in 1..MaxEvents :
        (\E e \in history : e.seq = k /\ e.topic \in Follows[n])
            ~> (seen[n] >= k \/ stream[n] = Resync \/ raced # {})

\* Not a property of the code: a node that was told to list again then follows from
\* what it listed (docs/decisions/0029-vmm-service-contract.md, item 2).  It has no
\* position that events_after takes, and is told again for ever.
FollowsAfterResync ==
    \A n \in Nodes : stream[n] = Resync ~> seen[n] >= truncated
=============================================================================
