---------------------------- MODULE VmmHttpProofs ----------------------------
(***************************************************************************)
(* Proofs about the two things the VMM service keeps for its clients: the  *)
(* event log, for every set of writers, topics and nodes, every batch      *)
(* limit and every bound, and the idempotency key, for any requests,       *)
(* bodies, replies and times.  The two specifications have no name in      *)
(* common and no formula combines them.                                    *)
(*                                                                         *)
(* The argument for the log: an append that is not outdated takes the      *)
(* sequence after the last one; a truncation that drops nothing above its  *)
(* mark leaves whatever is dropped at or below the mark; and a stream that *)
(* stands at or above the mark when it reads therefore reads a batch that  *)
(* leaves out nothing up to its last event.  A race that is lost ends      *)
(* this, and is recorded; that a stream hands over ascending sequences     *)
(* needs none of it.                                                       *)
(*                                                                         *)
(* For the key: a claim is taken over only at an age its worker cannot     *)
(* have without an overrun, so the one who works holds the claim, and what *)
(* is stored is what was first answered.                                   *)
(***************************************************************************)
EXTENDS EventLog, Idempotency, TLAPS

\* What is stored was appended, one event under each key.
EventsAreSound ==
    /\ events \subseteq history
    /\ \A e, f \in events : e.seq = f.seq => e = f

\* What a stream holds comes in order, above what its node received.
StreamIsOrdered(n) ==
    /\ stream[n].pc \in {"open", "checked"} => seen[n] <= stream[n].after
    /\ stream[n].pc = "open" =>
          /\ \A e \in stream[n].pending : seen[n] < e.seq /\ e.seq <= stream[n].after
          /\ \A e, f \in stream[n].pending : e.seq = f.seq => e = f

StreamsAreOrdered == \A n \in Nodes : StreamIsOrdered(n)

\* No event is above the counter, and no dropped event above the mark.
Counted == \A e \in history : e.seq <= last

Marked == \A e \in history \ events : e.seq <= truncated

\* The stream's node has, or the stream holds, all that the node selects up to the
\* stream's position.
StreamIsComplete(n) ==
    /\ seen[n] <= last
    /\ stream[n].pc \in {"open", "checked"} => stream[n].after <= last
    /\ stream[n].pc = "open" =>
          /\ stream[n].pending \subseteq history
          /\ \A e \in history :
                e.topic \in Follows[n] /\ seen[n] < e.seq /\ e.seq <= stream[n].after
                    => e \in stream[n].pending
    /\ stream[n].pc = "checked" =>
          /\ stream[n].mark <= stream[n].after
          /\ \A e \in history :
                e.topic \in Follows[n] /\ seen[n] < e.seq => stream[n].after < e.seq

StreamsAreComplete == \A n \in Nodes : StreamIsComplete(n)

Inv ==
    /\ TypeOK
    /\ EventsAreSound
    /\ StreamsAreOrdered
    /\ SequencesAreUnique
    /\ NoEventIsMissed
    /\ "rewound" \notin raced => Counted
    /\ "dropped" \notin raced => Marked
    /\ raced = {} => StreamsAreComplete

-----------------------------------------------------------------------------
(* What a writer, a truncation and a stream hold at each step. *)

\* Each kind of append, truncation and stream is told by its pc.
LEMMA PcTells ==
    ASSUME TypeOK
    PROVE  /\ \A w \in Writers : writer[w].pc = "made" =>
                  writer[w] \in [pc : {"made"}, topic : Topics, at : Nat]
           /\ \A w \in Writers : writer[w].pc = "read" =>
                  writer[w] \in [pc : {"read"}, topic : Topics, at : Nat, seq : Nat]
           /\ cut.pc = "found" => cut \in [pc : {"found"}, cutoff : Nat, highest : Nat]
           /\ cut.pc = "read" =>
                  cut \in [pc : {"read"}, cutoff : Nat, highest : Nat, last : Nat]
           /\ \A n \in Nodes : stream[n].pc = "open" =>
                  stream[n] \in [pc : {"open"}, after : Nat, pending : SUBSET Events]
           /\ \A n \in Nodes : stream[n].pc = "checked" =>
                  stream[n] \in [pc : {"checked"}, after : Nat, mark : Nat]
<1>1. \A w \in Writers : writer[w] \in Appends
    BY DEF TypeOK
<1>2. cut \in Cuts
    BY DEF TypeOK
<1>3. \A n \in Nodes : stream[n] \in Streams
    BY DEF TypeOK
<1>4. ASSUME NEW w \in Writers
      PROVE  /\ writer[w].pc = "made" =>
                    writer[w] \in [pc : {"made"}, topic : Topics, at : Nat]
             /\ writer[w].pc = "read" =>
                    writer[w] \in [pc : {"read"}, topic : Topics, at : Nat, seq : Nat]
    BY <1>1, <1>4 DEF Appends, Idle
<1>5. /\ cut.pc = "found" => cut \in [pc : {"found"}, cutoff : Nat, highest : Nat]
      /\ cut.pc = "read" =>
             cut \in [pc : {"read"}, cutoff : Nat, highest : Nat, last : Nat]
    BY <1>2 DEF Cuts, Idle
<1>6. ASSUME NEW n \in Nodes
      PROVE  /\ stream[n].pc = "open" =>
                    stream[n] \in [pc : {"open"}, after : Nat, pending : SUBSET Events]
             /\ stream[n].pc = "checked" =>
                    stream[n] \in [pc : {"checked"}, after : Nat, mark : Nat]
    BY <1>3, <1>6 DEF Streams, Closed, Resync
<1> QED
    BY <1>4, <1>5, <1>6

\* The log starts sound.
LEMMA InitInv == Init => Inv
<1> SUFFICES ASSUME Init PROVE Inv
    OBVIOUS
<1>1. TypeOK
    BY DEF Init, TypeOK, Appends, Cuts, Streams, Events
<1>2. EventsAreSound /\ SequencesAreUnique /\ NoEventIsMissed /\ Counted /\ Marked
    BY DEF Init, EventsAreSound, SequencesAreUnique, OneEventEach, NoEventIsMissed, Counted,
       Marked
<1>3. StreamsAreOrdered /\ StreamsAreComplete
    BY DEF Init, StreamsAreOrdered, StreamIsOrdered, StreamsAreComplete, StreamIsComplete,
       Closed
<1> QED
    BY <1>1, <1>2, <1>3 DEF Inv

-----------------------------------------------------------------------------
(* Steps that leave the log alone *)

\* A step of a writer, the truncation or the clock that does not commit.
LEMMA QuietLog ==
    ASSUME Inv, UNCHANGED <<log, stream, node, raced>>, TypeOK'
    PROVE  Inv'
<1> USE DEF log, node
<1>1. EventsAreSound' /\ SequencesAreUnique' /\ NoEventIsMissed'
    BY DEF Inv, EventsAreSound, SequencesAreUnique, OneEventEach, NoEventIsMissed
<1>2. /\ "rewound" \notin raced' => Counted'
      /\ "dropped" \notin raced' => Marked'
    BY DEF Inv, Counted, Marked
<1>3. StreamsAreOrdered' /\ (raced' = {} => StreamsAreComplete')
    BY DEF Inv, StreamsAreOrdered, StreamIsOrdered, StreamsAreComplete, StreamIsComplete
<1> QED
    BY <1>1, <1>2, <1>3 DEF Inv

\* Tick, Make, AppendRead, AppendConflict and AppendFails commit nothing.
LEMMA WriterSteps ==
    ASSUME Inv,
           \/ Tick
           \/ \E w \in Writers : \/ AppendRead(w) \/ AppendConflict(w) \/ AppendFails(w)
                                 \/ \E t \in Topics : Make(w, t)
    PROVE  Inv'
<1> TypeOK
    BY DEF Inv
<1>1. CASE Tick
  <2>1. TypeOK'
      BY <1>1 DEF Tick, TypeOK, log, node
  <2> QED
      BY <1>1, <2>1, QuietLog DEF Tick
<1>2. ASSUME NEW w \in Writers, NEW a \in Appends, writer' = [writer EXCEPT ![w] = a],
             UNCHANGED <<clock, log, cut, stream, node, raced, breaks>>
      PROVE  Inv'
  <2>1. TypeOK'
      BY <1>2 DEF TypeOK, log, node
  <2> QED
      BY <1>2, <2>1, QuietLog
<1>3. ASSUME NEW w \in Writers, NEW t \in Topics, Make(w, t)
      PROVE  Inv'
  <2>1. [pc |-> "made", topic |-> t, at |-> clock] \in Appends
      BY DEF Appends, TypeOK
  <2> QED
      BY <1>2, <1>3, <2>1 DEF Make
<1>4. ASSUME NEW w \in Writers, AppendRead(w)
      PROVE  Inv'
  <2>1. writer[w] \in [pc : {"made"}, topic : Topics, at : Nat]
      BY <1>4, PcTells DEF AppendRead
  <2>2. [pc |-> "read", topic |-> writer[w].topic, at |-> writer[w].at,
         seq |-> last + 1] \in Appends
      BY <2>1 DEF Appends, TypeOK
  <2> QED
      BY <1>2, <1>4, <2>2 DEF AppendRead
<1>5. ASSUME NEW w \in Writers, AppendConflict(w)
      PROVE  Inv'
  <2>1. writer[w] \in [pc : {"read"}, topic : Topics, at : Nat, seq : Nat]
      BY <1>5, PcTells DEF AppendConflict
  <2>2. [pc |-> "made", topic |-> writer[w].topic, at |-> writer[w].at] \in Appends
      BY <2>1 DEF Appends
  <2> QED
      BY <1>2, <1>5, <2>2 DEF AppendConflict
<1>6. ASSUME NEW w \in Writers, AppendFails(w)
      PROVE  Inv'
  <2>1. Idle \in Appends
      BY DEF Appends
  <2> QED
      BY <1>2, <1>6, <2>1 DEF AppendFails
<1> QED
    BY <1>1, <1>3, <1>4, <1>5, <1>6

\* TruncateFind, TruncateRead and TruncateFails commit nothing.
LEMMA CutSteps ==
    ASSUME Inv, TruncateFind \/ TruncateRead \/ TruncateFails
    PROVE  Inv'
<1> TypeOK
    BY DEF Inv
<1>1. ASSUME cut' \in Cuts, UNCHANGED <<clock, log, writer, stream, node, raced, breaks>>
      PROVE  Inv'
  <2>1. TypeOK'
      BY <1>1 DEF TypeOK, log, node
  <2> QED
      BY <1>1, <2>1, QuietLog
<1>2. CASE TruncateFind
  <2>1. PICK e \in Highest(Expired(clock - Keep)) :
            cut' = [pc |-> "found", cutoff |-> clock - Keep, highest |-> e.seq]
      BY <1>2 DEF TruncateFind
  <2>2. clock - Keep \in Nat
      BY <1>2, LogAssumption DEF TruncateFind, TypeOK
  <2>3. e.seq \in Nat
      BY DEF Highest, Expired, TypeOK, Events
  <2>4. cut' \in Cuts
      BY <2>1, <2>2, <2>3 DEF Cuts
  <2> QED
      BY <1>1, <1>2, <2>4 DEF TruncateFind
<1>3. CASE TruncateRead
  <2>1. cut \in [pc : {"found"}, cutoff : Nat, highest : Nat]
      BY <1>3, PcTells DEF TruncateRead
  <2>2. cut' \in Cuts
      BY <1>3, <2>1 DEF TruncateRead, Cuts, TypeOK
  <2> QED
      BY <1>1, <1>3, <2>2 DEF TruncateRead
<1>4. CASE TruncateFails
    BY <1>1, <1>4 DEF TruncateFails, Cuts
<1> QED
    BY <1>2, <1>3, <1>4

-----------------------------------------------------------------------------
(* Commits *)

\* A committed append is newer than everything there is, unless it is outdated.
LEMMA AppendStep ==
    ASSUME Inv, NEW w \in Writers, Append(w)
    PROVE  Inv'
<1> DEFINE e == [seq |-> writer[w].seq, topic |-> writer[w].topic, at |-> writer[w].at]
<1> TypeOK /\ EventsAreSound /\ StreamsAreOrdered
    BY DEF Inv
<1>1. writer[w] \in [pc : {"read"}, topic : Topics, at : Nat, seq : Nat]
    BY PcTells DEF Append
<1>2. /\ e \in Events /\ e.seq \in Nat /\ e.seq = writer[w].seq
      /\ last \in Nat /\ truncated \in Nat
    BY <1>1 DEF Events, TypeOK
<1>3. /\ last' = e.seq
      /\ events' = events \cup {e} /\ history' = history \cup {e}
      /\ truncated' = truncated
      /\ writer' = [writer EXCEPT ![w] = Idle]
      /\ UNCHANGED <<clock, cut, stream, seen, got, breaks>>
    BY <1>2 DEF Append, node
<1>4. /\ raced \subseteq raced' /\ raced' \subseteq Races
      /\ "rewound" \notin raced' => raced' = raced /\ e.seq = last + 1
    BY <1>2 DEF Append, Outdated, TypeOK, Races
<1>5. \A f \in events : f.seq # e.seq
    BY <1>2 DEF Append, Taken
<1> HIDE DEF e
<1>6. \A f \in history : f \in Events /\ f.seq \in Nat
    BY DEF TypeOK, Events
<1>7. TypeOK'
  <2>1. Idle \in Appends
      BY DEF Appends
  <2> QED
      BY <1>2, <1>3, <1>4, <2>1 DEF TypeOK
<1>8. EventsAreSound'
    BY <1>3, <1>5 DEF EventsAreSound
<1>9. StreamsAreOrdered'
    BY <1>3 DEF StreamsAreOrdered, StreamIsOrdered
<1>10. SequencesAreUnique' /\ ("rewound" \notin raced' => Counted')
  <2> SUFFICES ASSUME "rewound" \notin raced' PROVE OneEventEach' /\ Counted'
      BY DEF SequencesAreUnique
  <2>1. e.seq = last + 1 /\ Counted /\ OneEventEach
      BY <1>4 DEF Inv, SequencesAreUnique
  <2> QED
      BY <1>2, <1>3, <1>6, <2>1 DEF OneEventEach, Counted
<1>11. "dropped" \notin raced' => Marked'
    BY <1>3, <1>4 DEF Inv, Marked
<1>12. NoEventIsMissed' /\ (raced' = {} => StreamsAreComplete')
  <2> SUFFICES ASSUME raced' = {} PROVE NoEventIsMissed' /\ StreamsAreComplete'
      BY DEF NoEventIsMissed
  <2>1. e.seq = last + 1 /\ Counted /\ raced = {} /\ StreamsAreComplete /\ NoEventIsMissed
      BY <1>4 DEF Inv
  <2>2. NoEventIsMissed'
      BY <1>2, <1>3, <1>6, <2>1 DEF NoEventIsMissed, StreamsAreComplete, StreamIsComplete,
         TypeOK
  <2>3. ASSUME NEW n \in Nodes PROVE StreamIsComplete(n)'
    <3>1. seen[n] \in Nat /\ StreamIsComplete(n)
        BY <2>1 DEF StreamsAreComplete, TypeOK
    <3>2. stream[n].pc \in {"open", "checked"} => stream[n].after \in Nat
        BY PcTells
    <3> QED
        BY <1>2, <1>3, <1>6, <2>1, <3>1, <3>2 DEF StreamIsComplete
  <2> QED
      BY <2>2, <2>3 DEF StreamsAreComplete
<1> QED
    BY <1>7, <1>8, <1>9, <1>10, <1>11, <1>12 DEF Inv

\* A committed truncation marks everything it drops and leaves the counter, unless
\* it lost a race.
LEMMA TruncateStep ==
    ASSUME Inv, Truncate
    PROVE  Inv'
<1> TypeOK /\ EventsAreSound /\ StreamsAreOrdered
    BY DEF Inv
<1>1. cut \in [pc : {"read"}, cutoff : Nat, highest : Nat, last : Nat]
    BY PcTells DEF Truncate
<1>2. /\ events' = events \ Expired(cut.cutoff)
      /\ last' = cut.last /\ truncated' = Mark(cut.highest)
      /\ cut' = Idle
      /\ UNCHANGED <<clock, history, writer, stream, seen, got, breaks>>
    BY DEF Truncate, node
<1>3. last \in Nat /\ truncated \in Nat /\ cut.last \in Nat /\ cut.highest \in Nat
    BY <1>1 DEF TypeOK
<1>4. truncated' \in Nat /\ truncated <= truncated'
    BY <1>2, <1>3 DEF Mark, Larger
<1>5. /\ raced \subseteq raced' /\ raced' \subseteq Races
      /\ "rewound" \notin raced' => last' = last
      /\ "dropped" \notin raced' =>
            \A e \in Expired(cut.cutoff) : ~(e.seq > truncated')
      /\ raced' = {} => raced = {}
    BY <1>2 DEF Truncate, CutRaces, TypeOK, Races
<1>6. \A e \in history : e.seq \in Nat
    BY DEF TypeOK, Events
<1>7. TypeOK'
    BY <1>2, <1>3, <1>4, <1>5 DEF TypeOK, Cuts
<1>8. EventsAreSound' /\ StreamsAreOrdered'
    BY <1>2 DEF EventsAreSound, StreamsAreOrdered, StreamIsOrdered
<1>9. SequencesAreUnique' /\ ("rewound" \notin raced' => Counted')
    BY <1>2, <1>5 DEF Inv, SequencesAreUnique, OneEventEach, Counted
<1>10. "dropped" \notin raced' => Marked'
  <2> SUFFICES ASSUME "dropped" \notin raced', NEW e \in history, e \notin events'
               PROVE  e.seq <= truncated'
      BY <1>2 DEF Marked
  <2>1. CASE e \in events
      BY <1>2, <1>4, <1>5, <1>6, <2>1
  <2>2. CASE e \notin events
      BY <1>3, <1>4, <1>5, <1>6, <2>2 DEF Inv, Marked
  <2> QED
      BY <2>1, <2>2
<1>11. NoEventIsMissed' /\ (raced' = {} => StreamsAreComplete')
    BY <1>2, <1>5 DEF Inv, NoEventIsMissed, StreamsAreComplete, StreamIsComplete
<1> QED
    BY <1>7, <1>8, <1>9, <1>10, <1>11 DEF Inv

-----------------------------------------------------------------------------
(* Streams *)

\* A step of a stream leaves the log, its writers and the truncation alone.
LEMMA StreamKeeps ==
    ASSUME Inv, UNCHANGED <<clock, log, writer, cut>>, TypeOK', raced \subseteq raced',
           StreamsAreOrdered', NoEventIsMissed', raced' = {} => StreamsAreComplete'
    PROVE  Inv'
<1>1. EventsAreSound'
    BY DEF Inv, EventsAreSound, log
<1>2. SequencesAreUnique'
    BY DEF Inv, SequencesAreUnique, OneEventEach, log
<1>3. /\ "rewound" \notin raced' => Counted'
      /\ "dropped" \notin raced' => Marked'
    BY DEF Inv, Counted, Marked, log
<1> QED
    BY <1>1, <1>2, <1>3 DEF Inv

\* The stream of a node that receives nothing may come to stand where it is in order
\* and, unless a race was lost, complete.
LEMMA StreamStep ==
    ASSUME Inv, NEW n \in Nodes, NEW s \in Streams,
           stream' = [stream EXCEPT ![n] = s], breaks' \in Nat,
           raced \subseteq raced', raced' \subseteq Races,
           UNCHANGED <<clock, log, writer, cut, node>>,
           StreamIsOrdered(n)',
           raced' = {} => StreamIsComplete(n)'
    PROVE  Inv'
<1> USE DEF log, node
<1> TypeOK /\ NoEventIsMissed /\ StreamsAreOrdered
    BY DEF Inv
<1>1. TypeOK'
    BY DEF TypeOK
<1>2. NoEventIsMissed'
    BY DEF NoEventIsMissed
<1>3. \A m \in Nodes : m # n => stream'[m] = stream[m]
    BY DEF TypeOK
<1>4. StreamsAreOrdered'
    BY <1>3 DEF StreamsAreOrdered, StreamIsOrdered
<1>5. raced' = {} => StreamsAreComplete'
  <2> SUFFICES ASSUME raced' = {}, NEW m \in Nodes PROVE StreamIsComplete(m)'
      BY DEF StreamsAreComplete
  <2>1. StreamIsComplete(m)
      BY DEF Inv, StreamsAreComplete
  <2> QED
      BY <1>3, <2>1 DEF StreamIsComplete
<1> QED
    BY <1>1, <1>2, <1>4, <1>5, StreamKeeps

\* Connect, Check, TooOld, Poll, EndOfLog, Break and ListAgain deliver nothing.
LEMMA StreamMoves ==
    ASSUME Inv, NEW n \in Nodes,
           \/ Connect(n) \/ Check(n) \/ TooOld(n) \/ Poll(n) \/ EndOfLog(n) \/ Break(n)
           \/ ListAgain(n)
    PROVE  Inv'
<1> TypeOK /\ StreamIsOrdered(n)
    BY DEF Inv, StreamsAreOrdered
<1>1. /\ breaks \in Nat /\ breaks + 1 \in Nat /\ seen[n] \in Nat /\ last \in Nat
      /\ truncated \in Nat /\ raced \subseteq Races /\ stream \in [Nodes -> Streams]
      /\ \A e \in history : e.seq \in Nat
    BY DEF TypeOK, Events
<1>2. raced = {} => StreamIsComplete(n)
    BY DEF Inv, StreamsAreComplete
<1>3. /\ Closed \in Streams /\ Closed.pc \notin {"open", "checked"}
      /\ Resync \in Streams /\ Resync.pc \notin {"open", "checked"}
    BY DEF Streams, Closed, Resync
<1>4. /\ stream[n].pc = "open" => stream[n].after \in Nat
      /\ stream[n].pc = "checked" => stream[n].after \in Nat
    BY PcTells
<1>5. ASSUME NEW s \in Streams, s.pc \notin {"open", "checked"}, breaks' \in Nat,
             stream' = [stream EXCEPT ![n] = s],
             UNCHANGED <<clock, log, writer, cut, node, raced>>
      PROVE  Inv'
  <2>1. stream'[n] = s
      BY <1>1, <1>5
  <2>2. StreamIsOrdered(n)' /\ (raced' = {} => StreamIsComplete(n)')
      BY <1>2, <1>5, <2>1 DEF StreamIsOrdered, StreamIsComplete, log, node
  <2> QED
      BY <1>1, <1>5, <2>2, StreamStep
<1>6. CASE Connect(n)
  <2> DEFINE s == [pc |-> "open", after |-> seen[n], pending |-> {}]
  <2>1. s \in Streams
      BY <1>1 DEF Streams
  <2>2. /\ stream' = [stream EXCEPT ![n] = s]
        /\ UNCHANGED <<clock, log, writer, cut, node, raced, breaks>>
      BY <1>6 DEF Connect
  <2>3. stream'[n] = s /\ s.pc = "open" /\ s.after = seen[n] /\ s.pending = {}
      BY <1>1, <2>2
  <2> HIDE DEF s
  <2>4. StreamIsOrdered(n)'
      BY <1>1, <2>2, <2>3 DEF StreamIsOrdered, node
  <2>5. raced' = {} => StreamIsComplete(n)'
      BY <1>1, <1>2, <2>2, <2>3 DEF StreamIsComplete, node, log
  <2> QED
      BY <1>1, <2>1, <2>2, <2>4, <2>5, StreamStep
<1>7. CASE Check(n)
  <2> DEFINE s == [pc |-> "checked", after |-> stream[n].after, mark |-> truncated]
  <2>1. s \in Streams
      BY <1>1, <1>4, <1>7 DEF Streams, Check, Reads
  <2>2. /\ stream' = [stream EXCEPT ![n] = s]
        /\ UNCHANGED <<clock, log, writer, cut, node, raced, breaks>>
      BY <1>7 DEF Check
  <2>3. /\ stream'[n] = s /\ s.pc = "checked" /\ s.after = stream[n].after
        /\ s.mark = truncated
      BY <1>1, <2>2
  <2> HIDE DEF s
  <2>4. /\ stream[n].pc = "open" /\ stream[n].pending = {}
        /\ stream[n].after >= truncated
      BY <1>7 DEF Check, Reads
  <2>5. StreamIsOrdered(n)'
      BY <2>2, <2>3, <2>4 DEF StreamIsOrdered, node
  <2>6. raced' = {} => StreamIsComplete(n)'
      BY <1>1, <1>2, <1>4, <2>2, <2>3, <2>4 DEF StreamIsComplete, node, log
  <2> QED
      BY <1>1, <2>1, <2>2, <2>5, <2>6, StreamStep
<1>8. CASE Poll(n)
  <2> DEFINE s == [pc |-> "open", after |-> stream[n].after, pending |-> {}]
  <2>1. s \in Streams
      BY <1>1, <1>4, <1>8 DEF Streams, Poll
  <2>2. /\ stream' = [stream EXCEPT ![n] = s]
        /\ UNCHANGED <<clock, log, writer, cut, node, raced, breaks>>
      BY <1>8 DEF Poll, NothingNew
  <2>3. stream'[n] = s /\ s.pc = "open" /\ s.after = stream[n].after /\ s.pending = {}
      BY <1>1, <2>2
  <2> HIDE DEF s
  <2>4. stream[n].pc = "checked"
      BY <1>8 DEF Poll
  <2>5. StreamIsOrdered(n)'
      BY <2>2, <2>3, <2>4 DEF StreamIsOrdered, node
  <2>6. raced' = {} => StreamIsComplete(n)'
      BY <1>1, <1>2, <1>4, <2>2, <2>3, <2>4 DEF StreamIsComplete, node, log
  <2> QED
      BY <1>1, <2>1, <2>2, <2>5, <2>6, StreamStep
<1>9. CASE EndOfLog(n)
    BY <1>1, <1>3, <1>5, <1>9 DEF EndOfLog, NothingNew
<1>10. CASE TooOld(n)
    BY <1>1, <1>3, <1>5, <1>10 DEF TooOld
<1>11. CASE Break(n)
    BY <1>1, <1>3, <1>5, <1>11 DEF Break
<1>12. CASE ListAgain(n)
    BY <1>1, <1>3, <1>5, <1>12 DEF ListAgain
<1> QED
    BY <1>6, <1>7, <1>8, <1>9, <1>10, <1>11, <1>12

\* A batch that is read at or above the mark leaves out nothing up to its end.
LEMMA BatchStep ==
    ASSUME Inv, NEW n \in Nodes, Batch(n)
    PROVE  Inv'
<1> DEFINE after == stream[n].after
<1> TypeOK /\ StreamIsOrdered(n) /\ EventsAreSound
    BY DEF Inv, StreamsAreOrdered
<1>1. /\ stream[n] \in [pc : {"checked"}, after : Nat, mark : Nat]
      /\ stream[n].pc = "checked"
    BY PcTells DEF Batch
<1>a. PICK b \in FirstOf(After(n, after)) : \E e \in Highest(b) :
          stream' = [stream EXCEPT ![n] = [pc |-> "open", after |-> e.seq, pending |-> b]]
    BY DEF Batch
<1>2. PICK e \in Highest(b) :
          stream' = [stream EXCEPT ![n] = [pc |-> "open", after |-> e.seq, pending |-> b]]
    BY <1>a
<1> DEFINE s == [pc |-> "open", after |-> e.seq, pending |-> b]
<1>3. /\ b \subseteq After(n, after)
      /\ \A f \in b, g \in After(n, after) \ b : f.seq < g.seq
    BY DEF FirstOf
<1>4. e \in b /\ \A f \in b : f.seq <= e.seq
    BY DEF Highest
<1>5. b \subseteq events /\ b \subseteq history /\ b \subseteq Events
    BY <1>3 DEF After, EventsAreSound, TypeOK
<1>6. \A f \in history : f.seq \in Nat
    BY DEF TypeOK, Events
<1>7. s \in Streams
    BY <1>4, <1>5, <1>6 DEF Streams
<1>8. /\ seen[n] \in Nat /\ after \in Nat /\ truncated \in Nat /\ last \in Nat
      /\ seen[n] <= after /\ raced \subseteq Races /\ breaks \in Nat
    BY <1>1 DEF StreamIsOrdered, TypeOK
<1>9. \A f \in b : after < f.seq
    BY <1>3, <1>5, <1>6, <1>8 DEF After
<1>10. /\ UNCHANGED <<clock, log, writer, cut, node, breaks>>
       /\ raced \subseteq raced' /\ raced' \subseteq Races
       /\ raced' = {} => raced = {} /\ truncated = stream[n].mark
    BY <1>8 DEF Batch, Races
<1>11. stream' = [stream EXCEPT ![n] = s]
    BY <1>2
<1>12. stream'[n] = s /\ s.pc = "open" /\ s.after = e.seq /\ s.pending = b
    BY <1>11 DEF TypeOK
<1> HIDE DEF s
<1>13. /\ seen[n] <= e.seq
       /\ \A f \in b : seen[n] < f.seq /\ f.seq <= e.seq
    BY <1>4, <1>5, <1>6, <1>8, <1>9
<1>14. StreamIsOrdered(n)'
    BY <1>5, <1>10, <1>12, <1>13 DEF StreamIsOrdered, EventsAreSound, node
<1>15. raced' = {} => StreamIsComplete(n)'
  <2> SUFFICES ASSUME raced' = {} PROVE StreamIsComplete(n)'
      OBVIOUS
  <2>1. StreamIsComplete(n) /\ Counted /\ Marked /\ truncated <= after
      BY <1>1, <1>10 DEF Inv, StreamsAreComplete, StreamIsComplete
  <2>2. ASSUME NEW f \in history, f.topic \in Follows[n], seen[n] < f.seq, f.seq <= e.seq
        PROVE  f \in b
    <3>1. after < f.seq
        BY <1>1, <2>1, <2>2 DEF StreamIsComplete
    <3>2. f \in events
        BY <1>6, <1>8, <2>1, <3>1 DEF Marked
    <3>3. f \in After(n, after)
        BY <1>6, <1>8, <2>2, <3>1, <3>2 DEF After
    <3> QED
        BY <1>3, <1>4, <1>5, <1>6, <2>2, <3>3
  <2>3. e.seq <= last /\ seen[n] <= last
      BY <1>4, <1>5, <2>1 DEF Counted, StreamIsComplete
  <2> QED
      BY <1>5, <1>10, <1>12, <2>2, <2>3 DEF StreamIsComplete, log, node
<1> QED
    BY <1>7, <1>8, <1>10, <1>11, <1>14, <1>15, StreamStep

\* The node receives the next event: everything before it was received.
LEMMA DeliverStep ==
    ASSUME Inv, NEW n \in Nodes, Deliver(n)
    PROVE  Inv' /\ seen'[n] > seen[n] /\ \A m \in Nodes : seen'[m] >= seen[m]
<1> DEFINE after == stream[n].after
           pending == stream[n].pending
<1> TypeOK /\ StreamsAreOrdered /\ NoEventIsMissed
    BY DEF Inv
<1>1. /\ stream[n] \in [pc : {"open"}, after : Nat, pending : SUBSET Events]
      /\ stream[n].pc = "open"
    BY PcTells DEF Deliver
<1>2. PICK e \in pending :
          /\ \A f \in pending : e.seq <= f.seq
          /\ stream' = [stream EXCEPT ![n] =
                 [pc |-> "open", after |-> after, pending |-> pending \ {e}]]
          /\ seen' = [seen EXCEPT ![n] = e.seq]
          /\ got' = [got EXCEPT ![n] = @ \cup {e.seq}]
    BY DEF Deliver
<1> DEFINE s == [pc |-> "open", after |-> after, pending |-> pending \ {e}]
<1>3. /\ seen \in [Nodes -> Nat] /\ after \in Nat /\ last \in Nat
      /\ got \in [Nodes -> SUBSET Nat] /\ stream \in [Nodes -> Streams]
      /\ \A f \in history : f.seq \in Nat
      /\ \A f \in pending : f.seq \in Nat
    BY <1>1 DEF TypeOK, Events
<1>4. /\ seen[n] <= after
      /\ \A f \in pending : seen[n] < f.seq /\ f.seq <= after
      /\ \A f, g \in pending : f.seq = g.seq => f = g
    BY <1>1 DEF StreamsAreOrdered, StreamIsOrdered
<1>5. e.seq \in Nat /\ seen[n] < e.seq /\ e.seq <= after
    BY <1>3, <1>4
<1>6. /\ stream' = [stream EXCEPT ![n] = s]
      /\ UNCHANGED <<clock, log, writer, cut, raced, breaks>>
    BY <1>2 DEF Deliver
<1>7. s \in Streams
    BY <1>1 DEF Streams
<1>8. s.pc = "open" /\ s.after = after /\ s.pending = pending \ {e}
    OBVIOUS
<1> HIDE DEF s, after, pending
<1>9. TypeOK'
    BY <1>2, <1>5, <1>6, <1>7 DEF TypeOK, log
<1>10. \A f \in pending \ {e} : e.seq < f.seq
    BY <1>2, <1>3, <1>4
<1>11. \A m \in Nodes : m # n =>
           stream'[m] = stream[m] /\ seen'[m] = seen[m] /\ got'[m] = got[m]
    BY <1>2, <1>3, <1>6
<1>12. /\ stream'[n] = s /\ seen'[n] = e.seq /\ got'[n] = got[n] \cup {e.seq}
       /\ history' = history /\ last' = last
    BY <1>2, <1>3, <1>6 DEF log
<1>13. StreamsAreOrdered'
  <2>1. \A f \in pending \ {e} : e.seq < f.seq /\ f.seq <= after
      BY <1>4, <1>10
  <2>2. StreamIsOrdered(n)'
      BY <1>4, <1>5, <1>8, <1>12, <2>1 DEF StreamIsOrdered
  <2> QED
      BY <1>11, <2>2 DEF StreamsAreOrdered, StreamIsOrdered
<1>14. NoEventIsMissed' /\ (raced' = {} => StreamsAreComplete')
  <2> SUFFICES ASSUME raced = {} PROVE NoEventIsMissed' /\ StreamsAreComplete'
      BY <1>6 DEF NoEventIsMissed
  <2>1. StreamsAreComplete
      BY DEF Inv
  <2>2. /\ after <= last /\ pending \subseteq history
        /\ \A f \in history :
              f.topic \in Follows[n] /\ seen[n] < f.seq /\ f.seq <= after => f \in pending
      BY <1>1, <2>1 DEF StreamsAreComplete, StreamIsComplete, after, pending
  <2>3. NoEventIsMissed'
    <3> SUFFICES ASSUME NEW m \in Nodes, NEW f \in history,
                        f.topic \in Follows[m], f.seq <= seen'[m]
                 PROVE  f.seq \in got'[m]
        BY <1>12 DEF NoEventIsMissed
    <3>1. CASE m # n
        BY <1>11, <3>1 DEF NoEventIsMissed
    <3>2. CASE m = n /\ f.seq <= seen[n]
        BY <1>12, <3>2 DEF NoEventIsMissed
    <3>3. CASE m = n /\ ~(f.seq <= seen[n])
      <4>1. f.seq <= e.seq /\ seen[n] < f.seq
          BY <1>3, <1>12, <3>3
      <4>2. f.seq <= after
          BY <1>3, <1>5, <4>1
      <4>3. f \in pending
          BY <2>2, <3>3, <4>1, <4>2
      <4>4. f = e
          BY <1>3, <1>5, <1>10, <4>1, <4>3
      <4> QED
          BY <1>12, <3>3, <4>4
    <3> QED
        BY <3>1, <3>2, <3>3
  <2>4. StreamIsComplete(n)'
    <3>1. ASSUME NEW f \in history, f.topic \in Follows[n], e.seq < f.seq, f.seq <= after
          PROVE  f \in pending \ {e}
        BY <1>3, <1>5, <2>2, <3>1
    <3>2. e.seq <= last
        BY <1>3, <1>5, <2>2
    <3> QED
        BY <1>8, <1>12, <2>2, <3>1, <3>2 DEF StreamIsComplete
  <2>5. ASSUME NEW m \in Nodes, m # n PROVE StreamIsComplete(m)'
      BY <1>11, <1>12, <2>1, <2>5 DEF StreamsAreComplete, StreamIsComplete
  <2> QED
      BY <2>3, <2>4, <2>5 DEF StreamsAreComplete
<1>15. Inv'
    BY <1>6, <1>9, <1>13, <1>14, StreamKeeps
<1>16. seen'[n] > seen[n] /\ \A m \in Nodes : seen'[m] >= seen[m]
    BY <1>3, <1>5, <1>11, <1>12
<1> QED
    BY <1>15, <1>16

-----------------------------------------------------------------------------
(* The theorems *)

\* The invariant is kept by every step.
LEMMA NextInv == Inv /\ [Next]_vars => Inv'
<1> SUFFICES ASSUME Inv, [Next]_vars PROVE Inv'
    OBVIOUS
<1>1. CASE Truncating
    BY <1>1, CutSteps, TruncateStep DEF Truncating
<1>2. CASE Tick
    BY <1>2, WriterSteps
<1>3. CASE \E w \in Writers : Writing(w) \/ AppendFails(w) \/ \E t \in Topics : Make(w, t)
    BY <1>3, WriterSteps, AppendStep DEF Writing
<1>4. CASE \E n \in Nodes : Streaming(n) \/ EndOfLog(n) \/ Break(n)
    BY <1>4, StreamMoves, BatchStep, DeliverStep DEF Streaming
<1>5. CASE UNCHANGED vars
  <2>1. UNCHANGED <<clock, log, writer, cut, stream, node, raced, breaks>>
      BY <1>5 DEF vars, log, node
  <2>2. TypeOK'
      BY <2>1 DEF Inv, TypeOK, log, node
  <2> QED
      BY <2>1, <2>2, QuietLog
<1> QED
    BY <1>1, <1>2, <1>3, <1>4, <1>5 DEF Next

\* The invariant holds in every reachable state: what is stored and in flight is in
\* order whatever races are lost, the counter bounds every sequence until it is
\* written over, and a stream holds all its node lacks until a race is lost.
THEOREM Invariance == Spec => []Inv
BY InitInv, NextInv, PTL DEF Spec

\* Every variable keeps its type.
THEOREM TypeCorrect == Spec => []TypeOK
<1>1. Inv => TypeOK
    BY DEF Inv
<1> QED
    BY <1>1, Invariance, PTL

\* No two events have one sequence, however many threads append, until a commit
\* writes over a counter that changed since it was read.
THEOREM UniqueSequences == Spec => []SequencesAreUnique
<1>1. Inv => SequencesAreUnique
    BY DEF Inv
<1> QED
    BY <1>1, Invariance, PTL

\* A node has missed nothing up to the last event it received, until a race is lost.
THEOREM NothingMissed == Spec => []NoEventIsMissed
<1>1. Inv => NoEventIsMissed
    BY DEF Inv
<1> QED
    BY <1>1, Invariance, PTL

\* A node receives every event once and in order, whatever races are lost.
THEOREM InOrder == Spec => EventsComeInOrder
<1>1. ASSUME Inv, [Next]_vars
      PROVE  \A n \in Nodes : /\ seen'[n] >= seen[n]
                              /\ Deliver(n) => seen'[n] > seen[n]
  <2>1. CASE \E m \in Nodes : Deliver(m)
      BY <1>1, <2>1, DeliverStep
  <2>2. CASE ~\E m \in Nodes : Deliver(m)
    <3>1. seen' = seen
        BY <1>1, <2>2 DEF Next, Tick, Truncating, TruncateFind, TruncateRead, Truncate,
           TruncateFails, Writing, AppendRead, Append, AppendConflict, AppendFails, Make,
           Streaming, Connect, Check, Batch, TooOld, Poll, EndOfLog, NothingNew, Break,
           ListAgain, node, vars
    <3>2. \A n \in Nodes : seen[n] \in Nat
        BY <1>1 DEF Inv, TypeOK
    <3> QED
        BY <2>2, <3>1, <3>2
  <2> QED
      BY <2>1, <2>2
<1> QED
    BY <1>1, Invariance, PTL DEF Spec, EventsComeInOrder

-----------------------------------------------------------------------------
(* The keys of the VMM service *)

\* One request works, on a claim that is its own, young and not completed.
WorkerInv(r) ==
    /\ Working = {r}
    /\ row # None
    /\ row.body = Body[r] /\ row.age < Ttl /\ row.response = None

\* The first answer a client got is the one that is stored, and what is stored was
\* made for the request it is stored with.
FirstInv ==
    /\ first # None => row # None /\ row.response = first
    /\ row # None /\ row.response # None => row.response.body = row.body

\* What a request read is still so if nobody wrote the row, but for its age.
TakerInv ==
    \A r \in asRead : request[r].pc = "takeover" =>
        /\ row # None /\ row.body = Body[r] /\ row.response = None
        /\ row.age >= Ttl + request[r].late

PurgeInv == purge = "picked" => row # None /\ row.age > Retention

\* The inductive invariant: a worker outlives its claim only by an overrun or by a
\* decision that was overtaken.
KeyInv ==
    /\ KeyTypeOK
    /\ TakerInv
    /\ PurgeInv
    /\ ~overrun /\ ~overtaken => (\A r \in Working : WorkerInv(r)) /\ FirstInv

\* What the rules compare is numbers.
LEMMA KeyNumbers ==
    /\ Ttl \in Nat /\ Retention \in Nat /\ MaxDelay \in Nat
    /\ MaxDelay < Ttl /\ Ttl <= Retention
    /\ MaxAge \in Nat /\ Retention < MaxAge /\ MaxDelay < MaxAge
  BY IdempotencyAssumption DEF MaxAge

\* The pieces of a request's record.
LEMMA KeyWorks ==
    ASSUME KeyTypeOK, NEW r \in Requests
    PROVE  /\ request[r].pc \in {"idle", "claim", "takeover", "run", "finish", "release"}
           /\ request[r].pc \in {"claim", "takeover"} =>
                 /\ request[r].late \in 0..MaxDelay
                 /\ request[r] = [pc |-> request[r].pc, late |-> request[r].late]
           /\ request[r].pc = "finish" => request[r].reply \in Replies \cup {Error}
  <1>1. request[r] \in Works BY DEF KeyTypeOK
  <1> QED BY <1>1 DEF Works, KeyIdle

\* Where a request may be.
LEMMA KeyPlaces ==
    /\ KeyIdle \in Works /\ KeyIdle.pc = "idle"
    /\ [pc |-> "run"] \in Works /\ [pc |-> "release"] \in Works
    /\ \A n \in 0..MaxDelay : [pc |-> "claim", late |-> n] \in Works
    /\ \A n \in 0..MaxDelay : [pc |-> "takeover", late |-> n] \in Works
    /\ \A x \in Replies \cup {Error} : [pc |-> "finish", reply |-> x] \in Works
  BY DEF Works, KeyIdle

\* The pieces of the row.
LEMMA KeyRow ==
    ASSUME KeyTypeOK, row # None
    PROVE  /\ row.body \in Bodies /\ row.age \in 0..MaxAge
           /\ row.response \in Answers \cup {None}
           /\ row = [body |-> row.body, age |-> row.age,
                        response |-> row.response]
  BY DEF KeyTypeOK, Rows

\* A row made of a digest, an age and a response is a row.
LEMMA KeyRowMade ==
    ASSUME NEW b \in Bodies, NEW a \in 0..MaxAge,
           NEW x \in Answers \cup {None}
    PROVE  /\ [body |-> b, age |-> a, response |-> x] \in Rows
           /\ [body |-> b, age |-> a, response |-> x] # None
  <1>1. [body |-> b, age |-> a, response |-> x] \in Rows BY DEF Rows
  <1> QED BY <1>1, IdempotencyAssumption

\* An unused key.
LEMMA KeyStarts ==
    ASSUME KeyInit
    PROVE  KeyInv
  <1>1. KeyTypeOK BY KeyPlaces DEF KeyInit, KeyTypeOK
  <1>2. Working = {} BY KeyPlaces DEF KeyInit, Working
  <1> QED BY <1>1, <1>2 DEF KeyInv, FirstInv, TakerInv, PurgeInv, KeyInit

\* A write of the row leaves nobody with the row as read.
LEMMA KeyWritten ==
    ASSUME KeyTypeOK, Writes
    PROVE  /\ TakerInv' /\ PurgeInv'
           /\ asRead' \subseteq Requests /\ purge' \in {"idle", "picked", "late"}
  BY DEF Writes, TakerInv, PurgeInv, KeyTypeOK

\* A step that takes a request to where it does not work, and leaves the row alone.
LEMMA KeyMoves ==
    ASSUME KeyInv, NEW r \in Requests, NEW w \in Works,
           request' = [request EXCEPT ![r] = w],
           w.pc \notin {"run", "finish", "release", "takeover"},
           UNCHANGED <<row, overrun, purge, overtaken>>, faults' \in Nat,
           asRead' = asRead \/ asRead' = asRead \ {r},
           \/ first' = first
           \/ row # None /\ row.response # None /\ first' = row.response
    PROVE  KeyInv'
  <1>1. request \in [Requests -> Works] BY DEF KeyInv, KeyTypeOK
  <1>2. Working' = Working \ {r} BY <1>1 DEF Working
  <1>3. KeyTypeOK' BY <1>1, KeyRow DEF KeyInv, KeyTypeOK
  <1>4. ASSUME ~overrun, ~overtaken
        PROVE  (\A q \in Working' : WorkerInv(q)') /\ FirstInv'
    <2>1. ASSUME NEW q \in Working'
          PROVE  WorkerInv(q)'
      <3>1. q \in Working /\ q # r BY <1>2, <2>1
      <3>2. WorkerInv(q) BY <1>4, <3>1 DEF KeyInv
      <3>3. Working' = {q} BY <1>2, <3>1, <3>2 DEF WorkerInv
      <3> QED BY <3>2, <3>3 DEF WorkerInv
    <2>2. FirstInv' BY <1>4 DEF KeyInv, FirstInv
    <2> QED BY <2>1, <2>2
  <1>5. TakerInv'
    <2> SUFFICES ASSUME NEW q \in asRead', request'[q].pc = "takeover"
                 PROVE  /\ row # None /\ row.body = Body[q] /\ row.response = None
                        /\ row.age >= Ttl + request'[q].late
      BY DEF TakerInv
    <2>1. q \in asRead /\ q # r /\ q \in Requests BY <1>1 DEF KeyInv, KeyTypeOK
    <2>2. request'[q] = request[q] BY <1>1, <2>1
    <2> QED BY <2>1, <2>2 DEF KeyInv, TakerInv
  <1>6. PurgeInv' BY DEF KeyInv, PurgeInv
  <1> QED BY <1>3, <1>4, <1>5, <1>6 DEF KeyInv

\* The count of faults.
LEMMA KeyFault ==
    ASSUME KeyInv
    PROVE  faults \in Nat /\ (Fault => faults' \in Nat)
  BY DEF KeyInv, KeyTypeOK, Fault

\* Requests that arrive, are refused, wait or fail, and handlers that end.
LEMMA KeyQuiet ==
    ASSUME KeyInv, NEW r \in Requests,
           \/ Arrive(r) \/ ClaimMismatch(r) \/ ClaimInProgress(r)
           \/ ClaimFails(r) \/ CompleteNotFound(r) \/ FinishFails(r)
           \/ ReleaseNothing(r) \/ ClaimConflict(r)
    PROVE  KeyInv'
  <1>1. CASE Arrive(r)
    <2> DEFINE w == [pc |-> "claim", late |-> 0]
    <2>1. w \in Works /\ w.pc = "claim" BY KeyPlaces, KeyNumbers
    <2> QED BY <1>1, <2>1, KeyMoves, KeyFault DEF Arrive, Quiet
  <1>2. CASE ClaimMismatch(r) \/ ClaimInProgress(r) \/ CompleteNotFound(r)
               \/ ReleaseNothing(r)
    BY <1>2, KeyMoves, KeyFault, KeyPlaces
       DEF ClaimMismatch, ClaimInProgress, CompleteNotFound, ReleaseNothing, Ends, Quiet
  <1>3. CASE ClaimFails(r) \/ FinishFails(r)
    BY <1>3, KeyMoves, KeyFault, KeyPlaces
       DEF ClaimFails, FinishFails, Ends
  <1>4. CASE ClaimConflict(r)
    <2> DEFINE w == [pc |-> "claim", late |-> request[r].late]
    <2>1. request[r] = [pc |-> "takeover", late |-> request[r].late]
          /\ request[r].late \in 0..MaxDelay
      BY <1>4, KeyWorks DEF KeyInv, ClaimConflict
    <2>2. w \in Works /\ w.pc = "claim" BY <2>1, KeyPlaces
    <2>3. request' = [request EXCEPT ![r] = w]
      BY <1>4 DEF ClaimConflict
    <2> QED BY <1>4, <2>2, <2>3, KeyMoves, KeyFault DEF ClaimConflict, Quiet
  <1> QED BY <1>1, <1>2, <1>3, <1>4

\* A stored response is replayed.
LEMMA KeyReplay ==
    ASSUME KeyInv, NEW r \in Requests, ClaimReplay(r)
    PROVE  KeyInv'
  <1>1. first' = first \/ first' = row.response
    BY DEF ClaimReplay, Answered
  <1> QED BY <1>1, KeyMoves, KeyFault, KeyPlaces
          DEF ClaimReplay, SameRequest, Ends, Quiet

\* A claim is found abandoned.
LEMMA KeyAbandoned ==
    ASSUME KeyInv, NEW r \in Requests, ClaimAbandoned(r)
    PROVE  KeyInv'
  <1> DEFINE w == [pc |-> "takeover", late |-> request[r].late]
  <1>1. request \in [Requests -> Works] BY DEF KeyInv, KeyTypeOK
  <1>2. request[r] = [pc |-> "claim", late |-> request[r].late]
        /\ request[r].late \in 0..MaxDelay
    BY KeyWorks DEF KeyInv, ClaimAbandoned, SameRequest
  <1>3. w \in Works /\ w.pc = "takeover" /\ w.late = request[r].late BY <1>2, KeyPlaces
  <1>4. request' = [request EXCEPT ![r] = w]
    BY DEF ClaimAbandoned
  <1>5. /\ UNCHANGED <<row, first, overrun, purge, overtaken, faults>>
        /\ asRead' = asRead \cup {r} /\ row # None /\ row.body = Body[r]
        /\ row.response = None /\ row.age - request[r].late >= Ttl
    BY DEF ClaimAbandoned, SameRequest, Abandoned
  <1> HIDE DEF w
  <1>6. KeyTypeOK' BY <1>1, <1>3, <1>4, <1>5 DEF KeyInv, KeyTypeOK
  <1>7. Working' = Working BY <1>1, <1>2, <1>3, <1>4 DEF Working
  <1>8. row.age \in Nat BY <1>5, KeyRow DEF KeyInv
  <1>9. TakerInv'
    <2> SUFFICES ASSUME NEW q \in asRead', request'[q].pc = "takeover"
                 PROVE  /\ row # None /\ row.body = Body[q] /\ row.response = None
                        /\ row.age >= Ttl + request'[q].late
      BY <1>5 DEF TakerInv
    <2>1. CASE q = r
      BY <1>1, <1>2, <1>3, <1>4, <1>5, <1>8, <2>1, KeyNumbers
    <2>2. CASE q # r
      BY <1>1, <1>4, <1>5, <2>2 DEF KeyInv, TakerInv, KeyTypeOK
    <2> QED BY <2>1, <2>2
  <1> QED BY <1>5, <1>6, <1>7, <1>9 DEF KeyInv, PurgeInv, WorkerInv, FirstInv

\* A claim of one's own: nobody else works, for without a row nobody does, and the
\* worker of a claim as old as the one that is taken over would have overrun.
LEMMA KeyClaim ==
    ASSUME KeyInv, NEW r \in Requests,
           ClaimNew(r) \/ ClaimTakeOver(r)
    PROVE  KeyInv'
  <1>1. request \in [Requests -> Works] BY DEF KeyInv, KeyTypeOK
  <1>2. request[r].late \in 0..MaxDelay
    BY KeyWorks DEF KeyInv, ClaimNew, ClaimTakeOver
  <1>3. /\ request' = [request EXCEPT ![r] = [pc |-> "run"]]
        /\ UNCHANGED <<first, overrun, faults>> /\ Writes
        /\ overtaken' \in BOOLEAN /\ (overtaken => overtaken')
    BY DEF ClaimNew, ClaimTakeOver, KeyInv, KeyTypeOK
  <1>4. Body[r] \in Bodies BY IdempotencyAssumption
  <1>5. row' \in Rows \cup {None}
    <2>1. CASE ClaimNew(r)
      BY <1>2, <1>4, <2>1, KeyRowMade, KeyNumbers DEF ClaimNew
    <2>2. CASE ClaimTakeOver(r) /\ row # None
      <3>1. row' = [body |-> row.body, age |-> request[r].late, response |-> row.response]
        BY <2>2, KeyRow DEF KeyInv, ClaimTakeOver
      <3> QED BY <1>2, <2>2, <3>1, KeyRow, KeyRowMade, KeyNumbers DEF KeyInv
    <2>3. CASE ClaimTakeOver(r) /\ row = None
      BY <2>3 DEF ClaimTakeOver
    <2> QED BY <2>1, <2>2, <2>3
  <1>6. KeyTypeOK' BY <1>1, <1>3, <1>5, KeyPlaces, KeyWritten DEF KeyInv, KeyTypeOK
  <1>7. ASSUME ~overrun, ~overtaken'
        PROVE  (\A q \in Working' : WorkerInv(q)') /\ FirstInv'
    <2>0. ~overtaken BY <1>3, <1>7
    <2>1. CASE ClaimTakeOver(r)
      <3>1. /\ row # None /\ row.body = Body[r] /\ row.response = None
            /\ row.age >= Ttl + request[r].late
        BY <1>7, <2>1 DEF ClaimTakeOver, KeyInv, TakerInv
      <3>2. row.age \in Nat BY <3>1, KeyRow DEF KeyInv
      <3>3. ~(row.age < Ttl) BY <1>2, <3>1, <3>2, KeyNumbers
      <3>4. Working = {} BY <1>7, <2>0, <3>3 DEF KeyInv, WorkerInv
      <3>5. row' = [body |-> Body[r], age |-> request[r].late, response |-> None]
        BY <2>1, <3>1, KeyRow DEF ClaimTakeOver, KeyInv
      <3>6. first = None BY <1>7, <2>0, <3>1 DEF KeyInv, FirstInv
      <3>7. row' # None BY <1>2, <1>4, <3>5, KeyRowMade, KeyNumbers
      <3>8. Working' = {r} BY <1>1, <1>3, <3>4 DEF Working
      <3>9. request[r].late < Ttl BY <1>2, KeyNumbers
      <3>10. WorkerInv(r)' BY <3>5, <3>7, <3>8, <3>9 DEF WorkerInv
      <3> QED BY <1>3, <3>5, <3>6, <3>8, <3>10 DEF FirstInv
    <2>2. CASE ClaimNew(r)
      <3>1. row = None /\ row' = [body |-> Body[r], age |-> request[r].late, response |-> None]
        BY <2>2 DEF ClaimNew
      <3>2. Working = {} /\ first = None
        BY <1>7, <2>0, <3>1 DEF KeyInv, WorkerInv, FirstInv
      <3>3. row' # None BY <1>2, <1>4, <3>1, KeyRowMade, KeyNumbers
      <3>4. Working' = {r} BY <1>1, <1>3, <3>2 DEF Working
      <3>5. request[r].late < Ttl BY <1>2, KeyNumbers
      <3>6. WorkerInv(r)' BY <3>1, <3>3, <3>4, <3>5 DEF WorkerInv
      <3> QED BY <1>3, <3>1, <3>2, <3>4, <3>6 DEF FirstInv
    <2> QED BY <2>1, <2>2
  <1> QED BY <1>3, <1>6, <1>7, KeyWritten DEF KeyInv

\* A worker that goes on working: the handler has a reply, or the release of its
\* claim is decided, or decided again.
LEMMA KeyHandle ==
    ASSUME KeyInv, NEW r \in Requests,
           Handle(r) \/ HandleError(r) \/ ReleaseReads(r) \/ ReleaseConflict(r)
    PROVE  KeyInv'
  <1>1. request \in [Requests -> Works] BY DEF KeyInv, KeyTypeOK
  <1>2. PICK w \in Works : /\ request' = [request EXCEPT ![r] = w]
                           /\ w.pc \in {"finish", "release"}
    <2>1. CASE Handle(r) \/ HandleError(r)
      <3>1. PICK x \in Replies \cup {Error} :
                request' = [request EXCEPT ![r] = [pc |-> "finish", reply |-> x]]
        BY <2>1 DEF Handle, HandleError
      <3> QED BY <3>1, KeyPlaces
    <2>2. CASE ReleaseReads(r)
      BY <2>2, KeyPlaces DEF ReleaseReads
    <2>3. CASE ReleaseConflict(r)
      <3>1. Error \in Replies \cup {Error} OBVIOUS
      <3> DEFINE v == [pc |-> "finish", reply |-> Error]
      <3>2. v \in Works /\ v.pc = "finish" BY <3>1, KeyPlaces
      <3>3. request' = [request EXCEPT ![r] = v] BY <2>3 DEF ReleaseConflict
      <3> QED BY <3>2, <3>3
    <2> QED BY <2>1, <2>2, <2>3
  <1>3. /\ UNCHANGED <<row, first, overrun, purge, overtaken>> /\ faults' \in Nat
        /\ r \in Working
        /\ asRead' \in {asRead, asRead \cup {r}}
    BY KeyFault DEF Handle, HandleError, ReleaseReads, ReleaseConflict, Releases, Quiet, Working
  <1>4. Working' = Working BY <1>1, <1>2, <1>3 DEF Working
  <1>5. KeyTypeOK'
    <2>2. request' \in [Requests -> Works] BY <1>1, <1>2
    <2> QED BY <1>3, <2>2 DEF KeyInv, KeyTypeOK
  <1>6. ASSUME ~overrun, ~overtaken, NEW q \in Working' PROVE WorkerInv(q)'
    BY <1>3, <1>4, <1>6 DEF KeyInv, WorkerInv
  <1>7. ~overrun /\ ~overtaken => FirstInv'
    BY <1>3 DEF KeyInv, FirstInv
  <1>8. TakerInv'
    <2> SUFFICES ASSUME NEW q \in asRead', request'[q].pc = "takeover"
                 PROVE  /\ row # None /\ row.body = Body[q] /\ row.response = None
                        /\ row.age >= Ttl + request'[q].late
      BY <1>3 DEF TakerInv
    <2>1. q # r BY <1>1, <1>2
    <2>2. q \in asRead /\ request'[q] = request[q]
      BY <1>1, <1>2, <1>3, <2>1 DEF KeyInv, KeyTypeOK
    <2> QED BY <2>2 DEF KeyInv, TakerInv
  <1> QED BY <1>3, <1>5, <1>6, <1>7, <1>8 DEF KeyInv, PurgeInv

\* The claim is completed, whether or not the client is told: it had no response.
LEMMA KeyComplete ==
    ASSUME KeyInv, NEW r \in Requests,
           Complete(r) \/ CompleteLost(r)
    PROVE  KeyInv'
  <1> DEFINE a == Answer(r)
  <1>1. request \in [Requests -> Works] BY DEF KeyInv, KeyTypeOK
  <1>2. /\ request' = [request EXCEPT ![r] = KeyIdle]
        /\ row # None /\ row' = [row EXCEPT !.response = a]
        /\ UNCHANGED <<overrun, overtaken>> /\ faults' \in Nat /\ Writes
        /\ request[r].pc = "finish" /\ request[r].reply # Error
    BY KeyFault DEF Complete, CompleteLost, Completes, IsServerError,
                    Ends
  <1>3. first' = first \/ (first = None /\ first' = a)
    BY DEF Complete, CompleteLost, Answered
  <1>4. request[r].reply \in Replies BY <1>2, KeyWorks DEF KeyInv
  <1>5. a \in Answers /\ a.body = Body[r]
    BY <1>4, IdempotencyAssumption DEF Answer, Answers
  <1> HIDE DEF a
  <1>6. row' = [body |-> row.body, age |-> row.age, response |-> a]
    BY <1>2, KeyRow DEF KeyInv
  <1>7. row' \in Rows /\ row' # None
    BY <1>2, <1>5, <1>6, KeyRow, KeyRowMade DEF KeyInv
  <1>8. KeyTypeOK'
    BY <1>1, <1>2, <1>3, <1>5, <1>7, KeyPlaces, KeyWritten DEF KeyInv, KeyTypeOK
  <1>9. ASSUME ~overrun, ~overtaken
        PROVE  (\A q \in Working' : WorkerInv(q)') /\ FirstInv'
    <2>1. WorkerInv(r) BY <1>2, <1>9 DEF KeyInv, Working
    <2>2. Working' = {}
      BY <1>1, <1>2, <2>1, KeyPlaces DEF Working, WorkerInv
    <2>3. first = None BY <1>9, <2>1 DEF KeyInv, FirstInv, WorkerInv
    <2>4. row'.response = a /\ row'.body = Body[r]
      BY <1>6, <2>1 DEF WorkerInv
    <2>5. FirstInv' BY <1>3, <1>5, <1>7, <2>3, <2>4 DEF FirstInv
    <2> QED BY <2>2, <2>5
  <1> QED BY <1>2, <1>8, <1>9, KeyWritten DEF KeyInv

\* A server error gives the claim back.
LEMMA KeyRelease ==
    ASSUME KeyInv, NEW r \in Requests, Release(r)
    PROVE  KeyInv'
  <1>1. request \in [Requests -> Works] BY DEF KeyInv, KeyTypeOK
  <1>2. /\ request' = [request EXCEPT ![r] = KeyIdle]
        /\ row' = None
        /\ UNCHANGED <<first, overrun, faults>> /\ Writes
        /\ overtaken' \in BOOLEAN /\ (overtaken => overtaken')
        /\ request[r].pc = "release"
    BY DEF Release, Ends, KeyInv, KeyTypeOK
  <1>3. KeyTypeOK' BY <1>1, <1>2, KeyPlaces, KeyWritten DEF KeyInv, KeyTypeOK
  <1>4. ASSUME ~overrun, ~overtaken
        PROVE  (\A q \in Working' : WorkerInv(q)') /\ FirstInv'
    <2>1. WorkerInv(r) BY <1>2, <1>4 DEF KeyInv, Working
    <2>2. Working' = {}
      BY <1>1, <1>2, <2>1, KeyPlaces DEF Working, WorkerInv
    <2>3. first = None BY <1>4, <2>1 DEF KeyInv, FirstInv, WorkerInv
    <2> QED BY <1>2, <2>2, <2>3 DEF FirstInv
  <1> QED BY <1>2, <1>3, <1>4, KeyWritten DEF KeyInv

\* The service ends: the claim stays.
LEMMA KeyCrash ==
    ASSUME KeyInv, Crash
    PROVE  KeyInv'
  <1>1. /\ request' = [r \in Requests |-> KeyIdle]
        /\ asRead' = {} /\ purge' = "idle"
        /\ UNCHANGED <<row, first, overrun, overtaken>> /\ faults' \in Nat
    BY KeyFault DEF Crash
  <1>2. Working' = {} BY <1>1, KeyPlaces DEF Working
  <1>3. KeyTypeOK' BY <1>1, KeyPlaces DEF KeyInv, KeyTypeOK
  <1> QED BY <1>1, <1>2, <1>3 DEF KeyInv, FirstInv, TakerInv, PurgeInv

\* An old row is picked, and removed: its worker, if it had one, overran long ago.
LEMMA KeyPurge ==
    ASSUME KeyInv, PurgePicks \/ Purge \/ PurgeConflict
    PROVE  KeyInv'
  <1>1. CASE PurgePicks \/ PurgeConflict
    <2>1. /\ UNCHANGED <<row, request, first, overrun, asRead, overtaken, faults>>
          /\ \/ purge' = "idle"
             \/ purge' = "picked" /\ row # None /\ row.age > Retention
      BY <1>1 DEF PurgePicks, PurgeConflict
    <2>2. Working' = Working BY <2>1 DEF Working
    <2>3. KeyTypeOK' BY <2>1 DEF KeyInv, KeyTypeOK
    <2>4. TakerInv' /\ PurgeInv' BY <2>1 DEF KeyInv, TakerInv, PurgeInv
    <2> QED BY <2>1, <2>2, <2>3, <2>4 DEF KeyInv, WorkerInv, FirstInv
  <1>2. CASE Purge
    <2>1. /\ row' = None /\ first' = None /\ UNCHANGED <<request, overrun, faults>>
          /\ asRead' = {} /\ purge' = "idle"
          /\ overtaken' = (overtaken \/ purge = "late")
          /\ purge # "idle" /\ overtaken \in BOOLEAN
      BY <1>2 DEF Purge, KeyInv, KeyTypeOK
    <2>2. KeyTypeOK' BY <2>1 DEF KeyInv, KeyTypeOK
    <2>3. ASSUME ~overrun, ~overtaken' PROVE Working = {}
      <3>1. purge = "picked" /\ ~overtaken BY <2>1, <2>3 DEF KeyInv, KeyTypeOK
      <3>2. row # None /\ row.age > Retention BY <3>1 DEF KeyInv, PurgeInv
      <3>3. row.age \in Nat BY <3>2, KeyRow DEF KeyInv
      <3>4. ~(row.age < Ttl) BY <3>2, <3>3, KeyNumbers
      <3> QED BY <2>3, <3>1, <3>4 DEF KeyInv, WorkerInv
    <2>4. Working' = Working BY <2>1 DEF Working
    <2> QED BY <2>1, <2>2, <2>3, <2>4 DEF KeyInv, FirstInv, TakerInv, PurgeInv
  <1> QED BY <1>1, <1>2

\* Time passes: either the claim stays young or its worker has overrun.
LEMMA KeyAges ==
    ASSUME KeyInv, KeyTick
    PROVE  KeyInv'
  <1>1. request \in [Requests -> Works] BY DEF KeyInv, KeyTypeOK
  <1>2. UNCHANGED <<first, faults, asRead, purge, overtaken>> BY DEF KeyTick, Quiet
  <1>3. ASSUME NEW r \in Requests
        PROVE  /\ request'[r] \in Works
               /\ r \in Working' <=> r \in Working
               /\ request'[r].pc = "takeover" =>
                     /\ request[r].pc = "takeover" /\ request[r].late \in Nat
                     /\ request'[r].late = request[r].late + 1
                     /\ request'[r].late <= MaxDelay
    <2>1. CASE r \in Claiming
      <3>1. request[r].pc \in {"claim", "takeover"} BY <2>1 DEF Claiming
      <3>2. request[r].late \in 0..MaxDelay /\ request[r].late < MaxDelay
        BY <2>1, <3>1, KeyWorks DEF KeyInv, KeyTick
      <3>3. request[r] = [pc |-> request[r].pc, late |-> request[r].late]
        BY <3>1, KeyWorks DEF KeyInv
      <3>4. request'[r] = [pc |-> request[r].pc, late |-> request[r].late + 1]
        BY <2>1, <3>3 DEF KeyTick
      <3>5. request[r].late + 1 \in 0..MaxDelay BY <3>2, KeyNumbers
      <3>6. request'[r] \in Works
        <4>1. CASE request[r].pc = "claim" BY <3>4, <3>5, <4>1, KeyPlaces
        <4>2. CASE request[r].pc = "takeover" BY <3>4, <3>5, <4>2, KeyPlaces
        <4> QED BY <3>1, <4>1, <4>2
      <3>7. /\ request'[r].pc = request[r].pc
            /\ request'[r].late = request[r].late + 1
        BY <3>4
      <3>8. request[r].late \in Nat /\ request'[r].late <= MaxDelay
        BY <3>2, <3>5, <3>7, KeyNumbers
      <3>9. r \notin Working /\ r \notin Working' BY <3>1, <3>7 DEF Working
      <3> QED BY <3>6, <3>7, <3>8, <3>9
    <2>2. CASE r \notin Claiming
      <3>1. request'[r] = request[r] BY <2>2 DEF KeyTick
      <3>2. request[r].pc # "takeover" BY <2>2 DEF Claiming
      <3> QED BY <1>1, <3>1, <3>2 DEF Working
    <2> QED BY <2>1, <2>2
  <1>4. request' \in [Requests -> Works] BY <1>3 DEF KeyTick
  <1>5. Working' = Working BY <1>3 DEF Working
  <1>6. /\ row' = None <=> row = None
        /\ row # None => /\ row' \in Rows /\ row'.age \in Nat
                         /\ row'.body = row.body
                         /\ row'.response = row.response
                         /\ row.age \in Nat
                         /\ row'.age = row.age + 1 \/ row'.age = MaxAge
                         /\ row.age <= row'.age
    <2>1. CASE row = None BY <2>1 DEF KeyTick
    <2>2. CASE row # None
      <3> DEFINE a == Older(row.age)
      <3>1. a \in 0..MaxAge
        BY <2>2, KeyRow, KeyNumbers DEF KeyInv, Older
      <3>2. row' = [row EXCEPT !.age = a] BY <2>2 DEF KeyTick
      <3> HIDE DEF a
      <3>3. row' = [body |-> row.body, age |-> a, response |-> row.response]
        BY <2>2, <3>2, KeyRow DEF KeyInv
      <3>4. row' \in Rows /\ row' # None
        BY <2>2, <3>1, <3>3, KeyRow, KeyRowMade DEF KeyInv
      <3>5. row.age \in 0..MaxAge /\ (a = row.age + 1 \/ a = MaxAge) /\ row.age <= a
        BY <2>2, KeyRow, KeyNumbers DEF KeyInv, Older, a
      <3> QED BY <2>2, <3>1, <3>3, <3>4, <3>5, KeyNumbers
    <2> QED BY <2>1, <2>2
  <1>7. overrun' = (overrun \/ (Working # {} /\ row' # None /\ row'.age >= Ttl))
    BY DEF KeyTick
  <1>8. overrun' \in BOOLEAN BY <1>7
  <1>9. KeyTypeOK' BY <1>2, <1>4, <1>6, <1>8 DEF KeyInv, KeyTypeOK
  <1>10. ASSUME ~overrun', ~overtaken'
         PROVE  (\A q \in Working' : WorkerInv(q)') /\ FirstInv'
    <2>1. ~overrun /\ ~overtaken BY <1>2, <1>7, <1>10
    <2>2. ASSUME NEW q \in Working
          PROVE  WorkerInv(q)'
      <3>1. WorkerInv(q) BY <2>1, <2>2 DEF KeyInv
      <3>2. row' # None /\ row'.age \in Nat BY <1>6, <3>1 DEF WorkerInv
      <3>3. ~(row'.age >= Ttl) BY <1>7, <1>10, <2>2, <3>2
      <3>4. row'.age < Ttl BY <3>2, <3>3, KeyNumbers
      <3> QED BY <1>5, <1>6, <3>1, <3>2, <3>4 DEF WorkerInv
    <2>3. FirstInv' BY <1>2, <1>6, <2>1 DEF KeyInv, FirstInv
    <2> QED BY <1>5, <2>2, <2>3
  <1>11. TakerInv'
    <2> SUFFICES ASSUME NEW q \in asRead, request'[q].pc = "takeover"
                 PROVE  /\ row' # None /\ row'.body = Body[q] /\ row'.response = None
                        /\ row'.age >= Ttl + request'[q].late
      BY <1>2 DEF TakerInv
    <2>1. q \in Requests BY DEF KeyInv, KeyTypeOK
    <2>2. /\ request[q].pc = "takeover" /\ request[q].late \in Nat
          /\ request'[q].late = request[q].late + 1 /\ request'[q].late <= MaxDelay
      BY <1>3, <2>1
    <2>3. /\ row # None /\ row.body = Body[q] /\ row.response = None
          /\ row.age >= Ttl + request[q].late
      BY <2>2 DEF KeyInv, TakerInv
    <2>4. row'.age >= Ttl + request'[q].late
      BY <1>6, <2>2, <2>3, KeyNumbers DEF MaxAge
    <2> QED BY <1>6, <2>3, <2>4
  <1>12. PurgeInv' BY <1>2, <1>6, KeyNumbers DEF KeyInv, PurgeInv
  <1> QED BY <1>9, <1>10, <1>11, <1>12 DEF KeyInv

\* Every step keeps the invariant.
LEMMA KeyStep ==
    ASSUME KeyInv, [KeyNext]_keyVars
    PROVE  KeyInv'
  <1>1. CASE KeyTick BY <1>1, KeyAges
  <1>2. CASE Crash BY <1>2, KeyCrash
  <1>3. CASE PurgePicks \/ Purge \/ PurgeConflict BY <1>3, KeyPurge
  <1>4. ASSUME NEW r \in Requests, Serve(r)
        PROVE  KeyInv'
    BY <1>4, KeyQuiet, KeyReplay, KeyAbandoned, KeyClaim, KeyHandle, KeyComplete, KeyRelease
       DEF Serve, Claim, Finish
  <1>5. ASSUME NEW r \in Requests,
               \/ HandleError(r) \/ ClaimFails(r)
               \/ CompleteLost(r) \/ FinishFails(r)
        PROVE  KeyInv'
    BY <1>5, KeyQuiet, KeyHandle, KeyComplete
  <1>6. CASE UNCHANGED keyVars
    BY <1>6 DEF keyVars, KeyInv, KeyTypeOK, Working, WorkerInv, FirstInv, TakerInv, PurgeInv
  <1> QED BY <1>1, <1>2, <1>3, <1>4, <1>5, <1>6 DEF KeyNext

\* The invariant holds in every state.
LEMMA KeyStays == KeySpec => []KeyInv
  <1>1. KeyInit => KeyInv BY KeyStarts
  <1>2. KeyInv /\ [KeyNext]_keyVars => KeyInv' BY KeyStep
  <1> QED BY <1>1, <1>2, PTL DEF KeySpec

\* Every variable of the VMM's keys keeps its type.
THEOREM KeyTypeCorrect == KeySpec => []KeyTypeOK
  <1>1. KeyInv => KeyTypeOK BY DEF KeyInv
  <1> QED BY <1>1, KeyStays, PTL

\* While handlers finish within the time to live of a claim and no decision on the
\* claim is overtaken by another writer, a key has at most one handler at work, on
\* a claim that is its own: for any number of requests, any time to live above the
\* delay of a claim and any retention from there on.
THEOREM OneHandlerWorks == KeySpec => []OneHandlerAtATime
  <1>1. KeyInv => OneHandlerAtATime BY DEF KeyInv, WorkerInv, OneHandlerAtATime
  <1> QED BY <1>1, KeyStays, PTL

\* While handlers finish within the time to live of a claim and no decision on the
\* claim is overtaken by another writer, what a replay returns is what a client was
\* first given, for the request it was made for.
THEOREM ReplaysStayFaithful == KeySpec => []ReplaysAreFaithful
  <1>1. KeyInv => ReplaysAreFaithful
    BY DEF KeyInv, FirstInv, ReplaysAreFaithful, ReplayIsFirst
  <1> QED BY <1>1, KeyStays, PTL
=============================================================================
