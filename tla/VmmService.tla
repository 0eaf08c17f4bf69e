----------------------------- MODULE VmmService -----------------------------
(***************************************************************************)
(* The aseman-vmm service around one workload: the API handlers, the       *)
(* background worker's tick (execute_pending, observe, reconcile), the     *)
(* compare-and-set stores they share, and the native backend behind gRPC.  *)
(* (aseman-application/src/vmm.rs, aseman-capsule/src/vmm.rs,              *)
(* apps/aseman-vmm/src/main.rs, modules/vmm-backend/native)                *)
(*                                                                         *)
(* Every store call is a step of its own, so handlers, workers and the     *)
(* backend interleave between any two of them.  A store that replaces a    *)
(* row compares it and then updates it, and the storage engine reads it    *)
(* once more for that (aseman-storage/src/engine.rs): a row that changed   *)
(* after it was compared is written over, and one that changed before is   *)
(* not.  overwritten tells that it happened.  Several workers stand for    *)
(* replicas whose ticks overlap.  A refused request changes nothing and is *)
(* no step.                                                                *)
(***************************************************************************)
EXTENDS VmmRules, Sequences

CONSTANTS
    Callers,    \* API handler threads
    Workers,    \* replicas that run tick()
    Commands,   \* the commands the node sends, among AllCommands
    MaxGen,     \* bound: generations the node issues
    MaxFaults   \* bound: faults, cancellations, deadlines and rows written over

AllCommands == {"Start", "Stop", "Delete", "UpdateSpec"}

ASSUME CommandsAssumption == Commands \subseteq AllCommands
ASSUME BoundsAssumption == MaxGen \in Nat \ {0} /\ MaxFaults \in Nat

VARIABLES
    sent,       \* the node's command at each generation, once it sent one
    wl,         \* the workload row
    ops,        \* the operation rows, in creation order
    cancelling, \* the cancellations in flight: an operation and the state read of it
    call,       \* per caller: the handler in flight
    pc,         \* per worker: where its tick is
    cur,        \* per worker: the operation being executed, 0 for none
    todo,       \* per worker: the operations execute_pending visits after it
    plan,       \* per worker: the desired state it read and the action it planned
    got,        \* per worker: the observation to record
    snap,       \* per worker: the record it will save
    outcome,    \* per worker: how the current operation will end
    be,         \* the backend: its registry entry and its sequence counter
    late,       \* a backend call that outlived its caller's deadline
    deleted,    \* whether a Deleted event was appended
    faults,     \* how much of MaxFaults is used
    overwritten, \* history: how often a workload and an operation row was written over
    want,       \* history: the desired state of each applied generation
    satisfied,  \* history: generations that the recorded observation satisfied
    started     \* history: generations that ran in the backend

row == <<wl, deleted, want, satisfied>>
store == <<row, cancelling, overwritten>>
backend == <<be, late, started>>
worker == <<pc, cur, todo, plan, got, snap, outcome>>
vars == <<sent, call, store, ops, worker, backend, faults>>

Gens == 1..MaxGen

NoWorkload == [state |-> "Stopped", gen |-> 0, obs |-> NoObs, version |-> 0]
NoCall == [pc |-> "idle", record |-> NoWorkload]
NoPlan == [state |-> "Stopped", gen |-> 0, action |-> "None"]

Init ==
    /\ sent = [g \in Gens |-> "unsent"]
    /\ wl = NoWorkload
    /\ ops = <<>>
    /\ cancelling = {}
    /\ call = [c \in Callers |-> NoCall]
    /\ pc = [w \in Workers |-> "idle"]
    /\ cur = [w \in Workers |-> 0]
    /\ todo = [w \in Workers |-> {}]
    /\ plan = [w \in Workers |-> NoPlan]
    /\ got = [w \in Workers |-> NoObs]
    /\ snap = [w \in Workers |-> NoWorkload]
    /\ outcome = [w \in Workers |-> "none"]
    /\ be = [inst |-> NoObs, seq |-> 0]
    /\ late = NoPlan
    /\ deleted = FALSE
    /\ faults = 0
    /\ overwritten = [workload |-> 0, operation |-> 0]
    /\ want = [g \in Gens |-> "unset"]
    /\ satisfied = {}
    /\ started = {}

WithinBound == faults + overwritten.workload + overwritten.operation < MaxFaults

Fault == WithinBound /\ faults' = faults + 1

Overwrites(kind) ==
    /\ WithinBound
    /\ overwritten' = [overwritten EXCEPT ![kind] = @ + 1]

-----------------------------------------------------------------------------
(* The stores.                                                             *)

Action(record) == reconcile(record.state, record.gen, record.obs)

(* Mutant: the row is replaced whatever its version.                       *)
Mutant_replaces(record) == TRUE

(* replace_workload compares the stored version with the one read.         *)
replaces(record) == wl.version = record.version - 1

(* VmmService::save advances the version of the record that was read.      *)
Revised(state, gen, obs) ==
    [state |-> state, gen |-> gen, obs |-> obs, version |-> wl.version + 1]

(* insert_workload, and the update of replace_workload.                    *)
Write(record) ==
    /\ wl' = record
    /\ want' = [want EXCEPT ![record.gen] = record.state]
    /\ satisfied' = satisfied \cup
         {g \in Gens : want'[g] # "unset" /\ reconcile(want'[g], g, record.obs) = "None"}

(* replace_workload, when it does not refuse: if the row is not the one    *)
(* that was read any more, it changed after it was compared.               *)
Replace(record) ==
    /\ Write(record)
    /\ IF replaces(record) THEN UNCHANGED overwritten ELSE Overwrites("workload")

(* new_operation: lifecycle operations differ only in their generation and *)
(* in whether they have a deadline.  A caller's does, and it may never     *)
(* pass; reconcile gives none.                                             *)
Operation(gen, deadline) == [state |-> "Pending", gen |-> gen, deadline |-> deadline]

operation_for(gen) == {id \in DOMAIN ops : ops[id].gen = gen}

Unfinished(id) == ~Finished(ops[id].state)

SetState(id, state) == ops' = [ops EXCEPT ![id].state = state]

(* Mutant: the operation is replaced whatever its state.                   *)
Mutant_expected(id, state) == TRUE

(* replace_operation compares the operation's state with the one read ...  *)
expected(id, state) == ops[id].state = state

(* ... and writes the new one: here again a state that is not the expected *)
(* one any more changed after it was compared.                             *)
ReplaceState(id, from, to) ==
    /\ SetState(id, to)
    /\ IF expected(id, from) THEN UNCHANGED overwritten ELSE Overwrites("operation")

-----------------------------------------------------------------------------
(* API handlers.  The node gives every generation one command and may send *)
(* it again, late or out of order.                                         *)

Sends(g, command) ==
    /\ sent[g] \in {"unsent", command}
    /\ sent' = [sent EXCEPT ![g] = command]

(* What a command asks for; update_spec keeps the state.                   *)
target(record, command) ==
    CASE command = "Start" -> "Running"
      [] command = "Stop" -> "Stopped"
      [] command = "Delete" -> "Deleted"
      [] OTHER -> record.state

(* create(): a workload starts stopped or running.                         *)
Create(c) ==
    /\ call[c].pc = "idle" /\ wl = NoWorkload
    /\ \E command \in Commands \cap {"Start", "Stop"} :
         LET record == Revised(target(wl, command), 1, NoObs)
         IN /\ Sends(1, command)
            /\ Write(record)
            /\ call' = [call EXCEPT ![c] = [pc |-> "insert", record |-> record]]
    /\ UNCHANGED <<ops, worker, backend, deleted, cancelling, overwritten, faults>>

(* command() and update_spec() up to save: load, classify, check.  Pause,  *)
(* resume and restore end at the capability check: no backend offers them. *)
Command(c) ==
    /\ call[c].pc = "idle" /\ wl # NoWorkload
    /\ \E g \in Gens, command \in Commands :
         /\ Sends(g, command)
         /\ command_freshness(wl.gen, g) = "Apply"
         /\ desired_transition(wl.state, target(wl, command))
         /\ call' = [call EXCEPT ![c] =
              [pc |-> "save",
               record |-> Revised(target(wl, command), g, wl.obs)]]
    /\ UNCHANGED <<store, ops, worker, backend, faults>>

CommandSave(c) ==
    /\ call[c].pc = "save"
    /\ Replace(call[c].record)
    /\ call' = [call EXCEPT ![c].pc = "insert"]
    /\ UNCHANGED <<sent, ops, worker, backend, deleted, cancelling, faults>>

CommandRefused(c) ==
    /\ call[c].pc = "save" /\ ~replaces(call[c].record)
    /\ call' = [call EXCEPT ![c] = NoCall]
    /\ UNCHANGED <<sent, store, ops, worker, backend, faults>>

CommandInsert(c) ==
    /\ call[c].pc = "insert"
    /\ ops' = Append(ops, Operation(call[c].record.gen, TRUE))
    /\ call' = [call EXCEPT ![c] = NoCall]
    /\ UNCHANGED <<sent, store, worker, backend, faults>>

(* cancel(): an operation that has no verdict is read ...                  *)
CancelRead(id) ==
    /\ operation_transition(ops[id].state, "Cancelled")
    /\ cancelling' = cancelling \cup {[id |-> id, state |-> ops[id].state]}
    /\ Fault
    /\ UNCHANGED <<sent, call, row, overwritten, ops, worker, backend>>

(* ... and replaced ...                                                    *)
Cancel(read) ==
    /\ ReplaceState(read.id, read.state, "Cancelled")
    /\ cancelling' = cancelling \ {read}
    /\ UNCHANGED <<sent, call, row, worker, backend, faults>>

(* ... or it changed: the loop reads it again, as long as it can be        *)
(* cancelled.                                                              *)
CancelRetry(read) ==
    /\ ~expected(read.id, read.state)
    /\ cancelling' = (cancelling \ {read}) \cup
         {r \in {[id |-> read.id, state |-> ops[read.id].state]} :
            operation_transition(r.state, "Cancelled")}
    /\ UNCHANGED <<sent, call, row, overwritten, ops, worker, backend, faults>>

CallerCrash(c) ==
    /\ call[c].pc # "idle"
    /\ call' = [call EXCEPT ![c] = NoCall]
    /\ Fault
    /\ UNCHANGED <<sent, store, ops, worker, backend>>

-----------------------------------------------------------------------------
(* The native backend.  A call lands atomically; b is the backend before.  *)

Seen(state, gen, seq) == [state |-> state, gen |-> gen, seq |-> seq]

(* ensure(): a missing instance is registered as pending.                  *)
ensure(b, gen) ==
    IF b.inst # NoObs THEN b
    ELSE [inst |-> Seen("Pending", gen, b.seq + 1), seq |-> b.seq + 1]

(* launch(): runs the instance, or observes that it failed to run.         *)
launch(b, gen, result) ==
    LET e == ensure(b, gen) IN
    [inst |-> Seen(result, gen, e.seq + 1), seq |-> e.seq + 1]

(* stop(): draws a sequence first; an existing instance is observed again. *)
stop(b, gen) ==
    IF b.inst = NoObs THEN [b EXCEPT !.seq = @ + 1]
    ELSE [inst |-> Seen("Stopped", gen, b.seq + 2), seq |-> b.seq + 2]

delete(b) == [inst |-> NoObs, seq |-> b.seq + 1]

step(b, p, result) ==
    CASE p.action \in {"Start", "Resume"} -> launch(b, p.gen, result)
      [] p.action = "Restart" -> launch(stop(b, p.gen), p.gen, result)
      [] p.action = "Stop" -> stop(b, p.gen)
      [] OTHER -> delete(b)

(* What an error can leave behind: a sequence drawn, the stop of a restart *)
(* done, the instance registered but not launched.                         *)
Partial(b, p) ==
    CASE p.action \in {"Start", "Resume"} -> {ensure(b, p.gen)}
      [] p.action = "Restart" ->
           {[b EXCEPT !.seq = @ + 1], stop(b, p.gen), ensure(stop(b, p.gen), p.gen)}
      [] OTHER -> {[b EXCEPT !.seq = @ + 1]}

(* The observation a step answers with.                                    *)
answer(b, p) == IF b.inst # NoObs THEN b.inst ELSE Seen("Stopped", p.gen, b.seq)

Lands(b) ==
    /\ be' = b
    /\ started' = IF b.inst.state = "Running" THEN started \cup {b.inst.gen} ELSE started

(* A timed out call that the backend's blocking thread still completes.    *)
LateLands ==
    /\ late # NoPlan
    /\ Lands(step(be, late, "Running"))
    /\ late' = NoPlan
    /\ UNCHANGED <<sent, call, store, ops, worker, faults>>

(* ... or does not: nothing is done, only a part, or the run fails.  The   *)
(* deadline that passed is already counted as the fault.                   *)
LateFails ==
    /\ late # NoPlan
    /\ \E b \in {be, step(be, late, "Failed")} \cup Partial(be, late) : Lands(b)
    /\ late' = NoPlan
    /\ UNCHANGED <<sent, call, store, ops, worker, faults>>

(* Registry and sequence are in memory.                                    *)
BackendRestart ==
    /\ be' = [inst |-> NoObs, seq |-> 0]
    /\ late' = NoPlan
    /\ be.seq > 0 /\ Fault
    /\ UNCHANGED <<sent, call, store, ops, worker, started>>

-----------------------------------------------------------------------------
(* tick(): execute_pending.                                                *)

Goto(w, label) == pc' = [pc EXCEPT ![w] = label]

(* The locals of the tick are forgotten.                                   *)
Reset(w) ==
    /\ cur' = [cur EXCEPT ![w] = 0]
    /\ todo' = [todo EXCEPT ![w] = {}]
    /\ plan' = [plan EXCEPT ![w] = NoPlan]
    /\ got' = [got EXCEPT ![w] = NoObs]
    /\ snap' = [snap EXCEPT ![w] = NoWorkload]
    /\ outcome' = [outcome EXCEPT ![w] = "none"]

(* execute_pending's loop over a list of operations, oldest first; observe *)
(* comes after the last one.                                               *)
Visit(w, list) ==
    \/ /\ list = {}
       /\ cur' = [cur EXCEPT ![w] = 0]
       /\ todo' = [todo EXCEPT ![w] = {}]
       /\ Goto(w, "observe")
    \/ \E id \in list :
         /\ \A other \in list : id <= other
         /\ cur' = [cur EXCEPT ![w] = id]
         /\ todo' = [todo EXCEPT ![w] = list \ {id}]
         /\ Goto(w, "execute")

(* The attempt at the current operation is over.                           *)
NextOperation(w) ==
    /\ Visit(w, todo[w])
    /\ plan' = [plan EXCEPT ![w] = NoPlan]
    /\ got' = [got EXCEPT ![w] = NoObs]
    /\ snap' = [snap EXCEPT ![w] = NoWorkload]
    /\ outcome' = [outcome EXCEPT ![w] = "none"]

(* The attempt ends in finish() with this outcome.                         *)
Finishing(w, result) ==
    /\ Goto(w, "finish")
    /\ outcome' = [outcome EXCEPT ![w] = result]
    /\ plan' = [plan EXCEPT ![w] = NoPlan]
    /\ got' = [got EXCEPT ![w] = NoObs]
    /\ snap' = [snap EXCEPT ![w] = NoWorkload]
    /\ UNCHANGED <<cur, todo>>

Current(w) == ops[cur[w]]

Tick(w) ==
    /\ pc[w] = "idle" /\ wl # NoWorkload
    /\ Visit(w, {id \in DOMAIN ops : Unfinished(id)})
    /\ UNCHANGED <<sent, call, store, ops, backend, faults, plan, got, snap, outcome>>

(* Mutant: only pending operations are attempted, none is resumed.         *)
Mutant_ExecuteLoad(w) ==
    /\ pc[w] = "execute"
    /\ IF Current(w).state = "Pending"
       THEN Goto(w, "begin") /\ UNCHANGED <<cur, todo, plan, got, snap, outcome>>
       ELSE NextOperation(w)
    /\ UNCHANGED <<sent, call, store, ops, backend, faults>>

ExecuteLoad(w) ==
    /\ pc[w] = "execute"
    /\ CASE Current(w).state = "Pending" ->
              Goto(w, "begin") /\ UNCHANGED <<cur, todo, plan, got, snap, outcome>>
         [] Current(w).state = "Running" ->
              Goto(w, "converge") /\ UNCHANGED <<cur, todo, plan, got, snap, outcome>>
         [] OTHER -> NextOperation(w)
    /\ UNCHANGED <<sent, call, store, ops, backend, faults>>

(* Pending to running ...                                                  *)
ExecuteBegin(w) ==
    /\ pc[w] = "begin"
    /\ ReplaceState(cur[w], "Pending", "Running")
    /\ Goto(w, "converge")
    /\ UNCHANGED <<sent, call, row, cancelling, backend, faults, cur, todo, plan, got, snap,
                   outcome>>

(* ... where a lost race ends the attempt.                                 *)
ExecuteLost(w) ==
    /\ pc[w] = "begin" /\ ~expected(cur[w], "Pending")
    /\ NextOperation(w)
    /\ UNCHANGED <<sent, call, store, ops, backend, faults>>

ExecuteDeadline(w) ==
    /\ pc[w] = "converge" /\ Current(w).deadline
    /\ Finishing(w, "Failed")
    /\ Fault
    /\ UNCHANGED <<sent, call, store, ops, backend>>

(* Mutant: an operation of an older generation goes on under the newer one. *)
Mutant_superseded(w) == FALSE

superseded(w) == Current(w).gen < wl.gen

ConvergeSuperseded(w) ==
    /\ pc[w] = "converge" /\ superseded(w)
    /\ Finishing(w, "Failed")
    /\ UNCHANGED <<sent, call, store, ops, backend, faults>>

ConvergeNothingToDo(w) ==
    /\ pc[w] = "converge" /\ ~superseded(w) /\ Action(wl) = "None"
    /\ Finishing(w, "Succeeded")
    /\ UNCHANGED <<sent, call, store, ops, backend, faults>>

ConvergePlan(w) ==
    /\ pc[w] = "converge" /\ ~superseded(w) /\ Action(wl) # "None"
    /\ plan' = [plan EXCEPT ![w] = [state |-> wl.state, gen |-> wl.gen, action |-> Action(wl)]]
    /\ Goto(w, "step")
    /\ UNCHANGED <<sent, call, store, ops, backend, faults, cur, todo, got, snap, outcome>>

StepAnswered(w) ==
    /\ pc[w] = "step"
    /\ Lands(step(be, plan[w], "Running"))
    /\ got' = [got EXCEPT ![w] = answer(be', plan[w])]
    /\ Goto(w, "record")
    /\ UNCHANGED <<sent, call, store, ops, late, faults, cur, todo, plan, snap, outcome>>

(* run_vm fails: the step still answers, with a failed instance.           *)
StepRunFails(w) ==
    /\ pc[w] = "step" /\ plan[w].action \in {"Start", "Resume", "Restart"}
    /\ Lands(step(be, plan[w], "Failed"))
    /\ got' = [got EXCEPT ![w] = be'.inst]
    /\ Goto(w, "record")
    /\ Fault
    /\ UNCHANGED <<sent, call, store, ops, late, cur, todo, plan, snap, outcome>>

(* The step answers with an error, before or after ensure() registered the *)
(* instance (a failing build or launch plan), or its answer is lost.  All  *)
(* are retryable: the operation stays running.                             *)
StepFails(w) ==
    /\ pc[w] = "step"
    /\ \E b \in {be, step(be, plan[w], "Running")} \cup Partial(be, plan[w]) : Lands(b)
    /\ NextOperation(w)
    /\ Fault
    /\ UNCHANGED <<sent, call, store, ops, late>>

(* The backend refuses the step for good (runtime not offered, credential  *)
(* of another workload): not retryable.                                    *)
StepRefused(w) ==
    /\ pc[w] = "step"
    /\ Finishing(w, "Failed")
    /\ Fault
    /\ UNCHANGED <<sent, call, store, ops, backend>>

(* The 60 s deadline passes while the backend still works on the call.     *)
StepTimeout(w) ==
    /\ pc[w] = "step" /\ late = NoPlan
    /\ late' = plan[w]
    /\ NextOperation(w)
    /\ Fault
    /\ UNCHANGED <<sent, call, store, ops, be, started>>

-----------------------------------------------------------------------------
(* record_observation, for a step (plan # NoPlan) and for observe().       *)

Executing(w) == plan[w] # NoPlan

(* observe() is over, normally or by an error: reconcile() comes next.     *)
ToReconcile(w) ==
    /\ Goto(w, "reconcile")
    /\ got' = [got EXCEPT ![w] = NoObs]
    /\ snap' = [snap EXCEPT ![w] = NoWorkload]
    /\ UNCHANGED <<cur, todo, plan, outcome>>

RecordLoad(w) ==
    /\ pc[w] = "record" /\ accept_observation(wl.gen, wl.obs, got[w])
    /\ snap' = [snap EXCEPT ![w] = Revised(wl.state, wl.gen, got[w])]
    /\ Goto(w, "save")
    /\ UNCHANGED <<sent, call, store, ops, backend, faults, cur, todo, plan, got, outcome>>

(* A refused observation fails the operation, and is old news to observe.  *)
RecordRefused(w) ==
    /\ pc[w] = "record" /\ ~accept_observation(wl.gen, wl.obs, got[w])
    /\ IF Executing(w) THEN Finishing(w, "Failed") ELSE ToReconcile(w)
    /\ UNCHANGED <<sent, call, store, ops, backend, faults>>

RecordRetry(w) ==
    /\ pc[w] = "save" /\ ~replaces(snap[w])
    /\ snap' = [snap EXCEPT ![w] = NoWorkload]
    /\ Goto(w, "record")
    /\ UNCHANGED <<sent, call, store, ops, backend, faults, cur, todo, plan, got, outcome>>

converged(w) == reconcile(plan[w].state, plan[w].gen, snap[w].obs) = "None"

RecordSave(w) ==
    /\ pc[w] = "save"
    /\ Replace(snap[w])
    /\ deleted' = (deleted \/ (Executing(w) /\ converged(w) /\ snap[w].state = "Deleted"))
    /\ IF ~Executing(w) THEN ToReconcile(w)
       ELSE IF converged(w) THEN Finishing(w, "Succeeded") ELSE NextOperation(w)
    /\ UNCHANGED <<sent, call, ops, cancelling, backend, faults>>

(* The store fails, CAS_ATTEMPTS races were lost, or the record was saved  *)
(* and its event could not be appended.                                    *)
RecordFails(w) ==
    /\ pc[w] \in {"record", "save"}
    /\ \/ UNCHANGED <<wl, want, satisfied, overwritten>>
       \/ pc[w] = "save" /\ Replace(snap[w])
    /\ IF Executing(w) THEN NextOperation(w) ELSE ToReconcile(w)
    /\ Fault
    /\ UNCHANGED <<sent, call, deleted, cancelling, ops, backend>>

(* finish(): a running operation gets its verdict ...                      *)
FinishCheck(w) ==
    /\ pc[w] = "finish" /\ expected(cur[w], "Running")
    /\ Goto(w, "verdict")
    /\ UNCHANGED <<sent, call, store, ops, backend, faults, cur, todo, plan, got, snap, outcome>>

Finish(w) ==
    /\ pc[w] = "verdict"
    /\ ReplaceState(cur[w], "Running", outcome[w])
    /\ NextOperation(w)
    /\ UNCHANGED <<sent, call, row, cancelling, backend, faults>>

(* ... or was cancelled meanwhile: the result is discarded.                *)
FinishDiscarded(w) ==
    /\ pc[w] \in {"finish", "verdict"} /\ ~expected(cur[w], "Running")
    /\ NextOperation(w)
    /\ UNCHANGED <<sent, call, store, ops, backend, faults>>

-----------------------------------------------------------------------------
(* tick(): observe and reconcile.                                          *)

ObserveAll(w) ==
    /\ pc[w] = "observe"
    /\ got' = [got EXCEPT ![w] = be.inst]
    /\ Goto(w, "compare")
    /\ UNCHANGED <<sent, call, store, ops, backend, faults, cur, todo, plan, snap, outcome>>

Vanished == wl.obs.state \in {"Pending", "Running", "Paused"} /\ wl.state # "Deleted"

(* The page of workloads is read; an instance that is no longer reported   *)
(* is lost, at the sequence after the recorded one.                        *)
Compare(w) ==
    /\ pc[w] = "compare"
    /\ IF got[w] # NoObs
       THEN Goto(w, "record") /\ UNCHANGED <<cur, todo, plan, got, snap, outcome>>
       ELSE IF Vanished
       THEN /\ got' = [got EXCEPT ![w] = Seen("Lost", wl.obs.gen, wl.obs.seq + 1)]
            /\ Goto(w, "record")
            /\ UNCHANGED <<cur, todo, plan, snap, outcome>>
       ELSE ToReconcile(w)
    /\ UNCHANGED <<sent, call, store, ops, backend, faults>>

(* Mutant: drift from an already observed generation is not repaired.      *)
Mutant_Reconcile(w) ==
    /\ pc[w] = "reconcile"
    /\ IF Action(wl) = "None" \/ wl.obs.gen = wl.gen THEN Goto(w, "idle") /\ UNCHANGED plan
       ELSE /\ Goto(w, "check")
            /\ plan' = [plan EXCEPT ![w] = [state |-> wl.state, gen |-> wl.gen, action |-> Action(wl)]]
    /\ UNCHANGED <<sent, call, store, ops, backend, faults, cur, todo, got, snap, outcome>>

Reconcile(w) ==
    /\ pc[w] = "reconcile"
    /\ IF Action(wl) = "None" THEN Goto(w, "idle") /\ UNCHANGED plan
       ELSE /\ Goto(w, "check")
            /\ plan' = [plan EXCEPT ![w] = [state |-> wl.state, gen |-> wl.gen, action |-> Action(wl)]]
    /\ UNCHANGED <<sent, call, store, ops, backend, faults, cur, todo, got, snap, outcome>>

(* No second operation is opened while one is unfinished.                  *)
ReconcileCheck(w) ==
    /\ pc[w] = "check"
    /\ IF \E id \in DOMAIN ops : Unfinished(id)
       THEN Goto(w, "idle") /\ plan' = [plan EXCEPT ![w] = NoPlan]
       ELSE Goto(w, "open") /\ UNCHANGED plan
    /\ UNCHANGED <<sent, call, store, ops, backend, faults, cur, todo, got, snap, outcome>>

ReconcileOpen(w) ==
    /\ pc[w] = "open"
    /\ ops' = Append(ops, Operation(plan[w].gen, FALSE))
    /\ Goto(w, "idle")
    /\ plan' = [plan EXCEPT ![w] = NoPlan]
    /\ UNCHANGED <<sent, call, store, backend, faults, cur, todo, got, snap, outcome>>

(* A store or backend error ends the phase it happens in; tick() reports   *)
(* it and goes on with the next one.                                       *)
TickFails(w) ==
    /\ \/ pc[w] \in {"execute", "begin", "converge", "finish", "verdict"}
          /\ Goto(w, "observe")
       \/ pc[w] \in {"observe", "compare"} /\ Goto(w, "reconcile")
       \/ pc[w] \in {"reconcile", "check", "open"} /\ Goto(w, "idle")
    /\ Reset(w)
    /\ Fault
    /\ UNCHANGED <<sent, call, store, ops, backend>>

WorkerCrash(w) ==
    /\ pc[w] # "idle"
    /\ Goto(w, "idle")
    /\ Reset(w)
    /\ Fault
    /\ UNCHANGED <<sent, call, store, ops, backend>>

-----------------------------------------------------------------------------
Handler(c) == Create(c) \/ Command(c)
Handling(c) == CommandSave(c) \/ CommandRefused(c) \/ CommandInsert(c)

Execute(w) ==
    \/ Tick(w) \/ ExecuteLoad(w) \/ ExecuteBegin(w) \/ ExecuteLost(w)
    \/ ConvergeSuperseded(w) \/ ConvergeNothingToDo(w) \/ ConvergePlan(w)
    \/ StepAnswered(w) \/ FinishCheck(w) \/ Finish(w) \/ FinishDiscarded(w)

Record(w) == RecordLoad(w) \/ RecordRefused(w) \/ RecordRetry(w) \/ RecordSave(w)

Observe(w) == ObserveAll(w) \/ Compare(w) \/ Reconcile(w) \/ ReconcileCheck(w) \/ ReconcileOpen(w)

Ticking(w) == Execute(w) \/ Record(w) \/ Observe(w)

Faulty(w) ==
    \/ ExecuteDeadline(w) \/ StepRunFails(w) \/ StepFails(w) \/ StepRefused(w)
    \/ StepTimeout(w) \/ RecordFails(w) \/ TickFails(w) \/ WorkerCrash(w)

Next ==
    \/ \E c \in Callers : Handler(c) \/ Handling(c) \/ CallerCrash(c)
    \/ \E w \in Workers : Ticking(w) \/ Faulty(w)
    \/ \E id \in DOMAIN ops : CancelRead(id)
    \/ \E read \in cancelling : Cancel(read) \/ CancelRetry(read)
    \/ LateLands \/ LateFails \/ BackendRestart

Spec == Init /\ [][Next]_vars

(* Handler threads finish what they began, every worker keeps ticking, and *)
(* the backend completes its calls.  Whether the node sends another        *)
(* command or a fault happens is nobody's duty.                            *)
FairSpec ==
    /\ Spec
    /\ \A c \in Callers : WF_vars(Handling(c))
    /\ \A w \in Workers : WF_vars(Ticking(w))
    /\ WF_vars(LateLands)

-----------------------------------------------------------------------------
(* Properties.                                                             *)

Recorded == Observations \cup {NoObs}
Workloads == [state : DesiredStates, gen : 0..MaxGen, obs : Recorded, version : Nat]
Operations == [state : OperationStates, gen : Gens, deadline : BOOLEAN]
Calls == [pc : {"idle", "save", "insert"}, record : Workloads]
Actions == {"None", "Start", "Stop", "Pause", "Resume", "Delete", "Restart"}
Plans == [state : DesiredStates, gen : 0..MaxGen, action : Actions]
Backends == [inst : Recorded, seq : Nat]
Phases == {"idle", "execute", "begin", "converge", "step", "record", "save", "finish",
           "verdict", "observe", "compare", "reconcile", "check", "open"}

StoreOK ==
    /\ wl \in Workloads /\ ops \in Seq(Operations)
    /\ deleted \in BOOLEAN
    /\ want \in [Gens -> DesiredStates \cup {"unset"}]
    /\ satisfied \subseteq Gens

RacesOK ==
    /\ cancelling \subseteq [id : DOMAIN ops, state : OperationStates]
    /\ overwritten \in [workload : Nat, operation : Nat]

CallersOK ==
    /\ sent \in [Gens -> Commands \cup {"unsent"}]
    /\ call \in [Callers -> Calls]

WorkersOK ==
    /\ pc \in [Workers -> Phases]
    /\ cur \in [Workers -> Nat] /\ todo \in [Workers -> SUBSET Nat]
    /\ plan \in [Workers -> Plans]
    /\ got \in [Workers -> Recorded]
    /\ snap \in [Workers -> Workloads]
    /\ outcome \in [Workers -> {"none", "Succeeded", "Failed"}]

BackendOK ==
    /\ be \in Backends /\ late \in Plans /\ started \subseteq Gens
    /\ faults \in 0..MaxFaults

TypeOK == StoreOK /\ RacesOK /\ CallersOK /\ WorkersOK /\ BackendOK

(* The node's accepted commands are never undone, as long as no workload   *)
(* row was written over: no observation saved by a worker and no other     *)
(* handler's command brings back an older desired generation, changes the  *)
(* desired state without a newer one, or revives a deleted workload        *)
(* (VmmService::save, replace_workload).                                   *)
DesiredMovesForward ==
    [][overwritten'.workload = 0 =>
          /\ wl'.gen >= wl.gen
          /\ wl'.state # wl.state => wl'.gen > wl.gen
          /\ wl.state = "Deleted" => wl'.state = "Deleted"]_vars

(* The recorded observation never goes back in generation or sequence and  *)
(* never disappears, whoever records what in whichever order, as long as   *)
(* no workload row was written over (accept_observation,                   *)
(* record_observation).                                                    *)
ObservationsMoveForward ==
    [][overwritten'.workload = 0 =>
          (wl'.obs # wl.obs => Newer(wl'.obs, wl.obs) /\ wl'.obs.gen <= wl'.gen)]_vars

(* A finished operation never changes: a result that arrives after a       *)
(* cancellation, a crash or another worker's verdict is discarded          *)
(* (finish, cancel, "Terminal states never change"), as long as no         *)
(* operation row was written over.                                         *)
VerdictsAreFinal ==
    [][overwritten'.operation = 0 =>
          \A id \in DOMAIN ops : Finished(ops[id].state) => ops'[id] = ops[id]]_vars

(* An operation is only reported succeeded if at some time the recorded    *)
(* observation satisfied the desired state of the operation's own          *)
(* generation, even when a newer command arrived halfway, as long as no    *)
(* workload row was written over (converge).                               *)
SuccessWasObserved ==
    overwritten.workload = 0 =>
        \A id \in DOMAIN ops : ops[id].state = "Succeeded" => ops[id].gen \in satisfied

(* Once faults and commands stop, the worker brings every operation to a   *)
(* verdict ...                                                             *)
EveryOperationFinishes ==
    \A g \in Gens : []<>(\A id \in DOMAIN ops : ops[id].gen = g => Finished(ops[id].state))

(* ... and the recorded observation to the desired state (execute_pending, *)
(* observe, reconcile, tick).                                              *)
RecordConverges == <>[](Action(wl) = "None")

(* "VMM/backend timeout: return pending/unknown, never invent success or   *)
(* failure" (failure-model.md): a start reported succeeded did start.      *)
SuccessIsNotInvented ==
    \A id \in DOMAIN ops :
        ops[id].state = "Succeeded" /\ want[ops[id].gen] = "Running" => ops[id].gen \in started

(* "Equal: idempotent replay returning the same operation" (states.json):  *)
(* while no handler is in flight, a replay of the applied generation finds *)
(* an operation (operation_for).                                           *)
ReplayIsAnswered ==
    wl.gen > 1 /\ (\A c \in Callers : call[c].pc = "idle") => operation_for(wl.gen) # {}

(* "Every update carries the revision it read, and a commit another writer *)
(* won is retried" (0038-persisted-ports-on-the-storage-module.md): an     *)
(* accepted command stays (replace_workload).                              *)
CommandStays == [][wl'.gen >= wl.gen]_vars

(* "Reconcile by operation ID and desired generation" after a backend      *)
(* timeout (failure-model.md): a workload that stays desired stopped or    *)
(* deleted ends up not running.                                            *)
StoppedStops == <>[](wl.state \in {"Stopped", "Deleted"} => be.inst.state # "Running")
=============================================================================
