----------------------------- MODULE VmmProofs ------------------------------
(***************************************************************************)
(* Safety of the VMM service for any number of API handlers and            *)
(* overlapping workers, any number of generations and any number of        *)
(* faults: what VmmService's runs check on small instances.                *)
(*                                                                         *)
(* The heart of the argument is CallOK and SnapOK: as long as no workload  *)
(* row was written over, a record that a handler or a worker is about to   *)
(* save either was read at the version the row still has, and then nothing *)
(* else changed since, or its version is used up, and the store refuses it *)
(* or writes the row over.  The types need none of this: every part that   *)
(* does is stated under RowKept.                                           *)
(***************************************************************************)
EXTENDS VmmService, SequenceTheorems, TLAPS

(* No workload row, no operation row was written over.                     *)
RowKept == overwritten.workload = 0
OpKept == overwritten.operation = 0

(* The phases in which a worker is inside execute().                       *)
Attempting(w) ==
    \/ pc[w] \in {"execute", "begin", "converge", "step", "finish", "verdict"}
    \/ pc[w] \in {"record", "save"} /\ plan[w] # NoPlan

PhaseOK(w) ==
    /\ todo[w] \subseteq DOMAIN ops
    /\ Attempting(w) => cur[w] \in DOMAIN ops
    /\ pc[w] # "idle" => wl.gen > 0
    /\ pc[w] \notin {"step", "record", "save", "check", "open"} => plan[w] = NoPlan
    /\ pc[w] \in {"record", "save"} => got[w] # NoObs

(* A worker's record.                                                      *)
SnapOK(w) ==
    pc[w] = "save" =>
        /\ snap[w].gen \in Gens
        /\ RowKept => snap[w].version <= wl.version + 1
        /\ RowKept /\ snap[w].version = wl.version + 1 =>
             /\ snap[w].state = wl.state /\ snap[w].gen = wl.gen
             /\ snap[w].obs \in Observations
             /\ accept_observation(wl.gen, wl.obs, snap[w].obs)

(* What a worker decided to do was, and stays, its generation's goal.      *)
PlanOK(w) ==
    /\ pc[w] \in {"step", "check", "open"} => plan[w] # NoPlan
    /\ plan[w] # NoPlan => plan[w].gen \in Gens
    /\ plan[w] # NoPlan /\ RowKept =>
         /\ plan[w].gen <= wl.gen
         /\ want[plan[w].gen] = plan[w].state
         /\ pc[w] \in {"step", "record", "save"} => ops[cur[w]].gen = plan[w].gen

(* A success about to be recorded was observed.                            *)
VerdictOK(w) ==
    pc[w] \in {"finish", "verdict"} =>
        /\ outcome[w] \in {"Succeeded", "Failed"}
        /\ RowKept /\ outcome[w] = "Succeeded" => ops[cur[w]].gen \in satisfied

WorkerOK(w) == PhaseOK(w) /\ SnapOK(w) /\ PlanOK(w) /\ VerdictOK(w)

WorkerInv == \A w \in Workers : WorkerOK(w)

(* A handler's record.                                                     *)
CallOK(c) ==
    LET record == call[c].record IN
    /\ call[c].pc = "save" =>
         /\ record.gen \in Gens
         /\ RowKept => record.version <= wl.version + 1
         /\ RowKept /\ record.version = wl.version + 1 =>
              /\ record.obs = wl.obs /\ record.gen > wl.gen
              /\ desired_transition(wl.state, record.state)
    /\ call[c].pc = "insert" => record.gen \in Gens /\ (RowKept => record.gen <= wl.gen)

CallInv == \A c \in Callers : CallOK(c)

BackendInv ==
    /\ be.inst # NoObs => be.inst.gen \in Gens
    /\ late # NoPlan => late.gen \in Gens

(* No operation is ahead of the row; the row's own goal is on record, and  *)
(* counted as satisfied as soon as it is.                                  *)
RowInv ==
    /\ wl.gen = 0 => wl = NoWorkload
    /\ RowKept => \A id \in DOMAIN ops : ops[id].gen <= wl.gen
    /\ RowKept /\ wl.gen > 0 =>
         want[wl.gen] = wl.state /\ (Action(wl) = "None" => wl.gen \in satisfied)

(* A cancellation in flight read an operation that had no verdict.         *)
CancelInv == \A read \in cancelling : operation_transition(read.state, "Cancelled")

IInv ==
    /\ TypeOK /\ BackendInv /\ CallInv /\ CancelInv /\ WorkerInv /\ RowInv
    /\ SuccessWasObserved

RestOK == StoreOK /\ CallersOK /\ WorkersOK /\ BackendOK

-----------------------------------------------------------------------------
(* What any step does to the two rows.                                     *)

Applies ==
    /\ wl'.gen \in Gens /\ wl'.gen > wl.gen /\ wl'.obs = wl.obs
    /\ wl.gen > 0 => desired_transition(wl.state, wl'.state)

Observes ==
    /\ wl.gen > 0 /\ wl'.gen = wl.gen /\ wl'.state = wl.state
    /\ wl'.obs \in Observations /\ accept_observation(wl.gen, wl.obs, wl'.obs)

RowStep ==
    /\ RowKept' => RowKept
    /\ OpKept' => OpKept
    /\ \/ UNCHANGED <<wl, want, satisfied>>
       \/ /\ Write(wl') /\ wl'.gen \in Gens
          /\ RowKept' => wl'.version = wl.version + 1 /\ (Applies \/ Observes)

OpsStep ==
    \/ UNCHANGED ops
    \/ \E g \in Gens, d \in BOOLEAN :
         (RowKept => g <= wl.gen) /\ ops' = Append(ops, Operation(g, d))
    \/ \E id \in DOMAIN ops, s \in OperationStates :
         /\ SetState(id, s)
         /\ OpKept' => ~Finished(ops[id].state)
         /\ RowKept /\ s = "Succeeded" => ops[id].gen \in satisfied

-----------------------------------------------------------------------------
(* Types.                                                                  *)

(* The records that stand for nothing are records of their kinds.          *)
LEMMA Zeros ==
    /\ NoWorkload \in Workloads /\ NoCall \in Calls /\ NoPlan \in Plans /\ NoObs \in Recorded
  BY BoundsAssumption
     DEF NoWorkload, Workloads, NoCall, Calls, NoPlan, Plans, NoObs, Recorded, DesiredStates,
         Actions

(* reconcile() answers one of the actions.                                 *)
LEMMA ReconcileType ==
    ASSUME NEW d \in DesiredStates, NEW g, NEW o
    PROVE  reconcile(d, g, o) \in Actions
  BY DEF reconcile, DesiredStates, Actions

(* Going on to the next operation keeps the workers well formed ...        *)
LEMMA NextOperationType ==
    ASSUME WorkersOK, NEW w \in Workers, NextOperation(w)
    PROVE  WorkersOK'
  BY Zeros DEF NextOperation, Visit, Goto, WorkersOK, Phases

(* ... as does entering the list that execute_pending read ...             *)
LEMMA VisitType ==
    ASSUME WorkersOK, NEW w \in Workers, NEW list \in SUBSET Nat, Visit(w, list),
           UNCHANGED <<plan, got, snap, outcome>>
    PROVE  WorkersOK'
  <1>1. CASE list = {}
    BY <1>1 DEF Visit, Goto, WorkersOK, Phases
  <1>2. ASSUME NEW id \in list,
               cur' = [cur EXCEPT ![w] = id], todo' = [todo EXCEPT ![w] = list \ {id}],
               Goto(w, "execute")
        PROVE  WorkersOK'
    <2>1. id \in Nat /\ list \ {id} \in SUBSET Nat
      BY <1>2
    <2>. QED
      BY <1>2, <2>1 DEF Goto, WorkersOK, Phases
  <1>. QED
    BY <1>1, <1>2 DEF Visit

(* ... going to finish() ...                                               *)
LEMMA FinishingType ==
    ASSUME WorkersOK, NEW w \in Workers, NEW r \in {"Succeeded", "Failed"}, Finishing(w, r)
    PROVE  WorkersOK'
  BY Zeros DEF Finishing, Goto, WorkersOK, Phases

(* ... leaving observe() ...                                               *)
LEMMA ToReconcileType ==
    ASSUME WorkersOK, NEW w \in Workers, ToReconcile(w)
    PROVE  WorkersOK'
  BY Zeros DEF ToReconcile, Goto, WorkersOK, Phases

(* ... and forgetting the locals of a tick.                                *)
LEMMA ResetType ==
    ASSUME WorkersOK, NEW w \in Workers, NEW label \in Phases, Goto(w, label), Reset(w)
    PROVE  WorkersOK'
  BY Zeros DEF Reset, Goto, WorkersOK

(* Saving a well-formed record keeps the store well formed.                *)
LEMMA WriteType ==
    ASSUME StoreOK, NEW record \in Workloads, record.gen \in Gens, Write(record),
           ops' = ops, deleted' \in BOOLEAN
    PROVE  StoreOK'
  <1>1. record.state \in DesiredStates
    BY DEF Workloads
  <1>2. want' \in [Gens -> DesiredStates \cup {"unset"}]
    BY <1>1 DEF Write, StoreOK
  <1>. QED
    BY <1>2 DEF Write, StoreOK

(* replace_operation changes the state of one operation and nothing else.  *)
LEMMA SetStateType ==
    ASSUME StoreOK, NEW id \in DOMAIN ops, NEW s \in OperationStates, SetState(id, s)
    PROVE  /\ ops' \in Seq(Operations) /\ DOMAIN ops' = DOMAIN ops
           /\ \A i \in DOMAIN ops : ops'[i].gen = ops[i].gen
           /\ ops'[id].state = s
           /\ \A i \in DOMAIN ops \ {id} : ops'[i] = ops[i]
  <1>. DEFINE o == [ops[id] EXCEPT !.state = s]
  <1>1. ops[id] \in Operations /\ id \in 1..Len(ops) /\ ops \in Seq(Operations)
    BY DEF StoreOK
  <1>2. o \in Operations /\ o.state = s /\ o.gen = ops[id].gen
    BY <1>1 DEF Operations
  <1>3. ops' = [ops EXCEPT ![id] = o]
    BY DEF SetState
  <1>. HIDE DEF o
  <1>. QED
    BY <1>1, <1>2, <1>3, ExceptSeq

(* new_operation adds one row and leaves the others alone.                 *)
LEMMA AppendType ==
    ASSUME StoreOK, NEW g \in Gens, NEW d \in BOOLEAN, ops' = Append(ops, Operation(g, d))
    PROVE  /\ ops' \in Seq(Operations) /\ DOMAIN ops \subseteq DOMAIN ops'
           /\ \A i \in DOMAIN ops : ops'[i] = ops[i]
           /\ \A i \in DOMAIN ops' \ DOMAIN ops : ops'[i] = Operation(g, d)
  <1>1. Operation(g, d) \in Operations
    BY DEF Operation, Operations, OperationStates
  <1>. QED
    BY <1>1, AppendProperties DEF StoreOK

(* Whatever a step leaves in the backend, whole, failed or in part, is     *)
(* well formed, and so is the observation it answers with.                 *)
LEMMA BackendType ==
    ASSUME NEW b \in Backends, NEW p \in Plans,
           p.gen \in Gens, NEW r \in {"Running", "Failed"},
           b.inst # NoObs => b.inst.gen \in Gens,
           NEW n \in {b, step(b, p, r)} \cup Partial(b, p)
    PROVE  /\ n \in Backends
           /\ n.inst # NoObs => n.inst.gen \in Gens
           /\ n = step(b, p, r) => answer(n, p) \in Observations
  BY BoundsAssumption
     DEF Backends, Recorded, Observations, NoObs, Plans, Gens, step, Partial, launch, stop,
         delete, ensure, Seen, answer, ObservedStates

(* The history of what ran names known generations only.                   *)
LEMMA LandsType ==
    ASSUME BackendOK, NEW b \in Backends, b.inst # NoObs => b.inst.gen \in Gens, Lands(b)
    PROVE  be' = b /\ started' \subseteq Gens
  BY DEF BackendOK, Lands, NoObs

(* The observation that observe() makes up for a lost instance is one.     *)
LEMMA LostType ==
    ASSUME StoreOK, Vanished
    PROVE  Seen("Lost", wl.obs.gen, wl.obs.seq + 1) \in Observations
  BY DEF StoreOK, Vanished, Workloads, Recorded, Seen, Observations, NoObs, ObservedStates

(* What a worker plans from the row is a plan ...                          *)
LEMMA PlanType ==
    ASSUME StoreOK
    PROVE  [state |-> wl.state, gen |-> wl.gen, action |-> Action(wl)] \in Plans
  BY ReconcileType DEF StoreOK, Workloads, Plans, Action

(* ... and what it will save over the row is a record.                     *)
LEMMA RevisedType ==
    ASSUME StoreOK, NEW st \in DesiredStates, NEW g \in 0..MaxGen, NEW o \in Recorded
    PROVE  Revised(st, g, o) \in Workloads
  BY DEF StoreOK, Workloads, Revised

(* A command asks for one of the desired states.                           *)
LEMMA TargetType ==
    ASSUME NEW record \in Workloads, NEW command \in AllCommands
    PROVE  target(record, command) \in DesiredStates
  BY DEF target, Workloads, AllCommands, DesiredStates

(* Operation identifiers are numbers.                                      *)
LEMMA UnfinishedType ==
    ASSUME StoreOK
    PROVE  {id \in DOMAIN ops : Unfinished(id)} \in SUBSET Nat
  BY DEF StoreOK

(* A worker in its backend call has a plan for a known generation.         *)
LEMMA StepPlan ==
    ASSUME WorkersOK, WorkerInv, NEW w \in Workers, pc[w] = "step"
    PROVE  plan[w] \in Plans /\ plan[w].gen \in Gens
  BY DEF WorkersOK, WorkerInv, WorkerOK, PlanOK

(* A worker inside execute() works on an operation that exists.            *)
LEMMA CurrentType ==
    ASSUME StoreOK, WorkerInv, NEW w \in Workers, Attempting(w)
    PROVE  cur[w] \in DOMAIN ops /\ Current(w) \in Operations
  BY DEF StoreOK, WorkerInv, WorkerOK, PhaseOK, Current

(* A fault stays within the bound.                                         *)
LEMMA FaultType ==
    ASSUME BackendOK, RacesOK, Fault PROVE faults' \in 0..MaxFaults
  BY BoundsAssumption DEF BackendOK, RacesOK, Fault, WithinBound

(* Writing a row over is counted for the kind of row.                      *)
LEMMA OverwritesType ==
    ASSUME RacesOK, NEW kind \in {"workload", "operation"}, Overwrites(kind)
    PROVE  /\ overwritten' \in [workload : Nat, operation : Nat]
           /\ RowKept' => RowKept /\ kind = "operation"
           /\ OpKept' => OpKept /\ kind = "workload"
  BY DEF RacesOK, Overwrites, RowKept, OpKept

(* The rows keep their types: one case per action.                         *)
LEMMA TypeStep ==
    ASSUME IInv, Next PROVE RestOK'
<1>. USE DEF row, store, backend, worker
<1>0. /\ StoreOK /\ RacesOK /\ CallersOK /\ WorkersOK /\ BackendOK
      /\ BackendInv /\ CallInv /\ WorkerInv
  BY DEF IInv, TypeOK
<1>1. ASSUME NEW c \in Callers, Create(c) PROVE RestOK'
  <2>1. StoreOK'
    BY <1>0, <1>1, CommandsAssumption, WriteType, RevisedType, TargetType, BoundsAssumption
       DEF Create, StoreOK, Revised, Recorded, Gens
  <2>2. CallersOK'
    BY <1>0, <1>1, CommandsAssumption, RevisedType, TargetType, BoundsAssumption
       DEF Create, CallersOK, StoreOK, Sends, Calls, Recorded, Gens
  <2>3. WorkersOK'
    BY <1>0, <1>1 DEF Create, WorkersOK
  <2>4. BackendOK'
    BY <1>0, FaultType, <1>1 DEF Create, BackendOK
  <2>. QED
    BY <2>1, <2>2, <2>3, <2>4 DEF RestOK
<1>2. ASSUME NEW c \in Callers, Command(c) PROVE RestOK'
  <2>1. StoreOK'
    BY <1>0, <1>2 DEF Command, StoreOK
  <2>2. CallersOK'
    BY <1>0, <1>2, CommandsAssumption, RevisedType, TargetType, BoundsAssumption
       DEF Command, CallersOK, StoreOK, Workloads, Sends, Calls, Gens
  <2>3. WorkersOK'
    BY <1>0, <1>2 DEF Command, WorkersOK
  <2>4. BackendOK'
    BY <1>0, FaultType, <1>2 DEF Command, BackendOK
  <2>. QED
    BY <2>1, <2>2, <2>3, <2>4 DEF RestOK
<1>3. ASSUME NEW c \in Callers, CommandSave(c) PROVE RestOK'
  <2>1. StoreOK'
    BY <1>0, <1>3, WriteType DEF CommandSave, Replace, StoreOK, CallersOK, CallInv, CallOK, Calls
  <2>2. CallersOK'
    BY <1>0, <1>3, Zeros DEF CommandSave, CallersOK, Calls
  <2>3. WorkersOK'
    BY <1>0, <1>3 DEF CommandSave, WorkersOK
  <2>4. BackendOK'
    BY <1>0, FaultType, <1>3 DEF CommandSave, BackendOK
  <2>. QED
    BY <2>1, <2>2, <2>3, <2>4 DEF RestOK
<1>4. ASSUME NEW c \in Callers, CommandInsert(c) PROVE RestOK'
  <2>1. StoreOK'
    BY <1>0, <1>4, AppendType DEF CommandInsert, StoreOK, CallInv, CallOK
  <2>2. CallersOK'
    BY <1>0, <1>4, Zeros DEF CommandInsert, CallersOK
  <2>3. WorkersOK'
    BY <1>0, <1>4 DEF CommandInsert, WorkersOK
  <2>4. BackendOK'
    BY <1>0, FaultType, <1>4 DEF CommandInsert, BackendOK
  <2>. QED
    BY <2>1, <2>2, <2>3, <2>4 DEF RestOK
<1>5. ASSUME NEW c \in Callers, CallerCrash(c) PROVE RestOK'
  <2>1. StoreOK'
    BY <1>0, <1>5 DEF CallerCrash, StoreOK
  <2>2. CallersOK'
    BY <1>0, <1>5, Zeros DEF CallerCrash, CallersOK
  <2>3. WorkersOK'
    BY <1>0, <1>5 DEF CallerCrash, WorkersOK
  <2>4. BackendOK'
    BY <1>0, FaultType, <1>5 DEF CallerCrash, BackendOK
  <2>. QED
    BY <2>1, <2>2, <2>3, <2>4 DEF RestOK
<1>6. ASSUME NEW w \in Workers, Tick(w) PROVE RestOK'
  <2>1. StoreOK'
    BY <1>0, <1>6 DEF Tick, StoreOK
  <2>2. CallersOK'
    BY <1>0, <1>6 DEF Tick, CallersOK
  <2>3. WorkersOK'
    BY <1>0, <1>6, VisitType, UnfinishedType DEF Tick
  <2>4. BackendOK'
    BY <1>0, FaultType, <1>6 DEF Tick, BackendOK
  <2>. QED
    BY <2>1, <2>2, <2>3, <2>4 DEF RestOK
<1>7. ASSUME NEW w \in Workers, ExecuteLoad(w) PROVE RestOK'
  <2>1. StoreOK'
    BY <1>0, <1>7 DEF ExecuteLoad, StoreOK
  <2>2. CallersOK'
    BY <1>0, <1>7 DEF ExecuteLoad, CallersOK
  <2>3. WorkersOK'
    BY <1>0, <1>7, NextOperationType DEF ExecuteLoad, Goto, Phases, WorkersOK
  <2>4. BackendOK'
    BY <1>0, FaultType, <1>7 DEF ExecuteLoad, BackendOK
  <2>. QED
    BY <2>1, <2>2, <2>3, <2>4 DEF RestOK
<1>8. ASSUME NEW w \in Workers, ExecuteBegin(w) PROVE RestOK'
  <2>1. StoreOK'
    BY <1>0, <1>8, CurrentType, SetStateType
       DEF ExecuteBegin, ReplaceState, Attempting, StoreOK, OperationStates
  <2>2. CallersOK'
    BY <1>0, <1>8 DEF ExecuteBegin, CallersOK
  <2>3. WorkersOK'
    BY <1>0, <1>8, NextOperationType DEF ExecuteBegin, Goto, Phases, WorkersOK
  <2>4. BackendOK'
    BY <1>0, FaultType, <1>8 DEF ExecuteBegin, BackendOK
  <2>. QED
    BY <2>1, <2>2, <2>3, <2>4 DEF RestOK
<1>9. ASSUME NEW w \in Workers, ConvergeSuperseded(w) PROVE RestOK'
  <2>1. StoreOK'
    BY <1>0, <1>9 DEF ConvergeSuperseded, StoreOK
  <2>2. CallersOK'
    BY <1>0, <1>9 DEF ConvergeSuperseded, CallersOK
  <2>3. WorkersOK'
    BY <1>0, <1>9, FinishingType DEF ConvergeSuperseded
  <2>4. BackendOK'
    BY <1>0, FaultType, <1>9 DEF ConvergeSuperseded, BackendOK
  <2>. QED
    BY <2>1, <2>2, <2>3, <2>4 DEF RestOK
<1>10. ASSUME NEW w \in Workers, ConvergeNothingToDo(w) PROVE RestOK'
  <2>1. StoreOK'
    BY <1>0, <1>10 DEF ConvergeNothingToDo, StoreOK
  <2>2. CallersOK'
    BY <1>0, <1>10 DEF ConvergeNothingToDo, CallersOK
  <2>3. WorkersOK'
    BY <1>0, <1>10, FinishingType DEF ConvergeNothingToDo
  <2>4. BackendOK'
    BY <1>0, FaultType, <1>10 DEF ConvergeNothingToDo, BackendOK
  <2>. QED
    BY <2>1, <2>2, <2>3, <2>4 DEF RestOK
<1>11. ASSUME NEW w \in Workers, ConvergePlan(w) PROVE RestOK'
  <2>1. StoreOK'
    BY <1>0, <1>11 DEF ConvergePlan, StoreOK
  <2>2. CallersOK'
    BY <1>0, <1>11 DEF ConvergePlan, CallersOK
  <2>3. WorkersOK'
    BY <1>0, <1>11, PlanType DEF ConvergePlan, Goto, Phases, WorkersOK
  <2>4. BackendOK'
    BY <1>0, FaultType, <1>11 DEF ConvergePlan, BackendOK
  <2>. QED
    BY <2>1, <2>2, <2>3, <2>4 DEF RestOK
<1>12. ASSUME NEW w \in Workers, StepAnswered(w) PROVE RestOK'
  <2>1. StoreOK'
    BY <1>0, <1>12 DEF StepAnswered, StoreOK
  <2>2. CallersOK'
    BY <1>0, <1>12 DEF StepAnswered, CallersOK
  <2>3. WorkersOK'
    BY <1>0, <1>12, StepPlan, BackendType
       DEF StepAnswered, Goto, Phases, WorkersOK, BackendOK, BackendInv, Lands, Recorded
  <2>4. BackendOK'
    BY <1>0, FaultType, <1>12, StepPlan, BackendType, LandsType
       DEF StepAnswered, BackendOK, BackendInv
  <2>. QED
    BY <2>1, <2>2, <2>3, <2>4 DEF RestOK
<1>13. ASSUME NEW w \in Workers, Finish(w) PROVE RestOK'
  <2>1. StoreOK'
    BY <1>0, <1>13, CurrentType, SetStateType
       DEF Finish, ReplaceState, Attempting, WorkerInv, WorkerOK, VerdictOK, StoreOK,
           OperationStates
  <2>2. CallersOK'
    BY <1>0, <1>13 DEF Finish, CallersOK
  <2>3. WorkersOK'
    BY <1>0, <1>13, NextOperationType DEF Finish
  <2>4. BackendOK'
    BY <1>0, FaultType, <1>13 DEF Finish, BackendOK
  <2>. QED
    BY <2>1, <2>2, <2>3, <2>4 DEF RestOK
<1>14. ASSUME NEW w \in Workers, RecordLoad(w) PROVE RestOK'
  <2>1. StoreOK'
    BY <1>0, <1>14 DEF RecordLoad, StoreOK
  <2>2. CallersOK'
    BY <1>0, <1>14 DEF RecordLoad, CallersOK
  <2>3. WorkersOK'
    BY <1>0, <1>14, RevisedType DEF RecordLoad, Goto, Phases, WorkersOK, StoreOK, Workloads
  <2>4. BackendOK'
    BY <1>0, FaultType, <1>14 DEF RecordLoad, BackendOK
  <2>. QED
    BY <2>1, <2>2, <2>3, <2>4 DEF RestOK
<1>15. ASSUME NEW w \in Workers, RecordRefused(w) PROVE RestOK'
  <2>1. StoreOK'
    BY <1>0, <1>15 DEF RecordRefused, StoreOK
  <2>2. CallersOK'
    BY <1>0, <1>15 DEF RecordRefused, CallersOK
  <2>3. WorkersOK'
    BY <1>0, <1>15, FinishingType, ToReconcileType DEF RecordRefused
  <2>4. BackendOK'
    BY <1>0, FaultType, <1>15 DEF RecordRefused, BackendOK
  <2>. QED
    BY <2>1, <2>2, <2>3, <2>4 DEF RestOK
<1>16. ASSUME NEW w \in Workers, RecordRetry(w) PROVE RestOK'
  <2>1. StoreOK'
    BY <1>0, <1>16 DEF RecordRetry, StoreOK
  <2>2. CallersOK'
    BY <1>0, <1>16 DEF RecordRetry, CallersOK
  <2>3. WorkersOK'
    BY <1>0, <1>16, Zeros DEF RecordRetry, Goto, Phases, WorkersOK
  <2>4. BackendOK'
    BY <1>0, FaultType, <1>16 DEF RecordRetry, BackendOK
  <2>. QED
    BY <2>1, <2>2, <2>3, <2>4 DEF RestOK
<1>17. ASSUME NEW w \in Workers, RecordSave(w) PROVE RestOK'
  <2>1. StoreOK'
    BY <1>0, <1>17, WriteType
       DEF RecordSave, Replace, WorkerInv, WorkerOK, SnapOK, StoreOK, WorkersOK
  <2>2. CallersOK'
    BY <1>0, <1>17 DEF RecordSave, CallersOK
  <2>3. WorkersOK'
    BY <1>0, <1>17, FinishingType, ToReconcileType, NextOperationType DEF RecordSave
  <2>4. BackendOK'
    BY <1>0, FaultType, <1>17 DEF RecordSave, BackendOK
  <2>. QED
    BY <2>1, <2>2, <2>3, <2>4 DEF RestOK
<1>18. ASSUME NEW w \in Workers, ObserveAll(w) PROVE RestOK'
  <2>1. StoreOK'
    BY <1>0, <1>18 DEF ObserveAll, StoreOK
  <2>2. CallersOK'
    BY <1>0, <1>18 DEF ObserveAll, CallersOK
  <2>3. WorkersOK'
    BY <1>0, <1>18 DEF ObserveAll, Goto, Phases, WorkersOK, BackendOK, Backends
  <2>4. BackendOK'
    BY <1>0, FaultType, <1>18 DEF ObserveAll, BackendOK
  <2>. QED
    BY <2>1, <2>2, <2>3, <2>4 DEF RestOK
<1>19. ASSUME NEW w \in Workers, Compare(w) PROVE RestOK'
  <2>1. StoreOK'
    BY <1>0, <1>19 DEF Compare, StoreOK
  <2>2. CallersOK'
    BY <1>0, <1>19 DEF Compare, CallersOK
  <2>3. WorkersOK'
    BY <1>0, <1>19, ToReconcileType, LostType DEF Compare, Goto, Phases, WorkersOK, Recorded
  <2>4. BackendOK'
    BY <1>0, FaultType, <1>19 DEF Compare, BackendOK
  <2>. QED
    BY <2>1, <2>2, <2>3, <2>4 DEF RestOK
<1>20. ASSUME NEW w \in Workers, Reconcile(w) PROVE RestOK'
  <2>1. StoreOK'
    BY <1>0, <1>20 DEF Reconcile, StoreOK
  <2>2. CallersOK'
    BY <1>0, <1>20 DEF Reconcile, CallersOK
  <2>3. WorkersOK'
    BY <1>0, <1>20, PlanType DEF Reconcile, Goto, Phases, WorkersOK
  <2>4. BackendOK'
    BY <1>0, FaultType, <1>20 DEF Reconcile, BackendOK
  <2>. QED
    BY <2>1, <2>2, <2>3, <2>4 DEF RestOK
<1>21. ASSUME NEW w \in Workers, ReconcileCheck(w) PROVE RestOK'
  <2>1. StoreOK'
    BY <1>0, <1>21 DEF ReconcileCheck, StoreOK
  <2>2. CallersOK'
    BY <1>0, <1>21 DEF ReconcileCheck, CallersOK
  <2>3. WorkersOK'
    BY <1>0, <1>21, Zeros DEF ReconcileCheck, Goto, Phases, WorkersOK
  <2>4. BackendOK'
    BY <1>0, FaultType, <1>21 DEF ReconcileCheck, BackendOK
  <2>. QED
    BY <2>1, <2>2, <2>3, <2>4 DEF RestOK
<1>22. ASSUME NEW w \in Workers, ReconcileOpen(w) PROVE RestOK'
  <2>1. StoreOK'
    BY <1>0, <1>22, AppendType DEF ReconcileOpen, WorkerInv, WorkerOK, PlanOK, StoreOK
  <2>2. CallersOK'
    BY <1>0, <1>22 DEF ReconcileOpen, CallersOK
  <2>3. WorkersOK'
    BY <1>0, <1>22, Zeros DEF ReconcileOpen, Goto, Phases, WorkersOK
  <2>4. BackendOK'
    BY <1>0, FaultType, <1>22 DEF ReconcileOpen, BackendOK
  <2>. QED
    BY <2>1, <2>2, <2>3, <2>4 DEF RestOK
<1>23. ASSUME NEW w \in Workers, ExecuteDeadline(w) PROVE RestOK'
  <2>1. StoreOK'
    BY <1>0, <1>23 DEF ExecuteDeadline, StoreOK
  <2>2. CallersOK'
    BY <1>0, <1>23 DEF ExecuteDeadline, CallersOK
  <2>3. WorkersOK'
    BY <1>0, <1>23, FinishingType DEF ExecuteDeadline
  <2>4. BackendOK'
    BY <1>0, FaultType, <1>23 DEF ExecuteDeadline, BackendOK
  <2>. QED
    BY <2>1, <2>2, <2>3, <2>4 DEF RestOK
<1>24. ASSUME NEW w \in Workers, StepRunFails(w) PROVE RestOK'
  <2>1. StoreOK'
    BY <1>0, <1>24 DEF StepRunFails, StoreOK
  <2>2. CallersOK'
    BY <1>0, <1>24 DEF StepRunFails, CallersOK
  <2>3. WorkersOK'
    BY <1>0, <1>24, StepPlan, BackendType
       DEF StepRunFails, Goto, Phases, WorkersOK, BackendOK, BackendInv, Lands, Backends
  <2>4. BackendOK'
    BY <1>0, FaultType, <1>24, StepPlan, BackendType, LandsType
       DEF StepRunFails, BackendOK, BackendInv
  <2>. QED
    BY <2>1, <2>2, <2>3, <2>4 DEF RestOK
<1>25. ASSUME NEW w \in Workers, StepFails(w) PROVE RestOK'
  <2>1. StoreOK'
    BY <1>0, <1>25 DEF StepFails, StoreOK
  <2>2. CallersOK'
    BY <1>0, <1>25 DEF StepFails, CallersOK
  <2>3. WorkersOK'
    BY <1>0, <1>25, NextOperationType DEF StepFails
  <2>4. BackendOK'
    BY <1>0, FaultType, <1>25, StepPlan, BackendType, LandsType
       DEF StepFails, BackendOK, BackendInv
  <2>. QED
    BY <2>1, <2>2, <2>3, <2>4 DEF RestOK
<1>26. ASSUME NEW w \in Workers, StepRefused(w) PROVE RestOK'
  <2>1. StoreOK'
    BY <1>0, <1>26 DEF StepRefused, StoreOK
  <2>2. CallersOK'
    BY <1>0, <1>26 DEF StepRefused, CallersOK
  <2>3. WorkersOK'
    BY <1>0, <1>26, FinishingType DEF StepRefused
  <2>4. BackendOK'
    BY <1>0, FaultType, <1>26 DEF StepRefused, BackendOK
  <2>. QED
    BY <2>1, <2>2, <2>3, <2>4 DEF RestOK
<1>27. ASSUME NEW w \in Workers, StepTimeout(w) PROVE RestOK'
  <2>1. StoreOK'
    BY <1>0, <1>27 DEF StepTimeout, StoreOK
  <2>2. CallersOK'
    BY <1>0, <1>27 DEF StepTimeout, CallersOK
  <2>3. WorkersOK'
    BY <1>0, <1>27, NextOperationType DEF StepTimeout
  <2>4. BackendOK'
    BY <1>0, FaultType, <1>27 DEF StepTimeout, BackendOK, WorkersOK
  <2>. QED
    BY <2>1, <2>2, <2>3, <2>4 DEF RestOK
<1>28. ASSUME NEW w \in Workers, RecordFails(w) PROVE RestOK'
  <2>1. StoreOK'
    BY <1>0, <1>28, WriteType
       DEF RecordFails, Replace, WorkerInv, WorkerOK, SnapOK, StoreOK, WorkersOK
  <2>2. CallersOK'
    BY <1>0, <1>28 DEF RecordFails, CallersOK
  <2>3. WorkersOK'
    BY <1>0, <1>28, NextOperationType, ToReconcileType DEF RecordFails
  <2>4. BackendOK'
    BY <1>0, FaultType, <1>28 DEF RecordFails, BackendOK
  <2>. QED
    BY <2>1, <2>2, <2>3, <2>4 DEF RestOK
<1>29. ASSUME NEW w \in Workers, TickFails(w) PROVE RestOK'
  <2>1. StoreOK'
    BY <1>0, <1>29 DEF TickFails, StoreOK
  <2>2. CallersOK'
    BY <1>0, <1>29 DEF TickFails, CallersOK
  <2>3. WorkersOK'
    BY <1>0, <1>29, ResetType DEF TickFails, Phases
  <2>4. BackendOK'
    BY <1>0, FaultType, <1>29 DEF TickFails, BackendOK
  <2>. QED
    BY <2>1, <2>2, <2>3, <2>4 DEF RestOK
<1>30. ASSUME NEW w \in Workers, WorkerCrash(w) PROVE RestOK'
  <2>1. StoreOK'
    BY <1>0, <1>30 DEF WorkerCrash, StoreOK
  <2>2. CallersOK'
    BY <1>0, <1>30 DEF WorkerCrash, CallersOK
  <2>3. WorkersOK'
    BY <1>0, <1>30, ResetType DEF WorkerCrash, Phases
  <2>4. BackendOK'
    BY <1>0, FaultType, <1>30 DEF WorkerCrash, BackendOK
  <2>. QED
    BY <2>1, <2>2, <2>3, <2>4 DEF RestOK
<1>31. ASSUME NEW read \in cancelling, Cancel(read) PROVE RestOK'
  <2>1. read.id \in DOMAIN ops
    BY <1>0 DEF RacesOK
  <2>. QED
    BY <1>0, <1>31, <2>1, SetStateType
       DEF Cancel, ReplaceState, RestOK, StoreOK, CallersOK, WorkersOK, BackendOK,
           OperationStates
<1>32. ASSUME LateLands PROVE RestOK'
  <2>1. be' \in Backends /\ started' \subseteq Gens
    BY <1>0, <1>32, BackendType, LandsType DEF LateLands, BackendOK, BackendInv
  <2>. QED
    BY <1>0, <1>32, <2>1, Zeros
       DEF LateLands, RestOK, StoreOK, CallersOK, WorkersOK, BackendOK
<1>33. ASSUME LateFails PROVE RestOK'
  <2>1. be' \in Backends /\ started' \subseteq Gens
    BY <1>0, <1>33, BackendType, LandsType DEF LateFails, BackendOK, BackendInv
  <2>. QED
    BY <1>0, <1>33, <2>1, Zeros
       DEF LateFails, RestOK, StoreOK, CallersOK, WorkersOK, BackendOK
<1>34. ASSUME BackendRestart PROVE RestOK'
  BY <1>0, <1>34, Zeros, FaultType
     DEF BackendRestart, RestOK, StoreOK, CallersOK, WorkersOK, BackendOK, Backends
<1>35. ASSUME NEW c \in Callers, CommandRefused(c) PROVE RestOK'
  BY <1>0, <1>35, Zeros
     DEF CommandRefused, RestOK, StoreOK, CallersOK, WorkersOK, BackendOK
<1>36. ASSUME NEW w \in Workers, ExecuteLost(w) \/ FinishDiscarded(w) PROVE RestOK'
  <2>1. WorkersOK'
    BY <1>0, <1>36, NextOperationType DEF ExecuteLost, FinishDiscarded
  <2>. QED
    BY <1>0, <1>36, <2>1
       DEF ExecuteLost, FinishDiscarded, RestOK, StoreOK, CallersOK, BackendOK
<1>37. ASSUME NEW w \in Workers, FinishCheck(w) PROVE RestOK'
  <2>1. WorkersOK'
    BY <1>0, <1>37 DEF FinishCheck, Goto, Phases, WorkersOK
  <2>. QED
    BY <1>0, <1>37, <2>1 DEF FinishCheck, RestOK, StoreOK, CallersOK, BackendOK
<1>38. ASSUME NEW id \in DOMAIN ops, CancelRead(id) PROVE RestOK'
  BY <1>0, <1>38, FaultType
     DEF CancelRead, RestOK, StoreOK, CallersOK, WorkersOK, BackendOK
<1>39. ASSUME NEW read \in cancelling, CancelRetry(read) PROVE RestOK'
  BY <1>0, <1>39 DEF CancelRetry, RestOK, StoreOK, CallersOK, WorkersOK, BackendOK
<1>. QED
  BY <1>1, <1>2, <1>3, <1>4, <1>5, <1>6, <1>7, <1>8, <1>9, <1>10, <1>11, <1>12, <1>13, <1>14,
     <1>15, <1>16, <1>17, <1>18, <1>19, <1>20, <1>21, <1>22, <1>23, <1>24, <1>25, <1>26, <1>27,
     <1>28, <1>29, <1>30, <1>31, <1>32, <1>33, <1>34, <1>35, <1>36, <1>37, <1>38, <1>39
     DEF Next, Handler, Handling, Ticking, Faulty, Execute, Record, Observe

-----------------------------------------------------------------------------
(* Every step is a RowStep and an OpsStep.                                 *)

(* A row is written over once and for all.                                 *)
LEMMA RacesShape ==
    ASSUME IInv, Next
    PROVE  /\ overwritten' \in [workload : Nat, operation : Nat]
           /\ RowKept' => RowKept
           /\ OpKept' => OpKept
<1>. USE DEF row, store, backend, worker
<1>0. RacesOK
  BY DEF IInv, TypeOK
<1>1. CASE UNCHANGED overwritten
  BY <1>0, <1>1 DEF RacesOK, RowKept, OpKept
<1>2. ASSUME NEW kind \in {"workload", "operation"}, Overwrites(kind)
      PROVE  /\ overwritten' \in [workload : Nat, operation : Nat]
             /\ RowKept' => RowKept
             /\ OpKept' => OpKept
  BY <1>0, <1>2, OverwritesType
<1>3. UNCHANGED overwritten \/ \E kind \in {"workload", "operation"} : Overwrites(kind)
  BY DEF Next, Handler, Handling, Ticking, Faulty, Execute, Record, Observe, Create, Command,
         CommandSave, CommandRefused, CommandInsert, CallerCrash, Tick, ExecuteLoad,
         ExecuteBegin, ExecuteLost, ConvergeSuperseded, ConvergeNothingToDo, ConvergePlan,
         StepAnswered, FinishCheck, Finish, FinishDiscarded, RecordLoad, RecordRefused,
         RecordRetry, RecordSave, ObserveAll, Compare, Reconcile, ReconcileCheck,
         ReconcileOpen, ExecuteDeadline, StepRunFails, StepFails, StepRefused, StepTimeout,
         RecordFails, TickFails, WorkerCrash, CancelRead, Cancel, CancelRetry, LateLands,
         LateFails, BackendRestart, Replace, ReplaceState
<1>. QED
  BY <1>1, <1>2, <1>3

(* The workload row is only written by create, by the save of a command    *)
(* and by the save of an observation, each at the next version as long as  *)
(* it is not written over.                                                 *)
LEMMA RowShape ==
    ASSUME IInv, Next PROVE RowStep
<1>. USE DEF row, store, backend, worker
<1>0. StoreOK /\ RacesOK /\ CallersOK /\ WorkersOK /\ CallInv /\ WorkerInv /\ RowInv
  BY DEF IInv, TypeOK
<1>k. (RowKept' => RowKept) /\ (OpKept' => OpKept)
  BY RacesShape
<1>1. ASSUME NEW c \in Callers, Create(c) PROVE RowStep
  <2>1. PICK command \in Commands : Write(Revised(target(wl, command), 1, NoObs))
    BY <1>1 DEF Create
  <2>2. wl' = Revised(target(wl, command), 1, NoObs)
    BY <2>1 DEF Write
  <2>. QED
    BY <1>k, <1>1, <2>1, <2>2, BoundsAssumption
       DEF Create, RowStep, Applies, Revised, NoWorkload, Gens
<1>2. ASSUME NEW c \in Callers, CommandSave(c) PROVE RowStep
  <2>1. wl' = call[c].record /\ Write(wl') /\ wl'.gen \in Gens
    BY <1>0, <1>2 DEF CommandSave, Replace, Write, CallInv, CallOK
  <2>2. ASSUME RowKept' PROVE wl'.version = wl.version + 1
    BY <1>0, <1>2, <2>1, <2>2, OverwritesType
       DEF CommandSave, Replace, replaces, StoreOK, CallersOK, Calls, Workloads
  <2>. QED
    BY <1>0, <1>k, <1>2, <2>1, <2>2 DEF CommandSave, CallInv, CallOK, RowStep, Applies
<1>3. ASSUME NEW w \in Workers, pc[w] = "save", Replace(snap[w]) PROVE RowStep
  <2>1. wl' = snap[w] /\ Write(wl') /\ wl'.gen \in Gens
    BY <1>0, <1>3 DEF Replace, Write, WorkerInv, WorkerOK, SnapOK
  <2>2. ASSUME RowKept' PROVE wl'.version = wl.version + 1
    BY <1>0, <1>3, <2>1, <2>2, OverwritesType DEF Replace, replaces, StoreOK, WorkersOK, Workloads
  <2>. QED
    BY <1>0, <1>k, <1>3, <2>1, <2>2
       DEF WorkerInv, WorkerOK, PhaseOK, SnapOK, RowStep, Observes
<1>4. CASE UNCHANGED <<wl, want, satisfied>>
  BY <1>k, <1>4 DEF RowStep
<1>. QED
  BY <1>1, <1>2, <1>3, <1>4
     DEF Next, Handler, Handling, Ticking, Faulty, Execute, Record, Observe, Command,
         CommandRefused, CommandInsert, CallerCrash, Tick, ExecuteLoad, ExecuteBegin,
         ExecuteLost, ConvergeSuperseded, ConvergeNothingToDo, ConvergePlan, StepAnswered,
         FinishCheck, Finish, FinishDiscarded, RecordLoad, RecordRefused, RecordRetry,
         RecordSave, ObserveAll, Compare, Reconcile, ReconcileCheck, ReconcileOpen,
         ExecuteDeadline, StepRunFails, StepFails, StepRefused, StepTimeout, RecordFails,
         TickFails, WorkerCrash, CancelRead, Cancel, CancelRetry, LateLands, LateFails,
         BackendRestart

(* Operation rows are only appended, at no newer generation than the row,  *)
(* or given a state, while they are unfinished unless one is written over. *)
LEMMA OpsShape ==
    ASSUME IInv, Next PROVE OpsStep
<1>. USE DEF row, store, backend, worker
<1>0. StoreOK /\ RacesOK /\ CallersOK /\ WorkersOK /\ CallInv /\ CancelInv /\ WorkerInv /\ RowInv
  BY DEF IInv, TypeOK
<1>r. ASSUME NEW id \in DOMAIN ops, NEW from, NEW to \in OperationStates,
             ReplaceState(id, from, to), ~Finished(from),
             RowKept /\ to = "Succeeded" => ops[id].gen \in satisfied
      PROVE  OpsStep
  <2>1. OpKept' => ~Finished(ops[id].state)
    BY <1>0, <1>r, OverwritesType DEF ReplaceState, expected
  <2>2. SetState(id, to)
    BY <1>r DEF ReplaceState
  <2>. QED
    BY <1>r, <2>1, <2>2 DEF OpsStep
<1>1. ASSUME NEW c \in Callers, CommandInsert(c) PROVE OpsStep
  BY <1>0, <1>1 DEF CommandInsert, CallInv, CallOK, OpsStep
<1>2. ASSUME NEW w \in Workers, ExecuteBegin(w) PROVE OpsStep
  <2>1. cur[w] \in DOMAIN ops
    BY <1>0, <1>2, CurrentType DEF ExecuteBegin, Attempting
  <2>. QED
    BY <1>r, <1>2, <2>1 DEF ExecuteBegin, Finished, OperationStates
<1>3. ASSUME NEW w \in Workers, Finish(w) PROVE OpsStep
  <2>1. cur[w] \in DOMAIN ops
    BY <1>0, <1>3, CurrentType DEF Finish, Attempting
  <2>2. /\ outcome[w] \in OperationStates
        /\ RowKept /\ outcome[w] = "Succeeded" => ops[cur[w]].gen \in satisfied
    BY <1>0, <1>3 DEF Finish, WorkerInv, WorkerOK, VerdictOK, OperationStates
  <2>. QED
    BY <1>r, <1>3, <2>1, <2>2 DEF Finish, Finished
<1>4. ASSUME NEW w \in Workers, ReconcileOpen(w) PROVE OpsStep
  BY <1>0, <1>4 DEF ReconcileOpen, WorkerInv, WorkerOK, PlanOK, OpsStep
<1>5. ASSUME NEW read \in cancelling, Cancel(read) PROVE OpsStep
  <2>1. read.id \in DOMAIN ops /\ ~Finished(read.state)
    BY <1>0 DEF RacesOK, CancelInv, Finished, operation_transition
  <2>. QED
    BY <1>r, <1>5, <2>1 DEF Cancel, OperationStates
<1>6. CASE UNCHANGED ops
  BY <1>6 DEF OpsStep
<1>. QED
  BY <1>1, <1>2, <1>3, <1>4, <1>5, <1>6
     DEF Next, Handler, Handling, Ticking, Faulty, Execute, Record, Observe, Create, Command,
         CommandSave, CommandRefused, CallerCrash, Tick, ExecuteLoad, ExecuteLost,
         ConvergeSuperseded, ConvergeNothingToDo, ConvergePlan, StepAnswered, FinishCheck,
         FinishDiscarded, RecordLoad, RecordRefused, RecordRetry, RecordSave, ObserveAll,
         Compare, Reconcile, ReconcileCheck, ExecuteDeadline, StepRunFails, StepFails,
         StepRefused, StepTimeout, RecordFails, TickFails, WorkerCrash, CancelRead,
         CancelRetry, LateLands, LateFails, BackendRestart

(* Operation rows never go away.                                           *)
LEMMA OpsStay ==
    ASSUME StoreOK, OpsStep
    PROVE  DOMAIN ops \subseteq DOMAIN ops' /\ \A id \in DOMAIN ops : ops'[id].gen = ops[id].gen
  BY SetStateType, AppendType DEF OpsStep

(* A cancellation keeps what it read of an operation that exists.          *)
LEMMA CancelStep ==
    ASSUME IInv, Next, OpsStep PROVE RacesOK' /\ CancelInv'
<1>. USE DEF row, store, backend, worker
<1>0. StoreOK /\ RacesOK /\ CancelInv
  BY DEF IInv, TypeOK
<1>d. DOMAIN ops \subseteq DOMAIN ops'
  BY <1>0, OpsStay
<1>o. overwritten' \in [workload : Nat, operation : Nat]
  BY RacesShape
<1>s. ASSUME NEW id \in DOMAIN ops PROVE ops[id].state \in OperationStates
  <2>1. ops[id] \in Operations
    BY <1>0 DEF StoreOK
  <2>. QED
    BY <2>1 DEF Operations
<1>1. ASSUME NEW id \in DOMAIN ops, CancelRead(id) PROVE RacesOK' /\ CancelInv'
  BY <1>0, <1>d, <1>o, <1>s, <1>1 DEF CancelRead, RacesOK, CancelInv
<1>2. ASSUME NEW read \in cancelling, CancelRetry(read) PROVE RacesOK' /\ CancelInv'
  <2>1. read.id \in DOMAIN ops
    BY <1>0 DEF RacesOK
  <2>. QED
    BY <1>0, <1>d, <1>o, <1>s, <1>2, <2>1 DEF CancelRetry, RacesOK, CancelInv
<1>3. CASE cancelling' \subseteq cancelling
  BY <1>0, <1>d, <1>o, <1>3 DEF RacesOK, CancelInv
<1>4. ASSUME NEW read \in cancelling, Cancel(read) PROVE RacesOK' /\ CancelInv'
  BY <1>3, <1>4 DEF Cancel
<1>. QED
  BY <1>1, <1>2, <1>3, <1>4
     DEF Next, Handler, Handling, Ticking, Faulty, Execute, Record, Observe, Create, Command,
         CommandSave, CommandRefused, CommandInsert, CallerCrash, Tick, ExecuteLoad,
         ExecuteBegin, ExecuteLost, ConvergeSuperseded, ConvergeNothingToDo, ConvergePlan,
         StepAnswered, FinishCheck, Finish, FinishDiscarded, RecordLoad, RecordRefused,
         RecordRetry, RecordSave, ObserveAll, Compare, Reconcile, ReconcileCheck,
         ReconcileOpen, ExecuteDeadline, StepRunFails, StepFails, StepRefused, StepTimeout,
         RecordFails, TickFails, WorkerCrash, LateLands, LateFails, BackendRestart

-----------------------------------------------------------------------------
(* What follows from the shape of a step.                                  *)

(* Such steps lose no operation, no workload and no satisfied generation,  *)
(* and as long as no row is written over, generations, versions and goals  *)
(* only grow.                                                              *)
LEMMA Growth ==
    ASSUME TypeOK, TypeOK', RowInv, RowStep, OpsStep
    PROVE  /\ DOMAIN ops \subseteq DOMAIN ops'
           /\ \A id \in DOMAIN ops : ops'[id].gen = ops[id].gen
           /\ wl.gen > 0 => wl'.gen > 0
           /\ satisfied \subseteq satisfied'
           /\ RowKept' => /\ RowKept
                          /\ wl'.gen >= wl.gen
                          /\ wl' = wl \/ wl'.version = wl.version + 1
                          /\ \A g \in Gens : g <= wl.gen => want'[g] = want[g]
<1>1. DOMAIN ops \subseteq DOMAIN ops' /\ \A id \in DOMAIN ops : ops'[id].gen = ops[id].gen
  BY OpsStay DEF TypeOK
<1>2. wl.gen > 0 => wl'.gen > 0
  BY DEF RowStep, Gens
<1>3. ASSUME RowKept'
      PROVE  RowKept /\ wl'.gen >= wl.gen /\ (wl' = wl \/ wl'.version = wl.version + 1)
  BY <1>3 DEF RowStep, Applies, Observes, TypeOK, StoreOK, Workloads, Gens
<1>4. ASSUME RowKept', NEW g \in Gens, g <= wl.gen PROVE want'[g] = want[g]
  <2>1. CASE UNCHANGED want
    BY <2>1
  <2>2. CASE Write(wl') /\ Applies
    BY <1>4, <2>2 DEF Write, Applies, TypeOK, StoreOK, Gens, Workloads
  <2>3. CASE Write(wl') /\ Observes
    BY <1>3, <1>4, <2>3 DEF Write, Observes, RowInv, TypeOK, StoreOK
  <2>. QED
    BY <1>4, <2>1, <2>2, <2>3 DEF RowStep
<1>5. satisfied \subseteq satisfied'
  BY DEF RowStep, Write
<1>. QED
  BY <1>1, <1>2, <1>3, <1>4, <1>5

(* Such steps keep the row and its history in agreement ...                *)
LEMMA RowInvariance ==
    ASSUME TypeOK, TypeOK', RowInv, RowStep, OpsStep PROVE RowInv'
<1>1. (wl.gen = 0 => wl = NoWorkload)'
  BY DEF RowStep, RowInv, Gens
<1>2. ASSUME RowKept', NEW id \in DOMAIN ops' PROVE ops'[id].gen <= wl'.gen
  <2>1. wl'.gen \in Nat /\ wl.gen \in Nat
    BY DEF TypeOK, StoreOK, Workloads
  <2>2. CASE id \in DOMAIN ops
    <3>0. ops[id] \in Operations
      BY <2>2 DEF TypeOK, StoreOK
    <3>1. ops[id].gen \in Nat
      BY <3>0 DEF Operations, Gens
    <3>. QED
      BY <1>2, <2>1, <2>2, <3>1, Growth DEF RowInv
  <2>3. CASE id \notin DOMAIN ops
    <3>1. PICK g \in Gens, d \in BOOLEAN : g <= wl.gen /\ ops' = Append(ops, Operation(g, d))
      BY <1>2, <2>3, SetStateType DEF OpsStep, TypeOK, RowStep
    <3>2. ops'[id] = Operation(g, d)
      BY <1>2, <2>3, <3>1, AppendType DEF TypeOK
    <3>. QED
      BY <1>2, <2>1, <3>1, <3>2, Growth DEF Operation, Gens
  <2>. QED
    BY <2>2, <2>3
<1>3. ASSUME RowKept', wl'.gen > 0
      PROVE  want'[wl'.gen] = wl'.state /\ (Action(wl') = "None" => wl'.gen \in satisfied')
  <2>1. CASE UNCHANGED <<wl, want, satisfied>>
    BY <1>3, <2>1 DEF RowInv, Action, RowStep
  <2>2. CASE Write(wl')
    <3>1. wl'.gen \in Gens /\ wl'.state \in DesiredStates
      BY <1>3 DEF TypeOK, StoreOK, Workloads, Gens
    <3>2. want'[wl'.gen] = wl'.state
      BY <2>2, <3>1 DEF Write, TypeOK, StoreOK
    <3>. QED
      BY <2>2, <3>1, <3>2 DEF Write, Action, DesiredStates
  <2>. QED
    BY <2>1, <2>2 DEF RowStep
<1>. QED
  BY <1>1, <1>2, <1>3 DEF RowInv, Action

(* ... and every reported success observed.                                *)
LEMMA SuccessInvariance ==
    ASSUME TypeOK, TypeOK', RowInv, RowStep, OpsStep, SuccessWasObserved
    PROVE  SuccessWasObserved'
<1>. SUFFICES ASSUME RowKept', NEW id \in DOMAIN ops', ops'[id].state = "Succeeded"
              PROVE  ops'[id].gen \in satisfied'
  BY DEF SuccessWasObserved, RowKept
<1>k. \A i \in DOMAIN ops : ops[i].state = "Succeeded" => ops[i].gen \in satisfied
  BY Growth DEF SuccessWasObserved, RowKept
<1>1. CASE UNCHANGED ops
  BY <1>k, <1>1, Growth
<1>2. ASSUME NEW g \in Gens, NEW d \in BOOLEAN, ops' = Append(ops, Operation(g, d))
      PROVE  ops'[id].gen \in satisfied'
  BY <1>k, <1>2, Growth, AppendType DEF TypeOK, Operation
<1>3. ASSUME NEW i \in DOMAIN ops, NEW s \in OperationStates, SetState(i, s),
             s = "Succeeded" => ops[i].gen \in satisfied
      PROVE  ops'[id].gen \in satisfied'
  <2>1. /\ DOMAIN ops' = DOMAIN ops /\ ops'[i].state = s
        /\ \A j \in DOMAIN ops \ {i} : ops'[j] = ops[j]
    BY <1>3, SetStateType DEF TypeOK
  <2>. QED
    BY <1>k, <1>3, <2>1, Growth
<1>. QED
  BY <1>1, <1>2, <1>3, Growth DEF OpsStep

(* A handler or a worker that does not move keeps its invariant.           *)
LEMMA CallFrame ==
    ASSUME IInv, TypeOK', RowStep, OpsStep, NEW c \in Callers, call'[c] = call[c]
    PROVE  CallOK(c)'
<1>. DEFINE record == call[c].record
<1>1. /\ record.version \in Nat /\ wl.version \in Nat /\ wl'.version \in Nat
      /\ record.gen \in Nat /\ wl.gen \in Nat /\ wl'.gen \in Nat
  BY DEF IInv, TypeOK, StoreOK, CallersOK, Calls, Workloads
<1>2. RowKept' => RowKept /\ wl'.gen >= wl.gen /\ (wl' = wl \/ wl'.version = wl.version + 1)
  BY Growth DEF IInv
<1>. QED
  BY <1>1, <1>2 DEF IInv, CallInv, CallOK

(* The same for a worker: what it read stays true, or its version is used  *)
(* up.                                                                     *)
LEMMA WorkerFrame ==
    ASSUME IInv, TypeOK', RowStep, OpsStep, NEW w \in Workers,
           pc'[w] = pc[w], cur'[w] = cur[w], todo'[w] = todo[w], plan'[w] = plan[w],
           got'[w] = got[w], snap'[w] = snap[w], outcome'[w] = outcome[w]
    PROVE  WorkerOK(w)'
<1>0. /\ PhaseOK(w) /\ SnapOK(w) /\ PlanOK(w) /\ VerdictOK(w)
      /\ wl.gen \in Nat /\ wl'.gen \in Nat /\ wl.version \in Nat /\ wl'.version \in Nat
      /\ snap[w].version \in Nat /\ plan[w].gen \in Nat
  BY DEF IInv, WorkerInv, WorkerOK, TypeOK, StoreOK, WorkersOK, Workloads, Plans
<1>1. /\ DOMAIN ops \subseteq DOMAIN ops'
      /\ \A id \in DOMAIN ops : ops'[id].gen = ops[id].gen
      /\ wl.gen > 0 => wl'.gen > 0
      /\ satisfied \subseteq satisfied'
      /\ RowKept' => /\ RowKept
                     /\ wl'.gen >= wl.gen
                     /\ wl' = wl \/ wl'.version = wl.version + 1
                     /\ \A g \in Gens : g <= wl.gen => want'[g] = want[g]
  BY Growth DEF IInv
<1>2. PhaseOK(w)'
  BY <1>0, <1>1 DEF PhaseOK, Attempting
<1>3. SnapOK(w)'
  BY <1>0, <1>1 DEF SnapOK
<1>4. PlanOK(w)'
  BY <1>0, <1>1 DEF PlanOK, PhaseOK, Attempting
<1>5. VerdictOK(w)'
  BY <1>0, <1>1 DEF VerdictOK, PhaseOK, Attempting
<1>. QED
  BY <1>2, <1>3, <1>4, <1>5 DEF WorkerOK

-----------------------------------------------------------------------------
(* The conjuncts of the invariant that depend on who takes the step.       *)

(* The backend only ever knows generations that were issued.               *)
LEMMA BackendStep ==
    ASSUME IInv, Next PROVE BackendInv'
<1>. USE DEF row, store, backend, worker
<1>0. BackendOK /\ WorkersOK /\ BackendInv /\ WorkerInv
  BY DEF IInv, TypeOK
<1>1. ASSUME NEW w \in Workers, StepAnswered(w) PROVE BackendInv'
  BY <1>0, <1>1, StepPlan, BackendType DEF StepAnswered, Lands, BackendOK, BackendInv
<1>2. ASSUME NEW w \in Workers, StepRunFails(w) PROVE BackendInv'
  BY <1>0, <1>2, StepPlan, BackendType DEF StepRunFails, Lands, BackendOK, BackendInv
<1>3. ASSUME NEW w \in Workers, StepFails(w) PROVE BackendInv'
  BY <1>0, <1>3, StepPlan, BackendType DEF StepFails, Lands, BackendOK, BackendInv
<1>4. ASSUME NEW w \in Workers, StepTimeout(w) PROVE BackendInv'
  BY <1>0, <1>4, StepPlan DEF StepTimeout, BackendInv
<1>5. ASSUME LateLands PROVE BackendInv'
  BY <1>0, <1>5, BackendType DEF LateLands, Lands, BackendOK, BackendInv
<1>8. ASSUME LateFails PROVE BackendInv'
  BY <1>0, <1>8, BackendType DEF LateFails, Lands, BackendOK, BackendInv
<1>6. ASSUME BackendRestart PROVE BackendInv'
  BY <1>6 DEF BackendRestart, BackendInv
<1>7. CASE UNCHANGED <<be, late>>
  BY <1>0, <1>7 DEF BackendInv
<1>. QED
  BY <1>1, <1>2, <1>3, <1>4, <1>5, <1>6, <1>7, <1>8
     DEF Next, Handler, Handling, Ticking, Faulty, Execute, Record, Observe, Create, Command,
         CommandSave, CommandRefused, CommandInsert, CallerCrash, Tick, ExecuteLoad,
         ExecuteBegin, ExecuteLost, ConvergeSuperseded, ConvergeNothingToDo, ConvergePlan,
         FinishCheck, Finish, FinishDiscarded, RecordLoad, RecordRefused, RecordRetry,
         RecordSave, ObserveAll, Compare, Reconcile, ReconcileCheck, ReconcileOpen,
         ExecuteDeadline, StepRefused, RecordFails, TickFails, WorkerCrash, CancelRead, Cancel,
         CancelRetry

(* Every handler keeps its invariant, its own steps and the others' alike. *)
LEMMA CallStep ==
    ASSUME IInv, Next, TypeOK', RowStep, OpsStep PROVE CallInv'
<1>. USE DEF row, store, backend, worker
<1>0. StoreOK /\ CallersOK /\ CallInv
  BY DEF IInv, TypeOK
<1>. SUFFICES ASSUME NEW d \in Callers PROVE CallOK(d)'
  BY DEF CallInv
<1>1. CASE call'[d] = call[d]
  BY <1>1, CallFrame
<1>2. CASE call'[d] = NoCall
  BY <1>2 DEF NoCall, CallOK
<1>3. ASSUME NEW c \in Callers, Create(c) PROVE CallOK(d)'
  <2>1. CASE d = c
    BY <1>0, <1>3, <2>1, BoundsAssumption DEF Create, Write, Revised, CallersOK, CallOK, Gens
  <2>. QED
    BY <1>0, <1>1, <1>3, <2>1 DEF Create, CallersOK
<1>4. ASSUME NEW c \in Callers, Command(c) PROVE CallOK(d)'
  <2>1. CASE d = c
    BY <1>0, <1>4, <2>1
       DEF Command, Revised, CallersOK, StoreOK, Workloads, CallOK, Gens, command_freshness
  <2>. QED
    BY <1>0, <1>1, <1>4, <2>1 DEF Command, CallersOK
<1>5. ASSUME NEW c \in Callers, CommandSave(c) PROVE CallOK(d)'
  <2>1. CASE d = c
    BY <1>0, <1>5, <2>1
       DEF CommandSave, Replace, Write, CallersOK, Calls, Workloads, CallInv, CallOK, Gens
  <2>. QED
    BY <1>0, <1>1, <1>5, <2>1 DEF CommandSave, CallersOK
<1>6. ASSUME NEW c \in Callers, CommandRefused(c) \/ CommandInsert(c) \/ CallerCrash(c)
      PROVE  CallOK(d)'
  BY <1>0, <1>1, <1>2, <1>6 DEF CommandRefused, CommandInsert, CallerCrash, CallersOK
<1>7. CASE UNCHANGED call
  BY <1>1, <1>7
<1>. QED
  BY <1>3, <1>4, <1>5, <1>6, <1>7
     DEF Next, Handler, Handling, Ticking, Faulty, Execute, Record, Observe, Tick, ExecuteLoad,
         ExecuteBegin, ExecuteLost, ConvergeSuperseded, ConvergeNothingToDo, ConvergePlan,
         StepAnswered, FinishCheck, Finish, FinishDiscarded, RecordLoad, RecordRefused,
         RecordRetry, RecordSave, ObserveAll, Compare, Reconcile, ReconcileCheck,
         ReconcileOpen, ExecuteDeadline, StepRunFails, StepFails, StepRefused, StepTimeout,
         RecordFails, TickFails, WorkerCrash, CancelRead, Cancel, CancelRetry, LateLands,
         LateFails, BackendRestart

(* A step of one worker leaves the others where they are.                  *)
Elsewhere(w) ==
    \A v \in Workers \ {w} :
        /\ pc'[v] = pc[v] /\ cur'[v] = cur[v] /\ todo'[v] = todo[v] /\ plan'[v] = plan[v]
        /\ got'[v] = got[v] /\ snap'[v] = snap[v] /\ outcome'[v] = outcome[v]

(* This holds of every step of the tick.                                   *)
LEMMA Others ==
    ASSUME WorkersOK, NEW w \in Workers, Ticking(w) \/ Faulty(w) PROVE Elsewhere(w)
<1>. USE DEF row, store, backend, worker, WorkersOK, Elsewhere, Goto
<1>1. ASSUME NEW list, Visit(w, list), UNCHANGED <<plan, got, snap, outcome>> PROVE Elsewhere(w)
  BY <1>1 DEF Visit
<1>2. ASSUME NextOperation(w) PROVE Elsewhere(w)
  BY <1>2 DEF Visit, NextOperation
<1>3. ASSUME NEW r, Finishing(w, r) PROVE Elsewhere(w)
  BY <1>3 DEF Finishing
<1>4. ASSUME ToReconcile(w) PROVE Elsewhere(w)
  BY <1>4 DEF ToReconcile
<1>5. ASSUME Execute(w) PROVE Elsewhere(w)
  BY <1>1, <1>2, <1>3, <1>5
     DEF Execute, Tick, ExecuteLoad, ExecuteBegin, ExecuteLost, ConvergeSuperseded,
         ConvergeNothingToDo, ConvergePlan, StepAnswered, FinishCheck, Finish, FinishDiscarded
<1>6. ASSUME Record(w) PROVE Elsewhere(w)
  BY <1>2, <1>3, <1>4, <1>6 DEF Record, RecordLoad, RecordRefused, RecordRetry, RecordSave
<1>7. ASSUME Observe(w) PROVE Elsewhere(w)
  BY <1>4, <1>7 DEF Observe, ObserveAll, Compare, Reconcile, ReconcileCheck, ReconcileOpen
<1>8. ASSUME Faulty(w) PROVE Elsewhere(w)
  BY <1>2, <1>3, <1>4, <1>8
     DEF Faulty, ExecuteDeadline, StepRunFails, StepFails, StepRefused, StepTimeout,
         RecordFails, TickFails, WorkerCrash, Reset
<1>. QED
  BY <1>5, <1>6, <1>7, <1>8 DEF Ticking

(* Where a worker goes when an attempt, or a phase of the tick, ends.      *)

(* Entering a list of operations establishes the invariant of a worker ... *)
LEMMA VisitOK ==
    ASSUME WorkersOK, WorkersOK', NEW w \in Workers, NEW list \in SUBSET DOMAIN ops',
           Visit(w, list), wl'.gen > 0, plan'[w] = NoPlan
    PROVE  WorkerOK(w)'
  BY DEF Visit, Goto, WorkersOK, WorkerOK, PhaseOK, SnapOK, PlanOK, VerdictOK, Attempting

(* ... and so does going on to the next one.                               *)
LEMMA NextOperationOK ==
    ASSUME IInv, TypeOK', RowStep, OpsStep, NEW w \in Workers, pc[w] # "idle", NextOperation(w)
    PROVE  WorkerOK(w)'
<1>1. todo[w] \in SUBSET DOMAIN ops' /\ wl'.gen > 0
  <2>1. todo[w] \subseteq DOMAIN ops /\ wl.gen > 0 /\ wl.gen \in Nat /\ wl'.gen \in Nat
    BY DEF IInv, WorkerInv, WorkerOK, PhaseOK, TypeOK, StoreOK, Workloads
  <2>. QED
    BY <2>1, Growth DEF IInv
<1>2. plan'[w] = NoPlan
  BY DEF NextOperation, IInv, TypeOK, WorkersOK
<1>. QED
  BY <1>1, <1>2, VisitOK DEF NextOperation, IInv, TypeOK

(* A worker may go to finish() with a success only when it was observed.   *)
LEMMA FinishingOK ==
    ASSUME IInv, TypeOK', RowStep, OpsStep, NEW w \in Workers, Attempting(w),
           NEW r \in {"Succeeded", "Failed"}, Finishing(w, r),
           RowKept' /\ r = "Succeeded" => ops[cur[w]].gen \in satisfied'
    PROVE  WorkerOK(w)'
<1>1. todo[w] \subseteq DOMAIN ops /\ cur[w] \in DOMAIN ops /\ wl.gen > 0 /\ wl.gen \in Nat /\ wl'.gen \in Nat
  BY DEF IInv, WorkerInv, WorkerOK, PhaseOK, Attempting, TypeOK, StoreOK, Workloads
<1>2. /\ pc'[w] = "finish" /\ outcome'[w] = r /\ plan'[w] = NoPlan
      /\ cur'[w] = cur[w] /\ todo'[w] = todo[w]
  BY DEF Finishing, Goto, IInv, TypeOK, WorkersOK
<1>3. /\ DOMAIN ops \subseteq DOMAIN ops' /\ \A id \in DOMAIN ops : ops'[id].gen = ops[id].gen
      /\ wl'.gen > 0
  BY <1>1, Growth DEF IInv
<1>. QED
  BY <1>1, <1>2, <1>3 DEF WorkerOK, PhaseOK, SnapOK, PlanOK, VerdictOK, Attempting

(* Moving to a later phase of the tick with no plan needs nothing more.    *)
LEMMA MovesOK ==
    ASSUME IInv, TypeOK', RowStep, OpsStep, NEW w \in Workers, pc[w] # "idle",
           plan'[w] = NoPlan, todo'[w] \subseteq todo[w],
           pc'[w] \in {"idle", "observe", "compare", "reconcile"}
    PROVE  WorkerOK(w)'
<1>1. todo[w] \subseteq DOMAIN ops /\ wl.gen > 0 /\ wl.gen \in Nat /\ wl'.gen \in Nat
  BY DEF IInv, WorkerInv, WorkerOK, PhaseOK, TypeOK, StoreOK, Workloads
<1>2. DOMAIN ops \subseteq DOMAIN ops' /\ wl'.gen > 0
  BY <1>1, Growth DEF IInv
<1>. QED
  BY <1>1, <1>2 DEF WorkerOK, PhaseOK, SnapOK, PlanOK, VerdictOK, Attempting

(* A worker's own steps keep its invariant: one case per action.           *)
LEMMA WorkerStep ==
    ASSUME IInv, TypeOK', RowStep, OpsStep, NEW w \in Workers, Ticking(w) \/ Faulty(w)
    PROVE  WorkerOK(w)'
<1>. USE DEF row, store, backend, worker
<1>0. /\ StoreOK /\ WorkersOK /\ BackendOK /\ BackendInv /\ WorkerInv /\ RowInv
      /\ StoreOK' /\ WorkersOK'
      /\ wl.gen \in Nat /\ wl'.gen \in Nat /\ wl.version \in Nat /\ wl.state \in DesiredStates
  BY DEF IInv, TypeOK, StoreOK, Workloads
<1>i. PhaseOK(w) /\ SnapOK(w) /\ PlanOK(w) /\ VerdictOK(w)
  BY <1>0 DEF WorkerInv, WorkerOK
<1>g. pc[w] # "idle" => wl.gen > 0 /\ wl.gen \in Gens /\ (RowKept => want[wl.gen] = wl.state)
  BY <1>0, <1>i DEF PhaseOK, RowInv, StoreOK, Workloads, Gens
<1>1. ASSUME Tick(w) PROVE WorkerOK(w)'
  <2>1. wl.gen > 0 /\ plan[w] = NoPlan
    BY <1>0, <1>i, <1>1 DEF Tick, PhaseOK, RowInv
  <2>. QED
    BY <1>0, <1>1, <2>1, VisitOK DEF Tick
<1>2. ASSUME ExecuteLoad(w) PROVE WorkerOK(w)'
  <2>1. CASE NextOperation(w)
    BY <1>2, <2>1, NextOperationOK DEF ExecuteLoad
  <2>2. CASE (Goto(w, "begin") \/ Goto(w, "converge")) /\ UNCHANGED <<cur, todo, plan, got, snap, outcome>>
    BY <1>0, <1>i, <1>2, <2>2
       DEF ExecuteLoad, Goto, WorkersOK, WorkerOK, PhaseOK, SnapOK, PlanOK, VerdictOK,
           Attempting
  <2>. QED
    BY <1>2, <2>1, <2>2 DEF ExecuteLoad
<1>3. ASSUME ExecuteBegin(w) PROVE WorkerOK(w)'
  <2>1. DOMAIN ops \subseteq DOMAIN ops'
    BY Growth DEF IInv
  <2>. QED
    BY <1>0, <1>i, <1>3, <2>1
       DEF ExecuteBegin, Goto, WorkersOK, WorkerOK, PhaseOK, SnapOK, PlanOK, VerdictOK,
           Attempting
<1>20. ASSUME FinishCheck(w) PROVE WorkerOK(w)'
  BY <1>0, <1>i, <1>20
     DEF FinishCheck, Goto, WorkersOK, WorkerOK, PhaseOK, SnapOK, PlanOK, VerdictOK, RowKept,
         Attempting
<1>4. ASSUME ConvergeSuperseded(w) \/ ExecuteDeadline(w) \/ StepRefused(w) PROVE WorkerOK(w)'
  <2>1. Attempting(w) /\ Finishing(w, "Failed")
    BY <1>4 DEF ConvergeSuperseded, ExecuteDeadline, StepRefused, Attempting
  <2>. QED
    BY <2>1, FinishingOK
<1>c. ASSUME pc[w] = "converge", ~superseded(w), RowKept PROVE ops[cur[w]].gen = wl.gen
  <2>1. cur[w] \in DOMAIN ops /\ ops[cur[w]] \in Operations
    BY <1>0, <1>c, CurrentType DEF Attempting, Current
  <2>2. ops[cur[w]].gen \in Nat /\ ops[cur[w]].gen <= wl.gen
    BY <1>0, <1>c, <2>1 DEF Operations, Gens, RowInv
  <2>. QED
    BY <1>0, <1>c, <2>2 DEF superseded, Current
<1>5. ASSUME ConvergeNothingToDo(w) PROVE WorkerOK(w)'
  <2>1. Attempting(w) /\ (RowKept' => ops[cur[w]].gen \in satisfied')
    BY <1>0, <1>g, <1>c, <1>5 DEF ConvergeNothingToDo, RowInv, RowKept, Attempting
  <2>. QED
    BY <1>5, <2>1, FinishingOK DEF ConvergeNothingToDo
<1>6. ASSUME ConvergePlan(w) PROVE WorkerOK(w)'
  <2>1. (RowKept => ops[cur[w]].gen = wl.gen) /\ cur[w] \in DOMAIN ops
    BY <1>0, <1>c, <1>i, <1>6 DEF ConvergePlan, PhaseOK, Attempting
  <2>2. /\ plan'[w] = [state |-> wl.state, gen |-> wl.gen, action |-> Action(wl)]
        /\ pc'[w] = "step"
    BY <1>0, <1>6 DEF ConvergePlan, Goto, WorkersOK
  <2>3. plan'[w] # NoPlan
    BY <2>2, <1>g, <1>6 DEF ConvergePlan, NoPlan
  <2>4. PlanOK(w)'
    BY <1>0, <1>g, <1>6, <2>1, <2>2, <2>3 DEF ConvergePlan, PlanOK, RowKept
  <2>. QED
    BY <1>0, <1>i, <1>6, <2>2, <2>4
       DEF ConvergePlan, WorkerOK, PhaseOK, SnapOK, VerdictOK, Attempting
<1>7. ASSUME StepAnswered(w) \/ StepRunFails(w) PROVE WorkerOK(w)'
  <2>1. pc[w] = "step" /\ pc'[w] = "record"
    BY <1>0, <1>7 DEF StepAnswered, StepRunFails, Goto, WorkersOK
  <2>2. got'[w] # NoObs
    <3>1. plan[w] \in Plans /\ plan[w].gen \in Gens
      BY <1>0, <2>1, StepPlan
    <3>2. CASE StepAnswered(w)
      <4>1. got'[w] = answer(be', plan[w]) /\ be' = step(be, plan[w], "Running")
        BY <1>0, <3>2 DEF StepAnswered, Lands, WorkersOK
      <4>2. got'[w] \in Observations
        BY <1>0, <3>1, <4>1, BackendType DEF BackendOK, BackendInv
      <4>. QED
        BY <4>2 DEF Observations, NoObs, ObservedStates
    <3>3. CASE StepRunFails(w)
      <4>1. got'[w] = step(be, plan[w], "Failed").inst
        BY <1>0, <3>3 DEF StepRunFails, Lands, WorkersOK
      <4>. QED
        BY <3>3, <4>1 DEF StepRunFails, step, launch, Seen, NoObs
    <3>. QED
      BY <1>7, <3>2, <3>3
  <2>3. UNCHANGED <<cur, todo, plan, snap, outcome, ops, wl, want, overwritten>>
    BY <1>7 DEF StepAnswered, StepRunFails
  <2>. QED
    BY <1>i, <2>1, <2>2, <2>3
       DEF WorkerOK, PhaseOK, SnapOK, PlanOK, VerdictOK, RowKept, Attempting
<1>8. ASSUME \/ ExecuteLost(w) \/ Finish(w) \/ FinishDiscarded(w)
             \/ StepFails(w) \/ StepTimeout(w)
      PROVE  WorkerOK(w)'
  BY <1>8, NextOperationOK DEF ExecuteLost, Finish, FinishDiscarded, StepFails, StepTimeout
<1>r. ASSUME ToReconcile(w), plan[w] = NoPlan, pc[w] # "idle" PROVE WorkerOK(w)'
  BY <1>0, <1>r, MovesOK DEF ToReconcile, Goto, WorkersOK
<1>9. ASSUME RecordLoad(w) PROVE WorkerOK(w)'
  <2>1. /\ snap'[w] = Revised(wl.state, wl.gen, got[w]) /\ pc'[w] = "save" /\ pc[w] = "record"
        /\ UNCHANGED <<cur, todo, plan, got, outcome, ops, wl, want, overwritten>>
    BY <1>0, <1>9 DEF RecordLoad, Goto, WorkersOK
  <2>2. got[w] \in Observations
    BY <1>0, <1>i, <2>1 DEF PhaseOK, WorkersOK, Recorded
  <2>3. SnapOK(w)'
    BY <1>0, <1>g, <1>9, <2>1, <2>2 DEF RecordLoad, SnapOK, Revised
  <2>. QED
    BY <1>i, <2>1, <2>3 DEF WorkerOK, PhaseOK, PlanOK, VerdictOK, RowKept, Attempting
<1>10. ASSUME RecordRefused(w) PROVE WorkerOK(w)'
  BY <1>10, <1>r, FinishingOK DEF RecordRefused, Executing, Attempting
<1>11. ASSUME RecordRetry(w) PROVE WorkerOK(w)'
  BY <1>0, <1>i, <1>11
     DEF RecordRetry, Goto, WorkersOK, WorkerOK, PhaseOK, SnapOK, PlanOK, VerdictOK, RowKept,
         Attempting
<1>12. ASSUME RecordSave(w) PROVE WorkerOK(w)'
  <2>1. CASE ~Executing(w)
    BY <1>12, <1>r, <2>1 DEF RecordSave, Executing
  <2>2. CASE Executing(w) /\ ~converged(w)
    BY <1>12, <2>2, NextOperationOK DEF RecordSave
  <2>3. CASE Executing(w) /\ converged(w)
    <3>1. Attempting(w) /\ plan[w].gen \in Gens
      BY <1>i, <1>12, <2>3 DEF RecordSave, Executing, Attempting, PlanOK
    <3>2. ASSUME RowKept' PROVE ops[cur[w]].gen \in satisfied'
      <4>1. RowKept
        BY <3>2, Growth DEF IInv
      <4>2. ops[cur[w]].gen = plan[w].gen /\ plan[w].gen <= wl.gen /\ want[plan[w].gen] = plan[w].state
        BY <1>i, <1>12, <2>3, <4>1 DEF RecordSave, Executing, PlanOK
      <4>3. want'[plan[w].gen] = plan[w].state
        BY <3>1, <3>2, <4>2, Growth DEF IInv
      <4>4. plan[w].state \in DesiredStates
        BY <1>0 DEF WorkersOK, Plans
      <4>. QED
        BY <1>12, <2>3, <3>1, <4>2, <4>3, <4>4
           DEF RecordSave, Replace, Write, converged, DesiredStates
    <3>. QED
      BY <1>12, <2>3, <3>1, <3>2, FinishingOK DEF RecordSave
  <2>. QED
    BY <2>1, <2>2, <2>3
<1>13. ASSUME RecordFails(w) PROVE WorkerOK(w)'
  BY <1>13, <1>r, NextOperationOK DEF RecordFails, Executing
<1>14. ASSUME ObserveAll(w) PROVE WorkerOK(w)'
  BY <1>0, <1>i, <1>14, MovesOK DEF ObserveAll, Goto, WorkersOK, PhaseOK
<1>15. ASSUME Compare(w) PROVE WorkerOK(w)'
  <2>1. plan[w] = NoPlan /\ pc[w] = "compare"
    BY <1>i, <1>15 DEF Compare, PhaseOK
  <2>2. CASE ToReconcile(w)
    BY <1>r, <2>1, <2>2
  <2>3. CASE /\ pc'[w] = "record" /\ got'[w] # NoObs
             /\ UNCHANGED <<cur, todo, plan, snap, outcome, ops, wl>>
    BY <1>i, <2>1, <2>3 DEF WorkerOK, PhaseOK, SnapOK, PlanOK, VerdictOK, Attempting
  <2>. QED
    BY <1>0, <1>15, <2>2, <2>3 DEF Compare, Goto, WorkersOK, Seen, NoObs
<1>16. ASSUME Reconcile(w) PROVE WorkerOK(w)'
  <2>1. plan[w] = NoPlan /\ pc[w] = "reconcile"
    BY <1>i, <1>16 DEF Reconcile, PhaseOK
  <2>2. CASE pc'[w] = "idle" /\ UNCHANGED plan
    BY <1>16, <2>1, <2>2, MovesOK DEF Reconcile
  <2>3. CASE /\ pc'[w] = "check" /\ Action(wl) # "None"
             /\ plan'[w] = [state |-> wl.state, gen |-> wl.gen, action |-> Action(wl)]
    <3>1. plan'[w] # NoPlan /\ plan'[w].gen = wl.gen /\ plan'[w].state = wl.state
      BY <2>3 DEF NoPlan
    <3>. QED
      BY <1>0, <1>i, <1>g, <1>16, <2>1, <2>3, <3>1
         DEF Reconcile, WorkerOK, PhaseOK, SnapOK, PlanOK, VerdictOK, RowKept, Attempting
  <2>. QED
    BY <1>0, <1>16, <2>2, <2>3 DEF Reconcile, Goto, WorkersOK
<1>17. ASSUME ReconcileCheck(w) PROVE WorkerOK(w)'
  <2>1. CASE pc'[w] = "idle" /\ plan'[w] = NoPlan
    BY <1>17, <2>1, MovesOK DEF ReconcileCheck
  <2>2. CASE pc'[w] = "open" /\ UNCHANGED plan
    BY <1>i, <1>17, <2>2
       DEF ReconcileCheck, WorkerOK, PhaseOK, SnapOK, PlanOK, VerdictOK, RowKept, Attempting
  <2>. QED
    BY <1>0, <1>17, <2>1, <2>2 DEF ReconcileCheck, Goto, WorkersOK
<1>18. ASSUME ReconcileOpen(w) PROVE WorkerOK(w)'
  BY <1>0, <1>18, MovesOK DEF ReconcileOpen, Goto, WorkersOK
<1>19. ASSUME TickFails(w) \/ WorkerCrash(w) PROVE WorkerOK(w)'
  BY <1>0, <1>19, MovesOK DEF TickFails, WorkerCrash, Reset, Goto, WorkersOK
<1>. QED
  BY <1>1, <1>2, <1>3, <1>4, <1>5, <1>6, <1>7, <1>8, <1>9, <1>10, <1>11, <1>12, <1>13, <1>14,
     <1>15, <1>16, <1>17, <1>18, <1>19, <1>20
     DEF Ticking, Faulty, Execute, Record, Observe

(* Every worker keeps its invariant, whoever takes the step.               *)
LEMMA WorkersStep ==
    ASSUME IInv, Next, TypeOK', RowStep, OpsStep PROVE WorkerInv'
<1>. USE DEF row, store, backend, worker
<1>. SUFFICES ASSUME NEW v \in Workers PROVE WorkerOK(v)'
  BY DEF WorkerInv
<1>1. ASSUME NEW w \in Workers, Ticking(w) \/ Faulty(w) PROVE WorkerOK(v)'
  <2>1. CASE v = w
    BY <1>1, <2>1, WorkerStep
  <2>2. CASE v # w
    BY <1>1, <2>2, Others, WorkerFrame DEF Elsewhere, IInv, TypeOK
  <2>. QED
    BY <2>1, <2>2
<1>2. CASE UNCHANGED worker
  BY <1>2, WorkerFrame
<1>. QED
  BY <1>1, <1>2
     DEF Next, Handler, Handling, Create, Command, CommandSave, CommandRefused, CommandInsert,
         CallerCrash, CancelRead, Cancel, CancelRetry, LateLands, LateFails, BackendRestart

-----------------------------------------------------------------------------
(* The theorems.                                                           *)

(* The empty store satisfies the invariant.                                *)
LEMMA InitInv == Init => IInv
<1>. SUFFICES ASSUME Init PROVE IInv
  OBVIOUS
<1>1. TypeOK
  <2>1. StoreOK
    <3>1. ops \in Seq(Operations)
      BY EmptySeq DEF Init
    <3>. QED
      BY <3>1, Zeros DEF Init, StoreOK
  <2>2. CallersOK
    BY Zeros DEF Init, CallersOK
  <2>3. WorkersOK
    BY Zeros DEF Init, WorkersOK, Phases
  <2>4. BackendOK
    BY Zeros, BoundsAssumption DEF Init, BackendOK, Backends
  <2>5. RacesOK
    BY DEF Init, RacesOK
  <2>. QED
    BY <2>1, <2>2, <2>3, <2>4, <2>5 DEF TypeOK
<1>2. BackendInv /\ CallInv /\ CancelInv
  BY DEF Init, BackendInv, CallInv, CallOK, NoCall, CancelInv
<1>3. WorkerInv
  BY DEF Init, WorkerInv, WorkerOK, PhaseOK, SnapOK, PlanOK, VerdictOK, Attempting
<1>4. RowInv /\ SuccessWasObserved
  BY DEF Init, RowInv, SuccessWasObserved, NoWorkload
<1>. QED
  BY <1>1, <1>2, <1>3, <1>4 DEF IInv

(* Every step keeps the invariant and has the two shapes.                  *)
LEMMA NextInv == ASSUME IInv, [Next]_vars PROVE IInv' /\ RowStep /\ OpsStep
<1>1. CASE Next
  <2>0. RestOK' /\ RowStep /\ OpsStep
    BY <1>1, TypeStep, RowShape, OpsShape
  <2>1. TypeOK' /\ RowStep /\ OpsStep /\ CancelInv'
    BY <1>1, <2>0, CancelStep DEF RestOK, TypeOK
  <2>2. BackendInv' /\ CallInv' /\ WorkerInv'
    BY <1>1, <2>1, BackendStep, CallStep, WorkersStep
  <2>3. RowInv' /\ SuccessWasObserved'
    BY <2>1, RowInvariance, SuccessInvariance DEF IInv
  <2>. QED
    BY <2>1, <2>2, <2>3 DEF IInv
<1>2. CASE UNCHANGED vars
  <2>. USE <1>2 DEF vars, row, store, backend, worker, IInv
  <2>1. TypeOK'
    BY DEF TypeOK, StoreOK, RacesOK, CallersOK, WorkersOK, BackendOK
  <2>2. BackendInv' /\ CallInv' /\ CancelInv'
    BY DEF BackendInv, CallInv, CallOK, CancelInv, RowKept
  <2>3. WorkerInv'
    BY DEF WorkerInv, WorkerOK, PhaseOK, SnapOK, PlanOK, VerdictOK, RowKept, Attempting
  <2>4. RowInv' /\ SuccessWasObserved'
    BY DEF RowInv, SuccessWasObserved, RowKept, Action
  <2>. QED
    BY <2>1, <2>2, <2>3, <2>4 DEF RowStep, OpsStep, RowKept, OpKept
<1>. QED
  BY <1>1, <1>2

(* The inductive invariant holds of any number of handlers and workers: as *)
(* long as no workload row was written over, a record about to be saved is *)
(* current or its version is used up, an operation is never ahead of the   *)
(* workload row, a planned goal stays its generation's goal.               *)
THEOREM Invariance == Spec => []IInv
  BY InitInv, NextInv, PTL DEF Spec

(* VmmService only ever stores well-formed rows, calls and observations.   *)
THEOREM TypeCorrect == Spec => []TypeOK
<1>1. IInv => TypeOK
  BY DEF IInv
<1>. QED
  BY <1>1, Invariance, PTL

(* converge() never reports a success that the recorded observation did    *)
(* not show, however many workers and newer commands overlap, until the    *)
(* storage writes a workload row over.                                     *)
THEOREM SuccessObserved == Spec => []SuccessWasObserved
<1>1. IInv => SuccessWasObserved
  BY DEF IInv
<1>. QED
  BY <1>1, Invariance, PTL

(* Until the storage writes a workload row over, replace_workload's check  *)
(* of the version keeps every accepted command.                            *)
THEOREM DesiredForward == Spec => DesiredMovesForward
<1>1. ASSUME IInv, [Next]_vars
      PROVE  overwritten'.workload = 0 =>
                /\ wl'.gen >= wl.gen
                /\ wl'.state # wl.state => wl'.gen > wl.gen
                /\ wl.state = "Deleted" => wl'.state = "Deleted"
  <2>1. RowStep /\ wl.gen \in Nat /\ (wl.gen = 0 => wl.state = "Stopped")
    BY <1>1, NextInv DEF IInv, TypeOK, StoreOK, Workloads, RowInv, NoWorkload
  <2>2. CASE Write(wl') /\ Applies
    BY <2>1, <2>2 DEF Applies, Gens, desired_transition
  <2>3. CASE UNCHANGED wl \/ Observes
    BY <2>1, <2>3 DEF Observes
  <2>. QED
    BY <2>1, <2>2, <2>3 DEF RowStep, RowKept
<1>. QED
  BY <1>1, Invariance, PTL DEF Spec, DesiredMovesForward

(* record_observation() never replaces an observation by an older one,     *)
(* until the storage writes a workload row over.                           *)
THEOREM ObservationsForward == Spec => ObservationsMoveForward
<1>1. ASSUME IInv, [Next]_vars
      PROVE  overwritten'.workload = 0 =>
                (wl'.obs # wl.obs => Newer(wl'.obs, wl.obs) /\ wl'.obs.gen <= wl'.gen)
  <2>1. RowStep /\ wl.gen \in Nat /\ wl.obs \in Recorded
    BY <1>1, NextInv DEF IInv, TypeOK, StoreOK, Workloads
  <2>. QED
    BY <2>1
       DEF RowStep, RowKept, Applies, Observes, accept_observation, Newer, Recorded,
           Observations, NoObs
<1>. QED
  BY <1>1, Invariance, PTL DEF Spec, ObservationsMoveForward

(* replace_operation() never changes a verdict, until the storage writes   *)
(* an operation row over.                                                  *)
THEOREM VerdictsFinal == Spec => VerdictsAreFinal
<1>1. ASSUME IInv, [Next]_vars
      PROVE  overwritten'.operation = 0 =>
                \A id \in DOMAIN ops : Finished(ops[id].state) => ops'[id] = ops[id]
  <2>1. OpsStep /\ StoreOK
    BY <1>1, NextInv DEF IInv, TypeOK
  <2>2. ASSUME NEW i \in DOMAIN ops, NEW s \in OperationStates, SetState(i, s), ~Finished(ops[i].state)
        PROVE  \A id \in DOMAIN ops : Finished(ops[id].state) => ops'[id] = ops[id]
    BY <2>1, <2>2, SetStateType
  <2>. QED
    BY <2>1, <2>2, AppendType DEF OpsStep, OpKept
<1>. QED
  BY <1>1, Invariance, PTL DEF Spec, VerdictsAreFinal
====
