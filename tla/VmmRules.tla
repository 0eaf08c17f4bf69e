------------------------------ MODULE VmmRules ------------------------------
(***************************************************************************)
(* The pure lifecycle rules of aseman-domain/src/vmm.rs: generations,      *)
(* observation order, reconciliation and the operation state machine.      *)
(* A generation is a positive number; the zero record NoObs stands for a   *)
(* missing observation.                                                    *)
(***************************************************************************)
EXTENDS Integers

DesiredStates == {"Stopped", "Running", "Paused", "Deleted"}
ObservedStates == {"Unknown", "Pending", "Running", "Paused", "Stopped", "Failed", "Lost"}
OperationStates == {"Pending", "Running", "Succeeded", "Failed", "Cancelled"}

NoObs == [state |-> "None", gen |-> 0, seq |-> 0]
Observations == [state : ObservedStates, gen : Nat \ {0}, seq : Nat \ {0}]

(* desired_transition(): deleted is terminal, paused is reached only from  *)
(* running.                                                                *)
desired_transition(from, to) ==
    /\ from # "Deleted"
    /\ from = to \/ to \in {"Stopped", "Deleted"} \/ <<from, to>> \in
         {<<"Running", "Paused">>, <<"Paused", "Running">>, <<"Stopped", "Running">>}

command_freshness(current, incoming) ==
    IF incoming < current THEN "Stale" ELSE IF incoming = current THEN "Replay" ELSE "Apply"

(* Observations are ordered by generation, then by provider sequence.      *)
Newer(a, b) == a.gen > b.gen \/ (a.gen = b.gen /\ a.seq > b.seq)

(* Mutant: the sequence is not compared, only the generation.              *)
Mutant_accept_observation(desiredGen, recorded, incoming) ==
    incoming.gen <= desiredGen /\ (recorded = NoObs \/ incoming.gen >= recorded.gen)

accept_observation(desiredGen, recorded, incoming) ==
    incoming.gen <= desiredGen /\ (recorded = NoObs \/ Newer(incoming, recorded))

(* reconcile(): the one step that moves observed toward desired.           *)
reconcile(desired, gen, observed) ==
    LET seen == observed.state
        current == observed # NoObs /\ observed.gen = gen
    IN CASE desired = "Deleted" ->
              IF observed = NoObs \/ (current /\ seen \in {"Stopped", "Lost", "Failed"})
              THEN "None" ELSE "Delete"
         [] desired = "Running" ->
              IF current /\ seen \in {"Running", "Pending"} THEN "None"
              ELSE IF seen = "Paused" THEN "Resume"
              ELSE IF seen \in {"Failed", "Lost"} THEN "Restart" ELSE "Start"
         [] desired = "Paused" ->
              IF current /\ seen = "Paused" THEN "None"
              ELSE IF seen = "Running" THEN "Pause" ELSE "Start"
         [] OTHER ->
              IF observed = NoObs \/ seen \in {"Stopped", "Failed", "Lost"} THEN "None" ELSE "Stop"

Finished(state) == state \in {"Succeeded", "Failed", "Cancelled"}

operation_transition(from, to) ==
    \/ from = "Pending" /\ to \in {"Running", "Cancelled", "Failed"}
    \/ from = "Running" /\ to \in {"Succeeded", "Failed", "Cancelled"}
=============================================================================
