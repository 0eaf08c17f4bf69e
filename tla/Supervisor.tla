------------------------------ MODULE Supervisor ------------------------------
(***************************************************************************)
(* The module supervisor (crates/aseman-module-runtime/src/lib.rs): it     *)
(* takes modules through their lifecycle, starts and stops their processes *)
(* and keeps, for every kind of module, which one new work is routed to    *)
(* and which one a rollback returns to.  The administration service calls  *)
(* it under one lock (apps/aseman-node/src/transports/admin.rs), so every  *)
(* operation is one step; what a process answers is not under its control: *)
(* it may fail to start, refuse or lose an answer, and die at any time.    *)
(***************************************************************************)
EXTENDS Naturals

CONSTANTS
    Modules,         \* keys of modules
    Kinds,           \* module kinds
    Kind,            \* the kind in each module's manifest
    Configurations,  \* configurations an operator may set
    Default,         \* the configuration of a new module, "{}"
    NoModule,        \* no module
    MaxGeneration    \* bound on the routing generation

ASSUME SupervisorAssumption ==
    /\ Kind \in [Modules -> Kinds]
    /\ NoModule \notin Modules
    /\ MaxGeneration \in Nat

VARIABLES
    state,          \* ModuleRecord::state, "absent" before install
    conformant,     \* modules with a conformance report
    configuration,  \* ModuleRecord::configuration
    process,        \* ModuleRecord::process and what has become of it
    runs,           \* the configuration the process was launched with
    active,         \* RoutingGeneration::active
    previous,       \* RoutingGeneration::previous
    generation      \* RoutingGeneration::generation

records == <<state, conformant, configuration, process, runs>>
routing == <<active, previous, generation>>
supervisorVars == <<state, conformant, configuration, process, runs, active, previous, generation>>

\* ModuleLifecycleState between operations: staged is left before stage returns.
States == {"absent", "installed", "validated", "ready", "active", "draining",
           "stopped", "failed"}

\* A process accepts new work, has been told not to, or has died.
Processes == {"none", "serving", "drained", "dead"}

SupervisorInit ==
    /\ state = [m \in Modules |-> "absent"]
    /\ conformant = {}
    /\ configuration = [m \in Modules |-> Default]
    /\ process = [m \in Modules |-> "none"]
    /\ runs = [m \in Modules |-> Default]
    /\ active = [k \in Kinds |-> NoModule]
    /\ previous = [k \in Kinds |-> NoModule]
    /\ generation = 0

-----------------------------------------------------------------------------
(* Preparing a module *)

\* register_verified: a key that is installed already is left alone.
Install(m) ==
    /\ state[m] = "absent"
    /\ state' = [state EXCEPT ![m] = "installed"]
    /\ UNCHANGED <<conformant, configuration, process, runs, routing>>

\* validate, when the suite reports; an error of the suite changes nothing.
Validate(m) ==
    /\ state[m] \in {"installed", "validated"}
    /\ conformant' = conformant \cup {m}
    /\ state' = [state EXCEPT ![m] = "validated"]
    /\ UNCHANGED <<configuration, process, runs, routing>>

\* configure that forgets that a draining process still runs.
Mutant_Configure(m, c) ==
    /\ state[m] \notin {"absent", "ready", "active"}
    /\ configuration' = [configuration EXCEPT ![m] = c]
    /\ UNCHANGED <<state, conformant, process, runs, routing>>

\* configure
Configure(m, c) ==
    /\ state[m] \notin {"absent", "ready", "active", "draining"}
    /\ configuration' = [configuration EXCEPT ![m] = c]
    /\ UNCHANGED <<state, conformant, process, runs, routing>>

\* The guard of stage, for a stopped module without the conformance report.
Mutant_MayStage(m) ==
    \/ state[m] = "validated" /\ m \in conformant
    \/ state[m] = "stopped"

\* The guard of stage.  A launch that is refused, by the launcher or for its
\* permissions, changes nothing.
MayStage(m) == state[m] \in {"validated", "stopped"} /\ m \in conformant

\* stage, when the process starts and is ready.
Stage(m) ==
    /\ MayStage(m)
    /\ state' = [state EXCEPT ![m] = "ready"]
    /\ process' = [process EXCEPT ![m] = "serving"]
    /\ runs' = [runs EXCEPT ![m] = configuration[m]]
    /\ UNCHANGED <<conformant, configuration, routing>>

\* stage, when it does not start or is not ready: it is stopped and dropped.
StageFails(m) ==
    /\ MayStage(m)
    /\ state' = [state EXCEPT ![m] = "failed"]
    /\ UNCHANGED <<conformant, configuration, process, runs, routing>>

-----------------------------------------------------------------------------
(* Routing *)

\* activate: the module replaced becomes the one to return to.
Activate(m) ==
    LET k == Kind[m]
        old == active[k]
    IN  /\ state[m] = "ready"
        /\ generation < MaxGeneration
        /\ active' = [active EXCEPT ![k] = m]
        /\ previous' = [previous EXCEPT ![k] = IF old = m THEN NoModule ELSE old]
        /\ state' = [n \in Modules |-> IF n = m THEN "active"
                                       ELSE IF n = old THEN "draining" ELSE state[n]]
        /\ generation' = generation + 1
        /\ UNCHANGED <<conformant, configuration, process, runs>>

\* The guard of drain.
MayDrain(m) == state[m] \in {"active", "draining"} /\ process[m] # "none"

\* drain, when the process acknowledges.
Drain(m) ==
    /\ MayDrain(m)
    /\ process[m] # "dead"
    /\ process' = [process EXCEPT ![m] = "drained"]
    /\ state' = [state EXCEPT ![m] = "draining"]
    /\ UNCHANGED <<conformant, configuration, runs, routing>>

\* drain, when the call fails: the process may have drained all the same.
DrainFails(m) ==
    /\ MayDrain(m)
    /\ process[m] # "dead"
    /\ process' = [process EXCEPT ![m] = "drained"]
    /\ UNCHANGED <<state, conformant, configuration, runs, routing>>

\* stop, when the process stops or there is none.
Stop(m) ==
    /\ state[m] \notin {"absent", "active"}
    /\ process' = [process EXCEPT ![m] = "none"]
    /\ state' = [state EXCEPT ![m] = "stopped"]
    /\ UNCHANGED <<conformant, configuration, runs, routing>>

\* stop, when the call fails: the process is dropped and so killed, the state kept.
StopFails(m) ==
    /\ state[m] \notin {"absent", "active"}
    /\ process[m] # "none"
    /\ process' = [process EXCEPT ![m] = "none"]
    /\ UNCHANGED <<state, conformant, configuration, runs, routing>>

\* rollback that does not wait for restore.
Mutant_Rollback(k) ==
    LET back == previous[k]
        current == active[k]
    IN  /\ back # NoModule
        /\ current # NoModule
        /\ process[back] # "none"
        /\ generation < MaxGeneration
        /\ active' = [active EXCEPT ![k] = back]
        /\ previous' = [previous EXCEPT ![k] = current]
        /\ state' = [state EXCEPT ![current] = "draining", ![back] = "active"]
        /\ generation' = generation + 1
        /\ UNCHANGED <<conformant, configuration, process, runs>>

\* rollback, when the previous process acknowledges restore.
Rollback(k) ==
    LET back == previous[k]
        current == active[k]
    IN  /\ back # NoModule
        /\ current # NoModule
        /\ process[back] \in {"serving", "drained"}
        /\ generation < MaxGeneration
        /\ process' = [process EXCEPT ![back] = "serving"]
        /\ active' = [active EXCEPT ![k] = back]
        /\ previous' = [previous EXCEPT ![k] = current]
        /\ state' = [state EXCEPT ![current] = "draining", ![back] = "active"]
        /\ generation' = generation + 1
        /\ UNCHANGED <<conformant, configuration, runs>>

\* rollback, when restore fails: the process may accept work again all the same.
RollbackFails(k) ==
    LET back == previous[k]
    IN  /\ back # NoModule
        /\ active[k] # NoModule
        /\ process[back] \in {"serving", "drained"}
        /\ process' = [process EXCEPT ![back] = "serving"]
        /\ UNCHANGED <<state, conformant, configuration, runs, routing>>

\* The module's process ends by itself.
ProcessDies(m) ==
    /\ process[m] \in {"serving", "drained"}
    /\ process' = [process EXCEPT ![m] = "dead"]
    /\ UNCHANGED <<state, conformant, configuration, runs, routing>>

-----------------------------------------------------------------------------
SupervisorNext ==
    \/ \E m \in Modules :
          \/ Install(m) \/ Validate(m) \/ Stage(m) \/ StageFails(m) \/ Activate(m)
          \/ Drain(m) \/ DrainFails(m) \/ Stop(m) \/ StopFails(m) \/ ProcessDies(m)
    \/ \E m \in Modules, c \in Configurations : Configure(m, c)
    \/ \E k \in Kinds : Rollback(k) \/ RollbackFails(k)

SupervisorSpec == SupervisorInit /\ [][SupervisorNext]_supervisorVars

-----------------------------------------------------------------------------
(* Properties *)

\* Types of the supervisor's records and of its routing; no module is left
\* staged by an operation that failed (stage).
SupervisorTypeOK ==
    /\ state \in [Modules -> States]
    /\ conformant \in SUBSET Modules
    /\ configuration \in [Modules -> Configurations \cup {Default}]
    /\ process \in [Modules -> Processes]
    /\ runs \in [Modules -> Configurations \cup {Default}]
    /\ active \in [Kinds -> Modules \cup {NoModule}]
    /\ previous \in [Kinds -> Modules \cup {NoModule}]
    /\ generation \in 0..MaxGeneration

\* A module in the active state (activate, rollback) is the one its kind's work
\* goes to: however activations, drains, stops and rollbacks follow each other,
\* no kind ever has two active modules.
ActiveIsRouted == \A m \in Modules : state[m] = "active" => active[Kind[m]] = m

\* A module a kind routes to, or would roll back to, is of that kind, passed
\* conformance (validate) and is not the other one; there is no way back from
\* a kind that routes nowhere.
RoutingIsSound ==
    \A k \in Kinds :
        /\ \A m \in {active[k], previous[k]} \ {NoModule} : m \in conformant /\ Kind[m] = k
        /\ previous[k] # NoModule => active[k] # NoModule /\ previous[k] # active[k]

\* A process runs with the configuration on record: configure refuses in every
\* state a process may be in, however stage, stop and their failures got there.
ProcessRunsItsConfiguration ==
    \A m \in Modules : process[m] # "none" => runs[m] = configuration[m]

\* A module that gets a kind's work (activate, rollback) is not one that was told
\* to take no more of it: a drained process comes back only through restore.
NeverRoutesToDrained ==
    [][\A m \in Modules : state[m] # "active" /\ state'[m] = "active"
                              => process'[m] # "drained"]_supervisorVars
=============================================================================
