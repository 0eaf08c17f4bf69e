---------------------------- MODULE FederatedCall ---------------------------
(***************************************************************************)
(* What federation promises the caller of a cross-node action: the action  *)
(* takes effect at most once however often its caller repeats it, unless   *)
(* the destination could not learn whether a transaction committed; an     *)
(* answer is the answer of an effect, and a call that fails says nothing   *)
(* about whether the effect happened.                                      *)
(***************************************************************************)
EXTENDS Naturals

CONSTANTS
    Callers,    \* the threads of the source node that make calls
    Requests,   \* stable request ids, one per (subject, action, target, key)
    None        \* no request

VARIABLES
    asked,      \* the requests somebody has sent
    effects,    \* how often each request took effect
    doubtful,   \* requests with an effect the destination does not know of
    call        \* per caller: the request it waits for, and how it ended

vars == <<asked, effects, doubtful, call>>

Init ==
    /\ asked = {}
    /\ effects = [r \in Requests |-> 0]
    /\ doubtful = {}
    /\ call = [c \in Callers |-> [on |-> None, state |-> "idle"]]

(* A caller asks for r, ...                                                *)
Ask(c, r) ==
    /\ call[c].state # "pending"
    /\ asked' = asked \cup {r}
    /\ call' = [call EXCEPT ![c] = [on |-> r, state |-> "pending"]]
    /\ UNCHANGED <<effects, doubtful>>

(* ... or is turned away before anything is sent.                          *)
Refuse(c, r) ==
    /\ call[c].state # "pending"
    /\ call' = [call EXCEPT ![c] = [on |-> r, state |-> "failed"]]
    /\ UNCHANGED <<asked, effects, doubtful>>

(* The destination carries r out, only if it was asked to, and again only  *)
(* if it does not know of an earlier effect.  The caller may have given up *)
(* by then.                                                                *)
TakeEffect(r) ==
    /\ r \in asked
    /\ effects[r] = 0 \/ r \in doubtful
    /\ effects' = [effects EXCEPT ![r] = @ + 1]
    /\ doubtful' \in {doubtful, doubtful \cup {r}}
    /\ UNCHANGED <<asked, call>>

(* The caller gets the answer: the effect has happened.                    *)
Answer(c) ==
    /\ call[c].state = "pending"
    /\ effects[call[c].on] # 0
    /\ call' = [call EXCEPT ![c].state = "answered"]
    /\ UNCHANGED <<asked, effects, doubtful>>

(* Callers are told nothing: refused, unavailable, or the node died.       *)
Fail(C) ==
    /\ \A c \in C : call[c].state = "pending"
    /\ call' = [c \in Callers |->
                   IF c \in C THEN [call[c] EXCEPT !.state = "failed"] ELSE call[c]]
    /\ UNCHANGED <<asked, effects, doubtful>>

Next ==
    \/ \E c \in Callers, r \in Requests : Ask(c, r) \/ Refuse(c, r)
    \/ \E r \in Requests : TakeEffect(r)
    \/ \E c \in Callers : Answer(c)
    \/ \E C \in SUBSET Callers : Fail(C)

Spec == Init /\ [][Next]_vars
=============================================================================
