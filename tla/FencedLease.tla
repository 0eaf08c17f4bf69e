----------------------------- MODULE FencedLease -----------------------------
(***************************************************************************)
(* What a fenced lease promises: there is one term at a time.  A term has  *)
(* an owner and a time by which it ends, never further away than Ttl; the  *)
(* next one begins when that time has come, or is the same owner's.  A     *)
(* destination takes effects in the order of the terms they belong to,     *)
(* every effect of a term from the term's owner.                           *)
(***************************************************************************)
EXTENDS Naturals

CONSTANTS
    Replicas,   \* who may own a term
    None,       \* nobody
    Ttl,        \* the longest a term lasts without being extended
    MaxToken    \* the number of terms there can be

VARIABLES
    clock,      \* the time by which terms begin and end
    term,       \* the number of the present term, 0 before the first
    owner,      \* the owner of every term up to the present one
    until,      \* when the present term ends
    fence       \* the last effect's term and who had it

vars == <<clock, term, owner, until, fence>>

Init ==
    /\ clock = 0
    /\ term = 0
    /\ owner = [t \in 1..MaxToken |-> None]
    /\ until = 0
    /\ fence = [token |-> 0, by |-> None]

Tick ==
    /\ clock' = clock + 1
    /\ UNCHANGED <<term, owner, until, fence>>

\* A new term begins.
Begin(r) ==
    /\ term < MaxToken
    /\ term = 0 \/ until <= clock \/ owner[term] = r
    /\ term' = term + 1
    /\ owner' = [owner EXCEPT ![term'] = r]
    /\ until' <= clock + Ttl
    /\ UNCHANGED <<clock, fence>>

\* The present term is made longer, even one that has run out.
Extend ==
    /\ term # 0
    /\ until <= until' /\ until' <= clock + Ttl
    /\ UNCHANGED <<clock, term, owner, fence>>

\* The present term ends.
End ==
    /\ term # 0
    /\ until' <= clock
    /\ UNCHANGED <<clock, term, owner, fence>>

\* An effect of a term that no effect of a later one has overtaken.
Effect(t) ==
    /\ fence.token <= t
    /\ fence' = [token |-> t, by |-> owner[t]]
    /\ UNCHANGED <<clock, term, owner, until>>

Next ==
    \/ Tick \/ Extend \/ End
    \/ \E r \in Replicas : Begin(r)
    \/ \E t \in 1..term : Effect(t)

Spec == Init /\ [][Next]_vars
=============================================================================
