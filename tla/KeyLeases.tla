------------------------------ MODULE KeyLeases ------------------------------
(***************************************************************************)
(* What the resource locks promise to whoever shares the resources.  A     *)
(* session holds all the keys it asked for, or none.  An effect runs once, *)
(* under the keys of its session or under keys it takes for itself, and    *)
(* none of them is given up while it may still act.                        *)
(***************************************************************************)
EXTENDS FiniteSets

CONSTANTS
    Keys,           \* what has to be used exclusively
    Sessions,       \* what may hold keys for a while
    Effects,        \* what acts on the world, and may hold keys itself
    SessionOf,      \* the session of each effect
    Nobody

VARIABLES
    holder,     \* who holds each key
    phase,      \* of each effect: idle, running, or over
    needs       \* the keys a running effect relies on

vars == <<holder, phase, needs>>

Held(h) == {k \in Keys : holder[k] = h}
Needed == UNION {needs[o] : o \in Effects}
Idle == {o \in Effects : phase[o] = "idle"}

\* The table may be opened over leases it already has: the keys a running effect relies
\* on are its session's or its own.
Init ==
    /\ holder \in [Keys -> Sessions \cup Effects \cup {Nobody}]
    /\ phase \in [Effects -> {"idle", "running", "over"}]
    /\ needs \in [Effects -> SUBSET Keys]
    /\ \A o \in Effects :
         IF phase[o] = "running" THEN needs[o] \in {Held(SessionOf[o]), Held(o)} ELSE needs[o] = {}

\* h holds ks from now on; it holds nothing else and waits for nothing more
Take(h, ks) ==
    /\ Held(h) \in {{}, ks}
    /\ \A k \in ks : holder[k] \in {h, Nobody}
    /\ holder' = [k \in Keys |-> IF k \in ks THEN h ELSE holder[k]]

Lease(s, ks) == Take(s, ks) /\ UNCHANGED <<phase, needs>>

Begin(o, ks) ==
    /\ phase[o] = "idle"
    /\ phase' = [phase EXCEPT ![o] = "running"]
    /\ needs' = [needs EXCEPT ![o] = ks]

BeginUnderLease(o) == Begin(o, Held(SessionOf[o])) /\ UNCHANGED holder

BeginAlone(o, ks) == Take(o, ks) /\ Begin(o, ks)

End(o) ==
    /\ phase[o] = "running"
    /\ phase' = [phase EXCEPT ![o] = "over"]
    /\ needs' = [needs EXCEPT ![o] = {}]
    /\ UNCHANGED holder

\* whoever has keys and nothing that still needs them
Free == {h \in Sessions \cup Effects : Held(h) # {} /\ Held(h) \cap Needed = {}}

\* holders give up all they hold, and effects that never began are withdrawn
Retire(H, S) ==
    /\ UNCHANGED needs
    /\ holder' = [k \in Keys |-> IF holder[k] \in H THEN Nobody ELSE holder[k]]
    /\ phase' = [o \in Effects |-> IF o \in S THEN "over" ELSE phase[o]]

Next ==
    \/ \E H \in SUBSET Free, S \in SUBSET Idle : Retire(H, S)
    \/ \E o \in Effects : BeginUnderLease(o) \/ End(o)
    \/ \E o \in Effects, ks \in SUBSET Keys : BeginAlone(o, ks)
    \/ \E s \in Sessions, ks \in SUBSET Keys : Lease(s, ks)

Spec == Init /\ [][Next]_vars
=============================================================================
