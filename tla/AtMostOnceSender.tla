-------------------------- MODULE AtMostOnceSender --------------------------
(* What the notification outbox promises its callers, whatever the          *)
(* transport and the process do: a notification that was accepted is put    *)
(* into its conversation at most once, never before the one it follows is   *)
(* known to be there, never after it was withdrawn, and it is reported      *)
(* delivered only if it is there.                                           *)
EXTENDS Naturals

CONSTANTS
    Notes,      \* notifications
    None,       \* "follows nothing"
    After       \* the notification each one follows

VARIABLES
    fate,       \* absent, open, delivered or withdrawn
    copies      \* copies of it in the conversation

Init ==
    /\ fate = [n \in Notes |-> "absent"]
    /\ copies = [n \in Notes |-> 0]

Accept(S) ==
    /\ \A n \in S : fate[n] = "absent"
    /\ fate' = [n \in Notes |-> IF n \in S THEN "open" ELSE fate[n]]
    /\ UNCHANGED copies

Appear(n) ==
    /\ fate[n] = "open"
    /\ copies[n] = 0
    /\ After[n] # None => fate[After[n]] = "delivered"
    /\ copies' = [copies EXCEPT ![n] = 1]
    /\ UNCHANGED fate

Confirm(n) ==
    /\ fate[n] = "open"
    /\ copies[n] = 1
    /\ fate' = [fate EXCEPT ![n] = "delivered"]
    /\ UNCHANGED copies

Withdraw(S) ==
    /\ \A n \in S : fate[n] = "open" /\ copies[n] = 0
    /\ fate' = [n \in Notes |-> IF n \in S THEN "withdrawn" ELSE fate[n]]
    /\ UNCHANGED copies

Next ==
    \/ \E S \in SUBSET Notes : Accept(S) \/ Withdraw(S)
    \/ \E n \in Notes : Appear(n) \/ Confirm(n)

Spec == Init /\ [][Next]_<<fate, copies>>
=============================================================================
