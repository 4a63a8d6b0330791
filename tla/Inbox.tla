------------------------------- MODULE Inbox -------------------------------
(***************************************************************************)
(* An inbox that is emptied in batches.  What is offered once is consumed  *)
(* by exactly one batch, or dropped from one; a batch that is not consumed *)
(* loses nothing else.                                                     *)
(***************************************************************************)
CONSTANT Items

VARIABLE place      \* where each item is

Places == {"out", "queued", "claimed", "consumed", "dropped"}

At(p) == {i \in Items : place[i] = p}

Init == place = [i \in Items |-> "out"]

\* an item comes in, for the first and only time
Offer(i) ==
    /\ place[i] = "out"
    /\ place' = [place EXCEPT ![i] = "queued"]

\* all that waits becomes the batch, if there is none
Claim ==
    /\ At("claimed") = {} /\ At("queued") # {}
    /\ place' = [i \in Items |-> IF place[i] = "queued" THEN "claimed" ELSE place[i]]

\* the whole batch is consumed
Consume ==
    /\ At("claimed") # {}
    /\ place' = [i \in Items |-> IF place[i] = "claimed" THEN "consumed" ELSE place[i]]

\* part of the batch is dropped, the rest waits again
Drop ==
    \E S \in SUBSET At("claimed") :
        /\ S # {}
        /\ place' = [i \in Items |-> IF i \in S THEN "dropped"
                                     ELSE IF place[i] = "claimed" THEN "queued" ELSE place[i]]

Next == (\E i \in Items : Offer(i)) \/ Claim \/ Consume \/ Drop

Spec == Init /\ [][Next]_place
=============================================================================
