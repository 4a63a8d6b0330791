------------------------ MODULE MCNotificationOutbox ------------------------
(* Instances of NotificationOutbox for TLC.  A run has several groups of     *)
(* notifications; in each behaviour only one of them is ever touched.        *)
EXTENDS NotificationOutbox

CONSTANTS
    rm, rp,         \* a router reply and its file part
    tm, tp, tq,     \* a topic reply in a direct chat and its two file parts
    qm, cm,         \* a question and a routing clarification, two messages
    fm, fp          \* a platform reply and its file part

Groups == {{rm, rp}, {tm, tp, tq}, {qm}, {cm}, {fm, fp}}

MCKind ==
    [n \in Notes |->
        CASE n \in {rm, rp}     -> "router-reply"
          [] n \in {tm, tp, tq} -> "topic-reply"
          [] n = qm             -> "question"
          [] n = cm             -> "routing-clarification"
          [] OTHER              -> "fixed-topic-reply"]

\* file parts are sent after their message and after each other
MCAfter ==
    [n \in Notes |->
        CASE n = rp -> rm [] n = tp -> tm [] n = tq -> tp [] n = fp -> fm [] OTHER -> None]
MCDelivery ==
    [n \in Notes |-> CASE n = rp -> rm [] n \in {tp, tq} -> tm [] n = fp -> fm [] OTHER -> n]

\* a message that quotes what it answers may be refused for the quote, a file part not
MCRefusals ==
    [n \in Notes |->
        CASE n \in {rm, cm} -> {"marked", "unmarked", "invalid"}
          [] n = tm         -> {"unmarked"}
          [] n \in {tp, tq} -> {}
          [] OTHER          -> {"invalid"}]
MarkedRefusals == [n \in Notes |-> {"marked", "invalid"}]

Touched == {n \in Notes : row[n].state # "absent" \/ source[n] # "current" \/ intent[n] # "valid"}

\* only the group of the platform reply lives through crashes
OneGroup == \E G \in Groups : Touched \subseteq G /\ (crashes > 0 => G = {fm, fp})

OneGroupSpec == Init /\ [][Next /\ OneGroup']_vars

(* A crash with a quote refusal on record lets the outbox post twice (run    *)
(* outbox_resend), so the fair run has the two apart.  A lost answer remains *)
(* possible wherever a refusal is not.                                       *)
FaultsApart == crashes > 0 => \A n \in Notes : ~QuoteProof(n)

FaultsApartSpec == Init /\ [][Next /\ FaultsApart']_vars /\ OutboxFairness
=============================================================================
