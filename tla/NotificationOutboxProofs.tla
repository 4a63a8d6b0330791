----------------------- MODULE NotificationOutboxProofs -----------------------
(* Proofs about NotificationOutbox, for any notifications, deliveries, kinds   *)
(* and bounds.  Whether a message may be sent twice depends on a condition the *)
(* code does not establish: see Undisturbed.                                   *)
EXTENDS NotificationOutbox, FiniteSetTheorems, TLAPS

-----------------------------------------------------------------------------
(* Type correctness                                                            *)

\* what the commands write into a row
LEMMA RowWrites ==
    ASSUME NEW r \in NoteRow
    PROVE  /\ [r EXCEPT !.error = "closed"] \in NoteRow
           /\ [r EXCEPT !.state = "failed", !.error = "closed"] \in NoteRow
           /\ [r EXCEPT !.state = "failed", !.error = "rejected"] \in NoteRow
           /\ [r EXCEPT !.state = "prepared"] \in NoteRow
           /\ [r EXCEPT !.acked = TRUE] \in NoteRow
           /\ [r EXCEPT !.state = "delivered", !.acked = TRUE] \in NoteRow
           /\ [r EXCEPT !.state = "delivered"] \in NoteRow
           /\ [r EXCEPT !.state = "unknown"] \in NoteRow
           /\ \A e \in {"other", "unmarked", "invalid"} :
                 [r EXCEPT !.state = "unknown", !.error = e] \in NoteRow
           /\ \A k \in 0 .. MaxAttempts :
                 [r EXCEPT !.state = "starting", !.attempts = k] \in NoteRow
BY DEF NoteRow

LEMMA RowFields ==
    ASSUME NEW r \in NoteRow
    PROVE  r.attempts \in 0 .. MaxAttempts /\ r.acked \in BOOLEAN
BY DEF NoteRow

LEMMA MarkAllType ==
    ASSUME TypeOK, NEW S, NEW s \in {"prepared", "unknown", "failed", "superseded"}, MarkAll(S, s)
    PROVE  row' \in [Notes -> NoteRow]
<1>1. ASSUME NEW n \in Notes PROVE [row[n] EXCEPT !.state = s] \in NoteRow
  BY ZenonT(30) DEF TypeOK, NoteRow
<1> QED
  BY <1>1 DEF MarkAll, TypeOK

LEMMA FlightType ==
    ASSUME TypeOK, NEW n \in Notes
    PROVE  /\ [flight EXCEPT ![n] = Idle] \in [Notes -> FlightRow]
           /\ \A w \in {"scan-send", "scan-read", "manual-send", "manual-read"} :
                 [flight EXCEPT ![n] = [phase |-> "enter", by |-> w]] \in [Notes -> FlightRow]
           /\ \A p \in {"sending", "confirming"} :
                 [flight EXCEPT ![n] = [phase |-> p, by |-> flight[n].by]] \in [Notes -> FlightRow]
BY DEF TypeOK, FlightRow, Idle

LEMMA TypeInit == Init => TypeOK
BY OutboxAssumption DEF Init, TypeOK, NoteRow, FlightRow, Idle

LEMMA TypeStep == TypeOK /\ [Next]_vars => TypeOK'
<1> SUFFICES ASSUME TypeOK, [Next]_vars PROVE TypeOK'
  OBVIOUS
<1> USE OutboxAssumption
<1>0. CASE UNCHANGED vars
  BY <1>0 DEF vars, TypeOK
<1>1. ASSUME NEW n \in Notes, Prepare(n) PROVE TypeOK'
  <2>1. row' \in [Notes -> NoteRow]
    BY <1>1, MarkAllType DEF Prepare, TypeOK
  <2> QED
    BY <1>1, <2>1 DEF Prepare, TypeOK
<1>2. ASSUME NEW n \in Notes, RouterRetire(n) PROVE TypeOK'
  <2>1. row' \in [Notes -> NoteRow]
    BY <1>2, MarkAllType DEF RouterRetire, TypeOK
  <2> QED
    BY <1>2, <2>1 DEF RouterRetire, TypeOK
<1>3. ASSUME NEW n \in Notes, RetireUnsent(n) PROVE TypeOK'
  <2>1. [row[n] EXCEPT !.error = "closed"] \in NoteRow
    BY RowWrites DEF TypeOK
  <2>2. row' \in [Notes -> NoteRow]
    BY <1>3, <2>1 DEF RetireUnsent, Put, TypeOK
  <2> QED
    BY <1>3, <2>2 DEF RetireUnsent, TypeOK
<1>4. ASSUME NEW n \in Notes, ScanSend(n) PROVE TypeOK'
  BY <1>4, FlightType, RowFields DEF ScanSend, Enter, TypeOK
<1>5. ASSUME NEW n \in Notes, ScanRead(n) PROVE TypeOK'
  BY <1>5, FlightType, RowFields DEF ScanRead, Enter, TypeOK
<1>6. ASSUME NEW n \in Notes, ManualRetry(n) PROVE TypeOK'
  <2>1. ASSUME NEW w \in {"manual-send", "manual-read"}, Enter(n, w) PROVE TypeOK'
    BY <2>1, FlightType DEF Enter, TypeOK
  <2> QED
    BY <1>6, <2>1 DEF ManualRetry
<1>7. ASSUME NEW n \in Notes, SettleInvalid(n) PROVE TypeOK'
  <2>1. [row[n] EXCEPT !.state = "failed", !.error = "closed"] \in NoteRow
    BY RowWrites DEF TypeOK
  <2>2. row' \in [Notes -> NoteRow]
    BY <1>7, <2>1 DEF SettleInvalid, Put, TypeOK
  <2> QED
    BY <1>7, <2>2, FlightType DEF SettleInvalid, Leave, TypeOK
<1>8. ASSUME NEW n \in Notes, RejectBeforeSend(n) PROVE TypeOK'
  <2>1. [row[n] EXCEPT !.state = "failed", !.error = "rejected"] \in NoteRow
    BY RowWrites DEF TypeOK
  <2>2. row' \in [Notes -> NoteRow]
    BY <1>8, <2>1 DEF RejectBeforeSend, Put, TypeOK
  <2> QED
    BY <1>8, <2>2, FlightType DEF RejectBeforeSend, Leave, TypeOK
<1>9. ASSUME NEW n \in Notes, Retry(n) PROVE TypeOK'
  <2>1. [row[n] EXCEPT !.state = "prepared"] \in NoteRow
    BY RowWrites DEF TypeOK
  <2>2. row' \in [Notes -> NoteRow]
    BY <1>9, <2>1 DEF Retry, Put, TypeOK
  <2> QED
    <3>1. flight' \in [Notes -> FlightRow]
      <4>1. flight' = flight \/ Leave(n)
        BY <1>9 DEF Retry
      <4> QED
        <5>1. CASE flight' = flight
          BY <5>1 DEF TypeOK
        <5>2. CASE Leave(n)
          BY <5>2, FlightType DEF Leave
        <5> QED  BY <4>1, <5>1, <5>2
    <3> QED
      BY <1>9, <2>2, <3>1 DEF Retry, TypeOK
<1>10. ASSUME NEW n \in Notes, ReadbackFinds(n) PROVE TypeOK'
  <2>1. [row[n] EXCEPT !.state = "delivered", !.acked = TRUE] \in NoteRow
    BY RowWrites DEF TypeOK
  <2>2. row' \in [Notes -> NoteRow]
    BY <1>10, <2>1 DEF ReadbackFinds, Put, TypeOK
  <2> QED
    BY <1>10, <2>2, FlightType DEF ReadbackFinds, Leave, TypeOK
<1>11. ASSUME NEW n \in Notes, ReadbackMisses(n) PROVE TypeOK'
  BY <1>11, FlightType, RowFields DEF ReadbackMisses, Leave, TypeOK
<1>12. ASSUME NEW n \in Notes, StartHeld(n) PROVE TypeOK'
  <2>1. row' \in [Notes -> NoteRow]
    BY <1>12, MarkAllType DEF StartHeld, TypeOK
  <2> QED
    BY <1>12, <2>1, FlightType DEF StartHeld, Leave, TypeOK
<1>13. ASSUME NEW n \in Notes, StartNothing(n) PROVE TypeOK'
  <2>1. burnt' \in [Notes -> SUBSET (0 .. MaxAttempts)]
    BY <1>13, RowFields DEF StartNothing, StartId, TypeOK
  <2> QED
    BY <1>13, <2>1, FlightType DEF StartNothing, Leave, TypeOK
<1>14. ASSUME NEW n \in Notes, StartSuperseded(n) PROVE TypeOK'
  <2>1. row' \in [Notes -> NoteRow]
    BY <1>14, MarkAllType DEF StartSuperseded
  <2>2. burnt' \in [Notes -> SUBSET (0 .. MaxAttempts)]
    BY <1>14, RowFields DEF StartSuperseded, StartId, TypeOK
  <2> QED
    BY <1>14, <2>1, <2>2, FlightType DEF StartSuperseded, Leave, TypeOK
<1>15. ASSUME NEW n \in Notes, Start(n) PROVE TypeOK'
  <2>0. row[n].attempts + 1 \in 0 .. MaxAttempts
    BY <1>15, RowFields DEF Start, TypeOK
  <2>1. [row[n] EXCEPT !.state = "starting", !.attempts = row[n].attempts + 1] \in NoteRow
    BY <2>0, RowWrites DEF TypeOK
  <2>2. row' \in [Notes -> NoteRow]
    BY <1>15, <2>1 DEF Start, Put, TypeOK
  <2>3. flight' \in [Notes -> FlightRow]
    BY <1>15, FlightType DEF Start, Proceed
  <2>4. /\ burnt' \in [Notes -> SUBSET (0 .. MaxAttempts)]
        /\ wire' \in [Notes -> SUBSET (1 .. MaxAttempts)]
    BY <1>15, RowFields DEF Start, StartId, TypeOK
  <2> QED
    BY <1>15, <2>2, <2>3, <2>4 DEF Start, TypeOK
<1>16. ASSUME NEW n \in Notes, Acknowledged(n) PROVE TypeOK'
  <2>1. [row[n] EXCEPT !.acked = TRUE] \in NoteRow
    BY RowWrites DEF TypeOK
  <2>2. row' \in [Notes -> NoteRow]
    BY <1>16, <2>1 DEF Acknowledged, Put, TypeOK
  <2>3. flight' \in [Notes -> FlightRow]
    <3>1. CASE Proceed(n, "confirming")
      BY <3>1, FlightType DEF Proceed
    <3>2. CASE Leave(n)
      BY <3>2, FlightType DEF Leave
    <3> QED
      BY <1>16, <3>1, <3>2 DEF Acknowledged
  <2> QED
    BY <1>16, <2>2, <2>3 DEF Acknowledged, TypeOK
<1>17. ASSUME NEW n \in Notes, Refused(n) PROVE TypeOK'
  <2>1. PICK e \in Refusals[n] :
           IF e = "marked"
             THEN Put(n, [row[n] EXCEPT !.state = "failed", !.error = "rejected"])
             ELSE Put(n, [row[n] EXCEPT !.state = "unknown", !.error = e])
    BY <1>17 DEF Refused
  <2>2. e # "marked" => e \in {"unmarked", "invalid"}
    OBVIOUS
  <2>3. row' \in [Notes -> NoteRow]
    <3>1. CASE e = "marked"
      <4>1. [row[n] EXCEPT !.state = "failed", !.error = "rejected"] \in NoteRow
        BY RowWrites DEF TypeOK
      <4> QED
        BY <2>1, <3>1, <4>1 DEF Put, TypeOK
    <3>2. CASE e # "marked"
      <4>1. [row[n] EXCEPT !.state = "unknown", !.error = e] \in NoteRow
        BY <2>2, <3>2, RowWrites DEF TypeOK
      <4> QED
        BY <2>1, <3>2, <4>1 DEF Put, TypeOK
    <3> QED
      BY <3>1, <3>2
  <2> QED
    BY <1>17, <2>3, FlightType DEF Refused, Leave, TypeOK
<1>18. ASSUME NEW n \in Notes, AnswerLost(n) PROVE TypeOK'
  <2>1. [row[n] EXCEPT !.state = "unknown", !.error = "other"] \in NoteRow
    BY RowWrites DEF TypeOK
  <2>2. row' \in [Notes -> NoteRow]
    BY <1>18, <2>1 DEF AnswerLost, Put, TypeOK
  <2> QED
    BY <1>18, <2>2, FlightType DEF AnswerLost, Leave, TypeOK
<1>19. ASSUME NEW n \in Notes, Confirmed(n) PROVE TypeOK'
  <2>1. /\ [row[n] EXCEPT !.state = "delivered"] \in NoteRow
         /\ [row[n] EXCEPT !.state = "unknown"] \in NoteRow
         /\ [row[n] EXCEPT !.state = "unknown", !.error = "other"] \in NoteRow
    BY RowWrites DEF TypeOK
  <2>2. row' \in [Notes -> NoteRow]
    BY <1>19, <2>1 DEF Confirmed, Put, TypeOK
  <2> QED
    BY <1>19, <2>2, FlightType DEF Confirmed, Leave, TypeOK
<1>20. ASSUME NEW n \in Notes, SourceChanges(n) PROVE TypeOK'
  BY <1>20, FlightType, RowFields DEF SourceChanges, TypeOK
<1>21. ASSUME NEW n \in Notes, IntentChanges(n) PROVE TypeOK'
  BY <1>21, FlightType, RowFields DEF IntentChanges, TypeOK
<1>22. ASSUME NEW n \in Notes, TakeEffect(n) PROVE TypeOK'
  BY <1>22, FlightType, RowFields DEF TakeEffect, TypeOK
<1>23. ASSUME NEW n \in Notes, Vanish(n) PROVE TypeOK'
  BY <1>23, FlightType, RowFields DEF Vanish, TypeOK
<1>24. CASE Crash
  <2>1. row' \in [Notes -> NoteRow]
    BY <1>24, MarkAllType DEF Crash
  <2> QED
    BY <1>24, <2>1 DEF Crash, Idle, FlightRow, TypeOK
<1> QED
  BY <1>0, <1>1, <1>2, <1>3, <1>4, <1>5, <1>6, <1>7, <1>8, <1>9, <1>10, <1>11, <1>12, <1>13,
      <1>14, <1>15, <1>16, <1>17, <1>18, <1>19, <1>20, <1>21, <1>22, <1>23, <1>24 DEF Next,
      Command, Answer, World

-----------------------------------------------------------------------------
(* What each action does to the rows and deliveries, field by field            *)

\* only n changes, to these fields
Becomes(n, state, attempts, acked, error, phase) ==
    /\ row'[n].state = state
    /\ row'[n].attempts = attempts
    /\ row'[n].acked = acked
    /\ row'[n].error = error
    /\ flight'[n].phase = phase
    /\ \A m \in Notes \ {n} : row'[m] = row[m] /\ flight'[m].phase = flight[m].phase

\* the rows in S change their state and nothing else
Marked(S, state) ==
    \A m \in Notes :
        /\ row'[m].state = IF m \in S THEN state ELSE row[m].state
        /\ row'[m].attempts = row[m].attempts
        /\ row'[m].acked = row[m].acked
        /\ row'[m].error = row[m].error

\* deliveries end in Q and go on elsewhere
Ended(Q) == \A m \in Notes : flight'[m].phase = IF m \in Q THEN "none" ELSE flight[m].phase

LEMMA MarkAllEffect ==
    ASSUME TypeOK, NEW S, NEW s, MarkAll(S, s) PROVE Marked(S, s)
BY DEF MarkAll, Marked, TypeOK, NoteRow

LEMMA PrepareEffect ==
    ASSUME TypeOK, NEW n \in Notes, Prepare(n) PROVE Marked(Parts(n), "prepared") /\ Ended({})
BY MarkAllEffect DEF Prepare, Ended

LEMMA RouterRetireEffect ==
    ASSUME TypeOK, NEW n \in Notes, RouterRetire(n)
    PROVE  Marked(Parts(n), "superseded") /\ Ended({})
BY MarkAllEffect DEF RouterRetire, Ended

LEMMA RetireUnsentEffect ==
    ASSUME TypeOK, NEW n \in Notes, RetireUnsent(n)
    PROVE  Becomes(n, row[n].state, row[n].attempts, row[n].acked, "closed", flight[n].phase)
BY DEF RetireUnsent, Put, Becomes, TypeOK, NoteRow

LEMMA EnterEffect ==
    ASSUME TypeOK, NEW n \in Notes, ScanSend(n) \/ ScanRead(n) \/ ManualRetry(n)
    PROVE  Becomes(n, row[n].state, row[n].attempts, row[n].acked, row[n].error, "enter")
BY DEF ScanSend, ScanRead, ManualRetry, Enter, Becomes, TypeOK, FlightRow

LEMMA SettleInvalidEffect ==
    ASSUME TypeOK, NEW n \in Notes, SettleInvalid(n)
    PROVE  Becomes(n, "failed", row[n].attempts, row[n].acked, "closed", "none")
BY DEF SettleInvalid, Put, Leave, Idle, Becomes, TypeOK, NoteRow, FlightRow

LEMMA RejectBeforeSendEffect ==
    ASSUME TypeOK, NEW n \in Notes, RejectBeforeSend(n)
    PROVE  Becomes(n, "failed", row[n].attempts, row[n].acked, "rejected", "none")
BY DEF RejectBeforeSend, Put, Leave, Idle, Becomes, TypeOK, NoteRow, FlightRow

LEMMA RetryEffect ==
    ASSUME TypeOK, NEW n \in Notes, Retry(n)
    PROVE  \/ /\ Retryable(n)
              /\ Becomes(n, "prepared", row[n].attempts, row[n].acked, row[n].error, flight[n].phase)
           \/ Becomes(n, row[n].state, row[n].attempts, row[n].acked, row[n].error, "none")
<1>1. CASE Retryable(n)
  BY <1>1 DEF Retry, Put, Becomes, TypeOK, NoteRow, FlightRow
<1>2. CASE ~Retryable(n)
  BY <1>2 DEF Retry, Leave, Idle, Becomes, TypeOK, NoteRow, FlightRow
<1> QED  BY <1>1, <1>2

LEMMA ReadbackFindsEffect ==
    ASSUME TypeOK, NEW n \in Notes, ReadbackFinds(n)
    PROVE  Becomes(n, "delivered", row[n].attempts, TRUE, row[n].error, "none")
BY DEF ReadbackFinds, Put, Leave, Idle, Becomes, TypeOK, NoteRow, FlightRow

LEMMA LeaveEffect ==
    ASSUME TypeOK, NEW n \in Notes, ReadbackMisses(n) \/ StartNothing(n)
    PROVE  Becomes(n, row[n].state, row[n].attempts, row[n].acked, row[n].error, "none")
BY DEF ReadbackMisses, StartNothing, Leave, Idle, Becomes, TypeOK, FlightRow

LEMMA StartHeldEffect ==
    ASSUME TypeOK, NEW n \in Notes, StartHeld(n)
    PROVE  /\ Ended({n})
           /\ \/ Marked(Parts(n), "superseded") /\ \A m \in Parts(n) : Unsent(m)
              \/ Marked({}, "superseded")
<1>1. Ended({n})
  BY DEF StartHeld, Leave, Idle, Ended, TypeOK, FlightRow
<1>2. CASE row' = row
  BY <1>1, <1>2 DEF Marked
<1>3. CASE MarkAll(Parts(n), "superseded") /\ \A m \in Parts(n) : Unsent(m)
  BY <1>1, <1>3, MarkAllEffect
<1> QED  BY <1>2, <1>3 DEF StartHeld

LEMMA StartSupersededEffect ==
    ASSUME TypeOK, NEW n \in Notes, StartSuperseded(n)
    PROVE  /\ Ended({n})
           /\ \E S : /\ n \in S
                     /\ \A m \in S \ {n} : Unsent(m)
                     /\ \/ Marked(S, "superseded")
                        \/ Kind[n] = "question" /\ S = {n} /\ Marked(S, "failed")
<1> DEFINE verdict == IF ~Own(n) /\ Kind[n] = "question" THEN "failed" ELSE "superseded"
           along == IF Own(n) \/ Kind[n] = "question" THEN {} ELSE {m \in Parts(n) : Unsent(m)}
<1>1. Ended({n})
  BY DEF StartSuperseded, Leave, Idle, Ended, TypeOK, FlightRow
<1>2. Marked(along \cup {n}, verdict)
  BY MarkAllEffect DEF StartSuperseded
<1>3. \A m \in (along \cup {n}) \ {n} : Unsent(m)
  OBVIOUS
<1>4. verdict = "superseded" \/ (verdict = "failed" /\ Kind[n] = "question" /\ along \cup {n} = {n})
  OBVIOUS
<1> HIDE DEF verdict, along
<1> QED  BY <1>1, <1>2, <1>3, <1>4

LEMMA StartEffect ==
    ASSUME TypeOK, NEW n \in Notes, Start(n)
    PROVE  Becomes(n, "starting", row[n].attempts + 1, row[n].acked, row[n].error, "sending")
BY DEF Start, Put, Proceed, Becomes, TypeOK, NoteRow, FlightRow

LEMMA AcknowledgedEffect ==
    ASSUME TypeOK, NEW n \in Notes, Acknowledged(n)
    PROVE  \E phase \in {"confirming", "none"} :
              Becomes(n, row[n].state, row[n].attempts, TRUE, row[n].error, phase)
<1>1. CASE Operator(n)
  BY <1>1 DEF Acknowledged, Put, Proceed, Becomes, TypeOK, NoteRow, FlightRow
<1>2. CASE ~Operator(n)
  BY <1>2 DEF Acknowledged, Put, Leave, Idle, Becomes, TypeOK, NoteRow, FlightRow
<1> QED  BY <1>1, <1>2

LEMMA RefusedEffect ==
    ASSUME TypeOK, NEW n \in Notes, Refused(n)
    PROVE  \/ /\ "marked" \in Refusals[n]
              /\ Becomes(n, "failed", row[n].attempts, row[n].acked, "rejected", "none")
           \/ \E r \in Refusals[n] \ {"marked"} :
                 Becomes(n, "unknown", row[n].attempts, row[n].acked, r, "none")
<1> DEFINE marked == [row[n] EXCEPT !.state = "failed", !.error = "rejected"]
           other(r) == [row[n] EXCEPT !.state = "unknown", !.error = r]
<1>1. PICK r \in Refusals[n] : IF r = "marked" THEN Put(n, marked) ELSE Put(n, other(r))
  BY DEF Refused
<1>2. Leave(n)
  BY DEF Refused
<1>3. CASE r = "marked"
  <2>1. Put(n, marked)
    BY <1>1, <1>3
  <2>2. Becomes(n, "failed", row[n].attempts, row[n].acked, "rejected", "none")
    BY <2>1, <1>2 DEF Put, Leave, Idle, Becomes, TypeOK, NoteRow, FlightRow
  <2> QED  BY <2>2, <1>3
<1>4. CASE r # "marked"
  <2>1. Put(n, other(r))
    BY <1>1, <1>4
  <2>2. Becomes(n, "unknown", row[n].attempts, row[n].acked, r, "none")
    BY <2>1, <1>2 DEF Put, Leave, Idle, Becomes, TypeOK, NoteRow, FlightRow
  <2> QED  BY <2>2, <1>4
<1> QED  BY <1>3, <1>4

LEMMA AnswerLostEffect ==
    ASSUME TypeOK, NEW n \in Notes, AnswerLost(n)
    PROVE  Becomes(n, "unknown", row[n].attempts, row[n].acked, "other", "none")
BY DEF AnswerLost, Put, Leave, Idle, Becomes, TypeOK, NoteRow, FlightRow

LEMMA ConfirmedEffect ==
    ASSUME TypeOK, NEW n \in Notes, Confirmed(n)
    PROVE  \/ Becomes(n, "delivered", row[n].attempts, row[n].acked, row[n].error, "none")
           \/ Becomes(n, "unknown", row[n].attempts, row[n].acked, row[n].error, "none")
           \/ Becomes(n, "unknown", row[n].attempts, row[n].acked, "other", "none")
<1>1. Leave(n)
  BY DEF Confirmed
<1>2. CASE Put(n, [row[n] EXCEPT !.state = "delivered"])
  BY <1>1, <1>2 DEF Put, Leave, Idle, Becomes, TypeOK, NoteRow, FlightRow
<1>3. CASE Put(n, [row[n] EXCEPT !.state = "unknown"])
  BY <1>1, <1>3 DEF Put, Leave, Idle, Becomes, TypeOK, NoteRow, FlightRow
<1>4. CASE Put(n, [row[n] EXCEPT !.state = "unknown", !.error = "other"])
  BY <1>1, <1>4 DEF Put, Leave, Idle, Becomes, TypeOK, NoteRow, FlightRow
<1> QED  BY <1>2, <1>3, <1>4 DEF Confirmed

LEMMA CrashEffect ==
    ASSUME TypeOK, Crash
    PROVE  Marked({n \in Notes : row[n].state = "starting"}, "unknown") /\ Ended(Notes)
BY MarkAllEffect DEF Crash, Idle, Ended

-----------------------------------------------------------------------------
(* Rows and the deliveries in flight for them                                  *)

\* a row that is being sent has a delivery in flight, and no other row has
Agree(state, acked, phase) ==
    /\ phase = "sending" <=> state = "starting" /\ ~acked
    /\ phase = "confirming" => state = "starting" /\ acked
    /\ state = "absent" => phase = "none"
    /\ state \in {"absent", "prepared", "failed", "superseded"} => ~acked

\* a file part is prepared with the message it belongs to
PreparedTogether(n) == row[n].state # "absent" => row[Delivery[n]].state # "absent"

RowInv ==
    \A n \in Notes : Agree(row[n].state, row[n].acked, flight[n].phase) /\ PreparedTogether(n)

LEMMA RowInvInit == Init => RowInv
BY OutboxAssumption DEF Init, RowInv, Agree, PreparedTogether, Idle

LEMMA RowInvUnchanged ==
    ASSUME RowInv, row' = row, flight' = flight PROVE RowInv'
BY DEF RowInv, PreparedTogether

LEMMA RowInvBecomes ==
    ASSUME TypeOK, RowInv, NEW n \in Notes, row[n].state # "absent",
           NEW state, NEW attempts, NEW acked, NEW error, NEW phase,
           Becomes(n, state, attempts, acked, error, phase),
           state # "absent", Agree(state, acked, phase)
    PROVE  RowInv'
<1>1. ASSUME NEW m \in Notes PROVE Agree(row[m].state, row[m].acked, flight[m].phase)'
  <2>1. CASE m = n
    BY <2>1 DEF Becomes
  <2>2. CASE m # n
    BY <2>2 DEF Becomes, RowInv
  <2> QED  BY <2>1, <2>2
<1>2. ASSUME NEW m \in Notes PROVE PreparedTogether(m)'
  <2>1. Delivery[m] \in Notes
    BY OutboxAssumption
  <2>2. \A k \in Notes : row'[k].state = "absent" <=> row[k].state = "absent"
    BY DEF Becomes
  <2> QED  BY <2>1, <2>2 DEF RowInv, PreparedTogether
<1> QED  BY <1>1, <1>2 DEF RowInv

LEMMA RowInvMarked ==
    ASSUME TypeOK, RowInv, NEW S, NEW Q, NEW state, Marked(S, state), Ended(Q),
           state # "absent",
           \A m \in Notes : m \in S => row[m].state # "absent" \/ Delivery[m] \in S,
           \A m \in Notes : Agree(row'[m].state, row'[m].acked, flight'[m].phase)
    PROVE  RowInv'
<1>1. ASSUME NEW m \in Notes PROVE PreparedTogether(m)'
  <2>1. Delivery[m] \in Notes
    BY OutboxAssumption
  <2> QED  BY <2>1 DEF RowInv, PreparedTogether, Marked
<1> QED  BY <1>1 DEF RowInv

LEMMA RowInvStep == TypeOK /\ RowInv /\ [Next]_vars => RowInv'
<1> USE OutboxAssumption
<1> SUFFICES ASSUME TypeOK, RowInv PROVE [Next]_vars => RowInv'
  OBVIOUS
<1> SUFFICES ASSUME [Next]_vars PROVE RowInv'
  OBVIOUS
<1>0. CASE UNCHANGED vars
  BY <1>0, RowInvUnchanged DEF vars, Init
<1>1. ASSUME NEW n \in Notes, Prepare(n) PROVE RowInv'
  <2>1. Marked(Parts(n), "prepared") /\ Ended({})
    BY <1>1, PrepareEffect
  <2>2. \A m \in Parts(n) : row[m].state = "absent" /\ n \in Parts(n) /\ Delivery[m] = n
    BY <1>1 DEF Prepare, Parts, RowInv, PreparedTogether
  <2>3. \A m \in Notes : Agree(row'[m].state, row'[m].acked, flight'[m].phase)
    BY <2>1, <2>2 DEF Marked, Ended, RowInv, Agree
  <2> QED  BY <2>1, <2>2, <2>3, RowInvMarked
<1>2. ASSUME NEW n \in Notes, RouterRetire(n) PROVE RowInv'
  <2>1. Marked(Parts(n), "superseded") /\ Ended({})
    BY <1>2, RouterRetireEffect
  <2>2. \A m \in Parts(n) : row[m].state = "prepared"
    BY <1>2 DEF RouterRetire, Unsent
  <2>3. \A m \in Notes : Agree(row'[m].state, row'[m].acked, flight'[m].phase)
    BY <2>1, <2>2 DEF Marked, Ended, RowInv, Agree
  <2> QED  BY <2>1, <2>2, <2>3, RowInvMarked
<1>3. ASSUME NEW n \in Notes, RetireUnsent(n) PROVE RowInv'
  <2>1. Agree(row[n].state, row[n].acked, flight[n].phase) /\ row[n].acked \in BOOLEAN
    BY RowFields DEF RowInv, TypeOK
  <2>2. Becomes(n, row[n].state, row[n].attempts, row[n].acked, "closed", flight[n].phase)
    BY <1>3, RetireUnsentEffect
  <2>3. row[n].state # "absent" /\ Agree(row[n].state, row[n].acked, flight[n].phase)
    BY <1>3, <2>1 DEF Agree, RetireUnsent, Retryable
  <2> QED  BY <2>1, <2>2, <2>3, RowInvBecomes DEF Agree
<1>4. ASSUME NEW n \in Notes, ScanSend(n) PROVE RowInv'
  <2>1. Agree(row[n].state, row[n].acked, flight[n].phase) /\ row[n].acked \in BOOLEAN
    BY RowFields DEF RowInv, TypeOK
  <2>2. Becomes(n, row[n].state, row[n].attempts, row[n].acked, row[n].error, "enter")
    BY <1>4, EnterEffect
  <2>3. row[n].state # "absent" /\ Agree(row[n].state, row[n].acked, "enter")
    BY <1>4, <2>1 DEF Agree, ScanSend, Enter, Retryable
  <2> QED  BY <2>1, <2>2, <2>3, RowInvBecomes DEF Agree
<1>5. ASSUME NEW n \in Notes, ScanRead(n) PROVE RowInv'
  <2>1. Agree(row[n].state, row[n].acked, flight[n].phase) /\ row[n].acked \in BOOLEAN
    BY RowFields DEF RowInv, TypeOK
  <2>2. Becomes(n, row[n].state, row[n].attempts, row[n].acked, row[n].error, "enter")
    BY <1>5, EnterEffect
  <2>3. row[n].state # "absent" /\ Agree(row[n].state, row[n].acked, "enter")
    BY <1>5, <2>1 DEF Agree, ScanRead, Enter
  <2> QED  BY <2>1, <2>2, <2>3, RowInvBecomes DEF Agree
<1>6. ASSUME NEW n \in Notes, ManualRetry(n) PROVE RowInv'
  <2>1. Agree(row[n].state, row[n].acked, flight[n].phase) /\ row[n].acked \in BOOLEAN
    BY RowFields DEF RowInv, TypeOK
  <2>2. Becomes(n, row[n].state, row[n].attempts, row[n].acked, row[n].error, "enter")
    BY <1>6, EnterEffect
  <2>3. row[n].state # "absent" /\ Agree(row[n].state, row[n].acked, "enter")
    BY <1>6, <2>1 DEF Agree, ManualRetry, Enter, Retryable
  <2> QED  BY <2>1, <2>2, <2>3, RowInvBecomes DEF Agree
<1>7. ASSUME NEW n \in Notes, SettleInvalid(n) PROVE RowInv'
  <2>1. Agree(row[n].state, row[n].acked, flight[n].phase) /\ row[n].acked \in BOOLEAN
    BY RowFields DEF RowInv, TypeOK
  <2>2. Becomes(n, "failed", row[n].attempts, row[n].acked, "closed", "none")
    BY <1>7, SettleInvalidEffect
  <2>3. row[n].state # "absent" /\ Agree("failed", row[n].acked, "none")
    BY <1>7, <2>1 DEF Agree, SettleInvalid, Entered, InvalidProof
  <2> QED  BY <2>1, <2>2, <2>3, RowInvBecomes DEF Agree
<1>8. ASSUME NEW n \in Notes, RejectBeforeSend(n) PROVE RowInv'
  <2>1. Agree(row[n].state, row[n].acked, flight[n].phase) /\ row[n].acked \in BOOLEAN
    BY RowFields DEF RowInv, TypeOK
  <2>2. Becomes(n, "failed", row[n].attempts, row[n].acked, "rejected", "none")
    BY <1>8, RejectBeforeSendEffect
  <2>3. row[n].state # "absent" /\ Agree("failed", row[n].acked, "none")
    BY <1>8, <2>1 DEF Agree, RejectBeforeSend, RejectApplies, Entered
  <2> QED  BY <2>1, <2>2, <2>3, RowInvBecomes DEF Agree
<1>9. ASSUME NEW n \in Notes, Retry(n) PROVE RowInv'
  <2>1. Agree(row[n].state, row[n].acked, flight[n].phase) /\ row[n].acked \in BOOLEAN
    BY RowFields DEF RowInv, TypeOK
  <2>2. CASE Retryable(n) /\ Becomes(n, "prepared", row[n].attempts, row[n].acked, row[n].error, flight[n].phase)
    <3>1. row[n].state # "absent" /\ Agree("prepared", row[n].acked, flight[n].phase)
      BY <1>9, <2>1, <2>2 DEF Agree, Retry, Entered, Retryable
    <3> QED  BY <2>2, <3>1, RowInvBecomes DEF Agree
  <2>3. CASE Becomes(n, row[n].state, row[n].attempts, row[n].acked, row[n].error, "none")
    <3>1. row[n].state # "absent" /\ Agree(row[n].state, row[n].acked, "none")
      BY <1>9, <2>1, <2>3 DEF Agree, Retry, Entered, Retryable
    <3> QED  BY <2>3, <3>1, RowInvBecomes DEF Agree
  <2> QED  BY <1>9, <2>2, <2>3, RetryEffect
<1>10. ASSUME NEW n \in Notes, ReadbackFinds(n) PROVE RowInv'
  <2>1. Agree(row[n].state, row[n].acked, flight[n].phase) /\ row[n].acked \in BOOLEAN
    BY RowFields DEF RowInv, TypeOK
  <2>2. Becomes(n, "delivered", row[n].attempts, TRUE, row[n].error, "none")
    BY <1>10, ReadbackFindsEffect
  <2>3. row[n].state # "absent" /\ Agree("delivered", TRUE, "none")
    BY <1>10, <2>1 DEF Agree, ReadbackFinds, CanRead, Entered
  <2> QED  BY <2>1, <2>2, <2>3, RowInvBecomes DEF Agree
<1>11. ASSUME NEW n \in Notes, ReadbackMisses(n) PROVE RowInv'
  <2>1. Agree(row[n].state, row[n].acked, flight[n].phase) /\ row[n].acked \in BOOLEAN
    BY RowFields DEF RowInv, TypeOK
  <2>2. Becomes(n, row[n].state, row[n].attempts, row[n].acked, row[n].error, "none")
    BY <1>11, LeaveEffect
  <2>3. row[n].state # "absent" /\ Agree(row[n].state, row[n].acked, "none")
    BY <1>11, <2>1 DEF Agree, ReadbackMisses, CanRead, Entered
  <2> QED  BY <2>1, <2>2, <2>3, RowInvBecomes DEF Agree
<1>12. ASSUME NEW n \in Notes, StartHeld(n) PROVE RowInv'
  <2>1. Ended({n}) /\ row[n].state \in {"prepared", "superseded"}
    BY <1>12, StartHeldEffect DEF StartHeld, CanStart
  <2>2. CASE Marked(Parts(n), "superseded") /\ \A m \in Parts(n) : Unsent(m)
    <3>1. \A m \in Notes : Agree(row'[m].state, row'[m].acked, flight'[m].phase)
      BY <2>1, <2>2 DEF Marked, Ended, RowInv, Agree, Unsent
    <3> QED  BY <2>1, <2>2, <3>1, RowInvMarked DEF Unsent
  <2>3. CASE Marked({}, "superseded")
    <3>1. \A m \in Notes : Agree(row'[m].state, row'[m].acked, flight'[m].phase)
      BY <2>1, <2>3 DEF Marked, Ended, RowInv, Agree
    <3> QED  BY <2>1, <2>3, <3>1, RowInvMarked
  <2> QED  BY <1>12, <2>2, <2>3, StartHeldEffect
<1>13. ASSUME NEW n \in Notes, StartNothing(n) PROVE RowInv'
  <2>1. Agree(row[n].state, row[n].acked, flight[n].phase) /\ row[n].acked \in BOOLEAN
    BY RowFields DEF RowInv, TypeOK
  <2>2. Becomes(n, row[n].state, row[n].attempts, row[n].acked, row[n].error, "none")
    BY <1>13, LeaveEffect
  <2>3. row[n].state # "absent" /\ Agree(row[n].state, row[n].acked, "none")
    BY <1>13, <2>1 DEF Agree, StartNothing, CanStart, Entered
  <2> QED  BY <2>1, <2>2, <2>3, RowInvBecomes DEF Agree
<1>14. ASSUME NEW n \in Notes, StartSuperseded(n) PROVE RowInv'
  <2>1. Ended({n}) /\ row[n].state = "prepared"
    BY <1>14, StartSupersededEffect DEF StartSuperseded, CanStart, NothingToStart
  <2>2. PICK S : /\ n \in S
                 /\ \A m \in S \ {n} : Unsent(m)
                 /\ Marked(S, "superseded") \/ Marked(S, "failed")
    BY <1>14, StartSupersededEffect
  <2>3. \A m \in S : row[m].state = "prepared"
    BY <2>1, <2>2 DEF Unsent
  <2>4. ASSUME NEW s \in {"superseded", "failed"}, Marked(S, s) PROVE RowInv'
    <3>1. \A m \in Notes : Agree(row'[m].state, row'[m].acked, flight'[m].phase)
      BY <2>1, <2>3, <2>4 DEF Marked, Ended, RowInv, Agree
    <3> QED  BY <2>1, <2>3, <2>4, <3>1, RowInvMarked
  <2> QED  BY <2>2, <2>4
<1>15. ASSUME NEW n \in Notes, Start(n) PROVE RowInv'
  <2>1. Agree(row[n].state, row[n].acked, flight[n].phase) /\ row[n].acked \in BOOLEAN
    BY RowFields DEF RowInv, TypeOK
  <2>2. Becomes(n, "starting", row[n].attempts + 1, row[n].acked, row[n].error, "sending")
    BY <1>15, StartEffect
  <2>3. row[n].state # "absent" /\ Agree("starting", row[n].acked, "sending")
    BY <1>15, <2>1 DEF Agree, Start, NothingToStart, CanStart, Entered
  <2> QED  BY <2>1, <2>2, <2>3, RowInvBecomes DEF Agree
<1>16. ASSUME NEW n \in Notes, Acknowledged(n) PROVE RowInv'
  <2>1. Agree(row[n].state, row[n].acked, flight[n].phase) /\ row[n].acked \in BOOLEAN
    BY RowFields DEF RowInv, TypeOK
  <2>2. CASE Becomes(n, row[n].state, row[n].attempts, TRUE, row[n].error, "confirming")
    <3>1. row[n].state # "absent" /\ Agree(row[n].state, TRUE, "confirming")
      BY <1>16, <2>1, <2>2 DEF Agree, Acknowledged, Sending
    <3> QED  BY <2>2, <3>1, RowInvBecomes DEF Agree
  <2>3. CASE Becomes(n, row[n].state, row[n].attempts, TRUE, row[n].error, "none")
    <3>1. row[n].state # "absent" /\ Agree(row[n].state, TRUE, "none")
      BY <1>16, <2>1, <2>3 DEF Agree, Acknowledged, Sending
    <3> QED  BY <2>3, <3>1, RowInvBecomes DEF Agree
  <2> QED  BY <1>16, <2>2, <2>3, AcknowledgedEffect
<1>17. ASSUME NEW n \in Notes, Refused(n) PROVE RowInv'
  <2>1. Agree(row[n].state, row[n].acked, flight[n].phase) /\ row[n].acked \in BOOLEAN
    BY RowFields DEF RowInv, TypeOK
  <2>2. row[n].state = "starting" /\ ~row[n].acked
    BY <1>17, <2>1 DEF Refused, Sending, Agree
  <2>3. CASE Becomes(n, "failed", row[n].attempts, row[n].acked, "rejected", "none")
    BY <2>2, <2>3, RowInvBecomes DEF Agree
  <2>4. ASSUME NEW r, Becomes(n, "unknown", row[n].attempts, row[n].acked, r, "none")
        PROVE  RowInv'
    BY <2>2, <2>4, RowInvBecomes DEF Agree
  <2> QED  BY <1>17, <2>3, <2>4, RefusedEffect
<1>18. ASSUME NEW n \in Notes, AnswerLost(n) PROVE RowInv'
  <2>1. Agree(row[n].state, row[n].acked, flight[n].phase) /\ row[n].acked \in BOOLEAN
    BY RowFields DEF RowInv, TypeOK
  <2>2. Becomes(n, "unknown", row[n].attempts, row[n].acked, "other", "none")
    BY <1>18, AnswerLostEffect
  <2>3. row[n].state # "absent" /\ Agree("unknown", row[n].acked, "none")
    BY <1>18, <2>1 DEF Agree, AnswerLost, Sending
  <2> QED  BY <2>1, <2>2, <2>3, RowInvBecomes DEF Agree
<1>19. ASSUME NEW n \in Notes, Confirmed(n) PROVE RowInv'
  <2>1. Agree(row[n].state, row[n].acked, flight[n].phase) /\ row[n].acked \in BOOLEAN
    BY RowFields DEF RowInv, TypeOK
  <2>2. CASE Becomes(n, "delivered", row[n].attempts, row[n].acked, row[n].error, "none")
    <3>1. row[n].state # "absent" /\ Agree("delivered", row[n].acked, "none")
      BY <1>19, <2>1, <2>2 DEF Agree, Confirmed
    <3> QED  BY <2>2, <3>1, RowInvBecomes DEF Agree
  <2>3. CASE Becomes(n, "unknown", row[n].attempts, row[n].acked, row[n].error, "none")
    <3>1. row[n].state # "absent" /\ Agree("unknown", row[n].acked, "none")
      BY <1>19, <2>1, <2>3 DEF Agree, Confirmed
    <3> QED  BY <2>3, <3>1, RowInvBecomes DEF Agree
  <2>4. CASE Becomes(n, "unknown", row[n].attempts, row[n].acked, "other", "none")
    <3>1. row[n].state # "absent" /\ Agree("unknown", row[n].acked, "none")
      BY <1>19, <2>1, <2>4 DEF Agree, Confirmed
    <3> QED  BY <2>4, <3>1, RowInvBecomes DEF Agree
  <2> QED  BY <1>19, <2>2, <2>3, <2>4, ConfirmedEffect
<1>20. ASSUME NEW n \in Notes, SourceChanges(n) PROVE RowInv'
  BY <1>20, RowInvUnchanged DEF SourceChanges
<1>21. ASSUME NEW n \in Notes, IntentChanges(n) PROVE RowInv'
  BY <1>21, RowInvUnchanged DEF IntentChanges
<1>22. ASSUME NEW n \in Notes, TakeEffect(n) PROVE RowInv'
  BY <1>22, RowInvUnchanged DEF TakeEffect
<1>23. ASSUME NEW n \in Notes, Vanish(n) PROVE RowInv'
  BY <1>23, RowInvUnchanged DEF Vanish
<1>24. CASE Crash
  <2>1. Marked({n \in Notes : row[n].state = "starting"}, "unknown") /\ Ended(Notes)
    BY <1>24, CrashEffect
  <2>2. \A m \in Notes : Agree(row'[m].state, row'[m].acked, flight'[m].phase)
    BY <2>1 DEF Marked, Ended, RowInv, Agree
  <2> QED  BY <2>1, <2>2, RowInvMarked
<1> QED
  BY <1>0, <1>1, <1>2, <1>3, <1>4, <1>5, <1>6, <1>7, <1>8, <1>9, <1>10, <1>11, <1>12, <1>13,
      <1>14, <1>15, <1>16, <1>17, <1>18, <1>19, <1>20, <1>21, <1>22, <1>23, <1>24 DEF Next,
      Command, Answer, World

\* what is known to be delivered stays so
DeliveredStays == \A m \in Notes : row[m].state = "delivered" => row'[m].state = "delivered"

LEMMA DeliveredStep == TypeOK /\ RowInv /\ [Next]_vars => DeliveredStays
<1> SUFFICES ASSUME TypeOK, RowInv PROVE [Next]_vars => DeliveredStays
  OBVIOUS
<1> SUFFICES ASSUME [Next]_vars PROVE DeliveredStays
  OBVIOUS
<1>0. CASE UNCHANGED vars
  BY <1>0 DEF vars, DeliveredStays
<1>1. ASSUME NEW n \in Notes, Prepare(n) PROVE DeliveredStays
  <2>1. \A m \in Parts(n) : row[m].state = "absent"
    BY <1>1, OutboxAssumption DEF Prepare, Parts, RowInv, PreparedTogether
  <2> QED  BY <1>1, <2>1, PrepareEffect DEF DeliveredStays, Marked
<1>2. ASSUME NEW n \in Notes, RouterRetire(n) PROVE DeliveredStays
  BY <1>2, RouterRetireEffect DEF RouterRetire, Unsent, DeliveredStays, Marked
<1>3. ASSUME NEW n \in Notes, RetireUnsent(n) PROVE DeliveredStays
  BY <1>3, RetireUnsentEffect DEF DeliveredStays, Becomes
<1>4. ASSUME NEW n \in Notes, ScanSend(n) PROVE DeliveredStays
  BY <1>4, EnterEffect DEF DeliveredStays, Becomes
<1>5. ASSUME NEW n \in Notes, ScanRead(n) PROVE DeliveredStays
  BY <1>5, EnterEffect DEF DeliveredStays, Becomes
<1>6. ASSUME NEW n \in Notes, ManualRetry(n) PROVE DeliveredStays
  BY <1>6, EnterEffect DEF DeliveredStays, Becomes
<1>7. ASSUME NEW n \in Notes, SettleInvalid(n) PROVE DeliveredStays
  BY <1>7, SettleInvalidEffect DEF DeliveredStays, Becomes, SettleInvalid, Entered,
      InvalidProof
<1>8. ASSUME NEW n \in Notes, RejectBeforeSend(n) PROVE DeliveredStays
  BY <1>8, RejectBeforeSendEffect DEF DeliveredStays, Becomes, RejectBeforeSend,
      RejectApplies, Entered
<1>9. ASSUME NEW n \in Notes, Retry(n) PROVE DeliveredStays
  BY <1>9, RetryEffect DEF DeliveredStays, Becomes, Retry, Entered, Retryable
<1>10. ASSUME NEW n \in Notes, ReadbackFinds(n) PROVE DeliveredStays
  BY <1>10, ReadbackFindsEffect DEF DeliveredStays, Becomes, ReadbackFinds, CanRead, Entered
<1>11. ASSUME NEW n \in Notes, ReadbackMisses(n) PROVE DeliveredStays
  BY <1>11, LeaveEffect DEF DeliveredStays, Becomes
<1>12. ASSUME NEW n \in Notes, StartHeld(n) PROVE DeliveredStays
  BY <1>12, StartHeldEffect DEF Unsent, DeliveredStays, Marked
<1>13. ASSUME NEW n \in Notes, StartNothing(n) PROVE DeliveredStays
  BY <1>13, LeaveEffect DEF DeliveredStays, Becomes
<1>14. ASSUME NEW n \in Notes, StartSuperseded(n) PROVE DeliveredStays
  BY <1>14, StartSupersededEffect, ZenonT(30) DEF StartSuperseded, CanStart, Unsent, DeliveredStays,
      Marked
<1>15. ASSUME NEW n \in Notes, Start(n) PROVE DeliveredStays
  BY <1>15, StartEffect DEF DeliveredStays, Becomes, Start, NothingToStart, CanStart,
      Entered
<1>16. ASSUME NEW n \in Notes, Acknowledged(n) PROVE DeliveredStays
  BY <1>16, AcknowledgedEffect DEF DeliveredStays, Becomes
<1>17. ASSUME NEW n \in Notes, Refused(n) PROVE DeliveredStays
  <2>1. row[n].state = "starting"
    BY <1>17 DEF Refused, Sending, RowInv, Agree
  <2> QED  BY <1>17, <2>1, RefusedEffect DEF DeliveredStays, Becomes
<1>18. ASSUME NEW n \in Notes, AnswerLost(n) PROVE DeliveredStays
  <2>1. row[n].state = "starting"
    BY <1>18 DEF AnswerLost, Sending, RowInv, Agree
  <2> QED  BY <1>18, <2>1, AnswerLostEffect DEF DeliveredStays, Becomes
<1>19. ASSUME NEW n \in Notes, Confirmed(n) PROVE DeliveredStays
  <2>1. row[n].state = "starting"
    BY <1>19 DEF Confirmed, Sending, RowInv, Agree
  <2> QED  BY <1>19, <2>1, ConfirmedEffect DEF DeliveredStays, Becomes
<1>20. ASSUME NEW n \in Notes, SourceChanges(n) PROVE DeliveredStays
  BY <1>20 DEF SourceChanges, DeliveredStays
<1>21. ASSUME NEW n \in Notes, IntentChanges(n) PROVE DeliveredStays
  BY <1>21 DEF IntentChanges, DeliveredStays
<1>22. ASSUME NEW n \in Notes, TakeEffect(n) PROVE DeliveredStays
  BY <1>22 DEF TakeEffect, DeliveredStays
<1>23. ASSUME NEW n \in Notes, Vanish(n) PROVE DeliveredStays
  BY <1>23 DEF Vanish, DeliveredStays
<1>24. CASE Crash
  BY <1>24, CrashEffect DEF DeliveredStays, Marked
<1> QED
  BY <1>0, <1>1, <1>2, <1>3, <1>4, <1>5, <1>6, <1>7, <1>8, <1>9, <1>10, <1>11, <1>12, <1>13,
      <1>14, <1>15, <1>16, <1>17, <1>18, <1>19, <1>20, <1>21, <1>22, <1>23, <1>24 DEF Next,
      Command, Answer, World

-----------------------------------------------------------------------------
(* Receipts of starts                                                          *)

\* a refusal by the quote guard is on record only where the transport gives one
QuoteRefused(n) == QuoteProof(n) => ~(Refusals[n] \subseteq {"invalid"})

\* a row that is waiting for a start, or may come to
Open(state, error) ==
    \/ state \in {"absent", "prepared", "starting", "unknown"}
    \/ state = "failed" /\ error = "rejected"

\* the starts on record are of attempts the row has left behind
ReceiptsBehind(n) == Open(row[n].state, row[n].error) => \A k \in burnt[n] : k < row[n].attempts

\* a delivery that may start its notification has passed the gate
StartInOrder(n) ==
    flight[n].phase # "none" /\ row[n].state \in {"prepared", "failed"} => PredecessorDelivered(n) \/ Own(n)

ReceiptInv == \A n \in Notes : QuoteRefused(n) /\ ReceiptsBehind(n) /\ StartInOrder(n)

LEMMA ReceiptInvInit == Init => ReceiptInv
BY OutboxAssumption DEF Init, ReceiptInv, QuoteRefused, QuoteProof, ReceiptsBehind,
    StartInOrder, Idle

\* the order of a notification whose row and delivery stay as they are
LEMMA OrderStays ==
    ASSUME TypeOK, ReceiptInv, DeliveredStays, NEW m \in Notes, row'[m].state = row[m].state,
           flight'[m].phase = flight[m].phase,
           source'[Delivery[m]] = source[Delivery[m]] \/ source[Delivery[m]] # "own"
    PROVE  StartInOrder(m)'
<1>1. PredecessorDelivered(m) => PredecessorDelivered(m)'
  BY OutboxAssumption DEF PredecessorDelivered, DeliveredStays
<1>2. Own(m) => Own(m)'
  BY DEF Own
<1> QED  BY <1>1, <1>2 DEF ReceiptInv, StartInOrder

LEMMA ReceiptInvUnchanged ==
    ASSUME TypeOK, ReceiptInv, row' = row, flight' = flight, burnt' = burnt,
           \A m \in Notes : source'[m] = source[m] \/ source[m] # "own"
    PROVE  ReceiptInv'
<1>1. DeliveredStays
  BY DEF DeliveredStays
<1>2. ASSUME NEW m \in Notes PROVE StartInOrder(m)'
  BY <1>1, OrderStays, OutboxAssumption
<1> QED  BY <1>2 DEF ReceiptInv, QuoteRefused, QuoteProof, ReceiptsBehind

\* n may change to these values
MayBecome(n, state, attempts, error, phase) ==
    /\ error \in {"rejected", "unmarked"} => ~(Refusals[n] \subseteq {"invalid"})
    /\ Open(state, error) => \A k \in burnt'[n] : k < attempts
    /\ phase # "none" /\ state \in {"prepared", "failed"} =>
          PredecessorDelivered(n) \/ (Own(n) /\ state = row[n].state)

LEMMA ReceiptInvBecomes ==
    ASSUME TypeOK, ReceiptInv, DeliveredStays, source' = source, NEW n \in Notes,
           NEW state, NEW attempts, NEW acked, NEW error, NEW phase,
           Becomes(n, state, attempts, acked, error, phase),
           \A m \in Notes \ {n} : burnt'[m] = burnt[m],
           MayBecome(n, state, attempts, error, phase)
    PROVE  ReceiptInv'
<1>1. ASSUME NEW m \in Notes \ {n} PROVE (QuoteRefused(m) /\ ReceiptsBehind(m) /\ StartInOrder(m))'
  BY <1>1, OrderStays DEF Becomes, ReceiptInv, QuoteRefused, QuoteProof, ReceiptsBehind
<1>2. QuoteRefused(n)' /\ ReceiptsBehind(n)'
  BY DEF MayBecome, Becomes, QuoteRefused, QuoteProof, ReceiptsBehind
<1>3. StartInOrder(n)'
  <2>1. PredecessorDelivered(n) => PredecessorDelivered(n)'
    BY OutboxAssumption DEF PredecessorDelivered, DeliveredStays
  <2>2. Own(n) /\ state = row[n].state => Own(n)'
    BY DEF Own, Becomes
  <2> QED  BY <2>1, <2>2 DEF MayBecome, StartInOrder, Becomes
<1> QED  BY <1>1, <1>2, <1>3 DEF ReceiptInv

LEMMA ReceiptInvMarked ==
    ASSUME TypeOK, ReceiptInv, DeliveredStays, source' = source, NEW S, NEW Q, NEW state,
           Marked(S, state), Ended(Q),
           \A m \in Notes : (burnt'[m] = burnt[m]) \/ m \in S,
           \A m \in Notes : m \in S /\ Open(state, row[m].error) =>
              burnt'[m] = burnt[m] /\ Open(row[m].state, row[m].error),
           \A m \in Notes : m \in S /\ state \in {"prepared", "failed"} => flight'[m].phase = "none"
    PROVE  ReceiptInv'
<1>1. ASSUME NEW m \in Notes PROVE QuoteRefused(m)' /\ ReceiptsBehind(m)'
  BY <1>1 DEF Marked, ReceiptInv, QuoteRefused, QuoteProof, ReceiptsBehind
<1>2. ASSUME NEW m \in Notes PROVE StartInOrder(m)'
  <2>1. CASE m \in S \/ m \in Q
    BY <2>1 DEF Marked, Ended, StartInOrder
  <2>2. CASE ~(m \in S \/ m \in Q)
    BY <2>2, OrderStays DEF Marked, Ended
  <2> QED  BY <2>1, <2>2
<1> QED  BY <1>1, <1>2 DEF ReceiptInv

LEMMA ReceiptInvStep == TypeOK /\ RowInv /\ ReceiptInv /\ [Next]_vars => ReceiptInv'
<1> SUFFICES ASSUME TypeOK, RowInv, ReceiptInv, [Next]_vars PROVE ReceiptInv'
  OBVIOUS
<1> DeliveredStays
  BY DeliveredStep
<1>0. CASE UNCHANGED vars
  BY <1>0, ReceiptInvUnchanged DEF vars, Init
<1>1. ASSUME NEW n \in Notes, Prepare(n) PROVE ReceiptInv'
  <2>1. \A m \in Parts(n) : m \in Notes /\ row[m].state = "absent" /\ flight[m].phase = "none"
    BY <1>1, OutboxAssumption DEF Prepare, Parts, RowInv, Agree, PreparedTogether
  <2>2. source' = source /\ burnt' = burnt
    BY <1>1 DEF Prepare
  <2> QED  BY <1>1, <2>1, <2>2, PrepareEffect, ReceiptInvMarked DEF Open, Ended
<1>2. ASSUME NEW n \in Notes, RouterRetire(n) PROVE ReceiptInv'
  <2>1. source' = source /\ burnt' = burnt
    BY <1>2 DEF RouterRetire
  <2> QED  BY <1>2, <2>1, RouterRetireEffect, ReceiptInvMarked DEF Open
<1>3. ASSUME NEW n \in Notes, RetireUnsent(n) PROVE ReceiptInv'
  <2>1. /\ QuoteRefused(n) /\ ReceiptsBehind(n) /\ StartInOrder(n)
        /\ Agree(row[n].state, row[n].acked, flight[n].phase) /\ row[n].attempts \in Nat
    BY RowFields DEF ReceiptInv, RowInv, TypeOK
  <2>2. /\ Becomes(n, row[n].state, row[n].attempts, row[n].acked, "closed", flight[n].phase)
        /\ source' = source /\ \A m \in Notes \ {n} : burnt'[m] = burnt[m]
    BY <1>3, RetireUnsentEffect DEF RetireUnsent, Retryable
  <2>3. MayBecome(n, row[n].state, row[n].attempts, "closed", flight[n].phase)
    BY <1>3, <2>1 DEF RetireUnsent, Retryable, MayBecome, QuoteRefused, QuoteProof,
        ReceiptsBehind, StartInOrder, Open, Agree
  <2> QED  BY <2>2, <2>3, ReceiptInvBecomes
<1>4. ASSUME NEW n \in Notes, ScanSend(n) PROVE ReceiptInv'
  <2>1. /\ QuoteRefused(n) /\ ReceiptsBehind(n) /\ StartInOrder(n)
        /\ Agree(row[n].state, row[n].acked, flight[n].phase) /\ row[n].attempts \in Nat
    BY RowFields DEF ReceiptInv, RowInv, TypeOK
  <2>2. /\ Becomes(n, row[n].state, row[n].attempts, row[n].acked, row[n].error, "enter")
        /\ source' = source /\ \A m \in Notes \ {n} : burnt'[m] = burnt[m]
    BY <1>4, EnterEffect DEF ScanSend, Enter, Retryable, GatePasses, SourceBound, Own
  <2>3. MayBecome(n, row[n].state, row[n].attempts, row[n].error, "enter")
    BY <1>4, <2>1 DEF ScanSend, Enter, Retryable, GatePasses, SourceBound, Own, MayBecome,
        QuoteRefused, QuoteProof, ReceiptsBehind, StartInOrder, Open, Agree
  <2> QED  BY <2>2, <2>3, ReceiptInvBecomes
<1>5. ASSUME NEW n \in Notes, ScanRead(n) PROVE ReceiptInv'
  <2>1. /\ QuoteRefused(n) /\ ReceiptsBehind(n) /\ StartInOrder(n)
        /\ Agree(row[n].state, row[n].acked, flight[n].phase) /\ row[n].attempts \in Nat
    BY RowFields DEF ReceiptInv, RowInv, TypeOK
  <2>2. /\ Becomes(n, row[n].state, row[n].attempts, row[n].acked, row[n].error, "enter")
        /\ source' = source /\ \A m \in Notes \ {n} : burnt'[m] = burnt[m]
    BY <1>5, EnterEffect DEF ScanRead, Enter
  <2>3. MayBecome(n, row[n].state, row[n].attempts, row[n].error, "enter")
    BY <1>5, <2>1 DEF ScanRead, Enter, MayBecome, QuoteRefused, QuoteProof, ReceiptsBehind,
        StartInOrder, Open, Agree
  <2> QED  BY <2>2, <2>3, ReceiptInvBecomes
<1>6. ASSUME NEW n \in Notes, ManualRetry(n) PROVE ReceiptInv'
  <2>1. /\ QuoteRefused(n) /\ ReceiptsBehind(n) /\ StartInOrder(n)
        /\ Agree(row[n].state, row[n].acked, flight[n].phase) /\ row[n].attempts \in Nat
    BY RowFields DEF ReceiptInv, RowInv, TypeOK
  <2>2. /\ Becomes(n, row[n].state, row[n].attempts, row[n].acked, row[n].error, "enter")
        /\ source' = source /\ \A m \in Notes \ {n} : burnt'[m] = burnt[m]
    BY <1>6, EnterEffect DEF ManualRetry, Enter, Retryable, GatePasses, SourceBound, Own
  <2>3. MayBecome(n, row[n].state, row[n].attempts, row[n].error, "enter")
    BY <1>6, <2>1 DEF ManualRetry, Enter, Retryable, GatePasses, SourceBound, Own,
        MayBecome, QuoteRefused, QuoteProof, ReceiptsBehind, StartInOrder, Open, Agree
  <2> QED  BY <2>2, <2>3, ReceiptInvBecomes
<1>7. ASSUME NEW n \in Notes, SettleInvalid(n) PROVE ReceiptInv'
  <2>1. /\ QuoteRefused(n) /\ ReceiptsBehind(n) /\ StartInOrder(n)
        /\ Agree(row[n].state, row[n].acked, flight[n].phase) /\ row[n].attempts \in Nat
    BY RowFields DEF ReceiptInv, RowInv, TypeOK
  <2>2. /\ Becomes(n, "failed", row[n].attempts, row[n].acked, "closed", "none")
        /\ source' = source /\ \A m \in Notes \ {n} : burnt'[m] = burnt[m]
    BY <1>7, SettleInvalidEffect DEF SettleInvalid, Entered, InvalidProof
  <2>3. MayBecome(n, "failed", row[n].attempts, "closed", "none")
    BY <1>7, <2>1 DEF SettleInvalid, Entered, InvalidProof, MayBecome, QuoteRefused,
        QuoteProof, ReceiptsBehind, StartInOrder, Open, Agree
  <2> QED  BY <2>2, <2>3, ReceiptInvBecomes
<1>8. ASSUME NEW n \in Notes, RejectBeforeSend(n) PROVE ReceiptInv'
  <2>1. /\ QuoteRefused(n) /\ ReceiptsBehind(n) /\ StartInOrder(n)
        /\ Agree(row[n].state, row[n].acked, flight[n].phase) /\ row[n].attempts \in Nat
    BY RowFields DEF ReceiptInv, RowInv, TypeOK
  <2>2. /\ Becomes(n, "failed", row[n].attempts, row[n].acked, "rejected", "none")
        /\ source' = source /\ \A m \in Notes \ {n} : burnt'[m] = burnt[m]
    BY <1>8, RejectBeforeSendEffect DEF RejectBeforeSend, RejectApplies, Entered, QuoteProof
  <2>3. MayBecome(n, "failed", row[n].attempts, "rejected", "none")
    BY <1>8, <2>1 DEF RejectBeforeSend, RejectApplies, Entered, QuoteProof, MayBecome,
        QuoteRefused, ReceiptsBehind, StartInOrder, Open, Agree
  <2> QED  BY <2>2, <2>3, ReceiptInvBecomes
<1>9. ASSUME NEW n \in Notes, Retry(n) PROVE ReceiptInv'
  <2>1. /\ QuoteRefused(n) /\ ReceiptsBehind(n) /\ StartInOrder(n)
        /\ Agree(row[n].state, row[n].acked, flight[n].phase) /\ row[n].attempts \in Nat
    BY RowFields DEF ReceiptInv, RowInv, TypeOK
  <2>2. source' = source /\ \A m \in Notes \ {n} : burnt'[m] = burnt[m]
    BY <1>9 DEF Retry
  <2>3. CASE Retryable(n) /\ Becomes(n, "prepared", row[n].attempts, row[n].acked, row[n].error, flight[n].phase)
    <3>1. MayBecome(n, "prepared", row[n].attempts, row[n].error, flight[n].phase)
      BY <1>9, <2>1, <2>3 DEF Retry, Entered, Retryable, Own, MayBecome, QuoteRefused,
          QuoteProof, ReceiptsBehind, StartInOrder, Open, Agree
    <3> QED  BY <2>2, <2>3, <3>1, ReceiptInvBecomes
  <2>4. CASE Becomes(n, row[n].state, row[n].attempts, row[n].acked, row[n].error, "none")
    <3>1. MayBecome(n, row[n].state, row[n].attempts, row[n].error, "none")
      BY <1>9, <2>1, <2>4 DEF Retry, Entered, Retryable, Own, MayBecome, QuoteRefused,
          QuoteProof, ReceiptsBehind, StartInOrder, Open, Agree
    <3> QED  BY <2>2, <2>4, <3>1, ReceiptInvBecomes
  <2> QED  BY <1>9, <2>3, <2>4, RetryEffect
<1>10. ASSUME NEW n \in Notes, ReadbackFinds(n) PROVE ReceiptInv'
  <2>1. /\ QuoteRefused(n) /\ ReceiptsBehind(n) /\ StartInOrder(n)
        /\ Agree(row[n].state, row[n].acked, flight[n].phase) /\ row[n].attempts \in Nat
    BY RowFields DEF ReceiptInv, RowInv, TypeOK
  <2>2. /\ Becomes(n, "delivered", row[n].attempts, TRUE, row[n].error, "none")
        /\ source' = source /\ \A m \in Notes \ {n} : burnt'[m] = burnt[m]
    BY <1>10, ReadbackFindsEffect DEF ReadbackFinds, CanRead, Entered
  <2>3. MayBecome(n, "delivered", row[n].attempts, row[n].error, "none")
    BY <1>10, <2>1 DEF ReadbackFinds, CanRead, Entered, MayBecome, QuoteRefused, QuoteProof,
        ReceiptsBehind, StartInOrder, Open, Agree
  <2> QED  BY <2>2, <2>3, ReceiptInvBecomes
<1>11. ASSUME NEW n \in Notes, ReadbackMisses(n) PROVE ReceiptInv'
  <2>1. /\ QuoteRefused(n) /\ ReceiptsBehind(n) /\ StartInOrder(n)
        /\ Agree(row[n].state, row[n].acked, flight[n].phase) /\ row[n].attempts \in Nat
    BY RowFields DEF ReceiptInv, RowInv, TypeOK
  <2>2. /\ Becomes(n, row[n].state, row[n].attempts, row[n].acked, row[n].error, "none")
        /\ source' = source /\ \A m \in Notes \ {n} : burnt'[m] = burnt[m]
    BY <1>11, LeaveEffect DEF ReadbackMisses, CanRead, Entered
  <2>3. MayBecome(n, row[n].state, row[n].attempts, row[n].error, "none")
    BY <1>11, <2>1 DEF ReadbackMisses, CanRead, Entered, MayBecome, QuoteRefused,
        QuoteProof, ReceiptsBehind, StartInOrder, Open, Agree
  <2> QED  BY <2>2, <2>3, ReceiptInvBecomes
<1>12. ASSUME NEW n \in Notes, StartHeld(n) PROVE ReceiptInv'
  <2>1. source' = source /\ burnt' = burnt
    BY <1>12 DEF StartHeld
  <2>2. Ended({n})
    BY <1>12, StartHeldEffect
  <2>3. ASSUME NEW S, Marked(S, "superseded") PROVE ReceiptInv'
    BY <2>1, <2>2, <2>3, ReceiptInvMarked DEF Open
  <2> QED  BY <1>12, <2>3, StartHeldEffect
<1>13. ASSUME NEW n \in Notes, StartNothing(n) PROVE ReceiptInv'
  <2>1. /\ QuoteRefused(n) /\ ReceiptsBehind(n) /\ StartInOrder(n)
        /\ Agree(row[n].state, row[n].acked, flight[n].phase) /\ row[n].attempts \in Nat
    BY RowFields DEF ReceiptInv, RowInv, TypeOK
  <2>2. /\ Becomes(n, row[n].state, row[n].attempts, row[n].acked, row[n].error, "none")
        /\ source' = source /\ \A m \in Notes \ {n} : burnt'[m] = burnt[m]
    BY <1>13, LeaveEffect DEF StartNothing, CanStart, Entered, StartId, NothingToStart,
        TypeOK
  <2>3. MayBecome(n, row[n].state, row[n].attempts, row[n].error, "none")
    BY <1>13, <2>1 DEF StartNothing, CanStart, Entered, StartId, NothingToStart, TypeOK,
        MayBecome, QuoteRefused, QuoteProof, ReceiptsBehind, StartInOrder, Open, Agree
  <2> QED  BY <2>2, <2>3, ReceiptInvBecomes
<1>14. ASSUME NEW n \in Notes, StartSuperseded(n) PROVE ReceiptInv'
  <2>1. source' = source /\ Ended({n}) /\ \A m \in Notes \ {n} : burnt'[m] = burnt[m]
    BY <1>14, StartSupersededEffect DEF StartSuperseded, TypeOK
  <2>2. PICK S : /\ n \in S
                 /\ \/ Marked(S, "superseded")
                    \/ Kind[n] = "question" /\ S = {n} /\ Marked(S, "failed")
    BY <1>14, StartSupersededEffect
  <2>3. CASE Marked(S, "superseded")
    BY <2>1, <2>2, <2>3, ReceiptInvMarked DEF Open
  <2>4. CASE Kind[n] = "question" /\ S = {n} /\ Marked(S, "failed")
    <3>1. row[n].error # "rejected"
      BY <2>4, OutboxAssumption DEF ReceiptInv, QuoteRefused, QuoteProof
    <3>2. flight'[n].phase = "none"
      BY <2>1 DEF Ended
    <3> QED  BY <2>1, <2>4, <3>1, <3>2, ReceiptInvMarked DEF Open
  <2> QED  BY <2>2, <2>3, <2>4
<1>15. ASSUME NEW n \in Notes, Start(n) PROVE ReceiptInv'
  <2>1. /\ QuoteRefused(n) /\ ReceiptsBehind(n) /\ StartInOrder(n)
        /\ Agree(row[n].state, row[n].acked, flight[n].phase) /\ row[n].attempts \in Nat
    BY RowFields DEF ReceiptInv, RowInv, TypeOK
  <2>2. /\ Becomes(n, "starting", row[n].attempts + 1, row[n].acked, row[n].error, "sending")
        /\ source' = source /\ \A m \in Notes \ {n} : burnt'[m] = burnt[m]
    BY <1>15, StartEffect DEF Start, NothingToStart, CanStart, Entered, StartId, TypeOK
  <2>3. MayBecome(n, "starting", row[n].attempts + 1, row[n].error, "sending")
    BY <1>15, <2>1 DEF Start, NothingToStart, CanStart, Entered, StartId, TypeOK, MayBecome,
        QuoteRefused, QuoteProof, ReceiptsBehind, StartInOrder, Open, Agree
  <2> QED  BY <2>2, <2>3, ReceiptInvBecomes
<1>16. ASSUME NEW n \in Notes, Acknowledged(n) PROVE ReceiptInv'
  <2>1. /\ QuoteRefused(n) /\ ReceiptsBehind(n) /\ StartInOrder(n)
        /\ Agree(row[n].state, row[n].acked, flight[n].phase) /\ row[n].attempts \in Nat
    BY RowFields DEF ReceiptInv, RowInv, TypeOK
  <2>2. source' = source /\ \A m \in Notes \ {n} : burnt'[m] = burnt[m]
    BY <1>16 DEF Acknowledged
  <2>3. CASE Becomes(n, row[n].state, row[n].attempts, TRUE, row[n].error, "confirming")
    <3>1. MayBecome(n, row[n].state, row[n].attempts, row[n].error, "confirming")
      BY <1>16, <2>1, <2>3 DEF Acknowledged, Sending, MayBecome, QuoteRefused, QuoteProof,
          ReceiptsBehind, StartInOrder, Open, Agree
    <3> QED  BY <2>2, <2>3, <3>1, ReceiptInvBecomes
  <2>4. CASE Becomes(n, row[n].state, row[n].attempts, TRUE, row[n].error, "none")
    <3>1. MayBecome(n, row[n].state, row[n].attempts, row[n].error, "none")
      BY <1>16, <2>1, <2>4 DEF Acknowledged, Sending, MayBecome, QuoteRefused, QuoteProof,
          ReceiptsBehind, StartInOrder, Open, Agree
    <3> QED  BY <2>2, <2>4, <3>1, ReceiptInvBecomes
  <2> QED  BY <1>16, <2>3, <2>4, AcknowledgedEffect
<1>17. ASSUME NEW n \in Notes, Refused(n) PROVE ReceiptInv'
  <2>1. /\ QuoteRefused(n) /\ ReceiptsBehind(n) /\ StartInOrder(n)
        /\ Agree(row[n].state, row[n].acked, flight[n].phase) /\ row[n].attempts \in Nat
    BY RowFields DEF ReceiptInv, RowInv, TypeOK
  <2>2. source' = source /\ \A m \in Notes \ {n} : burnt'[m] = burnt[m]
    BY <1>17 DEF Refused
  <2>3. CASE "marked" \in Refusals[n] /\ Becomes(n, "failed", row[n].attempts, row[n].acked, "rejected", "none")
    <3>1. MayBecome(n, "failed", row[n].attempts, "rejected", "none")
      BY <1>17, <2>1, <2>3 DEF Refused, Sending, MayBecome, QuoteRefused, QuoteProof,
          ReceiptsBehind, StartInOrder, Open, Agree
    <3> QED  BY <2>2, <2>3, <3>1, ReceiptInvBecomes
  <2>4. ASSUME NEW r \in Refusals[n] \ {"marked"}, Becomes(n, "unknown", row[n].attempts, row[n].acked, r, "none")
        PROVE  ReceiptInv'
    <3>1. MayBecome(n, "unknown", row[n].attempts, r, "none")
      BY <1>17, <2>1, <2>4 DEF Refused, Sending, MayBecome, QuoteRefused, QuoteProof,
          ReceiptsBehind, StartInOrder, Open, Agree
    <3> QED  BY <2>2, <2>4, <3>1, ReceiptInvBecomes
  <2> QED  BY <1>17, <2>3, <2>4, RefusedEffect
<1>18. ASSUME NEW n \in Notes, AnswerLost(n) PROVE ReceiptInv'
  <2>1. /\ QuoteRefused(n) /\ ReceiptsBehind(n) /\ StartInOrder(n)
        /\ Agree(row[n].state, row[n].acked, flight[n].phase) /\ row[n].attempts \in Nat
    BY RowFields DEF ReceiptInv, RowInv, TypeOK
  <2>2. /\ Becomes(n, "unknown", row[n].attempts, row[n].acked, "other", "none")
        /\ source' = source /\ \A m \in Notes \ {n} : burnt'[m] = burnt[m]
    BY <1>18, AnswerLostEffect DEF AnswerLost, Sending
  <2>3. MayBecome(n, "unknown", row[n].attempts, "other", "none")
    BY <1>18, <2>1 DEF AnswerLost, Sending, MayBecome, QuoteRefused, QuoteProof,
        ReceiptsBehind, StartInOrder, Open, Agree
  <2> QED  BY <2>2, <2>3, ReceiptInvBecomes
<1>19. ASSUME NEW n \in Notes, Confirmed(n) PROVE ReceiptInv'
  <2>1. /\ QuoteRefused(n) /\ ReceiptsBehind(n) /\ StartInOrder(n)
        /\ Agree(row[n].state, row[n].acked, flight[n].phase) /\ row[n].attempts \in Nat
    BY RowFields DEF ReceiptInv, RowInv, TypeOK
  <2>2. source' = source /\ \A m \in Notes \ {n} : burnt'[m] = burnt[m]
    BY <1>19 DEF Confirmed
  <2>3. CASE Becomes(n, "delivered", row[n].attempts, row[n].acked, row[n].error, "none")
    <3>1. MayBecome(n, "delivered", row[n].attempts, row[n].error, "none")
      BY <1>19, <2>1, <2>3 DEF Confirmed, MayBecome, QuoteRefused, QuoteProof,
          ReceiptsBehind, StartInOrder, Open, Agree
    <3> QED  BY <2>2, <2>3, <3>1, ReceiptInvBecomes
  <2>4. CASE Becomes(n, "unknown", row[n].attempts, row[n].acked, row[n].error, "none")
    <3>1. MayBecome(n, "unknown", row[n].attempts, row[n].error, "none")
      BY <1>19, <2>1, <2>4 DEF Confirmed, MayBecome, QuoteRefused, QuoteProof,
          ReceiptsBehind, StartInOrder, Open, Agree
    <3> QED  BY <2>2, <2>4, <3>1, ReceiptInvBecomes
  <2>5. CASE Becomes(n, "unknown", row[n].attempts, row[n].acked, "other", "none")
    <3>1. MayBecome(n, "unknown", row[n].attempts, "other", "none")
      BY <1>19, <2>1, <2>5 DEF Confirmed, MayBecome, QuoteRefused, QuoteProof,
          ReceiptsBehind, StartInOrder, Open, Agree
    <3> QED  BY <2>2, <2>5, <3>1, ReceiptInvBecomes
  <2> QED  BY <1>19, <2>3, <2>4, <2>5, ConfirmedEffect
<1>20. ASSUME NEW n \in Notes, SourceChanges(n) PROVE ReceiptInv'
  BY <1>20, ReceiptInvUnchanged DEF SourceChanges
<1>21. ASSUME NEW n \in Notes, IntentChanges(n) PROVE ReceiptInv'
  BY <1>21, ReceiptInvUnchanged DEF IntentChanges
<1>22. ASSUME NEW n \in Notes, TakeEffect(n) PROVE ReceiptInv'
  BY <1>22, ReceiptInvUnchanged DEF TakeEffect
<1>23. ASSUME NEW n \in Notes, Vanish(n) PROVE ReceiptInv'
  BY <1>23, ReceiptInvUnchanged DEF Vanish
<1>24. CASE Crash
  <2>1. source' = source /\ burnt' = burnt
    BY <1>24 DEF Crash
  <2> QED  BY <1>24, <2>1, CrashEffect, ReceiptInvMarked DEF Open
<1> QED
  BY <1>0, <1>1, <1>2, <1>3, <1>4, <1>5, <1>6, <1>7, <1>8, <1>9, <1>10, <1>11, <1>12, <1>13,
      <1>14, <1>15, <1>16, <1>17, <1>18, <1>19, <1>20, <1>21, <1>22, <1>23, <1>24 DEF Next,
      Command, Answer, World

-----------------------------------------------------------------------------
(* What is in transit                                                          *)

(* A crash in the second attempt of a message the quote guard refused once     *)
(* leaves the refusal of the first on the row, where it is taken for one of    *)
(* the second.  The argument needs the host not to crash, or the guard not to  *)
(* refuse.                                                                     *)
Undisturbed == MaxCrashes = 0 \/ \A n \in Notes : Refusals[n] \subseteq {"invalid"}

\* Only the last attempt is with the transport or in the conversation, none
\* when the row says so, and a refusal on record is of the last attempt.
Transit(state, attempts, acked, error, onWire, inChat) ==
    /\ state \in {"starting", "unknown", "delivered"} => attempts > 0
    /\ state \in {"absent", "prepared", "failed", "superseded"} => onWire \cup inChat = {}
    /\ onWire \cup inChat \subseteq {attempts}
    /\ onWire \cap inChat = {}
    /\ acked => attempts \in inChat
    /\ state = "delivered" => acked
    /\ state = "unknown" /\ ~acked /\ error \in {"rejected", "unmarked"} => onWire \cup inChat = {}
    /\ state = "unknown" /\ ~acked /\ error = "invalid" /\ attempts = 1 => onWire \cup inChat = {}
    /\ attempts = 0 \/ (attempts = 1 /\ state = "starting") => error = "none"

TransitOf(n) ==
    Transit(row[n].state, row[n].attempts, row[n].acked, row[n].error, wire[n], posted[n])

SendInv == \A n \in Notes : TransitOf(n)

LEMMA SendInvInit == Init => SendInv
BY DEF Init, SendInv, TransitOf, Transit

LEMMA SendInvUnchanged ==
    ASSUME SendInv, row' = row, wire' = wire, posted' = posted PROVE SendInv'
BY DEF SendInv, TransitOf

LEMMA SendInvBecomes ==
    ASSUME TypeOK, SendInv, NEW n \in Notes,
           NEW state, NEW attempts, NEW acked, NEW error, NEW phase,
           Becomes(n, state, attempts, acked, error, phase),
           \A m \in Notes \ {n} : wire'[m] = wire[m] /\ posted'[m] = posted[m],
           Transit(state, attempts, acked, error, wire'[n], posted'[n])
    PROVE  SendInv'
<1>1. ASSUME NEW m \in Notes \ {n} PROVE TransitOf(m)'
  BY <1>1 DEF Becomes, SendInv, TransitOf
<1>2. TransitOf(n)'
  BY DEF Becomes, TransitOf
<1> QED  BY <1>1, <1>2 DEF SendInv

LEMMA SendInvMarked ==
    ASSUME TypeOK, SendInv, wire' = wire, posted' = posted, NEW S, NEW state, Marked(S, state),
           \A m \in Notes : m \in S =>
              Transit(state, row[m].attempts, row[m].acked, row[m].error, wire[m], posted[m])
    PROVE  SendInv'
<1>1. ASSUME NEW m \in Notes PROVE TransitOf(m)'
  BY <1>1 DEF Marked, SendInv, TransitOf
<1> QED  BY <1>1 DEF SendInv

LEMMA SendInvStep ==
    ASSUME Undisturbed, TypeOK, RowInv, ReceiptInv, SendInv, [Next]_vars
    PROVE  SendInv'
<1> USE OutboxAssumption
<1>0. CASE UNCHANGED vars
  BY <1>0, SendInvUnchanged DEF vars, Init
<1>1. ASSUME NEW n \in Notes, Prepare(n) PROVE SendInv'
  <2>1. \A m \in Parts(n) : m \in Notes /\ row[m].state = "absent"
    BY <1>1, OutboxAssumption DEF Prepare, Parts, RowInv, PreparedTogether
  <2>2. wire' = wire /\ posted' = posted
    BY <1>1 DEF Prepare
  <2>3. \A m \in Notes : m \in Parts(n) =>
           Transit("prepared", row[m].attempts, row[m].acked, row[m].error, wire[m], posted[m])
    BY <2>1 DEF SendInv, TransitOf, Transit
  <2> QED  BY <1>1, <2>2, <2>3, PrepareEffect, SendInvMarked
<1>2. ASSUME NEW n \in Notes, RouterRetire(n) PROVE SendInv'
  <2>1. \A m \in Notes : m \in Parts(n) =>
           Transit("superseded", row[m].attempts, row[m].acked, row[m].error, wire[m], posted[m])
    BY <1>2 DEF RouterRetire, Unsent, SendInv, TransitOf, Transit
  <2>2. wire' = wire /\ posted' = posted
    BY <1>2 DEF RouterRetire
  <2> QED  BY <1>2, <2>1, <2>2, RouterRetireEffect, SendInvMarked
<1>3. ASSUME NEW n \in Notes, RetireUnsent(n) PROVE SendInv'
  <2>1. /\ TransitOf(n) /\ QuoteRefused(n)
        /\ Agree(row[n].state, row[n].acked, flight[n].phase)
        /\ row[n].attempts \in Nat /\ row[n].acked \in BOOLEAN
    BY RowFields DEF SendInv, ReceiptInv, RowInv, TypeOK
  <2>2. /\ Becomes(n, row[n].state, row[n].attempts, row[n].acked, "closed", flight[n].phase)
        /\ \A m \in Notes \ {n} : wire'[m] = wire[m] /\ posted'[m] = posted[m]
    BY <1>3, RetireUnsentEffect DEF RetireUnsent, Retryable
  <2>3. Transit(row[n].state, row[n].attempts, row[n].acked, "closed", wire'[n], posted'[n])
    BY <1>3, <2>1 DEF RetireUnsent, Retryable, TransitOf, Transit, Agree
  <2> QED  BY <2>2, <2>3, SendInvBecomes
<1>4. ASSUME NEW n \in Notes, ScanSend(n) PROVE SendInv'
  <2>1. /\ TransitOf(n) /\ QuoteRefused(n)
        /\ Agree(row[n].state, row[n].acked, flight[n].phase)
        /\ row[n].attempts \in Nat /\ row[n].acked \in BOOLEAN
    BY RowFields DEF SendInv, ReceiptInv, RowInv, TypeOK
  <2>2. /\ Becomes(n, row[n].state, row[n].attempts, row[n].acked, row[n].error, "enter")
        /\ \A m \in Notes \ {n} : wire'[m] = wire[m] /\ posted'[m] = posted[m]
    BY <1>4, EnterEffect DEF ScanSend, Enter, Retryable
  <2>3. Transit(row[n].state, row[n].attempts, row[n].acked, row[n].error, wire'[n], posted'[n])
    BY <1>4, <2>1 DEF ScanSend, Enter, Retryable, TransitOf, Transit, Agree
  <2> QED  BY <2>2, <2>3, SendInvBecomes
<1>5. ASSUME NEW n \in Notes, ScanRead(n) PROVE SendInv'
  <2>1. /\ TransitOf(n) /\ QuoteRefused(n)
        /\ Agree(row[n].state, row[n].acked, flight[n].phase)
        /\ row[n].attempts \in Nat /\ row[n].acked \in BOOLEAN
    BY RowFields DEF SendInv, ReceiptInv, RowInv, TypeOK
  <2>2. /\ Becomes(n, row[n].state, row[n].attempts, row[n].acked, row[n].error, "enter")
        /\ \A m \in Notes \ {n} : wire'[m] = wire[m] /\ posted'[m] = posted[m]
    BY <1>5, EnterEffect DEF ScanRead, Enter
  <2>3. Transit(row[n].state, row[n].attempts, row[n].acked, row[n].error, wire'[n], posted'[n])
    BY <1>5, <2>1 DEF ScanRead, Enter, TransitOf, Transit, Agree
  <2> QED  BY <2>2, <2>3, SendInvBecomes
<1>6. ASSUME NEW n \in Notes, ManualRetry(n) PROVE SendInv'
  <2>1. /\ TransitOf(n) /\ QuoteRefused(n)
        /\ Agree(row[n].state, row[n].acked, flight[n].phase)
        /\ row[n].attempts \in Nat /\ row[n].acked \in BOOLEAN
    BY RowFields DEF SendInv, ReceiptInv, RowInv, TypeOK
  <2>2. /\ Becomes(n, row[n].state, row[n].attempts, row[n].acked, row[n].error, "enter")
        /\ \A m \in Notes \ {n} : wire'[m] = wire[m] /\ posted'[m] = posted[m]
    BY <1>6, EnterEffect DEF ManualRetry, Enter, Retryable
  <2>3. Transit(row[n].state, row[n].attempts, row[n].acked, row[n].error, wire'[n], posted'[n])
    BY <1>6, <2>1 DEF ManualRetry, Enter, Retryable, TransitOf, Transit, Agree
  <2> QED  BY <2>2, <2>3, SendInvBecomes
<1>7. ASSUME NEW n \in Notes, SettleInvalid(n) PROVE SendInv'
  <2>1. /\ TransitOf(n) /\ QuoteRefused(n)
        /\ Agree(row[n].state, row[n].acked, flight[n].phase)
        /\ row[n].attempts \in Nat /\ row[n].acked \in BOOLEAN
    BY RowFields DEF SendInv, ReceiptInv, RowInv, TypeOK
  <2>2. /\ Becomes(n, "failed", row[n].attempts, row[n].acked, "closed", "none")
        /\ \A m \in Notes \ {n} : wire'[m] = wire[m] /\ posted'[m] = posted[m]
    BY <1>7, SettleInvalidEffect DEF SettleInvalid, Entered, InvalidProof
  <2>3. Transit("failed", row[n].attempts, row[n].acked, "closed", wire'[n], posted'[n])
    BY <1>7, <2>1 DEF SettleInvalid, Entered, InvalidProof, TransitOf, Transit, Agree
  <2> QED  BY <2>2, <2>3, SendInvBecomes
<1>8. ASSUME NEW n \in Notes, RejectBeforeSend(n) PROVE SendInv'
  <2>1. /\ TransitOf(n) /\ QuoteRefused(n)
        /\ Agree(row[n].state, row[n].acked, flight[n].phase)
        /\ row[n].attempts \in Nat /\ row[n].acked \in BOOLEAN
    BY RowFields DEF SendInv, ReceiptInv, RowInv, TypeOK
  <2>2. /\ Becomes(n, "failed", row[n].attempts, row[n].acked, "rejected", "none")
        /\ \A m \in Notes \ {n} : wire'[m] = wire[m] /\ posted'[m] = posted[m]
    BY <1>8, RejectBeforeSendEffect DEF RejectBeforeSend, RejectApplies, Entered, QuoteProof
  <2>3. Transit("failed", row[n].attempts, row[n].acked, "rejected", wire'[n], posted'[n])
    BY <1>8, <2>1 DEF RejectBeforeSend, RejectApplies, Entered, QuoteProof, TransitOf,
        Transit, Agree
  <2> QED  BY <2>2, <2>3, SendInvBecomes
<1>9. ASSUME NEW n \in Notes, Retry(n) PROVE SendInv'
  <2>1. /\ TransitOf(n) /\ QuoteRefused(n)
        /\ Agree(row[n].state, row[n].acked, flight[n].phase)
        /\ row[n].attempts \in Nat /\ row[n].acked \in BOOLEAN
    BY RowFields DEF SendInv, ReceiptInv, RowInv, TypeOK
  <2>2. \A m \in Notes \ {n} : wire'[m] = wire[m] /\ posted'[m] = posted[m]
    BY <1>9 DEF Retry
  <2>3. CASE Retryable(n) /\ Becomes(n, "prepared", row[n].attempts, row[n].acked, row[n].error, flight[n].phase)
    <3>1. Transit("prepared", row[n].attempts, row[n].acked, row[n].error, wire'[n], posted'[n])
      BY <1>9, <2>1, <2>3 DEF Retry, Entered, Retryable, TransitOf, Transit, Agree
    <3> QED  BY <2>2, <2>3, <3>1, SendInvBecomes
  <2>4. CASE Becomes(n, row[n].state, row[n].attempts, row[n].acked, row[n].error, "none")
    <3>1. Transit(row[n].state, row[n].attempts, row[n].acked, row[n].error, wire'[n], posted'[n])
      BY <1>9, <2>1, <2>4 DEF Retry, Entered, Retryable, TransitOf, Transit, Agree
    <3> QED  BY <2>2, <2>4, <3>1, SendInvBecomes
  <2> QED  BY <1>9, <2>3, <2>4, RetryEffect
<1>10. ASSUME NEW n \in Notes, ReadbackFinds(n) PROVE SendInv'
  <2>1. /\ TransitOf(n) /\ QuoteRefused(n)
        /\ Agree(row[n].state, row[n].acked, flight[n].phase)
        /\ row[n].attempts \in Nat /\ row[n].acked \in BOOLEAN
    BY RowFields DEF SendInv, ReceiptInv, RowInv, TypeOK
  <2>2. /\ Becomes(n, "delivered", row[n].attempts, TRUE, row[n].error, "none")
        /\ \A m \in Notes \ {n} : wire'[m] = wire[m] /\ posted'[m] = posted[m]
    BY <1>10, ReadbackFindsEffect DEF ReadbackFinds, CanRead, Entered
  <2>3. Transit("delivered", row[n].attempts, TRUE, row[n].error, wire'[n], posted'[n])
    BY <1>10, <2>1 DEF ReadbackFinds, CanRead, Entered, TransitOf, Transit, Agree
  <2> QED  BY <2>2, <2>3, SendInvBecomes
<1>11. ASSUME NEW n \in Notes, ReadbackMisses(n) PROVE SendInv'
  <2>1. /\ TransitOf(n) /\ QuoteRefused(n)
        /\ Agree(row[n].state, row[n].acked, flight[n].phase)
        /\ row[n].attempts \in Nat /\ row[n].acked \in BOOLEAN
    BY RowFields DEF SendInv, ReceiptInv, RowInv, TypeOK
  <2>2. /\ Becomes(n, row[n].state, row[n].attempts, row[n].acked, row[n].error, "none")
        /\ \A m \in Notes \ {n} : wire'[m] = wire[m] /\ posted'[m] = posted[m]
    BY <1>11, LeaveEffect DEF ReadbackMisses, CanRead, Entered
  <2>3. Transit(row[n].state, row[n].attempts, row[n].acked, row[n].error, wire'[n], posted'[n])
    BY <1>11, <2>1 DEF ReadbackMisses, CanRead, Entered, TransitOf, Transit, Agree
  <2> QED  BY <2>2, <2>3, SendInvBecomes
<1>12. ASSUME NEW n \in Notes, StartHeld(n) PROVE SendInv'
  <2>1. wire' = wire /\ posted' = posted
    BY <1>12 DEF StartHeld
  <2>2. CASE Marked(Parts(n), "superseded") /\ \A m \in Parts(n) : Unsent(m)
    <3>1. \A m \in Notes : m \in Parts(n) =>
             Transit("superseded", row[m].attempts, row[m].acked, row[m].error, wire[m], posted[m])
      BY <2>2 DEF Unsent, SendInv, TransitOf, Transit
    <3> QED  BY <2>1, <2>2, <3>1, SendInvMarked
  <2>3. CASE Marked({}, "superseded")
    BY <2>1, <2>3, SendInvMarked
  <2> QED  BY <1>12, <2>2, <2>3, StartHeldEffect
<1>13. ASSUME NEW n \in Notes, StartNothing(n) PROVE SendInv'
  <2>1. /\ TransitOf(n) /\ QuoteRefused(n)
        /\ Agree(row[n].state, row[n].acked, flight[n].phase)
        /\ row[n].attempts \in Nat /\ row[n].acked \in BOOLEAN
    BY RowFields DEF SendInv, ReceiptInv, RowInv, TypeOK
  <2>2. /\ Becomes(n, row[n].state, row[n].attempts, row[n].acked, row[n].error, "none")
        /\ \A m \in Notes \ {n} : wire'[m] = wire[m] /\ posted'[m] = posted[m]
    BY <1>13, LeaveEffect DEF StartNothing, CanStart, Entered
  <2>3. Transit(row[n].state, row[n].attempts, row[n].acked, row[n].error, wire'[n], posted'[n])
    BY <1>13, <2>1 DEF StartNothing, CanStart, Entered, TransitOf, Transit, Agree
  <2> QED  BY <2>2, <2>3, SendInvBecomes
<1>14. ASSUME NEW n \in Notes, StartSuperseded(n) PROVE SendInv'
  <2>1. wire' = wire /\ posted' = posted /\ row[n].state = "prepared"
    BY <1>14 DEF StartSuperseded, NothingToStart, CanStart
  <2>2. PICK S : /\ n \in S
                 /\ \A m \in S \ {n} : Unsent(m)
                 /\ Marked(S, "superseded") \/ Marked(S, "failed")
    BY <1>14, StartSupersededEffect
  <2>3. \A m \in S : row[m].state = "prepared"
    BY <2>1, <2>2 DEF Unsent
  <2>4. ASSUME NEW s \in {"superseded", "failed"}, Marked(S, s) PROVE SendInv'
    <3>1. \A m \in Notes : m \in S =>
             Transit(s, row[m].attempts, row[m].acked, row[m].error, wire[m], posted[m])
      BY <2>3 DEF SendInv, TransitOf, Transit
    <3> QED  BY <2>1, <2>4, <3>1, SendInvMarked
  <2> QED  BY <2>2, <2>4
<1>15. ASSUME NEW n \in Notes, Start(n) PROVE SendInv'
  <2>1. /\ TransitOf(n) /\ QuoteRefused(n)
        /\ Agree(row[n].state, row[n].acked, flight[n].phase)
        /\ row[n].attempts \in Nat /\ row[n].acked \in BOOLEAN
    BY RowFields DEF SendInv, ReceiptInv, RowInv, TypeOK
  <2>2. /\ Becomes(n, "starting", row[n].attempts + 1, row[n].acked, row[n].error, "sending")
        /\ \A m \in Notes \ {n} : wire'[m] = wire[m] /\ posted'[m] = posted[m]
    BY <1>15, StartEffect DEF Start, NothingToStart, CanStart, Entered, TypeOK
  <2>3. Transit("starting", row[n].attempts + 1, row[n].acked, row[n].error, wire'[n], posted'[n])
    BY <1>15, <2>1 DEF Start, NothingToStart, CanStart, Entered, TypeOK, TransitOf, Transit,
        Agree
  <2> QED  BY <2>2, <2>3, SendInvBecomes
<1>16. ASSUME NEW n \in Notes, Acknowledged(n) PROVE SendInv'
  <2>1. /\ TransitOf(n) /\ QuoteRefused(n)
        /\ Agree(row[n].state, row[n].acked, flight[n].phase)
        /\ row[n].attempts \in Nat /\ row[n].acked \in BOOLEAN
    BY RowFields DEF SendInv, ReceiptInv, RowInv, TypeOK
  <2>2. \A m \in Notes \ {n} : wire'[m] = wire[m] /\ posted'[m] = posted[m]
    BY <1>16 DEF Acknowledged
  <2>3. CASE Becomes(n, row[n].state, row[n].attempts, TRUE, row[n].error, "confirming")
    <3>1. Transit(row[n].state, row[n].attempts, TRUE, row[n].error, wire'[n], posted'[n])
      BY <1>16, <2>1, <2>3 DEF Acknowledged, Sending, TransitOf, Transit, Agree
    <3> QED  BY <2>2, <2>3, <3>1, SendInvBecomes
  <2>4. CASE Becomes(n, row[n].state, row[n].attempts, TRUE, row[n].error, "none")
    <3>1. Transit(row[n].state, row[n].attempts, TRUE, row[n].error, wire'[n], posted'[n])
      BY <1>16, <2>1, <2>4 DEF Acknowledged, Sending, TransitOf, Transit, Agree
    <3> QED  BY <2>2, <2>4, <3>1, SendInvBecomes
  <2> QED  BY <1>16, <2>3, <2>4, AcknowledgedEffect
<1>17. ASSUME NEW n \in Notes, Refused(n) PROVE SendInv'
  <2>1. /\ TransitOf(n) /\ QuoteRefused(n)
        /\ Agree(row[n].state, row[n].acked, flight[n].phase)
        /\ row[n].attempts \in Nat /\ row[n].acked \in BOOLEAN
    BY RowFields DEF SendInv, ReceiptInv, RowInv, TypeOK
  <2>2. /\ \A m \in Notes \ {n} : wire'[m] = wire[m] /\ posted'[m] = posted[m]
        /\ wire'[n] = wire[n] /\ posted'[n] = posted[n] /\ wire[n] \cup posted[n] = {}
    BY <1>17, <2>1 DEF Refused, TransitOf, Transit, Agree
  <2>3. CASE Becomes(n, "failed", row[n].attempts, row[n].acked, "rejected", "none")
    <3>1. Transit("failed", row[n].attempts, row[n].acked, "rejected", wire'[n], posted'[n])
      BY <1>17, <2>1, <2>2 DEF Refused, Sending, TransitOf, Transit, Agree
    <3> QED  BY <2>2, <2>3, <3>1, SendInvBecomes
  <2>4. ASSUME NEW r \in Refusals[n] \ {"marked"}, Becomes(n, "unknown", row[n].attempts, row[n].acked, r, "none")
        PROVE  SendInv'
    <3>1. Transit("unknown", row[n].attempts, row[n].acked, r, wire'[n], posted'[n])
      BY <1>17, <2>1, <2>2 DEF Refused, Sending, TransitOf, Transit, Agree
    <3> QED  BY <2>2, <2>4, <3>1, SendInvBecomes
  <2> QED  BY <1>17, <2>3, <2>4, RefusedEffect
<1>18. ASSUME NEW n \in Notes, AnswerLost(n) PROVE SendInv'
  <2>1. /\ TransitOf(n) /\ QuoteRefused(n)
        /\ Agree(row[n].state, row[n].acked, flight[n].phase)
        /\ row[n].attempts \in Nat /\ row[n].acked \in BOOLEAN
    BY RowFields DEF SendInv, ReceiptInv, RowInv, TypeOK
  <2>2. /\ Becomes(n, "unknown", row[n].attempts, row[n].acked, "other", "none")
        /\ \A m \in Notes \ {n} : wire'[m] = wire[m] /\ posted'[m] = posted[m]
    BY <1>18, AnswerLostEffect DEF AnswerLost, Sending
  <2>3. Transit("unknown", row[n].attempts, row[n].acked, "other", wire'[n], posted'[n])
    BY <1>18, <2>1 DEF AnswerLost, Sending, TransitOf, Transit, Agree
  <2> QED  BY <2>2, <2>3, SendInvBecomes
<1>19. ASSUME NEW n \in Notes, Confirmed(n) PROVE SendInv'
  <2>1. /\ TransitOf(n) /\ QuoteRefused(n)
        /\ Agree(row[n].state, row[n].acked, flight[n].phase)
        /\ row[n].attempts \in Nat /\ row[n].acked \in BOOLEAN
    BY RowFields DEF SendInv, ReceiptInv, RowInv, TypeOK
  <2>2. \A m \in Notes \ {n} : wire'[m] = wire[m] /\ posted'[m] = posted[m]
    BY <1>19 DEF Confirmed
  <2>3. CASE Becomes(n, "delivered", row[n].attempts, row[n].acked, row[n].error, "none")
    <3>1. Transit("delivered", row[n].attempts, row[n].acked, row[n].error, wire'[n], posted'[n])
      BY <1>19, <2>1, <2>3 DEF Confirmed, TransitOf, Transit, Agree
    <3> QED  BY <2>2, <2>3, <3>1, SendInvBecomes
  <2>4. CASE Becomes(n, "unknown", row[n].attempts, row[n].acked, row[n].error, "none")
    <3>1. Transit("unknown", row[n].attempts, row[n].acked, row[n].error, wire'[n], posted'[n])
      BY <1>19, <2>1, <2>4 DEF Confirmed, TransitOf, Transit, Agree
    <3> QED  BY <2>2, <2>4, <3>1, SendInvBecomes
  <2>5. CASE Becomes(n, "unknown", row[n].attempts, row[n].acked, "other", "none")
    <3>1. Transit("unknown", row[n].attempts, row[n].acked, "other", wire'[n], posted'[n])
      BY <1>19, <2>1, <2>5 DEF Confirmed, TransitOf, Transit, Agree
    <3> QED  BY <2>2, <2>5, <3>1, SendInvBecomes
  <2> QED  BY <1>19, <2>3, <2>4, <2>5, ConfirmedEffect
<1>20. ASSUME NEW n \in Notes, SourceChanges(n) PROVE SendInv'
  BY <1>20, SendInvUnchanged DEF SourceChanges
<1>21. ASSUME NEW n \in Notes, IntentChanges(n) PROVE SendInv'
  BY <1>21, SendInvUnchanged DEF IntentChanges
<1>22. ASSUME NEW n \in Notes, TakeEffect(n) PROVE SendInv'
  <2>1. PICK k \in wire[n] : /\ wire' = [wire EXCEPT ![n] = wire[n] \ {k}]
                             /\ posted' = [posted EXCEPT ![n] = posted[n] \cup {k}]
    BY <1>22 DEF TakeEffect
  <2>2. ASSUME NEW m \in Notes PROVE TransitOf(m)'
    BY <1>22, <2>1, <2>2 DEF TakeEffect, SendInv, TransitOf, Transit, TypeOK
  <2> QED  BY <2>2 DEF SendInv
<1>23. ASSUME NEW n \in Notes, Vanish(n) PROVE SendInv'
  <2>1. PICK k \in wire[n] : wire' = [wire EXCEPT ![n] = wire[n] \ {k}]
    BY <1>23 DEF Vanish
  <2>2. ASSUME NEW m \in Notes PROVE TransitOf(m)'
    BY <1>23, <2>1, <2>2 DEF Vanish, SendInv, TransitOf, Transit, TypeOK
  <2> QED  BY <2>2 DEF SendInv
<1>24. CASE Crash
  <2>1. wire' = wire /\ posted' = posted
    BY <1>24 DEF Crash
  <2>2. ASSUME NEW m \in Notes PROVE row[m].error \notin {"rejected", "unmarked"}
    <3>1. MaxCrashes # 0
      BY <1>24 DEF Crash, TypeOK
    <3> QED  BY <2>2, <3>1 DEF Undisturbed, ReceiptInv, QuoteRefused, QuoteProof
  <2>3. \A m \in Notes : row[m].state = "starting" =>
           Transit("unknown", row[m].attempts, row[m].acked, row[m].error, wire[m], posted[m])
    BY <2>2 DEF SendInv, TransitOf, Transit
  <2> QED  BY <1>24, <2>1, <2>3, CrashEffect, SendInvMarked
<1> QED
  BY <1>0, <1>1, <1>2, <1>3, <1>4, <1>5, <1>6, <1>7, <1>8, <1>9, <1>10, <1>11, <1>12, <1>13,
      <1>14, <1>15, <1>16, <1>17, <1>18, <1>19, <1>20, <1>21, <1>22, <1>23, <1>24 DEF Next,
      Command, Answer, World

-----------------------------------------------------------------------------
(* The outbox implements the sender                                            *)

\* what is with the transport or in the conversation comes after its predecessor
InOrder(n) == wire[n] \cup posted[n] # {} => PredecessorDelivered(n)

OrderInv == \A n \in Notes : InOrder(n)

LEMMA OrderInvInit == Init => OrderInv
BY DEF Init, OrderInv, InOrder

\* only these touch what is with the transport or in the conversation
LEMMA TransitSteps ==
    ASSUME [Next]_vars
    PROVE  \/ wire' = wire /\ posted' = posted
           \/ \E n \in Notes : Start(n) \/ TakeEffect(n) \/ Vanish(n)
BY ZenonT(30) DEF Next, vars, Command, Answer, World, Prepare, RouterRetire, RetireUnsent, ScanSend,
    ScanRead, 
    ManualRetry, Enter, SettleInvalid, RejectBeforeSend, Retry, ReadbackFinds, ReadbackMisses,
    StartHeld, StartNothing, StartSuperseded, Acknowledged, Refused, AnswerLost, Confirmed,
    SourceChanges, IntentChanges, Crash

LEMMA OrderInvStep == TypeOK /\ RowInv /\ OrderInv /\ [Next]_vars => OrderInv'
<1> SUFFICES ASSUME TypeOK, RowInv, OrderInv, [Next]_vars, NEW m \in Notes PROVE InOrder(m)'
  BY DEF OrderInv
<1> USE OutboxAssumption
<1>1. PredecessorDelivered(m) => PredecessorDelivered(m)'
  BY DeliveredStep DEF PredecessorDelivered, DeliveredStays
<1>2. wire[m] \cup posted[m] # {} => PredecessorDelivered(m)
  BY DEF OrderInv, InOrder
<1>3. CASE Start(m)
  <2>1. PredecessorDelivered(m)
    BY <1>3 DEF Start, NothingToStart
  <2> QED  BY <1>1, <2>1 DEF InOrder
<1>4. CASE ~Start(m)
  <2>1. CASE wire' = wire /\ posted' = posted
    BY <1>1, <1>2, <2>1 DEF InOrder
  <2>2. ASSUME NEW n \in Notes, Start(n) PROVE wire'[m] = wire[m] /\ posted'[m] = posted[m]
    BY <1>4, <2>2 DEF Start, TypeOK
  <2>3. ASSUME NEW n \in Notes, TakeEffect(n) \/ Vanish(n)
        PROVE  wire'[m] \cup posted'[m] \subseteq wire[m] \cup posted[m]
    BY <2>3 DEF TakeEffect, Vanish, TypeOK
  <2> QED  BY <1>1, <1>2, <2>1, <2>2, <2>3, TransitSteps DEF InOrder
<1> QED  BY <1>3, <1>4

FateOf(state, error) ==
    CASE state \in {"absent", "delivered"} -> state
      [] state = "superseded" \/ (state = "failed" /\ error # "rejected") -> "withdrawn"
      [] OTHER -> "open"

LEMMA FateFields ==
    ASSUME NEW n \in Notes
    PROVE  /\ Fate[n] = FateOf(row[n].state, row[n].error)
           /\ Fate'[n] = FateOf(row'[n].state, row'[n].error)
BY DEF Fate, FateOf, Dropped, Retryable

SenderStep == Sender!Next \/ UNCHANGED <<Fate, Copies>>

\* the fate of the notifications outside S stays
FateKept(S) ==
    \A m \in Notes : m \notin S => FateOf(row'[m].state, row'[m].error) = FateOf(row[m].state, row[m].error)

LEMMA SenderStutter ==
    ASSUME posted' = posted, FateKept({}) PROVE SenderStep
<1>1. Fate' = Fate
  BY FateFields DEF FateKept, Fate
<1>2. Copies' = Copies
  BY DEF Copies
<1> QED  BY <1>1, <1>2 DEF SenderStep

LEMMA SenderWithdraw ==
    ASSUME posted' = posted, NEW S \in SUBSET Notes, FateKept(S),
           \A m \in S : /\ FateOf(row[m].state, row[m].error) = "open"
                        /\ posted[m] = {}
                        /\ FateOf(row'[m].state, row'[m].error) = "withdrawn"
    PROVE  SenderStep
<1>1. Fate' = [m \in Notes |-> IF m \in S THEN "withdrawn" ELSE Fate[m]]
  BY FateFields DEF FateKept, Fate
<1>2. Copies' = Copies
  BY DEF Copies
<1>3. \A m \in S : Fate[m] = "open" /\ Copies[m] = 0
  BY FateFields, FS_EmptySet DEF Copies
<1> QED  BY <1>1, <1>2, <1>3 DEF SenderStep, Sender!Next, Sender!Withdraw

LEMMA SenderAccept ==
    ASSUME posted' = posted, NEW S \in SUBSET Notes, FateKept(S),
           \A m \in S : /\ FateOf(row[m].state, row[m].error) = "absent"
                        /\ FateOf(row'[m].state, row'[m].error) = "open"
    PROVE  SenderStep
<1>1. Fate' = [m \in Notes |-> IF m \in S THEN "open" ELSE Fate[m]]
  BY FateFields DEF FateKept, Fate
<1>2. Copies' = Copies
  BY DEF Copies
<1>3. \A m \in S : Fate[m] = "absent"
  BY FateFields
<1> QED  BY <1>1, <1>2, <1>3 DEF SenderStep, Sender!Next, Sender!Accept

LEMMA SenderConfirm ==
    ASSUME posted' = posted, NEW n \in Notes, FateKept({n}), NEW k, posted[n] = {k},
           FateOf(row[n].state, row[n].error) = "open",
           FateOf(row'[n].state, row'[n].error) = "delivered"
    PROVE  SenderStep
<1>1. Fate' = [Fate EXCEPT ![n] = "delivered"]
  <2>1. Fate = [m \in Notes |-> Fate[m]] /\ Fate' = [m \in Notes |-> Fate'[m]]
    BY DEF Fate
  <2>2. \A m \in Notes : Fate'[m] = IF m = n THEN "delivered" ELSE Fate[m]
    BY FateFields DEF FateKept
  <2> QED  BY <2>1, <2>2
<1>2. Copies' = Copies
  BY DEF Copies
<1>3. Copies[n] = 1
  BY FS_Singleton DEF Copies
<1>4. Fate[n] = "open"
  BY FateFields
<1> QED  BY <1>1, <1>2, <1>3, <1>4 DEF SenderStep, Sender!Next, Sender!Confirm

LEMMA SenderAppear ==
    ASSUME row' = row, NEW n \in Notes, NEW k, posted[n] = {}, posted' = [posted EXCEPT ![n] = {k}],
           posted \in [Notes -> SUBSET (1 .. MaxAttempts)],
           FateOf(row[n].state, row[n].error) = "open", PredecessorDelivered(n)
    PROVE  SenderStep
<1>1. Fate' = Fate
  BY FateFields DEF Fate
<1>2. Copies' = [Copies EXCEPT ![n] = 1]
  BY FS_Singleton DEF Copies
<1>3. Copies[n] = 0
  BY FS_EmptySet DEF Copies
<1>4. Fate[n] = "open"
  BY FateFields
<1>5. After[n] # None => Fate[After[n]] = "delivered"
  BY FateFields, OutboxAssumption DEF PredecessorDelivered, FateOf
<1> QED  BY <1>1, <1>2, <1>3, <1>4, <1>5 DEF SenderStep, Sender!Next, Sender!Appear

LEMMA SenderWithdrawUnsent ==
    ASSUME SendInv, posted' = posted, NEW S \in SUBSET Notes, NEW state, Marked(S, state),
           \A m \in S : row[m].state = "prepared",
           state = "superseded" \/ (state = "failed" /\ \A m \in S : row[m].error # "rejected")
    PROVE  SenderStep
<1>1. FateKept(S)
  BY DEF Marked, FateKept
<1>2. ASSUME NEW m \in S
      PROVE  /\ FateOf(row[m].state, row[m].error) = "open"
             /\ posted[m] = {}
             /\ FateOf(row'[m].state, row'[m].error) = "withdrawn"
  BY <1>2 DEF Marked, FateOf, SendInv, TransitOf, Transit
<1> QED  BY <1>1, <1>2, SenderWithdraw

LEMMA SenderSteps ==
    ASSUME TypeOK, RowInv, ReceiptInv, SendInv, OrderInv, [Next]_vars
    PROVE  SenderStep
<1>0. CASE UNCHANGED vars
  BY <1>0, SenderStutter DEF vars, FateKept
<1>1. ASSUME NEW n \in Notes, Prepare(n) PROVE SenderStep
  <2>1. posted' = posted /\ Marked(Parts(n), "prepared")
    BY <1>1, PrepareEffect DEF Prepare
  <2>2. \A m \in Parts(n) : m \in Notes /\ row[m].state = "absent"
    BY <1>1, OutboxAssumption DEF Prepare, Parts, RowInv, PreparedTogether
  <2>3. Parts(n) \in SUBSET Notes /\ FateKept(Parts(n))
    BY <2>1 DEF Parts, Marked, FateKept
  <2>4. \A m \in Parts(n) : /\ FateOf(row[m].state, row[m].error) = "absent"
                            /\ FateOf(row'[m].state, row'[m].error) = "open"
    BY <2>1, <2>2 DEF Marked, FateOf
  <2> QED  BY <2>1, <2>3, <2>4, SenderAccept
<1>2. ASSUME NEW n \in Notes, RouterRetire(n) PROVE SenderStep
  <2>1. posted' = posted /\ Parts(n) \in SUBSET Notes /\ Marked(Parts(n), "superseded")
    BY <1>2, RouterRetireEffect DEF RouterRetire, Parts
  <2> QED  BY <1>2, <2>1, SenderWithdrawUnsent DEF RouterRetire, Unsent
<1>3. ASSUME NEW n \in Notes, RetireUnsent(n) PROVE SenderStep
  <2>1. posted' = posted /\ Becomes(n, row[n].state, row[n].attempts, row[n].acked, "closed", flight[n].phase)
    BY <1>3, RetireUnsentEffect DEF RetireUnsent
  <2>2. FateOf(row[n].state, row[n].error) = "open" /\ posted[n] = {}
    BY <1>3 DEF RetireUnsent, Retryable, FateOf, SendInv, TransitOf, Transit
  <2>3. FateKept({n}) /\ FateOf(row'[n].state, row'[n].error) = "withdrawn"
    BY <1>3, <2>1 DEF RetireUnsent, Retryable, Becomes, FateKept, FateOf
  <2> QED  BY <2>1, <2>2, <2>3, SenderWithdraw
<1>4. ASSUME NEW n \in Notes, ScanSend(n) PROVE SenderStep
  <2>1. posted' = posted
    BY <1>4 DEF ScanSend, Enter
  <2>2. FateKept({})
    BY <1>4, EnterEffect DEF Becomes, FateKept
  <2> QED  BY <2>1, <2>2, SenderStutter
<1>5. ASSUME NEW n \in Notes, ScanRead(n) PROVE SenderStep
  <2>1. posted' = posted
    BY <1>5 DEF ScanRead, Enter
  <2>2. FateKept({})
    BY <1>5, EnterEffect DEF Becomes, FateKept
  <2> QED  BY <2>1, <2>2, SenderStutter
<1>6. ASSUME NEW n \in Notes, ManualRetry(n) PROVE SenderStep
  <2>1. posted' = posted
    BY <1>6 DEF ManualRetry, Enter
  <2>2. FateKept({})
    BY <1>6, EnterEffect DEF Becomes, FateKept
  <2> QED  BY <2>1, <2>2, SenderStutter
<1>7. ASSUME NEW n \in Notes, SettleInvalid(n) PROVE SenderStep
  <2>1. posted' = posted /\ Becomes(n, "failed", row[n].attempts, row[n].acked, "closed", "none")
    BY <1>7, SettleInvalidEffect DEF SettleInvalid
  <2>2. FateOf(row[n].state, row[n].error) = "open" /\ posted[n] = {}
    BY <1>7 DEF SettleInvalid, InvalidProof, FateOf, SendInv, TransitOf, Transit
  <2>3. FateKept({n}) /\ FateOf(row'[n].state, row'[n].error) = "withdrawn"
    BY <1>7, <2>1 DEF SettleInvalid, Becomes, FateKept, FateOf
  <2> QED  BY <2>1, <2>2, <2>3, SenderWithdraw
<1>8. ASSUME NEW n \in Notes, RejectBeforeSend(n) PROVE SenderStep
  <2>1. posted' = posted
    BY <1>8 DEF RejectBeforeSend
  <2>2. FateKept({})
    BY <1>8, RejectBeforeSendEffect, ZenonT(30) DEF RejectBeforeSend, RejectApplies, Becomes, FateKept,
        FateOf
  <2> QED  BY <2>1, <2>2, SenderStutter
<1>9. ASSUME NEW n \in Notes, Retry(n) PROVE SenderStep
  <2>1. posted' = posted
    BY <1>9 DEF Retry
  <2>2. FateKept({})
    BY <1>9, RetryEffect DEF Retryable, Becomes, FateKept, FateOf
  <2> QED  BY <2>1, <2>2, SenderStutter
<1>10. ASSUME NEW n \in Notes, ReadbackFinds(n) PROVE SenderStep
  <2>1. posted' = posted /\ Becomes(n, "delivered", row[n].attempts, TRUE, row[n].error, "none")
    BY <1>10, ReadbackFindsEffect DEF ReadbackFinds
  <2>2. posted[n] = {row[n].attempts}
    BY <1>10 DEF ReadbackFinds, SendInv, TransitOf, Transit
  <2>3. /\ FateKept({n}) /\ FateOf(row[n].state, row[n].error) = "open"
        /\ FateOf(row'[n].state, row'[n].error) = "delivered"
    BY <1>10, <2>1 DEF ReadbackFinds, CanRead, Becomes, FateKept, FateOf
  <2> QED  BY <2>1, <2>2, <2>3, SenderConfirm
<1>11. ASSUME NEW n \in Notes, ReadbackMisses(n) PROVE SenderStep
  <2>1. posted' = posted
    BY <1>11 DEF ReadbackMisses
  <2>2. FateKept({})
    BY <1>11, LeaveEffect DEF Becomes, FateKept
  <2> QED  BY <2>1, <2>2, SenderStutter
<1>12. ASSUME NEW n \in Notes, StartHeld(n) PROVE SenderStep
  <2>1. posted' = posted /\ Parts(n) \in SUBSET Notes
    BY <1>12 DEF StartHeld, Parts
  <2>2. CASE Marked(Parts(n), "superseded") /\ \A m \in Parts(n) : Unsent(m)
    BY <2>1, <2>2, SenderWithdrawUnsent DEF Unsent
  <2>3. CASE Marked({}, "superseded")
    BY <2>1, <2>3, SenderStutter DEF Marked, FateKept
  <2> QED  BY <1>12, <2>2, <2>3, StartHeldEffect
<1>13. ASSUME NEW n \in Notes, StartNothing(n) PROVE SenderStep
  <2>1. posted' = posted
    BY <1>13 DEF StartNothing
  <2>2. FateKept({})
    BY <1>13, LeaveEffect DEF Becomes, FateKept
  <2> QED  BY <2>1, <2>2, SenderStutter
<1>14. ASSUME NEW n \in Notes, StartSuperseded(n) PROVE SenderStep
  <2>1. posted' = posted /\ row[n].state = "prepared"
    BY <1>14 DEF StartSuperseded, CanStart, NothingToStart
  <2>2. PICK S : /\ n \in S
                 /\ \A m \in S \ {n} : Unsent(m)
                 /\ \/ Marked(S, "superseded")
                    \/ Kind[n] = "question" /\ S = {n} /\ Marked(S, "failed")
    BY <1>14, StartSupersededEffect
  <2>3. \A m \in S \cap Notes : row[m].state = "prepared"
    BY <2>1, <2>2 DEF Unsent
  <2>4. CASE Marked(S, "superseded")
    <3>1. Marked(S \cap Notes, "superseded")
      BY <2>4 DEF Marked
    <3> QED  BY <2>1, <2>3, <3>1, SenderWithdrawUnsent
  <2>5. CASE Kind[n] = "question" /\ S = {n} /\ Marked(S, "failed")
    <3>1. row[n].error # "rejected"
      BY <2>5, OutboxAssumption DEF ReceiptInv, QuoteRefused, QuoteProof
    <3> QED  BY <2>1, <2>3, <2>5, <3>1, SenderWithdrawUnsent
  <2> QED  BY <2>2, <2>4, <2>5
<1>15. ASSUME NEW n \in Notes, Start(n) PROVE SenderStep
  <2>1. posted' = posted
    BY <1>15 DEF Start
  <2>2. FateKept({})
    BY <1>15, StartEffect, ZenonT(30) DEF Start, CanStart, NothingToStart, Becomes, FateKept, FateOf
  <2> QED  BY <2>1, <2>2, SenderStutter
<1>16. ASSUME NEW n \in Notes, Acknowledged(n) PROVE SenderStep
  <2>1. posted' = posted
    BY <1>16 DEF Acknowledged
  <2>2. row[n].state = "starting"
    BY <1>16 DEF Acknowledged, Sending, RowInv, Agree
  <2>3. FateKept({})
    BY <1>16, <2>2, AcknowledgedEffect, ZenonT(30) DEF Becomes, FateKept, FateOf
  <2> QED  BY <2>1, <2>3, SenderStutter
<1>17. ASSUME NEW n \in Notes, Refused(n) PROVE SenderStep
  <2>1. posted' = posted
    BY <1>17 DEF Refused
  <2>2. row[n].state = "starting"
    BY <1>17 DEF Refused, Sending, RowInv, Agree
  <2>3. FateKept({})
    BY <1>17, <2>2, RefusedEffect DEF Becomes, FateKept, FateOf
  <2> QED  BY <2>1, <2>3, SenderStutter
<1>18. ASSUME NEW n \in Notes, AnswerLost(n) PROVE SenderStep
  <2>1. posted' = posted
    BY <1>18 DEF AnswerLost
  <2>2. row[n].state = "starting"
    BY <1>18 DEF AnswerLost, Sending, RowInv, Agree
  <2>3. FateKept({})
    BY <1>18, <2>2, AnswerLostEffect DEF Becomes, FateKept, FateOf
  <2> QED  BY <2>1, <2>3, SenderStutter
<1>19. ASSUME NEW n \in Notes, Confirmed(n) PROVE SenderStep
  <2>1. posted' = posted
    BY <1>19 DEF Confirmed
  <2>2. row[n].state = "starting" /\ row[n].acked
    BY <1>19 DEF Confirmed, RowInv, Agree
  <2>3. posted[n] = {row[n].attempts}
    BY <2>2 DEF SendInv, TransitOf, Transit
  <2>4. CASE Becomes(n, "delivered", row[n].attempts, row[n].acked, row[n].error, "none")
    <3>1. /\ FateKept({n}) /\ FateOf(row[n].state, row[n].error) = "open"
          /\ FateOf(row'[n].state, row'[n].error) = "delivered"
      BY <2>2, <2>4 DEF Becomes, FateKept, FateOf
    <3> QED  BY <2>1, <2>3, <3>1, SenderConfirm
  <2>5. ASSUME NEW r, Becomes(n, "unknown", row[n].attempts, row[n].acked, r, "none")
        PROVE  SenderStep
    <3>1. FateKept({})
      BY <2>2, <2>5 DEF Becomes, FateKept, FateOf
    <3> QED  BY <2>1, <3>1, SenderStutter
  <2> QED  BY <1>19, <2>4, <2>5, ConfirmedEffect
<1>20. ASSUME NEW n \in Notes, SourceChanges(n) PROVE SenderStep
  <2>1. posted' = posted /\ FateKept({})
    BY <1>20 DEF SourceChanges, FateKept
  <2> QED  BY <2>1, SenderStutter
<1>21. ASSUME NEW n \in Notes, IntentChanges(n) PROVE SenderStep
  <2>1. posted' = posted /\ FateKept({})
    BY <1>21 DEF IntentChanges, FateKept
  <2> QED  BY <2>1, SenderStutter
<1>22. ASSUME NEW n \in Notes, TakeEffect(n) PROVE SenderStep
  <2>1. PICK k \in wire[n] : /\ wire' = [wire EXCEPT ![n] = wire[n] \ {k}]
                             /\ posted' = [posted EXCEPT ![n] = posted[n] \cup {k}]
    BY <1>22 DEF TakeEffect
  <2>2. posted[n] = {} /\ FateOf(row[n].state, row[n].error) = "open"
    BY <2>1 DEF SendInv, TransitOf, Transit, FateOf, TypeOK, NoteRow
  <2>3. posted' = [posted EXCEPT ![n] = {k}]
    BY <2>1, <2>2
  <2>4. row' = row /\ PredecessorDelivered(n)
    BY <1>22, <2>1 DEF TakeEffect, OrderInv, InOrder
  <2> QED  BY <2>2, <2>3, <2>4, SenderAppear DEF TypeOK
<1>23. ASSUME NEW n \in Notes, Vanish(n) PROVE SenderStep
  <2>1. posted' = posted /\ FateKept({})
    BY <1>23 DEF Vanish, FateKept
  <2> QED  BY <2>1, SenderStutter
<1>24. CASE Crash
  <2>1. posted' = posted
    BY <1>24 DEF Crash
  <2>2. FateKept({})
    BY <1>24, CrashEffect DEF Marked, FateKept, FateOf
  <2> QED  BY <2>1, <2>2, SenderStutter
<1> QED
  BY <1>0, <1>1, <1>2, <1>3, <1>4, <1>5, <1>6, <1>7, <1>8, <1>9, <1>10, <1>11, <1>12, <1>13,
      <1>14, <1>15, <1>16, <1>17, <1>18, <1>19, <1>20, <1>21, <1>22, <1>23, <1>24 DEF Next,
      Command, Answer, World


-----------------------------------------------------------------------------
(* The theorems                                                                *)

(* Type: every row, receipt, delivery and attempt is one the code can have.    *)
THEOREM TypeCorrect == Spec => []TypeOK
BY TypeInit, TypeStep, PTL DEF Spec

(* A notification that waits to be sent can be: no receipt of its next         *)
(* notification.start is stored, whatever crashes and whoever retries.         *)
THEOREM StartsCorrect == Spec => []StartNotBurnt
<1>1. Init => RowInv /\ ReceiptInv
  BY RowInvInit, ReceiptInvInit
<1>2. TypeOK /\ RowInv /\ ReceiptInv /\ [Next]_vars => RowInv' /\ ReceiptInv'
  BY RowInvStep, ReceiptInvStep
<1>3. TypeOK /\ ReceiptInv => StartNotBurnt
  <2> SUFFICES ASSUME TypeOK, ReceiptInv, NEW n \in Notes, row[n].state = "prepared"
               PROVE  StartId(n) \notin burnt[n]
    BY DEF StartNotBurnt
  <2>1. \A k \in burnt[n] : k < row[n].attempts
    BY DEF ReceiptInv, ReceiptsBehind, Open
  <2>2. row[n].attempts \in Nat
    BY RowFields DEF TypeOK
  <2> QED  BY <2>1, <2>2 DEF StartId
<1> QED  BY <1>1, <1>2, <1>3, TypeCorrect, PTL DEF Spec

SafeInv == TypeOK /\ RowInv /\ ReceiptInv /\ SendInv /\ OrderInv

LEMMA SafeInvCorrect ==
    ASSUME Undisturbed PROVE Spec => []SafeInv
<1>1. Init => SafeInv
  BY TypeInit, RowInvInit, ReceiptInvInit, SendInvInit, OrderInvInit DEF SafeInv
<1>2. SafeInv /\ [Next]_vars => SafeInv'
  BY TypeStep, RowInvStep, ReceiptInvStep, SendInvStep, OrderInvStep DEF SafeInv
<1> QED  BY <1>1, <1>2, PTL DEF Spec

(* A message is handed to the transport again only when no earlier attempt has *)
(* taken effect or still may, as long as no crash meets a quote refusal.       *)
THEOREM AtMostOnceCorrect ==
    ASSUME Undisturbed PROVE Spec => []AtMostOnce
<1>1. SafeInv => AtMostOnce
  BY DEF SafeInv, SendInv, TransitOf, Transit, AtMostOnce
<1> QED  BY <1>1, SafeInvCorrect, PTL

(* Under the same condition the outbox implements the abstract sender: one     *)
(* copy, after its predecessor, and none of what was withdrawn.                *)
THEOREM SenderImplemented ==
    ASSUME Undisturbed PROVE Spec => ImplementsSender
<1>1. Init => Sender!Init
  <2> SUFFICES ASSUME Init PROVE Sender!Init
    OBVIOUS
  <2>1. Fate = [n \in Notes |-> "absent"]
    BY DEF Init, Fate, Dropped, Retryable
  <2>2. Copies = [n \in Notes |-> 0]
    BY FS_EmptySet DEF Init, Copies
  <2> QED  BY <2>1, <2>2 DEF Sender!Init
<1>2. SafeInv /\ [Next]_vars => [Sender!Next]_<<Fate, Copies>>
  BY SenderSteps DEF SafeInv, SenderStep
<1> QED  BY <1>1, <1>2, SafeInvCorrect, PTL DEF Spec, ImplementsSender, Sender!Spec
=============================================================================
