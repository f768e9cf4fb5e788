----------------------- MODULE CaptureLifecycleProofs -----------------------
(***************************************************************************)
(* The safety invariants of CaptureLifecycle, proved for every set of      *)
(* captures, operations, commands and workers and every policy.            *)
(*                                                                         *)
(* None of them is inductive alone.  IInv adds what ties them together:    *)
(* which command bound an operation, that a bound capture exists, that a   *)
(* linked or resolved capture has been published, and what a worker that   *)
(* holds an item knows about it.                                           *)
(***************************************************************************)
EXTENDS CaptureLifecycle, TLAPS

\* A worker that concludes or stores holds an item it leased.
WorkerHolds ==
    \A w \in Workers :
        /\ worker[w].step \in {"store", "report"} => worker[w].item \in Items
        /\ worker[w].step = "store" => worker[w].caption \in Captions

\* Operations are bound only to what their commands name, a bound capture is
\* there, and an operation without a capture has only rejections.
Bound ==
    \A o \in Operations :
        /\ operations[o] # NoCapture =>
             /\ capture[operations[o]].status # "absent"
             /\ \E m \in Commands : OperationOf[m] = o /\ CaptureOf[m] = operations[o]
        /\ operations[o] = NoCapture =>
             /\ \A i \in 1..Len(reports[o]) : reports[o][i] = "inaccessible"
             /\ Len(reports[o]) # 0 =>
                  \E m \in Commands : OperationOf[m] = o /\ CaptureOf[m] = NoCapture

\* A capture that was ever resolved is published and has a projection.
LinkedIsPublished ==
    \A c \in Captures :
        /\ capture[c].status = "resolved" => HasFact(c)
        /\ capture[c].media_id # "null" => HasFact(c) /\ media[PermalinkOf[c]] \in Content

IInv == /\ TypeOK
        /\ WorkerHolds
        /\ Bound
        /\ LinkedIsPublished
        /\ OneReportPerOperation
        /\ PendingIsScheduled
        /\ PreservedIsPublished
        /\ CapturedOnceAndFirst
        /\ RemovedOnce

-----------------------------------------------------------------------------
(* Facts about the data *)

\* The empty slot of a worker is not an item.
LEMMA NoItemLemma == NoItem \notin Items
BY CaptureAssumption DEF NoItem, Items

\* A policy allows at least one attempt.
LEMMA ZeroAttempts == 0 \in 0..MaxAttempts - 1
BY CaptureAssumption

\* A worker between passes is well formed.
LEMMA IdlePass == Idle \in Pass
BY DEF Idle, Pass

\* Continue and Conclude build passes out of leased items.
LEMMA ContinuePass ==
    ASSUME NEW now \in Nat, NEW rest \in SUBSET Items
    PROVE  /\ Continue(now, rest) \in Pass
           /\ Continue(now, rest).step \in {"idle", "next"}
BY Zenon DEF Continue, Idle, Pass

\* Conclude keeps the item it has to report.
LEMMA ConcludePass ==
    ASSUME NEW now \in Nat, NEW rest \in SUBSET Items, NEW i \in Items
    PROVE  /\ Conclude(now, i, rest) \in Pass
           /\ Conclude(now, i, rest).step # "store"
           /\ Conclude(now, i, rest).step = "report" => Conclude(now, i, rest).item = i
BY ZenonT(60) DEF Conclude, Continue, Idle, Pass

\* A conclusion records one of the known observation kinds.
LEMMA RecordedKinds ==
    ASSUME NEW i \in Items, NEW outcome \in Failures
    PROVE  Recorded(i, outcome) \in Kinds
BY DEF Recorded, Observation, Kinds, Reasons, Failures

\* report_pending says something terminal about any capture.
LEMMA ConclusionTerminal ==
    ASSUME NEW c \in Captures
    PROVE  Conclusion(c) \in Terminal
BY DEF Conclusion, latest_unavailability, Terminal, Reasons

\* The initial state.
THEOREM InitIInv == Init => IInv
<1> SUFFICES ASSUME Init PROVE IInv
    OBVIOUS
<1>1. TypeOK
    BY CaptureAssumption, IdlePass
    DEF Init, TypeOK, Rows, Status, Concluded
<1>2. WorkerHolds
    BY DEF Init, WorkerHolds, Idle
<1>3. Bound /\ OneReportPerOperation /\ PendingIsScheduled /\ PreservedIsPublished
    BY DEF Init, Bound, OneReportPerOperation, PendingIsScheduled, PreservedIsPublished
<1>4. LinkedIsPublished
    BY DEF Init, LinkedIsPublished
<1>5. CapturedOnceAndFirst /\ RemovedOnce
    BY DEF Init, CapturedOnceAndFirst, RemovedOnce
<1> QED
    BY <1>1, <1>2, <1>3, <1>4, <1>5 DEF IInv

-----------------------------------------------------------------------------
(* Intake *)

\* The row submit_capture leaves: the old one, or a fresh accepted one.
LEMMA submittedRow ==
    ASSUME NEW c \in Captures, capture[c] \in Rows
    PROVE  /\ submitted(c) \in Rows
           /\ submitted(c).status # "absent"
           /\ capture[c].status # "absent" => submitted(c) = capture[c]
           /\ submitted(c).status = "resolved" => capture[c].status = "resolved"
           /\ submitted(c).media_id = capture[c].media_id
<1>1. CASE capture[c].status # "absent"
    BY <1>1 DEF submitted
<1>2. CASE capture[c].status = "absent"
    <2>1. submitted(c) = [capture[c] EXCEPT !.status = "accepted"]
        BY <1>2 DEF submitted
    <2> QED
        BY <1>2, <2>1 DEF Rows, Status
<1> QED
    BY <1>1, <1>2

\* POST /v1/captures inserts an accepted row or changes nothing.
LEMMA submit_captureIInv ==
    ASSUME IInv, NEW c \in Captures, submit_capture(c)
    PROVE  IInv'
<1> USE DEF IInv
<1>0. capture[c] \in Rows
    BY DEF TypeOK
<1>1. /\ submitted(c) \in Rows
      /\ submitted(c).status # "absent"
      /\ capture[c].status # "absent" => submitted(c) = capture[c]
      /\ submitted(c).status = "resolved" => capture[c].status = "resolved"
      /\ submitted(c).media_id = capture[c].media_id
    BY <1>0, submittedRow
<1>2. TypeOK'
    BY <1>1 DEF submit_capture, TypeOK
<1>3. WorkerHolds'
    BY DEF submit_capture, WorkerHolds
<1>4. Bound'
    BY <1>1 DEF submit_capture, Bound, TypeOK
<1>5. LinkedIsPublished'
    BY <1>1 DEF submit_capture, LinkedIsPublished, HasFact, TypeOK
<1>6. PendingIsScheduled'
    BY <1>1 DEF submit_capture, PendingIsScheduled, TypeOK
<1>7. OneReportPerOperation' /\ PreservedIsPublished'
    BY DEF submit_capture, OneReportPerOperation, PreservedIsPublished, HasFact
<1>8. CapturedOnceAndFirst' /\ RemovedOnce'
    BY DEF submit_capture, CapturedOnceAndFirst, RemovedOnce
<1> QED
    BY <1>2, <1>3, <1>4, <1>5, <1>6, <1>7, <1>8

\* record_operation's UPDATE keeps what a row says about resolution, and leaves
\* no accepted row without a schedule.
LEMMA scheduledRow ==
    ASSUME NEW row \in Rows, row.status # "absent"
    PROVE  /\ scheduled(row) \in Rows
           /\ scheduled(row).status # "absent"
           /\ scheduled(row).status = "accepted" => scheduled(row).due # "null"
           /\ scheduled(row).status = "resolved" => row.status = "resolved"
           /\ scheduled(row).media_id = row.media_id
<1>1. CASE row.status \notin {"accepted", "unavailable"}
    BY <1>1 DEF scheduled
<1>2. CASE row.status = "accepted"
    <2>1. scheduled(row) = [row EXCEPT !.status = "accepted", !.attempts = row.attempts,
                                       !.due = IF row.due = "null" THEN "past" ELSE row.due]
        BY <1>2 DEF scheduled
    <2> QED
        BY <1>2, <2>1, Zenon DEF Rows, Status
<1>3. CASE row.status = "unavailable"
    <2>1. scheduled(row) = [row EXCEPT !.status = "accepted", !.attempts = 0, !.due = "past"]
        BY <1>3 DEF scheduled
    <2> QED
        BY <1>3, <2>1, ZeroAttempts, ZenonT(60) DEF Rows, Status
<1> QED
    BY <1>1, <1>2, <1>3

\* An operation that is not bound yet and has a mappable command was never
\* answered: its reports start with the queued one.
LEMMA IngestPreservedIInv ==
    ASSUME IInv, NEW m \in Commands, IngestPreserved(m)
    PROVE  IInv'
<1> DEFINE c == CaptureOf[m]
           o == OperationOf[m]
           row == scheduled(submitted(c))
<1> USE DEF IInv
<1>1. c \in Captures /\ o \in Operations
    BY CaptureAssumption DEF IngestPreserved
<1>2. /\ row \in Rows
      /\ row.status # "absent"
      /\ row.status = "accepted" => row.due # "null"
      /\ row.status = "resolved" => capture[c].status = "resolved"
      /\ row.media_id = capture[c].media_id
    <2>1. capture[c] \in Rows
        BY <1>1 DEF TypeOK
    <2> DEFINE sub == submitted(c)
    <2>2. /\ sub \in Rows /\ sub.media_id = capture[c].media_id
          /\ sub.status # "absent"
          /\ sub.status = "resolved" => capture[c].status = "resolved"
        BY <1>1, <2>1, submittedRow
    <2> HIDE DEF sub
    <2>3. /\ scheduled(sub) \in Rows
          /\ scheduled(sub).status # "absent"
          /\ scheduled(sub).status = "accepted" => scheduled(sub).due # "null"
          /\ scheduled(sub).status = "resolved" => sub.status = "resolved"
          /\ scheduled(sub).media_id = sub.media_id
        BY <2>2, scheduledRow
    <2>4. row = scheduled(sub)
        BY DEF sub
    <2> HIDE DEF row
    <2> QED
        BY <2>2, <2>3, <2>4
<1> HIDE DEF row
<1>3. capture' = [capture EXCEPT ![c] = row]
    BY DEF IngestPreserved, row
<1>4. operations[o] = NoCapture => reports[o] = <<>>
    <2> SUFFICES ASSUME operations[o] = NoCapture PROVE reports[o] = <<>>
        OBVIOUS
    <2>1. \A n \in Commands : OperationOf[n] = o => CaptureOf[n] # NoCapture
        BY ReissueAssumption DEF IngestPreserved
    <2>2. Len(reports[o]) = 0
        BY <1>1, <2>1 DEF Bound
    <2>3. reports[o] \in Seq(Terminal \cup {"queued"})
        BY <1>1 DEF TypeOK
    <2> QED
        BY <2>2, <2>3
<1>5. CASE operations[o] = NoCapture
    <2>1. /\ operations' = [operations EXCEPT ![o] = c]
          /\ reports' = [reports EXCEPT ![o] = <<"queued">>]
          /\ o \notin reported
        BY <1>1, <1>4, <1>5, SMTT(60) DEF IngestPreserved, record_operation, OneReportPerOperation
    <2>2. TypeOK'
        BY <1>1, <1>2, <1>3, <2>1, SMTT(60) DEF IngestPreserved, TypeOK
    <2>3. Bound'
        <3> SUFFICES ASSUME NEW q \in Operations
                     PROVE  /\ operations'[q] # NoCapture =>
                                 /\ capture'[operations'[q]].status # "absent"
                                 /\ \E n \in Commands : /\ OperationOf[n] = q
                                                        /\ CaptureOf[n] = operations'[q]
                            /\ operations'[q] = NoCapture =>
                                 /\ \A i \in 1..Len(reports'[q]) : reports'[q][i] = "inaccessible"
                                 /\ Len(reports'[q]) # 0 =>
                                      \E n \in Commands : OperationOf[n] = q /\ CaptureOf[n] = NoCapture
            BY DEF Bound
        <3>1. CASE q = o
            <4>1. operations'[q] = c /\ c # NoCapture
                BY <1>1, <2>1, <3>1, CaptureAssumption DEF TypeOK
            <4>2. capture'[c] = row
                BY <1>1, <1>3 DEF TypeOK
            <4> QED
                BY <1>2, <3>1, <4>1, <4>2
        <3>2. CASE q # o
            <4>1. operations'[q] = operations[q] /\ reports'[q] = reports[q]
                BY <2>1, <3>2 DEF TypeOK
            <4>2. \A d \in Captures : capture[d].status # "absent" => capture'[d].status # "absent"
                BY <1>2, <1>3 DEF TypeOK
            <4>3. operations[q] # NoCapture => operations[q] \in Captures
                BY DEF TypeOK
            <4> QED
                BY <4>1, <4>2, <4>3 DEF Bound
        <3> QED
            BY <3>1, <3>2
    <2>4. OneReportPerOperation'
        BY <1>1, <2>1, CaptureAssumption, ZenonT(60) DEF IngestPreserved, OneReportPerOperation, TypeOK
    <2>5. PendingIsScheduled'
        BY <1>1, <1>2, <1>3, <2>1, SMTT(60) DEF IngestPreserved, PendingIsScheduled, TypeOK
    <2>6. PreservedIsPublished'
        <3> SUFFICES ASSUME NEW q \in Operations, NEW i \in 1..Len(reports'[q]),
                            reports'[q][i] = "preserved"
                     PROVE  HasFact(operations[q])'
            BY DEF PreservedIsPublished
        <3>1. q # o
            BY <1>1, <2>1, SMTT(60) DEF TypeOK
        <3>2. operations'[q] = operations[q] /\ reports'[q] = reports[q] /\ facts' = facts
            BY <2>1, <3>1, SMTT(60) DEF IngestPreserved, TypeOK
        <3> QED
            BY <3>2 DEF PreservedIsPublished, HasFact
    <2> QED
        BY <2>2, <2>3, <2>4, <2>5, <2>6, <1>1, <1>2, <1>3, SMTT(60)
        DEF IngestPreserved, WorkerHolds, LinkedIsPublished, HasFact, CapturedOnceAndFirst,
            RemovedOnce, TypeOK
<1>6. CASE operations[o] # NoCapture
    <2>1. operations' = operations /\ reports' = reports
        BY <1>6, SMTT(60) DEF IngestPreserved, record_operation
    <2>2. TypeOK'
        BY <1>1, <1>2, <1>3, <2>1, SMTT(60) DEF IngestPreserved, TypeOK
    <2>3. Bound' /\ PendingIsScheduled'
        BY <1>1, <1>2, <1>3, <2>1, SMTT(60) DEF IngestPreserved, Bound, PendingIsScheduled, TypeOK
    <2>4. OneReportPerOperation'
        BY <2>1 DEF IngestPreserved, OneReportPerOperation
    <2>5. PreservedIsPublished'
        BY <2>1 DEF IngestPreserved, PreservedIsPublished, HasFact
    <2> QED
        BY <2>2, <2>3, <2>4, <2>5, <1>1, <1>2, <1>3, SMTT(60)
        DEF IngestPreserved, WorkerHolds, LinkedIsPublished, HasFact, CapturedOnceAndFirst,
            RemovedOnce, TypeOK
<1> QED
    BY <1>5, <1>6

\* A rejected command only adds a terminal report to an operation that can never
\* be bound.
LEMMA IngestRejectedIInv ==
    ASSUME IInv, NEW m \in Commands, IngestRejected(m)
    PROVE  IInv'
<1> DEFINE o == OperationOf[m]
<1> USE DEF IInv
<1>1. o \in Operations /\ CaptureOf[m] = NoCapture
    BY CaptureAssumption DEF IngestRejected
<1>2. operations[o] = NoCapture
    BY <1>1, ReissueAssumption DEF Bound
<1>3. reports' = [reports EXCEPT ![o] = Append(@, "inaccessible")]
    BY SMTT(60) DEF IngestRejected
<1>4. TypeOK'
    BY <1>1, <1>3, SMTT(60) DEF IngestRejected, TypeOK, Terminal, Reasons
<1>5. /\ \A q \in Operations \ {o} : reports'[q] = reports[q]
      /\ reports'[o] = Append(reports[o], "inaccessible")
      /\ reports[o] \in Seq(Terminal \cup {"queued"})
    BY <1>1, <1>3, SMTT(60) DEF TypeOK
<1>6. \A i \in 1..Len(reports'[o]) : reports'[o][i] = "inaccessible"
    BY <1>1, <1>2, <1>5 DEF Bound
<1>7. operations' = operations /\ capture' = capture /\ facts' = facts /\ reported' = reported
    BY SMTT(60) DEF IngestRejected
<1>8. Bound'
    <2> SUFFICES ASSUME NEW q \in Operations
                 PROVE  /\ operations[q] # NoCapture =>
                             /\ capture[operations[q]].status # "absent"
                             /\ \E n \in Commands : OperationOf[n] = q /\ CaptureOf[n] = operations[q]
                        /\ operations[q] = NoCapture =>
                             /\ \A i \in 1..Len(reports'[q]) : reports'[q][i] = "inaccessible"
                             /\ Len(reports'[q]) # 0 =>
                                  \E n \in Commands : OperationOf[n] = q /\ CaptureOf[n] = NoCapture
        BY <1>7, SMTT(60) DEF Bound
    <2>1. CASE q = o
        BY <1>1, <1>2, <1>6, <2>1, SMTT(60)
    <2>2. CASE q # o
        BY <1>5, <2>2 DEF Bound
    <2> QED
        BY <2>1, <2>2
<1>9. OneReportPerOperation'
    BY <1>2, <1>5, <1>7 DEF OneReportPerOperation
<1>10. PreservedIsPublished'
    <2> SUFFICES ASSUME NEW q \in Operations, NEW i \in 1..Len(reports'[q]),
                        reports'[q][i] = "preserved"
                 PROVE  HasFact(operations[q])'
        BY DEF PreservedIsPublished
    <2>1. reports'[q] = reports[q]
        BY <1>5, <1>6, ZenonT(60)
    <2> QED
        BY <1>7, <2>1 DEF PreservedIsPublished, HasFact
<1>11. WorkerHolds' /\ LinkedIsPublished'
    BY SMTT(60) DEF IngestRejected, WorkerHolds, LinkedIsPublished, HasFact
<1>12. PendingIsScheduled'
    BY SMTT(60) DEF IngestRejected, PendingIsScheduled
<1>13. CapturedOnceAndFirst' /\ RemovedOnce'
    BY DEF IngestRejected, CapturedOnceAndFirst, RemovedOnce
<1> QED
    BY <1>4, <1>8, <1>9, <1>10, <1>11, <1>12, <1>13

-----------------------------------------------------------------------------
(* Reporting *)

\* report_pending completes the reports of exactly the operations it flips, and
\* says `preserved' only of a published source.
LEMMA report_pendingReports ==
    ASSUME IInv, NEW S \in SUBSET Captures, report_pending(S),
           operations' = operations, facts' = facts, inbox' = inbox
    PROVE  /\ reports' \in [Operations -> Seq(Terminal \cup {"queued"})]
           /\ reported \subseteq reported' /\ reported' \subseteq Operations
           /\ \A o \in Operations : operations[o] = NoCapture => reports'[o] = reports[o]
           /\ OneReportPerOperation'
           /\ PreservedIsPublished'
<1> USE DEF IInv
<1>1. PICK due : /\ due = {o \in Operations : \E c \in S : /\ capture[c].status \in Concluded
                                                           /\ o \in Pending(c)}
                 /\ reported' = reported \cup due
                 /\ reports' = [o \in Operations |->
                      IF o \in due THEN Append(reports[o], Conclusion(operations[o]))
                      ELSE reports[o]]
    BY ZenonT(60) DEF report_pending
<1>2. \A o \in due : /\ o \in Operations /\ o \notin reported
                     /\ operations[o] \in Captures /\ operations[o] # NoCapture
                     /\ Conclusion(operations[o]) \in Terminal
                     /\ Conclusion(operations[o]) = "preserved" =>
                          capture[operations[o]].status = "resolved"
    <2> SUFFICES ASSUME NEW o \in due
                 PROVE  /\ o \in Operations /\ o \notin reported
                        /\ operations[o] \in Captures /\ operations[o] # NoCapture
                        /\ Conclusion(operations[o]) \in Terminal
                        /\ Conclusion(operations[o]) = "preserved" =>
                             capture[operations[o]].status = "resolved"
        OBVIOUS
    <2>1. /\ o \in Operations /\ o \notin reported
          /\ operations[o] \in Captures /\ operations[o] # NoCapture
        BY <1>1, CaptureAssumption DEF Pending
    <2>2. Conclusion(operations[o]) \in Terminal
        BY <2>1, ConclusionTerminal
    <2>3. Conclusion(operations[o]) = "preserved" => capture[operations[o]].status = "resolved"
        BY DEF Conclusion, latest_unavailability
    <2> QED
        BY <2>1, <2>2, <2>3
<1>3. reports' \in [Operations -> Seq(Terminal \cup {"queued"})]
    BY <1>1, <1>2 DEF TypeOK
<1>4. \A o \in Operations : operations[o] = NoCapture => reports'[o] = reports[o]
    BY <1>1, <1>2
<1>5. OneReportPerOperation'
    <2> SUFFICES ASSUME NEW o \in Operations
                 PROVE  /\ o \in reported' => operations[o] # NoCapture
                        /\ operations[o] # NoCapture =>
                             /\ Len(reports'[o]) = IF o \in reported' THEN 2 ELSE 1
                             /\ reports'[o][1] = "queued"
                             /\ o \in reported' => reports'[o][2] \in Terminal
        BY DEF OneReportPerOperation
    <2>1. reports[o] \in Seq(Terminal \cup {"queued"})
        BY SMTT(60) DEF TypeOK
    <2>2. CASE o \in due
        BY <1>1, <1>2, <2>1, <2>2, SMTT(60) DEF OneReportPerOperation
    <2>3. CASE o \notin due
        BY <1>1, <2>3, SMTT(60) DEF OneReportPerOperation
    <2> QED
        BY <2>2, <2>3
<1>6. PreservedIsPublished'
    <2> SUFFICES ASSUME NEW o \in Operations, NEW i \in 1..Len(reports'[o]),
                        reports'[o][i] = "preserved"
                 PROVE  HasFact(operations[o])
        BY DEF PreservedIsPublished, HasFact
    <2>1. reports[o] \in Seq(Terminal \cup {"queued"})
        BY DEF TypeOK
    <2>2. CASE o \notin due
        BY <1>1, <2>2 DEF PreservedIsPublished
    <2>3. CASE o \in due /\ i \in 1..Len(reports[o])
        <3>1. reports'[o][i] = reports[o][i]
            BY <1>1, <2>1, <2>3, SMTT(60)
        <3> QED
            BY <3>1, <2>3, SMTT(60) DEF PreservedIsPublished
    <2>4. CASE o \in due /\ i = Len(reports[o]) + 1
        <3>1. Conclusion(operations[o]) = "preserved"
            BY <1>1, <2>1, <2>4, SMTT(60)
        <3> QED
            BY <3>1, <1>2, <2>4, SMTT(60) DEF LinkedIsPublished
    <2> QED
        BY <1>1, <2>1, <2>2, <2>3, <2>4, SMTT(60)
<1> QED
    BY <1>1, <1>3, <1>4, <1>5, <1>6 DEF TypeOK

\* Bound survives a step that binds no operation, keeps every row and answers no
\* operation without a capture.
LEMMA BoundKept ==
    ASSUME IInv, operations' = operations,
           \A c \in Captures : capture[c].status # "absent" => capture'[c].status # "absent",
           \A o \in Operations : operations[o] = NoCapture => reports'[o] = reports[o]
    PROVE  Bound'
<1>1. Bound
    BY SMTT(60) DEF IInv
<1>2. \A o \in Operations : operations[o] # NoCapture => operations[o] \in Captures
    BY DEF IInv, TypeOK
<1> SUFFICES ASSUME NEW o \in Operations
             PROVE  /\ operations[o] # NoCapture =>
                         /\ capture'[operations[o]].status # "absent"
                         /\ \E n \in Commands : OperationOf[n] = o /\ CaptureOf[n] = operations[o]
                    /\ operations[o] = NoCapture =>
                         /\ \A i \in 1..Len(reports'[o]) : reports'[o][i] = "inaccessible"
                         /\ Len(reports'[o]) # 0 =>
                              \E n \in Commands : OperationOf[n] = o /\ CaptureOf[n] = NoCapture
    BY DEF Bound
<1>3. CASE operations[o] # NoCapture
    BY <1>1, <1>2, <1>3 DEF Bound
<1>4. CASE operations[o] = NoCapture
    BY <1>1, <1>4 DEF Bound
<1> QED
    BY <1>3, <1>4

\* A claim leases accepted rows and reports the concluded ones.
LEMMA claimIInv ==
    ASSUME IInv, NEW w \in Workers, NEW S \in SUBSET Captures, claim(w, S)
    PROVE  IInv'
<1> USE DEF IInv
<1> DEFINE accepted == {c \in S : capture[c].status = "accepted"}
           leased == {[capture |-> c, attempts |-> capture[c].attempts, lane |-> "worker"] :
                        c \in accepted}
<1>1. /\ capture' \in [Captures -> Rows]
      /\ \A c \in Captures : /\ capture'[c].status = capture[c].status
                             /\ capture'[c].media_id = capture[c].media_id
                             /\ capture[c].due # "null" => capture'[c].due # "null"
    <2>1. \A c \in Captures : capture[c] \in Rows
        BY DEF TypeOK
    <2>2. \A c \in Captures : capture'[c] \in {capture[c], [capture[c] EXCEPT !.due = "future"]}
        BY DEF claim
    <2>3. \A c \in Captures : /\ capture'[c] \in Rows
                              /\ capture'[c].status = capture[c].status
                              /\ capture'[c].media_id = capture[c].media_id
                              /\ capture[c].due # "null" => capture'[c].due # "null"
        BY <2>1, <2>2 DEF Rows
    <2>4. \A c \in Captures : [capture[c] EXCEPT !.due = "future"] \in Rows
        BY <2>1 DEF Rows
    <2>5. capture' \in [Captures -> Rows]
        BY <2>1, <2>4, SMTT(60) DEF claim
    <2> QED
        BY <2>3, <2>5
<1>2. leased \in SUBSET Items
    BY DEF TypeOK, Rows, Items
<1>3. /\ worker' = [worker EXCEPT ![w] = Continue(passes + 1, leased)]
      /\ passes' = passes + 1
    BY DEF claim
<1> HIDE DEF leased
<1>4. /\ Continue(passes + 1, leased) \in Pass
      /\ Continue(passes + 1, leased).step \in {"idle", "next"}
    BY <1>2, ContinuePass DEF TypeOK
<1>5. /\ reports' \in [Operations -> Seq(Terminal \cup {"queued"})]
      /\ reported \subseteq reported' /\ reported' \subseteq Operations
      /\ \A o \in Operations : operations[o] = NoCapture => reports'[o] = reports[o]
      /\ OneReportPerOperation'
      /\ PreservedIsPublished'
    BY report_pendingReports DEF claim
<1>6. TypeOK'
    BY <1>1, <1>3, <1>4, <1>5, SMTT(60) DEF claim, TypeOK
<1>7. WorkerHolds'
    BY <1>3, <1>4 DEF WorkerHolds, TypeOK
<1>8. Bound' /\ PendingIsScheduled'
    <2>1. UNCHANGED <<operations, inbox>>
        BY DEF claim
    <2>2. \A o \in Operations : operations[o] # NoCapture => operations[o] \in Captures
        BY SMTT(60) DEF TypeOK
    <2>3. Bound'
        BY <1>1, <1>5, <2>1, <2>2, BoundKept, SMTT(60)
    <2>4. PendingIsScheduled'
        BY <1>1, <1>5, <2>1, <2>2 DEF PendingIsScheduled
    <2> QED
        BY <2>3, <2>4
<1>9. LinkedIsPublished'
    BY <1>1, SMTT(60) DEF claim, LinkedIsPublished, HasFact
<1> QED
    BY <1>5, <1>6, <1>7, <1>8, <1>9, SMTT(60) DEF claim, CapturedOnceAndFirst, RemovedOnce

\* The report after a conclusion.
LEMMA report_concludedIInv ==
    ASSUME IInv, NEW w \in Workers, report_concluded(w)
    PROVE  IInv'
<1> USE DEF IInv
<1>1. worker[w] \in Pass /\ worker[w].item.capture \in Captures
    BY SMTT(60) DEF report_concluded, WorkerHolds, TypeOK, Items
<1>2. /\ Continue(worker[w].now, worker[w].leased) \in Pass
      /\ Continue(worker[w].now, worker[w].leased).step \in {"idle", "next"}
    BY <1>1, ContinuePass, SMTT(60) DEF Pass
<1>3. /\ reports' \in [Operations -> Seq(Terminal \cup {"queued"})]
      /\ reported \subseteq reported' /\ reported' \subseteq Operations
      /\ \A o \in Operations : operations[o] = NoCapture => reports'[o] = reports[o]
      /\ OneReportPerOperation'
      /\ PreservedIsPublished'
    BY <1>1, report_pendingReports DEF report_concluded
<1>4. /\ worker' = [worker EXCEPT ![w] = Continue(worker[w].now, worker[w].leased)]
      /\ UNCHANGED <<inbox, capture, latest, media, operations, facts, removed, marking>>
      /\ UNCHANGED <<passes, faults>>
    BY SMTT(60) DEF report_concluded
<1>5. TypeOK'
    <2>1. worker' \in [Workers -> Pass]
        BY <1>2, <1>4, SMTT(60) DEF TypeOK
    <2> QED
        BY <1>3, <1>4, <2>1, SMTT(60) DEF TypeOK
<1>6. WorkerHolds'
    BY <1>2, <1>4, SMTT(60) DEF TypeOK, WorkerHolds
<1>7. Bound'
    BY <1>3, <1>4, BoundKept, SMTT(60)
<1>8. PendingIsScheduled'
    <2>1. PendingIsScheduled
        BY SMTT(60)
    <2> QED
        BY <1>3, <1>4, <2>1 DEF PendingIsScheduled
<1>9. LinkedIsPublished'
    BY <1>4, SMTT(60) DEF LinkedIsPublished, HasFact
<1>10. CapturedOnceAndFirst' /\ RemovedOnce'
    BY <1>4 DEF CapturedOnceAndFirst, RemovedOnce
<1> QED
    BY <1>3, <1>5, <1>6, <1>7, <1>8, <1>9, <1>10, SMTT(60)

-----------------------------------------------------------------------------
(* Steps that move only a worker *)

Archive == <<inbox, capture, latest, media, operations, reported, reports, facts, removed>>

\* What the invariant says about the tables survives a step that leaves them
\* alone.
LEMMA ArchiveKept ==
    ASSUME IInv, UNCHANGED Archive
    PROVE  /\ Bound' /\ LinkedIsPublished' /\ OneReportPerOperation'
           /\ PendingIsScheduled' /\ PreservedIsPublished'
           /\ CapturedOnceAndFirst' /\ RemovedOnce'
<1>1. Bound'
    BY SMTT(60) DEF IInv, Archive, Bound
<1>2. LinkedIsPublished'
    BY DEF IInv, Archive, LinkedIsPublished, HasFact
<1>3. OneReportPerOperation'
    BY SMTT(60) DEF IInv, Archive, OneReportPerOperation
<1>4. PendingIsScheduled'
    BY DEF IInv, Archive, PendingIsScheduled
<1>5. PreservedIsPublished'
    BY DEF IInv, Archive, PreservedIsPublished, HasFact
<1>6. CapturedOnceAndFirst'
    BY SMTT(60) DEF IInv, Archive, CapturedOnceAndFirst
<1>7. RemovedOnce'
    BY DEF IInv, Archive, RemovedOnce
<1> QED
    BY <1>1, <1>2, <1>3, <1>4, <1>5, <1>6, <1>7, SMTT(60)

\* A step that leaves the archive alone keeps the invariant if the pass it
\* leaves worker w in is well formed.
LEMMA WorkerOnly ==
    ASSUME IInv, NEW w \in Workers, NEW r \in Pass,
           worker' = [worker EXCEPT ![w] = r],
           r.step \in {"store", "report"} => r.item \in Items,
           r.step = "store" => r.caption \in Captions,
           UNCHANGED Archive, marking' = marking, passes' \in Nat, faults' \in Nat
    PROVE  IInv'
<1>1. TypeOK'
    <2>1. worker' \in [Workers -> Pass]
        BY SMTT(60) DEF IInv, TypeOK
    <2> QED
        BY <2>1 DEF IInv, Archive, TypeOK
<1>2. WorkerHolds'
    BY SMTT(60) DEF IInv, WorkerHolds, TypeOK
<1> QED
    BY <1>1, <1>2, ArchiveKept, SMTT(60) DEF IInv

\* Reading the prior projection.
LEMMA read_prior_projectionIInv ==
    ASSUME IInv, NEW w \in Workers, NEW i \in worker[w].leased, NEW caption \in Captions,
           read_prior_projection(w, i, caption)
    PROVE  IInv'
<1> DEFINE r == [worker[w] EXCEPT !.step = "store", !.leased = worker[w].leased \ {i}, !.item = i,
                   !.caption = caption, !.prior = media[PermalinkOf[i.capture]]]
<1>1. worker[w] \in Pass /\ i \in Items
    BY DEF IInv, TypeOK, Pass
<1>2. media[PermalinkOf[i.capture]] \in Content \cup {NoContent}
    <2>1. i.capture \in Captures
        BY <1>1 DEF Items
    <2>2. PermalinkOf[i.capture] \in Permalinks
        BY <2>1, CaptureAssumption
    <2>3. media \in [Permalinks -> Content \cup {NoContent}]
        BY DEF IInv, TypeOK
    <2> QED
        BY <2>2, <2>3
<1>3. r \in Pass /\ r.item = i /\ r.caption = caption
    BY <1>1, <1>2, Zenon DEF Pass
<1>4. worker' = [worker EXCEPT ![w] = r]
    BY DEF read_prior_projection
<1>5. UNCHANGED Archive /\ marking' = marking /\ passes' \in Nat /\ faults' \in Nat
    BY DEF read_prior_projection, Archive, IInv, TypeOK
<1> HIDE DEF r
<1> QED
    BY <1>1, <1>3, <1>4, <1>5, WorkerOnly, ZenonT(60)

\* A rolled-back store.
LEMMA lose_media_insertIInv ==
    ASSUME IInv, NEW w \in Workers, lose_media_insert(w)
    PROVE  IInv'
<1> DEFINE r == Continue(worker[w].now, worker[w].leased)
<1>1. r \in Pass /\ r.step \in {"idle", "next"}
    BY ContinuePass, SMTT(60) DEF IInv, TypeOK, Pass
<1>2. worker' = [worker EXCEPT ![w] = r]
    BY SMTT(60) DEF lose_media_insert
<1>3. UNCHANGED Archive /\ marking' = marking /\ passes' \in Nat /\ faults' \in Nat
    BY DEF lose_media_insert, Archive, IInv, TypeOK
<1> HIDE DEF r
<1> QED
    BY <1>1, <1>2, <1>3, WorkerOnly, ZenonT(60)

\* A failed query gives up one item.
LEMMA fail_itemIInv ==
    ASSUME IInv, NEW w \in Workers, fail_item(w)
    PROVE  IInv'
<1>1. worker[w] \in Pass
    BY DEF IInv, TypeOK
<1>2. PICK rest \in SUBSET worker[w].leased :
        worker' = [worker EXCEPT ![w] = Continue(worker[w].now, rest)]
    BY ZenonT(60) DEF fail_item
<1> DEFINE r == Continue(worker[w].now, rest)
<1>3. r \in Pass /\ r.step \in {"idle", "next"}
    BY <1>1, ContinuePass, SMTT(60) DEF Pass
<1>4. UNCHANGED Archive /\ marking' = marking /\ passes' \in Nat /\ faults' \in Nat
    BY DEF fail_item, Archive, IInv, TypeOK
<1> HIDE DEF r
<1>5. worker' = [worker EXCEPT ![w] = r]
    BY <1>2 DEF r
<1> QED
    BY <1>3, <1>4, <1>5, WorkerOnly, Zenon

\* A crash forgets the pass.
LEMMA CrashIInv ==
    ASSUME IInv, NEW w \in Workers, Crash(w)
    PROVE  IInv'
<1>1. Idle.step = "idle"
    BY DEF Idle
<1>2. worker' = [worker EXCEPT ![w] = Idle]
    BY DEF Crash
<1>3. UNCHANGED Archive /\ marking' = marking /\ passes' \in Nat /\ faults' \in Nat
    BY DEF Crash, Archive, IInv, TypeOK
<1> QED
    BY <1>1, <1>2, <1>3, IdlePass, WorkerOnly, ZenonT(60)

\* A direct resolution starts a pass of one item.
LEMMA resolve_capture_permalinkIInv ==
    ASSUME IInv, NEW w \in Workers, NEW c \in Captures, resolve_capture_permalink(w, c)
    PROVE  IInv'
<1> DEFINE leased == {[capture |-> c, attempts |-> 0, lane |-> "direct"]}
           r == Continue(passes + 1, leased)
<1>1. leased \in SUBSET Items
    BY CaptureAssumption DEF Items
<1> HIDE DEF leased
<1>2. r \in Pass /\ r.step \in {"idle", "next"}
    BY <1>1, ContinuePass DEF IInv, TypeOK
<1>3. worker' = [worker EXCEPT ![w] = r]
    BY DEF resolve_capture_permalink, leased
<1>4. UNCHANGED Archive /\ marking' = marking /\ passes' \in Nat /\ faults' \in Nat
    BY DEF resolve_capture_permalink, Archive, IInv, TypeOK
<1> HIDE DEF r
<1> QED
    BY <1>2, <1>3, <1>4, WorkerOnly, Zenon

-----------------------------------------------------------------------------
(* Steps that change one capture row *)

\* A capture row may change to `row' if that does not resolve or link the
\* capture and does not take its schedule away.
LEMMA RowOnly ==
    ASSUME IInv, NEW c \in Captures, NEW row \in Rows,
           capture[c].status # "absent" => row.status # "absent",
           row.status = "accepted" =>
               capture[c].status = "accepted" /\ (capture[c].due # "null" => row.due # "null"),
           row.status = "resolved" => capture[c].status = "resolved",
           row.media_id = capture[c].media_id,
           capture' = [capture EXCEPT ![c] = row],
           UNCHANGED <<operations, reported, reports, facts, media>>
    PROVE  /\ Bound' /\ LinkedIsPublished' /\ OneReportPerOperation'
           /\ PendingIsScheduled' /\ PreservedIsPublished'
<1> USE DEF IInv
<1>1. /\ capture'[c] = row
      /\ \A d \in Captures \ {c} : capture'[d] = capture[d]
    BY SMTT(60) DEF TypeOK
<1>2. Bound'
    <2>1. \A d \in Captures : capture[d].status # "absent" => capture'[d].status # "absent"
        BY <1>1, SMTT(60)
    <2> QED
        BY <2>1, BoundKept, SMTT(60)
<1>3. PendingIsScheduled'
    <2>1. \A o \in Operations : operations[o] # NoCapture => operations[o] \in Captures
        BY SMTT(60) DEF TypeOK
    <2> QED
        BY <1>1, <2>1, SMTT(60) DEF PendingIsScheduled
<1>4. LinkedIsPublished'
    BY <1>1, SMTT(60) DEF LinkedIsPublished, HasFact
<1>5. OneReportPerOperation'
    BY SMTT(60) DEF OneReportPerOperation
<1>6. PreservedIsPublished'
    BY SMTT(60) DEF PreservedIsPublished, HasFact
<1> QED
    BY <1>2, <1>3, <1>4, <1>5, <1>6, SMTT(60)

\* A retry keeps the status and leaves a schedule.
LEMMA rescheduleIInv ==
    ASSUME IInv, NEW w \in Workers, NEW i \in worker[w].leased, reschedule(w, i)
    PROVE  IInv'
<1>1. worker[w] \in Pass /\ i \in Items /\ i.capture \in Captures
    <2>1. worker[w] \in Pass
        BY SMTT(60) DEF IInv, TypeOK
    <2>2. i \in Items
        BY <2>1, SMTT(60) DEF Pass
    <2> QED
        BY <2>1, <2>2, SMTT(60) DEF Items
<1>2. capture[i.capture] \in Rows
    BY <1>1 DEF IInv, TypeOK
<1>3. i.attempts + 1 \in 0..MaxAttempts - 1
    BY <1>1, CaptureAssumption DEF reschedule, retries_left, Items
<1> DEFINE c == i.capture
           row == [capture[c] EXCEPT !.attempts = i.attempts + 1, !.due = "future"]
           r == Continue(worker[w].now, worker[w].leased \ {i})
<1>4. /\ row \in Rows /\ row.status = capture[c].status
      /\ row.due = "future" /\ row.media_id = capture[c].media_id
    BY <1>2, <1>3, Zenon DEF Rows
<1>5. capture' = [capture EXCEPT ![c] = row]
    BY <1>1, ZenonT(60) DEF reschedule, IInv, TypeOK
<1>6. r \in Pass /\ r.step \in {"idle", "next"}
    BY <1>1, ContinuePass DEF Pass
<1>7. worker' = [worker EXCEPT ![w] = r]
    BY DEF reschedule
<1> HIDE DEF row, r, c
<1>8. c \in Captures
    BY <1>1 DEF c
<1>9. UNCHANGED <<operations, reported, reports, facts, media>>
    BY DEF reschedule
<1>10. /\ Bound' /\ LinkedIsPublished' /\ OneReportPerOperation'
       /\ PendingIsScheduled' /\ PreservedIsPublished'
    BY <1>4, <1>5, <1>8, <1>9, RowOnly, ZenonT(60)
<1>11. TypeOK'
    <2>1. capture' \in [Captures -> Rows]
        BY <1>4, <1>5, <1>8, SMTT(60) DEF IInv, TypeOK
    <2>2. worker' \in [Workers -> Pass]
        BY <1>6, <1>7, SMTT(60) DEF IInv, TypeOK
    <2> QED
        BY <2>1, <2>2, SMTT(60) DEF reschedule, IInv, TypeOK
<1>12. WorkerHolds'
    BY <1>6, <1>7 DEF IInv, TypeOK, WorkerHolds
<1> QED
    BY <1>10, <1>11, <1>12 DEF reschedule, IInv, CapturedOnceAndFirst, RemovedOnce

\* Time only turns a future schedule into a past one.
LEMMA ElapseIInv ==
    ASSUME IInv, NEW c \in Captures, Elapse(c)
    PROVE  IInv'
<1> DEFINE row == [capture[c] EXCEPT !.due = "past"]
<1>1. capture[c] \in Rows
    BY DEF IInv, TypeOK
<1>2. /\ row \in Rows /\ row.status = capture[c].status
      /\ row.due = "past" /\ row.media_id = capture[c].media_id
    BY <1>1 DEF Rows
<1>3. capture' = [capture EXCEPT ![c] = row]
    BY DEF Elapse
<1> HIDE DEF row
<1>4. UNCHANGED <<operations, reported, reports, facts, media>>
    BY DEF Elapse
<1>5. /\ Bound' /\ LinkedIsPublished' /\ OneReportPerOperation'
      /\ PendingIsScheduled' /\ PreservedIsPublished'
    BY <1>2, <1>3, <1>4, RowOnly, Zenon
<1>6. TypeOK'
    <2>1. capture' \in [Captures -> Rows]
        BY <1>2, <1>3, SMTT(60) DEF IInv, TypeOK
    <2> QED
        BY <2>1, SMTT(60) DEF Elapse, IInv, TypeOK
<1> QED
    BY <1>5, <1>6 DEF Elapse, IInv, WorkerHolds, CapturedOnceAndFirst, RemovedOnce

\* The newest observation stays well formed.
LEMMA ObserveType ==
    ASSUME IInv, NEW c \in Captures, NEW at \in Nat, NEW kind \in Kinds, Observe(c, at, kind)
    PROVE  latest' \in [Captures -> [at: Nat, kind: Kinds \cup {"none"}]]
BY DEF IInv, TypeOK, Observe

\* The fallback that marks a capture unavailable, whatever it read before.
LEMMA record_capture_unavailableIInv ==
    ASSUME IInv, NEW c \in Captures, NEW reason \in Reasons,
           record_capture_unavailable(c, reason)
    PROVE  IInv'
<1> DEFINE row == IF marking[c] = "live" THEN [capture[c] EXCEPT !.status = "unavailable"]
                  ELSE capture[c]
<1>1. capture[c] \in Rows
    BY DEF IInv, TypeOK
<1>2. /\ row \in Rows /\ row.status \in {"unavailable", capture[c].status}
      /\ row.due = capture[c].due /\ row.media_id = capture[c].media_id
    BY <1>1 DEF Rows, Status, Concluded
<1>3. capture' = [capture EXCEPT ![c] = row]
    BY Zenon DEF record_capture_unavailable, IInv, TypeOK
<1>4. latest' \in [Captures -> [at: Nat, kind: Kinds \cup {"none"}]]
    BY ObserveType, SMTT(60) DEF record_capture_unavailable, Kinds, IInv, TypeOK
<1> HIDE DEF row
<1>5. UNCHANGED <<operations, reported, reports, facts, media>>
    BY DEF record_capture_unavailable
<1>6. /\ Bound' /\ LinkedIsPublished' /\ OneReportPerOperation'
      /\ PendingIsScheduled' /\ PreservedIsPublished'
    BY <1>2, <1>3, <1>5, RowOnly, ZenonT(60)
<1>7. TypeOK'
    <2>1. capture' \in [Captures -> Rows]
        BY <1>2, <1>3 DEF IInv, TypeOK
    <2>2. marking' \in [Captures -> {"no", "live", "dead"}]
        BY DEF record_capture_unavailable, IInv, TypeOK
    <2> QED
        BY <1>4, <2>1, <2>2 DEF record_capture_unavailable, IInv, TypeOK
<1> QED
    BY <1>6, <1>7
    DEF record_capture_unavailable, IInv, WorkerHolds, CapturedOnceAndFirst, RemovedOnce

\* Reading the status changes no table.
LEMMA read_capture_statusIInv ==
    ASSUME IInv, NEW c \in Captures, read_capture_status(c)
    PROVE  IInv'
<1>1. TypeOK'
    <2>1. marking' \in [Captures -> {"no", "live", "dead"}]
        BY DEF IInv, read_capture_status, TypeOK
    <2> QED
        BY <2>1 DEF IInv, read_capture_status, TypeOK
<1>2. WorkerHolds'
    BY SMTT(60) DEF IInv, read_capture_status, WorkerHolds
<1>3. UNCHANGED Archive
    BY SMTT(60) DEF read_capture_status, Archive
<1> QED
    BY <1>1, <1>2, <1>3, ArchiveKept DEF IInv

-----------------------------------------------------------------------------
(* Steps that publish a fact *)

\* What one more fact does: published sources stay published, and the two fact
\* invariants survive if the fact is of the kind the history calls for.
LEMMA AppendedFact ==
    ASSUME IInv, NEW c \in Captures, NEW f \in Facts,
           facts' = [facts EXCEPT ![c] = Append(@, f)]
    PROVE  /\ facts' \in [Captures -> Seq(Facts)]
           /\ \A d \in Captures : HasFact(d) => HasFact(d)'
           /\ f.kind # "removed" => HasFact(c)'
           /\ (f.kind = "updated" => HasFact(c)) /\ (f.kind = "captured" => ~HasFact(c))
                => CapturedOnceAndFirst'
           /\ f.kind # "removed" /\ removed' = removed => RemovedOnce'
           /\ f.kind = "removed" /\ c \notin removed /\ removed' = removed \cup {c}
                => RemovedOnce'
<1> USE DEF IInv
<1>1. /\ facts[c] \in Seq(Facts) /\ facts'[c] = Append(facts[c], f)
      /\ \A d \in Captures \ {c} : facts'[d] = facts[d]
      /\ facts' \in [Captures -> Seq(Facts)]
    BY SMTT(60) DEF TypeOK
<1>2. /\ Len(facts'[c]) = Len(facts[c]) + 1 /\ Len(facts[c]) \in Nat
      /\ facts'[c][Len(facts[c]) + 1] = f
      /\ \A k \in 1..Len(facts[c]) : facts'[c][k] = facts[c][k]
      /\ f.kind \in {"captured", "updated", "removed"}
      /\ \A k \in 1..Len(facts[c]) : facts[c][k].kind \in {"captured", "updated", "removed"}
    BY <1>1, SMTT(60) DEF Facts
<1>3. \A d \in Captures : HasFact(d) => HasFact(d)'
    BY <1>1, <1>2, SMTT(60) DEF HasFact
<1>4. f.kind # "removed" => HasFact(c)'
    BY <1>1, <1>2, SMTT(60) DEF HasFact
<1>5. ASSUME f.kind = "updated" => HasFact(c), f.kind = "captured" => ~HasFact(c)
      PROVE  CapturedOnceAndFirst'
    <2> SUFFICES ASSUME NEW d \in Captures, NEW i \in 1..Len(facts'[d])
                 PROVE  facts'[d][i].kind = "captured" <=>
                          /\ facts'[d][i].kind # "removed"
                          /\ \A j \in 1..(i - 1) : facts'[d][j].kind = "removed"
        BY SMTT(60) DEF CapturedOnceAndFirst
    <2>1. CASE d # c
        BY <2>1, <1>1, SMTT(60) DEF CapturedOnceAndFirst
    <2>2. CASE d = c /\ i \in 1..Len(facts[c])
        <3>1. \A j \in 1..(i - 1) : facts'[c][j] = facts[c][j]
            BY <2>2, <1>2, SMTT(60)
        <3> QED
            BY <3>1, <2>2, <1>2, SMTT(60) DEF CapturedOnceAndFirst
    <2>3. CASE d = c /\ i = Len(facts[c]) + 1
        <3>1. HasFact(c) <=> ~(\A j \in 1..(i - 1) : facts'[c][j].kind = "removed")
            BY <2>3, <1>2, SMTT(60) DEF HasFact
        <3> QED
            BY <3>1, <2>3, <1>2, <1>5, SMTT(60)
    <2> QED
        BY <1>2, <2>1, <2>2, <2>3, SMTT(60)
<1>6. ASSUME f.kind # "removed", removed' = removed
      PROVE  RemovedOnce'
    <2> SUFFICES ASSUME NEW d \in Captures
                 PROVE  /\ d \in removed <=> \E i \in 1..Len(facts'[d]) : facts'[d][i].kind = "removed"
                        /\ \A i, j \in 1..Len(facts'[d]) :
                             facts'[d][i].kind = "removed" /\ facts'[d][j].kind = "removed" => i = j
        BY <1>6, SMTT(60) DEF RemovedOnce
    <2>1. \A i \in 1..Len(facts'[d]) : facts'[d][i].kind = "removed" =>
              i \in 1..Len(facts[d]) /\ facts'[d][i] = facts[d][i]
        BY <1>1, <1>2, <1>6, SMTT(60)
    <2>2. \A i \in 1..Len(facts[d]) : i \in 1..Len(facts'[d]) /\ facts'[d][i] = facts[d][i]
        BY <1>1, <1>2, SMTT(60)
    <2> QED
        BY <2>1, <2>2 DEF RemovedOnce
<1>7. ASSUME f.kind = "removed", c \notin removed, removed' = removed \cup {c}
      PROVE  RemovedOnce'
    <2> SUFFICES ASSUME NEW d \in Captures
                 PROVE  /\ d \in removed' <=> \E i \in 1..Len(facts'[d]) : facts'[d][i].kind = "removed"
                        /\ \A i, j \in 1..Len(facts'[d]) :
                             facts'[d][i].kind = "removed" /\ facts'[d][j].kind = "removed" => i = j
        BY SMTT(60) DEF RemovedOnce
    <2>1. CASE d # c
        BY <2>1, <1>1, <1>7, SMTT(60) DEF RemovedOnce
    <2>2. CASE d = c
        BY <2>2, <1>2, <1>7 DEF RemovedOnce
    <2> QED
        BY <2>1, <2>2, SMTT(60)
<1> QED
    BY <1>1, <1>3, <1>4, <1>5, <1>6, <1>7, SMTT(60)

\* What no fact does.
LEMMA SameFacts ==
    ASSUME IInv, facts' = facts, removed' = removed
    PROVE  /\ facts' \in [Captures -> Seq(Facts)]
           /\ \A d \in Captures : HasFact(d) => HasFact(d)'
           /\ CapturedOnceAndFirst' /\ RemovedOnce'
<1>1. facts' \in [Captures -> Seq(Facts)]
    BY SMTT(60) DEF IInv, TypeOK
<1>2. \A d \in Captures : HasFact(d) => HasFact(d)'
    BY SMTT(60) DEF HasFact
<1>3. CapturedOnceAndFirst'
    BY SMTT(60) DEF IInv, CapturedOnceAndFirst
<1>4. RemovedOnce'
    BY DEF IInv, RemovedOnce
<1> QED
    BY <1>1, <1>2, <1>3, <1>4

\* Reports are only about sources that stay published.
LEMMA ReportsKept ==
    ASSUME IInv, UNCHANGED <<operations, reported, reports>>,
           \A d \in Captures : HasFact(d) => HasFact(d)'
    PROVE  OneReportPerOperation' /\ PreservedIsPublished'
<1> USE DEF IInv
<1>1. OneReportPerOperation'
    BY SMTT(60) DEF OneReportPerOperation
<1>2. PreservedIsPublished'
    <2> SUFFICES ASSUME NEW o \in Operations, NEW i \in 1..Len(reports[o]),
                        reports[o][i] = "preserved"
                 PROVE  HasFact(operations[o])'
        BY SMTT(60) DEF PreservedIsPublished
    <2>1. HasFact(operations[o])
        BY SMTT(20), SMTT(60) DEF PreservedIsPublished
    <2>2. operations[o] \in Captures
        BY DEF Bound, TypeOK
    <2> QED
        BY <2>1, <2>2, SMTT(60)
<1> QED
    BY <1>1, <1>2, SMTT(60)

\* A row that concludes, with the fact invariants and the projection given.
LEMMA RowAndFacts ==
    ASSUME IInv, NEW c \in Captures, NEW row \in Rows,
           capture[c].status # "absent" => row.status # "absent",
           capture' = [capture EXCEPT ![c] = row],
           row.status = "accepted" =>
               capture[c].status = "accepted" /\ (capture[c].due # "null" => row.due # "null"),
           row.status = "resolved" => HasFact(c)',
           row.media_id # "null" => HasFact(c)',
           \A d \in Captures : HasFact(d) => HasFact(d)',
           media' \in [Permalinks -> Content \cup {NoContent}],
           row.media_id # "null" => media'[PermalinkOf[c]] \in Content,
           \A p \in Permalinks : media[p] \in Content => media'[p] \in Content,
           UNCHANGED <<operations, reported, reports>>
    PROVE  /\ Bound' /\ LinkedIsPublished' /\ OneReportPerOperation'
           /\ PendingIsScheduled' /\ PreservedIsPublished'
<1>1. /\ capture'[c] = row
      /\ \A d \in Captures \ {c} : capture'[d] = capture[d]
    BY SMTT(20), SMTT(60) DEF IInv, TypeOK
<1>2. Bound'
    <2>1. \A d \in Captures : capture[d].status # "absent" => capture'[d].status # "absent"
        BY <1>1, SMTT(60)
    <2>2. \A o \in Operations : operations[o] # NoCapture => operations[o] \in Captures
        BY SMTT(60) DEF IInv, TypeOK
    <2> QED
        BY <2>1, <2>2, SMTT(60) DEF IInv, Bound
<1>3. PendingIsScheduled'
    BY <1>1 DEF IInv, PendingIsScheduled, TypeOK
<1>4. LinkedIsPublished'
    <2> SUFFICES ASSUME NEW d \in Captures
                 PROVE  /\ capture'[d].status = "resolved" => HasFact(d)'
                        /\ capture'[d].media_id # "null" =>
                             HasFact(d)' /\ media'[PermalinkOf[d]] \in Content
        BY ZenonT(60) DEF LinkedIsPublished
    <2>1. CASE d = c
        <3>1. /\ capture'[c].status = "resolved" => HasFact(c)'
              /\ capture'[c].media_id # "null" =>
                   HasFact(c)' /\ media'[PermalinkOf[c]] \in Content
            BY <1>1, ZenonT(60)
        <3> QED
            BY <2>1, <3>1, ZenonT(60)
    <2>2. CASE d # c
        BY <1>1, <2>2, CaptureAssumption, SMTT(60) DEF IInv, LinkedIsPublished
    <2> QED
        BY <2>1, <2>2, ZenonT(60)
<1> QED
    BY <1>2, <1>3, <1>4, ReportsKept, ZenonT(60)

\* A failed resolution publishes nothing unless the source was preserved and is
\* now deleted upstream; then it had a captured fact and gets an update.
LEMMA record_failed_resolutionIInv ==
    ASSUME IInv, NEW w \in Workers, NEW i \in worker[w].leased, NEW outcome \in Failures,
           record_failed_resolution(w, i, outcome)
    PROVE  IInv'
<1>1. worker[w] \in Pass /\ i \in Items /\ i.capture \in Captures
    BY DEF IInv, TypeOK, Pass, Items
<1> DEFINE c == i.capture
           p == PermalinkOf[c]
           gone == outcome = "deleted" /\ capture[c].media_id # "null"
           content == [media[p] EXCEPT !.upstream = "deleted"]
           row == [capture[c] EXCEPT !.status =
                     IF capture[c].status \in {"accepted", "resolved"} THEN "unavailable"
                     ELSE capture[c].status]
           r == Conclude(worker[w].now, i, worker[w].leased \ {i})
           f == Fact("updated", content)
<1>2. c \in Captures /\ p \in Permalinks /\ capture[c] \in Rows
    BY <1>1, CaptureAssumption, Zenon DEF IInv, TypeOK
<1>3. /\ row \in Rows /\ row.status \notin {"accepted", "resolved"}
      /\ row.media_id = capture[c].media_id
      /\ capture[c].status # "absent" => row.status # "absent"
    BY <1>2, SMTT(60) DEF Rows, Status, Concluded
<1>4. capture' = [capture EXCEPT ![c] = row]
    BY <1>2, SMTT(60) DEF record_failed_resolution, IInv, TypeOK
<1>5. gone => HasFact(c) /\ media[p] \in Content
    BY <1>2, ZenonT(60) DEF IInv, LinkedIsPublished
<1>6. gone => content \in Content
    BY <1>5, SMTT(60) DEF Content
<1>7. /\ r \in Pass /\ r.step # "store"
      /\ r.step = "report" => r.item = i
      /\ worker' = [worker EXCEPT ![w] = r]
    <2>1. worker[w].now \in Nat /\ worker[w].leased \ {i} \in SUBSET Items
        BY <1>1 DEF Pass
    <2>2. worker' = [worker EXCEPT ![w] = r]
        BY DEF record_failed_resolution
    <2> QED
        BY <1>1, <2>1, <2>2, ConcludePass, SMTT(20), SMTT(60)
<1>8. /\ media' = IF gone THEN [media EXCEPT ![p] = content] ELSE media
      /\ facts' = IF gone THEN [facts EXCEPT ![c] = Append(@, f)] ELSE facts
      /\ removed' = removed
      /\ UNCHANGED <<operations, reported, reports>>
    BY DEF record_failed_resolution
<1>9. gone => f \in Facts /\ f.kind = "updated"
    BY <1>6 DEF Facts, Fact
<1>10. latest' \in [Captures -> [at: Nat, kind: Kinds \cup {"none"}]]
    BY <1>1, RecordedKinds, ObserveType DEF record_failed_resolution, Pass
<1> HIDE DEF c, p, content, row, r, f
<1>11. /\ media' \in [Permalinks -> Content \cup {NoContent}]
       /\ \A q \in Permalinks : media[q] \in Content => media'[q] \in Content
    BY <1>2, <1>6, <1>8, ZenonT(60) DEF IInv, TypeOK
<1>12. /\ facts' \in [Captures -> Seq(Facts)] /\ CapturedOnceAndFirst' /\ RemovedOnce'
       /\ \A d \in Captures : HasFact(d) => HasFact(d)'
    <2>1. CASE gone
        <3>1. facts' = [facts EXCEPT ![c] = Append(@, f)] /\ f \in Facts /\ f.kind = "updated"
            BY <1>8, <1>9, <2>1, Zenon
        <3> QED
            BY <1>2, <1>5, <1>8, <2>1, <3>1, AppendedFact, ZenonT(60)
    <2>2. CASE ~gone
        <3>1. facts' = facts
            BY <1>8, <2>2, SMTT(60)
        <3> QED
            BY <1>8, <3>1, SameFacts
    <2> QED
        BY <2>1, <2>2, SMTT(20), SMTT(60)
<1>13. row.media_id # "null" => HasFact(c)' /\ media'[p] \in Content
    BY <1>2, <1>3, <1>11, <1>12 DEF IInv, LinkedIsPublished, p
<1>14. /\ Bound' /\ LinkedIsPublished' /\ OneReportPerOperation'
       /\ PendingIsScheduled' /\ PreservedIsPublished'
    BY <1>2, <1>3, <1>4, <1>8, <1>11, <1>12, <1>13, RowAndFacts, ZenonT(60) DEF p
<1>15. TypeOK'
    <2>1. capture' \in [Captures -> Rows]
        BY <1>2, <1>3, <1>4, Zenon DEF IInv, TypeOK
    <2>2. worker' \in [Workers -> Pass]
        BY <1>7 DEF IInv, TypeOK
    <2> QED
        BY <1>10, <1>11, <1>12, <2>1, <2>2, SMTT(60) DEF record_failed_resolution, IInv, TypeOK
<1>16. WorkerHolds'
    BY <1>1, <1>7, ZenonT(60) DEF IInv, TypeOK, WorkerHolds
<1> QED
    BY <1>12, <1>14, <1>15, <1>16, SMTT(60) DEF IInv

\* A stored payload resolves and links the capture and publishes it unless that
\* was done before; the fact is the captured one exactly if there was none.
LEMMA store_resolutionIInv ==
    ASSUME IInv, NEW w \in Workers, store_resolution(w)
    PROVE  IInv'
<1>1. /\ worker[w] \in Pass /\ worker[w].item \in Items
      /\ worker[w].caption \in Captions
    BY SMTT(60) DEF IInv, TypeOK, WorkerHolds, store_resolution
<1>2. PICK i \in Items, c \in Captures : i = worker[w].item /\ c = i.capture
    BY <1>1, SMTT(60) DEF Items
<1> DEFINE p == PermalinkOf[c]
           content == [caption |-> worker[w].caption, upstream |-> "available"]
           f == Fact(fact_kind(c), content)
           row == [capture[c] EXCEPT !.status = "resolved", !.media_id = "set"]
           r == Conclude(worker[w].now, i, worker[w].leased)
           told == publishes(c, worker[w].prior, worker[w].caption)
<1>3. p \in Permalinks /\ capture[c] \in Rows
    BY <1>2, CaptureAssumption DEF IInv, TypeOK
<1>4. row \in Rows /\ row.status = "resolved"
    BY <1>3, ZenonT(60) DEF Rows, Status, Concluded
<1>5. content \in Content
    BY <1>1, SMTT(60) DEF Content
<1>6. /\ f \in Facts
      /\ f.kind = IF HasFact(c) THEN "updated" ELSE "captured"
    BY <1>5 DEF Facts, Fact, fact_kind
<1>7. /\ capture' = [capture EXCEPT ![c] = row]
      /\ media' = [media EXCEPT ![p] = content]
      /\ facts' = IF told THEN [facts EXCEPT ![c] = Append(@, f)] ELSE facts
      /\ worker' = [worker EXCEPT ![w] = r]
      /\ removed' = removed
      /\ UNCHANGED <<operations, reported, reports>>
    BY <1>2, <1>3, ZenonT(60) DEF store_resolution, IInv, TypeOK
<1>8. /\ r \in Pass /\ r.step # "store"
      /\ r.step = "report" => r.item = i
    <2>1. worker[w].now \in Nat /\ worker[w].leased \in SUBSET Items
        BY <1>1, SMTT(60) DEF Pass
    <2> QED
        BY <1>1, <2>1, ConcludePass, SMTT(60)
<1>9. latest' \in [Captures -> [at: Nat, kind: Kinds \cup {"none"}]]
    <2>1. worker[w].now \in Nat /\ "available" \in Kinds
        BY <1>1, SMTT(20), SMTT(60) DEF Pass, Kinds
    <2>2. Observe(c, worker[w].now, "available")
        BY <1>2 DEF store_resolution
    <2> QED
        BY <2>1, <2>2, ObserveType, SMTT(60)
<1>10. ~told => HasFact(c)
    BY SMTT(60) DEF publishes
<1> HIDE DEF p, content, row, r, f, told
<1>11. /\ facts' \in [Captures -> Seq(Facts)] /\ CapturedOnceAndFirst' /\ RemovedOnce'
       /\ HasFact(c)'
       /\ \A d \in Captures : HasFact(d) => HasFact(d)'
    <2>1. CASE told
        <3>1. facts' = [facts EXCEPT ![c] = Append(@, f)] /\ f.kind # "removed"
            BY <1>6, <1>7, <2>1
        <3>2. (f.kind = "updated" => HasFact(c)) /\ (f.kind = "captured" => ~HasFact(c))
            BY <1>6, SMTT(60)
        <3> QED
            BY <1>2, <1>6, <1>7, <3>1, <3>2, AppendedFact, ZenonT(60)
    <2>2. CASE ~told
        <3>1. facts' = facts
            BY <1>7, <2>2, SMTT(60)
        <3> QED
            BY <1>7, <1>10, <2>2, <3>1, SameFacts
    <2> QED
        BY <2>1, <2>2
<1>12. /\ media' \in [Permalinks -> Content \cup {NoContent}]
       /\ media'[p] \in Content
       /\ \A q \in Permalinks : media[q] \in Content => media'[q] \in Content
    BY <1>3, <1>5, <1>7 DEF IInv, TypeOK
<1>13. /\ Bound' /\ LinkedIsPublished' /\ OneReportPerOperation'
       /\ PendingIsScheduled' /\ PreservedIsPublished'
    BY <1>2, <1>4, <1>7, <1>11, <1>12, RowAndFacts, Zenon DEF p
<1>14. TypeOK'
    <2>1. capture' \in [Captures -> Rows]
        BY <1>2, <1>4, <1>7, SMTT(60) DEF IInv, TypeOK
    <2>2. worker' \in [Workers -> Pass]
        BY <1>7, <1>8, SMTT(20), SMTT(60) DEF IInv, TypeOK
    <2> QED
        BY <1>9, <1>11, <1>12, <2>1, <2>2, ZenonT(60) DEF store_resolution, IInv, TypeOK
<1>15. WorkerHolds'
    BY <1>1, <1>7, <1>8, SMTT(60) DEF IInv, TypeOK, WorkerHolds
<1> QED
    BY <1>11, <1>13, <1>14, <1>15, SMTT(60) DEF IInv

\* A tombstone appends the one removal fact of its source.
LEMMA tombstone_captureIInv ==
    ASSUME IInv, NEW c \in Captures, tombstone_capture(c)
    PROVE  IInv'
<1> DEFINE f == Fact("removed", NoContent)
           row == [capture[c] EXCEPT !.status = "tombstoned"]
<1>1. capture[c] \in Rows
    BY DEF IInv, TypeOK
<1>2. row \in Rows /\ row.status = "tombstoned" /\ row.media_id = capture[c].media_id
    BY <1>1, SMTT(60) DEF Rows, Status, Concluded
<1>3. f \in Facts /\ f.kind = "removed"
    BY DEF Facts, Fact
<1>4. /\ capture' = [capture EXCEPT ![c] = row]
      /\ facts' = [facts EXCEPT ![c] = Append(@, f)]
      /\ c \notin removed /\ removed' = removed \cup {c}
      /\ UNCHANGED <<operations, reported, reports>> /\ media' = media
    BY DEF tombstone_capture, not_removed
<1> HIDE DEF f, row
<1>5. /\ facts' \in [Captures -> Seq(Facts)] /\ CapturedOnceAndFirst' /\ RemovedOnce'
      /\ \A d \in Captures : HasFact(d) => HasFact(d)'
    BY <1>3, <1>4, AppendedFact, ZenonT(60)
<1>6. row.media_id # "null" => HasFact(c)' /\ media'[PermalinkOf[c]] \in Content
    BY <1>2, <1>4, <1>5, SMTT(20), SMTT(60) DEF IInv, LinkedIsPublished
<1>7. media' \in [Permalinks -> Content \cup {NoContent}]
    BY <1>4, SMTT(60) DEF IInv, TypeOK
<1>8. /\ Bound' /\ LinkedIsPublished' /\ OneReportPerOperation'
      /\ PendingIsScheduled' /\ PreservedIsPublished'
    BY <1>2, <1>4, <1>5, <1>6, <1>7, RowAndFacts, ZenonT(60)
<1>9. TypeOK'
    <2>1. capture' \in [Captures -> Rows]
        BY <1>2, <1>4 DEF IInv, TypeOK
    <2> QED
        BY <1>4, <1>5, <2>1 DEF tombstone_capture, IInv, TypeOK
<1>10. WorkerHolds'
    BY DEF tombstone_capture, IInv, WorkerHolds
<1> QED
    BY <1>5, <1>8, <1>9, <1>10 DEF IInv

-----------------------------------------------------------------------------
(* The specification *)

\* Every step of Next, one case per action.
THEOREM NextIInv == IInv /\ [Next]_vars => IInv'
<1> SUFFICES ASSUME IInv, [Next]_vars PROVE IInv'
    OBVIOUS
<1>1. ASSUME NEW c \in Captures, submit_capture(c) PROVE IInv'
    BY <1>1, submit_captureIInv
<1>2. ASSUME NEW m \in Commands, IngestRejected(m) PROVE IInv'
    BY <1>2, IngestRejectedIInv
<1>3. ASSUME NEW m \in Commands, IngestPreserved(m) PROVE IInv'
    BY <1>3, IngestPreservedIInv
<1>4. CASE UNCHANGED vars
    <2>1. TypeOK'
        BY <1>4 DEF vars, IInv, TypeOK
    <2>2. WorkerHolds'
        BY <1>4, ZenonT(60) DEF vars, IInv, WorkerHolds
    <2>3. UNCHANGED Archive
        BY <1>4 DEF vars, Archive
    <2> QED
        BY <2>1, <2>2, <2>3, ArchiveKept DEF IInv
<1>5. CASE Intake
    BY <1>1, <1>2, <1>3, <1>4, <1>5 DEF Intake, IngestDuplicate
<1>6. ASSUME NEW w \in Workers, Claim(w) PROVE IInv'
    BY <1>6, claimIInv, SMTT(20) DEF Claim
<1>7. ASSUME NEW w \in Workers, Advance(w) PROVE IInv'
    <2>1. ASSUME NEW i \in worker[w].leased, reschedule(w, i) PROVE IInv'
        BY <2>1, rescheduleIInv, SMTT(60)
    <2>2. ASSUME NEW i \in worker[w].leased, NEW outcome \in Failures,
                 record_failed_resolution(w, i, outcome)
          PROVE  IInv'
        BY <2>2, record_failed_resolutionIInv, SMTT(60)
    <2>3. ASSUME NEW i \in worker[w].leased, NEW caption \in Captions,
                 read_prior_projection(w, i, caption)
          PROVE  IInv'
        BY <2>3, read_prior_projectionIInv, SMTT(60)
    <2>4. CASE store_resolution(w)
        BY <2>4, store_resolutionIInv
    <2>5. CASE lose_media_insert(w)
        BY <2>5, lose_media_insertIInv
    <2>6. CASE report_concluded(w)
        BY <2>6, report_concludedIInv
    <2> QED
        BY <1>7, <2>1, <2>2, <2>3, <2>4, <2>5, <2>6, ZenonT(30), ZenonT(60) DEF Advance
<1>8. ASSUME NEW w \in Workers, fail_item(w) \/ Crash(w) PROVE IInv'
    BY <1>8, fail_itemIInv, CrashIInv, SMTT(60)
<1>9. ASSUME NEW c \in Captures, Elapse(c) PROVE IInv'
    BY <1>9, ElapseIInv
<1>10. CASE ServiceStep
    BY <1>5, <1>6, <1>7, <1>8, <1>9, <1>10, SMTT(60) DEF ServiceStep
<1>11. CASE LibraryStep
    <2> SUFFICES ASSUME NEW c \in Captures,
                        \/ \E w \in Workers : resolve_capture_permalink(w, c)
                        \/ read_capture_status(c)
                        \/ \E reason \in Reasons : record_capture_unavailable(c, reason)
                        \/ tombstone_capture(c)
                 PROVE  IInv'
        BY <1>11 DEF LibraryStep
    <2>1. ASSUME NEW w \in Workers, resolve_capture_permalink(w, c) PROVE IInv'
        BY <2>1, resolve_capture_permalinkIInv
    <2>2. CASE read_capture_status(c)
        BY <2>2, read_capture_statusIInv
    <2>3. ASSUME NEW reason \in Reasons, record_capture_unavailable(c, reason) PROVE IInv'
        BY <2>3, record_capture_unavailableIInv
    <2>4. CASE tombstone_capture(c)
        BY <2>4, tombstone_captureIInv
    <2> QED
        BY <2>1, <2>2, <2>3, <2>4, SMTT(60)
<1> QED
    BY <1>4, <1>10, <1>11 DEF Next

\* IInv holds in every reachable state of the archive.
THEOREM Inductive == Spec => []IInv
<1> QED
    BY InitIInv, NextIInv, PTL DEF Spec

\* Every variable keeps its type; in particular the attempts of a capture stay
\* below max_attempts whatever overlapping workers write.
THEOREM TypeCorrect == Spec => []TypeOK
<1>1. IInv => TypeOK
    BY DEF IInv
<1> QED
    BY <1>1, Inductive, PTL

\* Operations get their queued report and then exactly one terminal report, for
\* any number of commands, workers, crashes and library calls.
THEOREM ReportsCorrect == Spec => []OneReportPerOperation
<1>1. IInv => OneReportPerOperation
    BY DEF IInv
<1> QED
    BY <1>1, Inductive, PTL

\* No operation that waits for its report is out of the worker's sight.
THEOREM PendingFound == Spec => []PendingIsScheduled
<1>1. IInv => PendingIsScheduled
    BY DEF IInv
<1> QED
    BY <1>1, Inductive, PTL

\* A succeeded report is about a published source.
THEOREM PreservedPublished == Spec => []PreservedIsPublished
<1>1. IInv => PreservedIsPublished
    BY DEF IInv
<1> QED
    BY <1>1, Inductive, PTL

\* The captured fact comes once and first.
THEOREM CapturedFirst == Spec => []CapturedOnceAndFirst
<1>1. IInv => CapturedOnceAndFirst
    BY DEF IInv
<1> QED
    BY <1>1, Inductive, PTL

\* The removal fact comes once, with its guard row.
THEOREM RemovalOnce == Spec => []RemovedOnce
<1>1. IInv => RemovedOnce
    BY DEF IInv
<1> QED
    BY <1>1, Inductive, PTL
=============================================================================
