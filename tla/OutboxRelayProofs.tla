-------------------------- MODULE OutboxRelayProofs --------------------------
(***************************************************************************)
(* Proofs about the outbox relay, for any set of rows, relays and removals *)
(* and any policy: its types, that a published row was stored, that an     *)
(* unanswered removal stays armed, and that the relay implements the       *)
(* removal handshake.                                                      *)
(*                                                                         *)
(* PublishedIsStored is not inductive: a relay that is about to mark a row *)
(* must already have had it stored (MarkedIsStored).  The handshake needs  *)
(* every answer under way to be one that Knowledge gave (AnswersAreGiven). *)
(***************************************************************************)
EXTENDS OutboxRelay, TLAPS

\* A relay past a delivery holds a row, and one that will mark it had it stored.
MarkedIsStored ==
    \A r \in Relays :
        /\ relay[r].step \in {"mark", "backoff"} => relay[r].item \in Events
        /\ relay[r].step = "mark" => stream[relay[r].item] # "never"

\* An answer under way is Knowledge's answer to a removal.
AnswersAreGiven ==
    \A e \in Events, o \in AckOutcome :
        <<e, o>> \in acks => e \in Removals /\ o \in answers[e]

IInv ==
    /\ TypeOK
    /\ MarkedIsStored
    /\ PublishedIsStored
    /\ RemovalStaysArmed
    /\ AnswersAreGiven

-----------------------------------------------------------------------------
(* The statements *)

\* Every statement of pump.rs and removal_ack.rs leaves a well-typed row.
LEMMA StatementTypes ==
    ASSUME TypeOK, NEW e \in Events
    PROVE  /\ mark_published(e) \in Rows
           /\ mark_undeliverable(e) \in Rows
           /\ record_transient_failure(e) \in Rows
           /\ record_resend(e) \in Rows
           /\ \A o \in AckOutcome : acknowledge(e, o) \in Rows
<1>1. row[e] \in Rows
  BY DEF TypeOK
<1> DEFINE more == Least(row[e].attempts + 1, FAILING_ATTEMPTS)
<1>a. row[e].attempts \in 0..FAILING_ATTEMPTS /\ row[e].delay \in After..Cap
  BY <1>1 DEF Rows
<1>b. more \in 0..FAILING_ATTEMPTS /\ 0 \in 0..FAILING_ATTEMPTS
  BY <1>a DEF Least, FAILING_ATTEMPTS
<1>c. Backoff \in 0..Backoff /\ After \in 0..Cap /\ 0 \in 0..Cap
  BY RelayAssumption
<1>d. doubled(row[e].delay) \in After..Cap /\ row[e].delay \in 0..Cap
  BY <1>a, RelayAssumption DEF doubled, Least
<1>2. mark_published(e) \in Rows
  BY <1>1, <1>c, ZenonT(60) DEF mark_published, Rows
<1>3. mark_undeliverable(e) \in Rows
  <2> HIDE DEF more
  <2>1. [row[e] EXCEPT !.attempts = more, !.undeliverable = "yes"] \in Rows
    BY <1>1, <1>b, ZenonT(60) DEF Rows
  <2> QED
    BY <2>1 DEF mark_undeliverable, more
<1>4. record_transient_failure(e) \in Rows
  <2> HIDE DEF more
  <2>1. [row[e] EXCEPT !.attempts = more, !.wait = Backoff] \in Rows
    BY <1>1, <1>b, <1>c, ZenonT(60) DEF Rows
  <2> QED
    BY <2>1 DEF record_transient_failure, more
<1>5. record_resend(e) \in Rows
  BY <1>1, <1>b, <1>d, ZenonT(60) DEF record_resend, Rows
<1>6. ASSUME NEW o \in AckOutcome
      PROVE  acknowledge(e, o) \in Rows
  BY <1>1, <1>6 DEF acknowledge, Rows
<1> QED
  BY <1>2, <1>3, <1>4, <1>5, <1>6

\* No statement but mark_published publishes a row, and none disarms a removal.
LEMMA StatementEffects ==
    ASSUME TypeOK, RemovalStaysArmed, NEW e \in Events
    PROVE  /\ mark_undeliverable(e).status = row[e].status
           /\ record_transient_failure(e).status = row[e].status
           /\ record_resend(e).status = row[e].status
           /\ \A o \in AckOutcome : acknowledge(e, o).status = row[e].status
           /\ e \in Removals =>
                \A new \in {mark_published(e), mark_undeliverable(e),
                            record_transient_failure(e), record_resend(e)}
                           \cup {acknowledge(e, o) : o \in AckOutcome} :
                    new.status = "published" /\ new.acked = "no" => new.armed = "yes"
<1>1. row[e] \in Rows
  BY DEF TypeOK
<1>2. e \in Removals /\ row[e].status = "published" /\ row[e].acked = "no"
         => row[e].armed = "yes"
  BY DEF RemovalStaysArmed
<1>3. e \in Removals /\ mark_published(e).status = "published" /\ mark_published(e).acked = "no"
         => mark_published(e).armed = "yes"
  BY <1>1, <1>2 DEF mark_published, Rows
<1>4. /\ mark_undeliverable(e).status = row[e].status
      /\ mark_undeliverable(e).acked = row[e].acked
      /\ mark_undeliverable(e).armed = row[e].armed
  BY <1>1 DEF mark_undeliverable, Rows
<1>5. /\ record_transient_failure(e).status = row[e].status
      /\ record_transient_failure(e).acked = row[e].acked
      /\ record_transient_failure(e).armed = row[e].armed
  BY <1>1 DEF record_transient_failure, Rows
<1>6. /\ record_resend(e).status = row[e].status
      /\ record_resend(e).acked = row[e].acked
      /\ record_resend(e).armed = row[e].armed
  BY <1>1 DEF record_resend, Rows
<1>7. ASSUME NEW o \in AckOutcome
      PROVE  /\ acknowledge(e, o).status = row[e].status
             /\ acknowledge(e, o).acked # "no"
  BY <1>1, <1>7 DEF acknowledge, Rows, AckOutcome
<1> QED
  BY <1>2, <1>3, <1>4, <1>5, <1>6, <1>7

-----------------------------------------------------------------------------
(* What a step may do to one row and to one relay *)

\* One row changes: what was published stays stored and armed.
LEMMA OneRow ==
    ASSUME IInv, NEW e \in Events, NEW new \in Rows,
           row' = [row EXCEPT ![e] = new], stream' = stream,
           new.status = "published" => row[e].status = "published" \/ stream[e] # "never",
           e \in Removals /\ new.status = "published" /\ new.acked = "no" => new.armed = "yes"
    PROVE  row' \in [Events -> Rows] /\ PublishedIsStored' /\ RemovalStaysArmed'
<1>1. row \in [Events -> Rows] /\ PublishedIsStored /\ RemovalStaysArmed
  BY DEF IInv, TypeOK
<1>2. row' \in [Events -> Rows]
  BY <1>1
<1>3. row'[e] = new /\ \A f \in Events : f # e => row'[f] = row[f]
  BY <1>1
<1>4. PublishedIsStored'
  BY <1>1, <1>3 DEF PublishedIsStored
<1>5. RemovalStaysArmed'
  BY <1>1, <1>3, RelayAssumption DEF RemovalStaysArmed
<1> QED
  BY <1>2, <1>4, <1>5

\* One relay moves: what it holds is a row, stored if it is to be marked.
LEMMA OneRelay ==
    ASSUME IInv, NEW r \in Relays, NEW pass \in Pass,
           relay' = [relay EXCEPT ![r] = pass],
           \A e \in Events : stream[e] # "never" => stream'[e] # "never",
           pass.step \in {"mark", "backoff"} => pass.item \in Events,
           pass.step = "mark" => stream'[pass.item] # "never"
    PROVE  relay' \in [Relays -> Pass] /\ MarkedIsStored'
<1>1. relay \in [Relays -> Pass] /\ MarkedIsStored
  BY DEF IInv, TypeOK
<1>2. relay'[r] = pass /\ \A q \in Relays : q # r => relay'[q] = relay[q]
  BY <1>1
<1>3. relay' \in [Relays -> Pass]
  BY <1>1
<1>4. MarkedIsStored'
  BY <1>1, <1>2 DEF MarkedIsStored
<1> QED
  BY <1>3, <1>4

\* The relay takes e from its queue and holds it.
LEMMA Holding ==
    ASSUME IInv, NEW r \in Relays, NEW e \in Events, NEW next \in {"mark", "backoff"},
           relay' = [relay EXCEPT ![r].step = next, ![r].item = e, ![r].queue = @ \ {e}],
           \A f \in Events : stream[f] # "never" => stream'[f] # "never",
           next = "mark" => stream'[e] # "never"
    PROVE  relay' \in [Relays -> Pass] /\ MarkedIsStored'
<1> DEFINE pass == [relay[r] EXCEPT !.step = next, !.item = e, !.queue = @ \ {e}]
<1>1. relay[r] \in Pass /\ relay \in [Relays -> Pass]
  BY DEF IInv, TypeOK
<1>2. pass \in Pass /\ pass.step = next /\ pass.item = e
  BY <1>1, ZenonT(60) DEF Pass
<1>3. relay' = [relay EXCEPT ![r] = pass]
  BY <1>1, ZenonT(60)
<1> HIDE DEF pass
<1> QED
  BY <1>2, <1>3, OneRelay, ZenonT(60)

\* A member of the queue is a row.
LEMMA QueueIsRows ==
    ASSUME IInv, NEW r \in Relays
    PROVE  Next_in(r) \subseteq Events
<1>1. relay[r] \in Pass
  BY DEF IInv, TypeOK
<1>2. relay[r].queue \subseteq Events
  BY <1>1 DEF Pass
<1> QED
  BY <1>2 DEF Next_in, Oldest

-----------------------------------------------------------------------------
(* The actions *)

\* Appending a row publishes nothing.
LEMMA appendIInv ==
    ASSUME IInv, NEW e \in Events, append(e)
    PROVE  IInv'
<1> DEFINE new == [row[e] EXCEPT !.status = "unpublished"]
<1>1. row[e] \in Rows /\ row \in [Events -> Rows]
  BY DEF IInv, TypeOK
<1>2. new \in Rows /\ new.status = "unpublished"
  BY <1>1 DEF Rows
<1>3. row' = [row EXCEPT ![e] = new]
  BY <1>1 DEF append
<1> HIDE DEF new
<1>4. row' \in [Events -> Rows] /\ PublishedIsStored' /\ RemovalStaysArmed'
  BY <1>2, <1>3, OneRow, ZenonT(60) DEF append
<1> QED
  BY <1>4 DEF append, IInv, TypeOK, MarkedIsStored, AnswersAreGiven

\* A pass starts: countdowns run, and the relay holds nothing yet.
LEMMA select_freshIInv ==
    ASSUME IInv, NEW r \in Relays, NEW d \in Intervals, select_fresh(r, d)
    PROVE  IInv'
<1> DEFINE later(e) == [row[e] EXCEPT !.wait = Less(@, d), !.resend = Less(@, d)]
           queue == Oldest({e \in Unpublished : [f \in Events |-> later(f)][e].wait = 0}, BatchSize)
           pass == [Idle EXCEPT !.step = "deliver", !.queue = queue]
<1>1. ASSUME NEW e \in Events
      PROVE  /\ later(e) \in Rows
             /\ later(e).status = row[e].status
             /\ later(e).acked = row[e].acked
             /\ later(e).armed = row[e].armed
  <2>1. row[e] \in Rows
    BY DEF IInv, TypeOK
  <2>2. row[e].wait \in 0..Backoff /\ row[e].resend \in 0..Cap
    BY <2>1 DEF Rows
  <2>3. Less(row[e].wait, d) \in 0..Backoff /\ Less(row[e].resend, d) \in 0..Cap
    BY <2>2, RelayAssumption DEF Less
  <2> QED
    BY <2>1, <2>3, ZenonT(60) DEF Rows
<1>2. row' = [e \in Events |-> later(e)]
  BY ZenonT(60) DEF select_fresh
<1>3. relay' = [relay EXCEPT ![r] = pass]
  BY ZenonT(60) DEF select_fresh
<1>4. pass \in Pass /\ pass.step = "deliver"
  <2>1. queue \subseteq Events
    BY ZenonT(60) DEF Oldest, Unpublished
  <2> HIDE DEF queue
  <2> QED
    BY <2>1, ZenonT(60) DEF Pass, Idle
<1> HIDE DEF later, pass
<1>5. row' \in [Events -> Rows]
  BY <1>1, <1>2
<1>6. PublishedIsStored'
  <2>1. stream' = stream /\ PublishedIsStored
    BY ZenonT(60) DEF select_fresh, IInv
  <2> QED
    BY <1>1, <1>2, <2>1, SMTT(60) DEF PublishedIsStored
<1>7. RemovalStaysArmed'
  BY <1>1, <1>2, RelayAssumption DEF RemovalStaysArmed, IInv
<1>8. relay' \in [Relays -> Pass] /\ MarkedIsStored'
  <2>1. stream' = stream
    BY ZenonT(60) DEF select_fresh
  <2> QED
    BY <1>3, <1>4, <2>1, OneRelay, ZenonT(60)
<1> QED
  BY <1>5, <1>6, <1>7, <1>8 DEF select_fresh, IInv, TypeOK, AnswersAreGiven

\* A delivered row is stored, whether or not the relay learns of it.
LEMMA deliverIInv ==
    ASSUME IInv, NEW r \in Relays, NEW e \in Events, deliver(r, e)
    PROVE  IInv'
<1>1. stream \in [Events -> {"never", "held", "gone"}]
  BY DEF IInv, TypeOK
<1>2. /\ stream' \in [Events -> {"never", "held", "gone"}]
      /\ stream'[e] # "never"
      /\ \A f \in Events : stream[f] # "never" => stream'[f] # "never"
  BY <1>1 DEF deliver
<1>3. PICK next \in {"mark", "backoff"} :
        relay' = [relay EXCEPT ![r].step = next, ![r].item = e, ![r].queue = @ \ {e}]
  BY SMTT(60) DEF deliver
<1>4. relay' \in [Relays -> Pass] /\ MarkedIsStored'
  BY <1>2, <1>3, Holding, ZenonT(60)
<1>5. trouble' \in 0..MaxTrouble
  BY RelayAssumption DEF deliver, IInv, TypeOK
<1>6. PublishedIsStored'
  BY <1>2 DEF PublishedIsStored, IInv, deliver
<1> QED
  BY <1>2, <1>4, <1>5, <1>6 DEF deliver, IInv, TypeOK, RemovalStaysArmed, AnswersAreGiven

\* A refused row is only held for its backoff.
LEMMA refuseIInv ==
    ASSUME IInv, NEW r \in Relays, NEW e \in Events, refuse(r, e)
    PROVE  IInv'
<1>1. stream' = stream
  BY DEF refuse
<1>2. relay' = [relay EXCEPT ![r].step = "backoff", ![r].item = e, ![r].queue = @ \ {e}]
  BY SMTT(60) DEF refuse
<1>3. relay' \in [Relays -> Pass] /\ MarkedIsStored'
  BY <1>1, <1>2, Holding, ZenonT(60)
<1>4. trouble' \in 0..MaxTrouble
  BY RelayAssumption DEF refuse, IInv, TypeOK
<1> QED
  BY <1>3, <1>4
  DEF refuse, IInv, TypeOK, PublishedIsStored, RemovalStaysArmed, AnswersAreGiven

\* An undeliverable row is set aside or, when it was published before, held for
\* its backoff.
LEMMA find_undeliverableIInv ==
    ASSUME IInv, NEW r \in Relays, NEW e \in Events, find_undeliverable(r, e)
    PROVE  IInv'
<1>1. stream' = stream
  BY DEF find_undeliverable
<1>2. trouble' \in 0..MaxTrouble
  BY RelayAssumption DEF find_undeliverable, IInv, TypeOK
<1>3. CASE relay[r].phase = "fresh"
  <2> DEFINE pass == [relay[r] EXCEPT !.queue = @ \ {e}]
  <2>1. mark_undeliverable(e) \in Rows /\ mark_undeliverable(e).status = row[e].status
    BY StatementTypes, StatementEffects DEF IInv
  <2>2. row' = [row EXCEPT ![e] = mark_undeliverable(e)]
    BY <1>3 DEF find_undeliverable
  <2>3. row' \in [Events -> Rows] /\ PublishedIsStored' /\ RemovalStaysArmed'
    <3>1. e \in Removals =>
            (mark_undeliverable(e).status = "published" /\ mark_undeliverable(e).acked = "no"
               => mark_undeliverable(e).armed = "yes")
      BY StatementEffects DEF IInv
    <3> QED
      BY <1>1, <2>1, <2>2, <3>1, OneRow, ZenonT(60)
  <2>4. relay[r] \in Pass /\ relay \in [Relays -> Pass]
    BY DEF IInv, TypeOK
  <2>5. pass \in Pass /\ pass.step = "deliver"
    BY <2>4 DEF Pass, find_undeliverable
  <2>6. relay' = [relay EXCEPT ![r] = pass]
    BY <1>3, <2>4 DEF find_undeliverable
  <2> HIDE DEF pass
  <2>7. relay' \in [Relays -> Pass] /\ MarkedIsStored'
    BY <1>1, <2>5, <2>6, OneRelay, ZenonT(60)
  <2> QED
    BY <1>2, <2>3, <2>7 DEF find_undeliverable, IInv, TypeOK, AnswersAreGiven
<1>4. CASE relay[r].phase = "resend"
  <2>1. relay' = [relay EXCEPT ![r].step = "backoff", ![r].item = e, ![r].queue = @ \ {e}]
    BY <1>4 DEF find_undeliverable
  <2>2. row' = row
    BY <1>4 DEF find_undeliverable
  <2>3. relay' \in [Relays -> Pass] /\ MarkedIsStored'
    BY <1>1, <2>1, Holding, ZenonT(60)
  <2> QED
    BY <1>2, <2>2, <2>3
    DEF find_undeliverable, IInv, TypeOK, PublishedIsStored, RemovalStaysArmed, AnswersAreGiven
<1> QED
  BY <1>3, <1>4 DEF find_undeliverable

\* The relay marks the row it delivered: a fresh row becomes published, and it
\* is one the broker has stored.
LEMMA markIInv ==
    ASSUME IInv, NEW r \in Relays, mark(r)
    PROVE  IInv'
<1>1. PICK e \in Events : e = relay[r].item /\ stream[e] # "never"
  BY DEF mark, IInv, MarkedIsStored
<1>2. PICK new \in {mark_published(e), record_resend(e)} : row' = [row EXCEPT ![e] = new]
  BY <1>1, ZenonT(60) DEF mark
<1>3. new \in Rows
  BY <1>2, StatementTypes DEF IInv
<1>4. e \in Removals /\ new.status = "published" /\ new.acked = "no" => new.armed = "yes"
  BY <1>2, StatementEffects DEF IInv
<1>5. stream' = stream
  BY DEF mark
<1>6. row' \in [Events -> Rows] /\ PublishedIsStored' /\ RemovalStaysArmed'
  BY <1>1, <1>2, <1>3, <1>4, <1>5, OneRow, ZenonT(60)
<1> DEFINE pass == [relay[r] EXCEPT !.step = "deliver", !.item = NoEvent]
<1>7. relay[r] \in Pass /\ relay \in [Relays -> Pass]
  BY DEF IInv, TypeOK
<1>8. pass \in Pass /\ pass.step = "deliver" /\ relay' = [relay EXCEPT ![r] = pass]
  BY <1>7, ZenonT(60) DEF Pass, mark
<1> HIDE DEF pass
<1>9. relay' \in [Relays -> Pass] /\ MarkedIsStored'
  BY <1>5, <1>8, OneRelay, ZenonT(60)
<1> QED
  BY <1>6, <1>9 DEF mark, IInv, TypeOK, AnswersAreGiven

\* A backoff publishes nothing.
LEMMA back_offIInv ==
    ASSUME IInv, NEW r \in Relays, back_off(r)
    PROVE  IInv'
<1>1. PICK e \in Events : e = relay[r].item
  BY DEF back_off, IInv, MarkedIsStored
<1> DEFINE new == record_transient_failure(e)
           fresh == relay[r].phase = "fresh"
           pass == [relay[r] EXCEPT !.step = "deliver", !.item = NoEvent,
                                    !.failed = IF fresh THEN "yes" ELSE @,
                                    !.queue = IF fresh THEN @ ELSE {}]
<1>2. row' = [row EXCEPT ![e] = new] /\ stream' = stream
  BY <1>1 DEF back_off
<1>3. new \in Rows /\ new.status = row[e].status
  BY StatementTypes, StatementEffects DEF IInv
<1>4. e \in Removals /\ new.status = "published" /\ new.acked = "no" => new.armed = "yes"
  BY StatementEffects DEF IInv
<1> HIDE DEF new
<1>5. row' \in [Events -> Rows] /\ PublishedIsStored' /\ RemovalStaysArmed'
  BY <1>2, <1>3, <1>4, OneRow, ZenonT(60)
<1>6. relay[r] \in Pass /\ relay \in [Relays -> Pass]
  BY DEF IInv, TypeOK
<1>7. pass \in Pass /\ pass.step = "deliver"
  BY <1>6, ZenonT(60) DEF Pass
<1>8. relay' = [relay EXCEPT ![r] = pass]
  BY <1>6, ZenonT(60) DEF back_off
<1> HIDE DEF pass
<1>9. relay' \in [Relays -> Pass] /\ MarkedIsStored'
  BY <1>2, <1>7, <1>8, OneRelay, ZenonT(60)
<1> QED
  BY <1>5, <1>9 DEF back_off, IInv, TypeOK, AnswersAreGiven

\* The resend phase starts with removals that are due.
LEMMA select_resendsIInv ==
    ASSUME IInv, NEW r \in Relays, select_resends(r)
    PROVE  IInv'
<1>1. PICK S \in SUBSET Due : relay' = [relay EXCEPT ![r].phase = "resend", ![r].queue = S]
  BY ZenonT(60) DEF select_resends
<1> DEFINE pass == [relay[r] EXCEPT !.phase = "resend", !.queue = S]
<1>2. relay[r] \in Pass /\ relay \in [Relays -> Pass] /\ stream' = stream
  BY DEF IInv, TypeOK, select_resends
<1>3. S \subseteq Events
  BY RelayAssumption DEF Due
<1>4. pass \in Pass /\ pass.step = "deliver"
  BY <1>2, <1>3, ZenonT(60) DEF Pass, select_resends
<1>5. relay' = [relay EXCEPT ![r] = pass]
  BY <1>1, <1>2, ZenonT(60)
<1> HIDE DEF pass
<1>6. relay' \in [Relays -> Pass] /\ MarkedIsStored'
  BY <1>2, <1>4, <1>5, OneRelay, ZenonT(60)
<1> QED
  BY <1>6
  DEF select_resends, IInv, TypeOK, PublishedIsStored, RemovalStaysArmed, AnswersAreGiven

\* A relay that becomes idle holds nothing.
LEMMA Idling ==
    ASSUME IInv, NEW r \in Relays, relay' = [relay EXCEPT ![r] = Idle], stream' = stream
    PROVE  relay' \in [Relays -> Pass] /\ MarkedIsStored'
<1>1. Idle \in Pass /\ Idle.step = "idle"
  BY DEF Pass, Idle
<1> QED
  BY <1>1, OneRelay, ZenonT(60)

\* A pass ends with a verdict on the relay that ran it.
LEMMA finishIInv ==
    ASSUME IInv, NEW r \in Relays, finish(r)
    PROVE  IInv'
<1>1. PICK old \in BOOLEAN : failing' = record(r, verdict_for(r, old))
  BY DEF finish
<1>2. relay[r].failed \in {"no", "yes"} /\ failing \subseteq Relays
  <2>1. relay[r] \in Pass
    BY DEF IInv, TypeOK
  <2> QED
    BY <2>1 DEF Pass, IInv, TypeOK
<1>3. verdict_for(r, old) \in {"healthy", "failing", "waiting"}
  BY <1>2, Zenon DEF verdict_for
<1>4. failing' \subseteq Relays
  BY <1>1, <1>2, <1>3 DEF record
<1>5. relay' \in [Relays -> Pass] /\ MarkedIsStored'
  BY Idling, ZenonT(60) DEF finish
<1> QED
  BY <1>4, <1>5
  DEF finish, IInv, TypeOK, PublishedIsStored, RemovalStaysArmed, AnswersAreGiven

\* A pass that aborts, or a process that restarts, leaves the rows as they are.
LEMMA abortIInv ==
    ASSUME IInv, NEW r \in Relays, abort(r)
    PROVE  IInv'
<1>1. relay' \in [Relays -> Pass] /\ MarkedIsStored'
  BY Idling, ZenonT(60) DEF abort
<1>2. failing' \subseteq Relays /\ trouble' \in 0..MaxTrouble
  BY RelayAssumption DEF abort, IInv, TypeOK
<1> QED
  BY <1>1, <1>2
  DEF abort, IInv, TypeOK, PublishedIsStored, RemovalStaysArmed, AnswersAreGiven

\* The broker forgets a copy, not that it stored one.
LEMMA lose_eventIInv ==
    ASSUME IInv, NEW e \in Events, lose_event(e)
    PROVE  IInv'
<1>1. stream \in [Events -> {"never", "held", "gone"}] /\ MarkedIsStored /\ PublishedIsStored
  BY DEF IInv, TypeOK
<1>2. /\ stream' \in [Events -> {"never", "held", "gone"}]
      /\ \A f \in Events : stream[f] # "never" => stream'[f] # "never"
  BY <1>1 DEF lose_event
<1>3. trouble' \in 0..MaxTrouble
  BY RelayAssumption DEF lose_event, IInv, TypeOK
<1>4. MarkedIsStored' /\ PublishedIsStored'
  BY <1>1, <1>2 DEF lose_event, MarkedIsStored, PublishedIsStored
<1> QED
  BY <1>2, <1>3, <1>4 DEF lose_event, IInv, TypeOK, RemovalStaysArmed, AnswersAreGiven

\* Knowledge's answer goes on its way as one it gave.
LEMMA answerIInv ==
    ASSUME IInv, NEW e \in Events, NEW o \in AckOutcome, answer(e, o)
    PROVE  IInv'
<1>1. /\ stream \in [Events -> {"never", "held", "gone"}]
      /\ answers \in [Events -> SUBSET AckOutcome]
      /\ acks \subseteq Events \X AckOutcome
      /\ MarkedIsStored /\ PublishedIsStored /\ AnswersAreGiven
  BY DEF IInv, TypeOK
<1>2. /\ stream' \in [Events -> {"never", "held", "gone"}]
      /\ \A f \in Events : stream[f] # "never" => stream'[f] # "never"
  BY <1>1 DEF answer
<1>3. answers' \in [Events -> SUBSET AckOutcome] /\ acks' \subseteq Events \X AckOutcome
  BY <1>1 DEF answer
<1>4. MarkedIsStored' /\ PublishedIsStored'
  BY <1>1, <1>2 DEF answer, MarkedIsStored, PublishedIsStored
<1>5. AnswersAreGiven'
  <2>1. o \in answers'[e] /\ \A f \in Events : answers[f] \subseteq answers'[f]
    BY <1>1 DEF answer
  <2>2. \A f \in Events, q \in AckOutcome :
          <<f, q>> \in acks' => <<f, q>> \in acks \/ (f = e /\ q = o)
    BY DEF answer
  <2>3. e \in Removals
    BY DEF answer
  <2> QED
    BY <1>1, <2>1, <2>2, <2>3 DEF AnswersAreGiven
<1> QED
  BY <1>2, <1>3, <1>4, <1>5 DEF answer, IInv, TypeOK, RemovalStaysArmed

\* A lost answer leaves the others.
LEMMA lose_answerIInv ==
    ASSUME IInv, NEW e \in Events, NEW o \in AckOutcome, lose_answer(e, o)
    PROVE  IInv'
<1>1. acks' \subseteq acks /\ trouble' \in 0..MaxTrouble
  BY RelayAssumption DEF lose_answer, IInv, TypeOK
<1> QED
  BY <1>1
  DEF lose_answer, IInv, TypeOK, MarkedIsStored, PublishedIsStored, RemovalStaysArmed,
      AnswersAreGiven

\* The consumer settles a removal, or finds it settled.
LEMMA applyIInv ==
    ASSUME IInv, NEW e \in Events, NEW o \in AckOutcome, apply(e, o)
    PROVE  IInv'
<1> DEFINE new == acknowledge(e, o)
<1>1. row' = [row EXCEPT ![e] = new] /\ stream' = stream /\ acks' \subseteq acks
  BY DEF apply
<1>2. new \in Rows /\ new.status = row[e].status
  BY StatementTypes, StatementEffects DEF IInv
<1>3. e \in Removals /\ new.status = "published" /\ new.acked = "no" => new.armed = "yes"
  BY StatementEffects DEF IInv
<1> HIDE DEF new
<1>4. row' \in [Events -> Rows] /\ PublishedIsStored' /\ RemovalStaysArmed'
  BY <1>1, <1>2, <1>3, OneRow, ZenonT(60)
<1> QED
  BY <1>1, <1>4 DEF apply, IInv, TypeOK, MarkedIsStored, AnswersAreGiven

-----------------------------------------------------------------------------
(* The invariant *)

\* The empty outbox with idle relays satisfies the invariant.
LEMMA InitIInv == Init => IInv
<1> SUFFICES ASSUME Init PROVE IInv
  OBVIOUS
<1>1. NoRow \in Rows /\ NoRow.status = "absent" /\ Idle \in Pass /\ Idle.step = "idle"
  BY RelayAssumption DEF NoRow, Rows, FAILING_ATTEMPTS, Idle, Pass, AckOutcome
<1>2. TypeOK
  BY <1>1, RelayAssumption DEF Init, TypeOK
<1>3. MarkedIsStored /\ PublishedIsStored /\ RemovalStaysArmed /\ AnswersAreGiven
  BY <1>1, RelayAssumption
  DEF Init, MarkedIsStored, PublishedIsStored, RemovalStaysArmed, AnswersAreGiven
<1> QED
  BY <1>2, <1>3 DEF IInv

\* Every step of the relays, the broker, Knowledge and the consumer preserves
\* the invariant.
LEMMA NextIInv == IInv /\ [Next]_vars => IInv'
<1> SUFFICES ASSUME IInv, [Next]_vars PROVE IInv'
  OBVIOUS
<1>1. ASSUME NEW r \in Relays, Start(r) \/ Step(r) \/ abort(r)
      PROVE  IInv'
  <2>1. CASE Start(r)
    BY <2>1, select_freshIInv DEF Start
  <2>2. CASE Step(r)
    BY <2>2, deliverIInv, refuseIInv, find_undeliverableIInv, markIInv, back_offIInv,
       select_resendsIInv, finishIInv DEF Step
  <2>3. CASE abort(r)
    BY <2>3, abortIInv
  <2> QED
    BY <1>1, <2>1, <2>2, <2>3
<1>2. ASSUME NEW e \in Events, append(e) \/ lose_event(e)
      PROVE  IInv'
  BY <1>2, appendIInv, lose_eventIInv
<1>3. ASSUME NEW e \in Events, NEW o \in AckOutcome,
             answer(e, o) \/ apply(e, o) \/ lose_answer(e, o)
      PROVE  IInv'
  BY <1>3, answerIInv, applyIInv, lose_answerIInv
<1>4. CASE UNCHANGED vars
  BY <1>4 DEF vars, IInv, TypeOK, MarkedIsStored, PublishedIsStored, RemovalStaysArmed,
             AnswersAreGiven
<1> QED
  BY <1>1, <1>2, <1>3, <1>4 DEF Next, Knowledge, Acks

\* The invariant holds throughout.
THEOREM Inductive == Spec => []IInv
  BY InitIInv, NextIInv, PTL DEF Spec

\* Every variable of the relay keeps its type: attempts, countdowns and delays
\* stay within the policy.
THEOREM RelayTypeCorrect == Spec => []TypeOK
<1>1. IInv => TypeOK
  BY DEF IInv
<1> QED
  BY <1>1, Inductive, PTL

\* A row marked published was stored by the broker (run_once, mark_published).
THEOREM PublishedStored == Spec => []PublishedIsStored
<1>1. IInv => PublishedIsStored
  BY DEF IInv
<1> QED
  BY <1>1, Inductive, PTL

\* A published removal without an answer stays armed (mark_published,
\* record_resend, record_transient_failure, acknowledge).
THEOREM RemovalArmed == Spec => []RemovalStaysArmed
<1>1. IInv => RemovalStaysArmed
  BY DEF IInv
<1> QED
  BY <1>1, Inductive, PTL

-----------------------------------------------------------------------------
(* The handshake *)

offeredBar == {e \in Removals : stream[e] # "never"}
answersBar == [e \in Removals |-> answers[e]]
settledBar == [e \in Removals |-> row[e].acked]

\* Steps that store nothing, answer nothing and settle nothing are invisible.
LEMMA Invisible ==
    ASSUME IInv, stream' = stream, answers' = answers,
           \A e \in Removals : row'[e].acked = row[e].acked
    PROVE  UNCHANGED <<offeredBar, answersBar, settledBar>>
<1>1. offeredBar' = offeredBar /\ answersBar' = answersBar
  BY DEF offeredBar, answersBar
<1>2. settledBar' = settledBar
  BY DEF settledBar
<1> QED
  BY <1>1, <1>2

\* Every statement but acknowledge leaves the answer on record alone.
LEMMA AnswerKept ==
    ASSUME IInv, NEW e \in Events
    PROVE  /\ mark_published(e).acked = row[e].acked
           /\ mark_undeliverable(e).acked = row[e].acked
           /\ record_transient_failure(e).acked = row[e].acked
           /\ record_resend(e).acked = row[e].acked
<1>1. row[e] \in Rows
  BY SMTT(60) DEF IInv, TypeOK
<1> QED
  BY <1>1
  DEF mark_published, mark_undeliverable, record_transient_failure, record_resend, Rows

\* A relay's steps other than a delivery, and those of the broker, are
\* invisible in the handshake.
LEMMA RelayInvisible ==
    ASSUME IInv, NEW r \in Relays,
           \/ Start(r) \/ mark(r) \/ back_off(r) \/ select_resends(r) \/ finish(r) \/ abort(r)
           \/ \E e \in Events : refuse(r, e) \/ find_undeliverable(r, e)
    PROVE  UNCHANGED <<offeredBar, answersBar, settledBar>>
<1>1. stream' = stream /\ answers' = answers
  BY ZenonT(60) DEF Start, select_fresh, mark, back_off, select_resends, finish, abort, refuse,
         find_undeliverable
<1>2. row \in [Events -> Rows] /\ Removals \subseteq Events
  BY RelayAssumption DEF IInv, TypeOK
<1>3. ASSUME NEW e \in Removals PROVE row'[e].acked = row[e].acked
  <2>1. row[e] \in Rows
    BY <1>2
  <2>2. CASE Start(r)
    <3>1. PICK d \in Intervals : select_fresh(r, d)
      BY <2>2, SMTT(60) DEF Start
    <3>2. row'[e] = [row[e] EXCEPT !.wait = Less(row[e].wait, d), !.resend = Less(row[e].resend, d)]
      BY <1>2, <3>1 DEF select_fresh
    <3> QED
      BY <2>1, <3>2 DEF Rows
  <2>3. CASE mark(r)
    BY <1>2, <2>3, AnswerKept DEF mark, IInv, MarkedIsStored
  <2>4. CASE back_off(r)
    BY <1>2, <2>4, AnswerKept, SMTT(60) DEF back_off, IInv, MarkedIsStored
  <2>5. CASE select_resends(r) \/ finish(r) \/ abort(r) \/ \E f \in Events : refuse(r, f)
    BY <2>5, ZenonT(60) DEF select_resends, finish, abort, refuse
  <2>6. CASE \E f \in Events : find_undeliverable(r, f)
    BY <1>2, <2>6, AnswerKept, ZenonT(60) DEF find_undeliverable
  <2> QED
    BY <2>2, <2>3, <2>4, <2>5, <2>6
<1> QED
  BY <1>1, <1>3, Invisible, SMTT(60)

\* The relay, the broker, Knowledge and the consumer implement the handshake:
\* a delivery offers a removal, Knowledge answers only what was offered, and the
\* consumer settles a removal once, with an answer Knowledge gave.
THEOREM RelayRefinesHandshake == Spec => RelayImplementsHandshake
<1> USE DEF offeredBar, answersBar, settledBar
<1>1. Init => Handshake!Init
  BY RelayAssumption DEF Init, Handshake!Init, NoRow
<1>2. IInv /\ [Next]_vars => [Handshake!Next]_Handshake!vars
  <2> SUFFICES ASSUME IInv, [Next]_vars
               PROVE  Handshake!Next \/ UNCHANGED <<offeredBar, answersBar, settledBar>>
    BY DEF Handshake!vars
  <2> USE RelayAssumption
  <2>1. ASSUME NEW r \in Relays, NEW e \in Events, deliver(r, e)
        PROVE  Handshake!Next \/ UNCHANGED <<offeredBar, answersBar, settledBar>>
    <3>1. /\ stream \in [Events -> {"never", "held", "gone"}]
          /\ stream' = [stream EXCEPT ![e] = "held"]
          /\ answers' = answers /\ row' = row
      BY <2>1 DEF IInv, TypeOK, deliver
    <3>2. CASE e \in Removals
      <4>1. offeredBar' = offeredBar \cup {e}
        BY <3>1, <3>2
      <4> QED
        BY <3>1, <3>2, <4>1 DEF Handshake!Next, Handshake!Offer
    <3>3. CASE e \notin Removals
      BY <3>1, <3>3
    <3> QED
      BY <3>2, <3>3
  <2>2. ASSUME NEW r \in Relays, Start(r) \/ Step(r) \/ abort(r)
        PROVE  Handshake!Next \/ UNCHANGED <<offeredBar, answersBar, settledBar>>
    BY <2>1, <2>2, RelayInvisible DEF Step
  <2>3. ASSUME NEW e \in Events, append(e)
        PROVE  UNCHANGED <<offeredBar, answersBar, settledBar>>
    <3>1. row \in [Events -> Rows] /\ row' = [row EXCEPT ![e].status = "unpublished"]
      BY <2>3 DEF IInv, TypeOK, append
    <3>2. \A f \in Removals : row'[f].acked = row[f].acked
      BY <3>1 DEF Rows
    <3> QED
      BY <2>3, <3>2, Invisible DEF append
  <2>4. ASSUME NEW e \in Events, lose_event(e)
        PROVE  UNCHANGED <<offeredBar, answersBar, settledBar>>
    <3>1. /\ stream \in [Events -> {"never", "held", "gone"}]
          /\ stream[e] = "held" /\ stream' = [stream EXCEPT ![e] = "gone"]
          /\ answers' = answers /\ row' = row
      BY <2>4 DEF IInv, TypeOK, lose_event
    <3>2. offeredBar' = offeredBar
      BY <3>1
    <3> QED
      BY <3>1, <3>2
  <2>5. ASSUME NEW e \in Events, NEW o \in AckOutcome, answer(e, o)
        PROVE  Handshake!Next
    <3>1. /\ stream \in [Events -> {"never", "held", "gone"}]
          /\ answers \in [Events -> SUBSET AckOutcome]
          /\ e \in Removals /\ stream[e] = "held" /\ row' = row
          /\ stream' \in {stream, [stream EXCEPT ![e] = "gone"]}
          /\ answers' = [answers EXCEPT ![e] = @ \cup {o}]
      BY <2>5 DEF IInv, TypeOK, answer
    <3>2. offeredBar' = offeredBar /\ e \in offeredBar
      BY <3>1
    <3>3. answersBar' = [answersBar EXCEPT ![e] = @ \cup {o}]
      BY <3>1, ZenonT(60)
    <3> QED
      BY <3>1, <3>2, <3>3, ZenonT(60)
      DEF Handshake!Next, Handshake!Answer, Handshake!AckOutcome, AckOutcome
  <2>6. ASSUME NEW e \in Events, NEW o \in AckOutcome, apply(e, o)
        PROVE  Handshake!Next \/ UNCHANGED <<offeredBar, answersBar, settledBar>>
    <3>1. /\ row \in [Events -> Rows] /\ row[e] \in Rows
          /\ row' = [row EXCEPT ![e] = acknowledge(e, o)]
          /\ stream' = stream /\ answers' = answers
          /\ e \in Removals /\ o \in answers[e]
      BY <2>6 DEF IInv, TypeOK, AnswersAreGiven, apply
    <3>2. CASE row[e].acked = "no"
      <4>1. acknowledge(e, o).acked = o
        BY <3>1, <3>2 DEF acknowledge, Rows
      <4>2. settledBar' = [settledBar EXCEPT ![e] = o]
        BY <3>1, <4>1, ZenonT(60)
      <4> QED
        BY <3>1, <3>2, <4>2, ZenonT(60)
        DEF Handshake!Next, Handshake!Settle, Handshake!AckOutcome, AckOutcome
    <3>3. CASE row[e].acked # "no"
      <4>1. row' = row
        BY <3>1, <3>3 DEF acknowledge
      <4> QED
        BY <3>1, <4>1
    <3> QED
      BY <3>2, <3>3
  <2>7. ASSUME NEW e \in Events, NEW o \in AckOutcome, lose_answer(e, o)
        PROVE  UNCHANGED <<offeredBar, answersBar, settledBar>>
    BY <2>7 DEF lose_answer
  <2>8. CASE UNCHANGED vars
    BY <2>8 DEF vars
  <2> HIDE DEF offeredBar, answersBar, settledBar
  <2> QED
    BY <2>2, <2>3, <2>4, <2>5, <2>6, <2>7, <2>8 DEF Next, Knowledge, Acks
<1> QED
  BY <1>1, <1>2, Inductive, PTL DEF Spec, RelayImplementsHandshake, Handshake!Spec
=============================================================================
