----------------------------- MODULE OutboxRelay -----------------------------
(***************************************************************************)
(* The outbox relay and the acknowledgement of removals:                   *)
(*                                                                         *)
(*   publishing/pump.rs         one pass over the unpublished rows         *)
(*   publishing/removal_ack.rs  resend until Knowledge has answered        *)
(*   publishing/health.rs       the flag readiness reads                   *)
(*   relay.rs                   passes for ever                            *)
(*   nats_transport.rs          what a delivery can come back with         *)
(*   deletion_acks.rs           Knowledge's answers                        *)
(*                                                                         *)
(* A relay talks to the database in single statements, so every statement  *)
(* is an action and so is every delivery: between the two the process can  *)
(* stop, another relay can act and an answer can arrive.                   *)
(*                                                                         *)
(* Time is counted in pass intervals.  A timestamp in the future is a      *)
(* countdown, and it runs when a pass starts.                              *)
(***************************************************************************)
EXTENDS Integers, FiniteSets

CONSTANTS
    Events,        \* outbox rows, by event id
    Rank,          \* [Events -> Nat]: the order by occurred_at, event_id
    Removals,      \* rows of type social.source.removed.v1
    Oversized,     \* rows some server refuses as larger than max_payload
    Poison,        \* rows the broker never takes (a denied subject)
    Relays,        \* processes that run the relay
    BatchSize,     \* PublisherConfig::batch_size
    Backoff,       \* the 60 seconds of record_transient_failure
    After,         \* ResendPolicy::after
    Cap,           \* ResendPolicy::cap
    Intervals,     \* time from one pass start to the next
    MaxTrouble     \* bound: refusals, aborted passes, lost messages

FAILING_ATTEMPTS == 3

ASSUME RelayAssumption ==
    /\ Rank \in [Events -> Nat]
    /\ \A e, f \in Events : Rank[e] = Rank[f] => e = f
    /\ Removals \subseteq Events /\ Oversized \subseteq Events /\ Poison \subseteq Events
    /\ BatchSize \in Nat \ {0} /\ Backoff \in Nat \ {0}
    /\ After \in Nat \ {0} /\ Cap \in Nat /\ After <= Cap
    /\ Intervals \subseteq Nat \ {0} /\ MaxTrouble \in Nat

VARIABLES
    row,        \* the outbox_events table
    stream,     \* the broker's copy of each event
    answers,    \* what Knowledge answered to each removal
    acks,       \* answers under way on the acknowledgement durable
    relay,      \* the pass each relay is in
    failing,    \* relays whose PublisherHealth says failing
    trouble     \* refusals, aborted passes and losses so far

vars == <<row, stream, answers, acks, relay, failing, trouble>>

-----------------------------------------------------------------------------
(* Data *)

AckOutcome == {"applied", "refused"}

Rows == [status: {"absent", "unpublished", "published"},
         undeliverable: {"no", "yes"},
         attempts: 0..FAILING_ATTEMPTS,     \* capped: only >= 3 is ever asked
         wait: 0..Backoff,                  \* until next_attempt_at
         armed: {"no", "yes"},              \* next_resend_at is set
         resend: 0..Cap,                    \* until next_resend_at
         delay: After..Cap,                 \* least(after * 2^resend_count, cap)
         acked: {"no"} \cup AckOutcome]

NoRow == [status |-> "absent", undeliverable |-> "no", attempts |-> 0, wait |-> 0,
          armed |-> "no", resend |-> 0, delay |-> After, acked |-> "no"]

\* A pass delivers (fresh rows, then due removals), and after each delivery
\* marks the row; `failed' is summary.failed > 0.
NoEvent == "none"

Pass == [step: {"idle", "deliver", "mark", "backoff"}, phase: {"fresh", "resend"},
         queue: SUBSET Events, item: Events \cup {NoEvent}, failed: {"no", "yes"}]

Idle == [step |-> "idle", phase |-> "fresh", queue |-> {}, item |-> NoEvent,
         failed |-> "no"]

\* Every variable keeps its type; the countdowns stay within the policy.
TypeOK ==
    /\ row \in [Events -> Rows]
    /\ stream \in [Events -> {"never", "held", "gone"}]
    /\ answers \in [Events -> SUBSET AckOutcome]
    /\ acks \subseteq Events \X AckOutcome
    /\ relay \in [Relays -> Pass]
    /\ failing \subseteq Relays
    /\ trouble \in 0..MaxTrouble

Init ==
    /\ row = [e \in Events |-> NoRow]
    /\ stream = [e \in Events |-> "never"]
    /\ answers = [e \in Events |-> {}]
    /\ acks = {}
    /\ relay = [r \in Relays |-> Idle]
    /\ failing = {} /\ trouble = 0

-----------------------------------------------------------------------------
(* The table *)

\* A transaction of the archive appends its fact.  It may become visible after
\* rows with a later occurred_at.
append(e) ==
    /\ row[e].status = "absent"
    /\ row' = [row EXCEPT ![e].status = "unpublished"]
    /\ UNCHANGED <<stream, answers, acks, relay, failing, trouble>>

Unpublished == {e \in Events : row[e].status = "unpublished" /\ row[e].undeliverable = "no"}

Less(x, d) == IF x > d THEN x - d ELSE 0
Least(x, y) == IF x < y THEN x ELSE y

\* The oldest n events of S.
Oldest(S, n) == {e \in S : Cardinality({f \in S : Rank[f] < Rank[e]}) < n}

\* The statements of a pass, as the row each of them leaves.

\* Mutant: the removal is not armed.
PublishedUnarmed(e) == [row[e] EXCEPT !.status = "published"]

mark_published(e) ==
    IF row[e].status = "published" THEN row[e]
    ELSE [row[e] EXCEPT !.status = "published",
                        !.armed = IF e \in Removals THEN "yes" ELSE "no",
                        !.resend = IF e \in Removals THEN After ELSE 0]

mark_undeliverable(e) ==
    [row[e] EXCEPT !.attempts = Least(@ + 1, FAILING_ATTEMPTS), !.undeliverable = "yes"]

\* Mutant: no backoff after a failure.
RetryAtOnce(e) == [row[e] EXCEPT !.attempts = Least(@ + 1, FAILING_ATTEMPTS)]

record_transient_failure(e) ==
    [row[e] EXCEPT !.attempts = Least(@ + 1, FAILING_ATTEMPTS), !.wait = Backoff]

\* Mutant: the delay doubles without a cap.
UncappedDelay(d) == 2 * d

\* resend_count grows by one, which doubles least(after * 2^resend_count, cap)
\* up to the cap.
doubled(d) == Least(2 * d, Cap)

record_resend(e) ==
    IF e \in Removals /\ row[e].status = "published" /\ row[e].acked = "no"
    THEN [row[e] EXCEPT !.resend = row[e].delay, !.delay = doubled(row[e].delay),
                        !.attempts = 0]
    ELSE row[e]

-----------------------------------------------------------------------------
(* A pass: run_once *)

\* d intervals later a pass starts: the due rows, oldest first.
select_fresh(r, d) ==
    LET later == [e \in Events |-> [row[e] EXCEPT !.wait = Less(@, d),
                                                  !.resend = Less(@, d)]]
        due == {e \in Unpublished : later[e].wait = 0} IN
    /\ relay[r].step = "idle"
    /\ row' = later
    /\ relay' = [relay EXCEPT ![r] =
         [Idle EXCEPT !.step = "deliver", !.queue = Oldest(due, BatchSize)]]
    /\ UNCHANGED <<stream, answers, acks, failing, trouble>>

\* Fresh rows go in order; the order of next_resend_at among due removals is
\* not kept, so any of them may be next.
Next_in(r) ==
    IF relay[r].phase = "fresh" THEN Oldest(relay[r].queue, 1) ELSE relay[r].queue

\* The broker stored the event.  Its acknowledgement arrives, or is lost and
\* the delivery counts as failed.
deliver(r, e) ==
    /\ relay[r].step = "deliver" /\ e \in Next_in(r) /\ e \notin Poison
    /\ stream' = [stream EXCEPT ![e] = "held"]
    /\ \/ /\ relay' = [relay EXCEPT ![r].step = "mark", ![r].item = e, ![r].queue = @ \ {e}]
          /\ UNCHANGED trouble
       \/ /\ trouble < MaxTrouble /\ trouble' = trouble + 1
          /\ relay' = [relay EXCEPT ![r].step = "backoff", ![r].item = e, ![r].queue = @ \ {e}]
    /\ UNCHANGED <<row, answers, acks, failing>>

\* Mutant: a refusal that arrives late counts as a delivery.
RefuseUnnoticed(r, e) ==
    /\ relay[r].step = "deliver" /\ e \in Next_in(r)
    /\ e \notin Poison /\ trouble < MaxTrouble /\ trouble' = trouble + 1
    /\ relay' = [relay EXCEPT ![r].step = "mark", ![r].item = e, ![r].queue = @ \ {e}]
    /\ UNCHANGED <<row, stream, answers, acks, failing>>

\* The broker did not take the event; only Poison is refused for ever.
refuse(r, e) ==
    /\ relay[r].step = "deliver" /\ e \in Next_in(r)
    /\ \/ e \in Poison /\ UNCHANGED trouble
       \/ e \notin Poison /\ trouble < MaxTrouble /\ trouble' = trouble + 1
    /\ relay' = [relay EXCEPT ![r].step = "backoff", ![r].item = e, ![r].queue = @ \ {e}]
    /\ UNCHANGED <<row, stream, answers, acks, failing>>

\* The event is larger than this server takes.  A fresh row is marked at once;
\* a removal that is sent again is only backed off.
find_undeliverable(r, e) ==
    /\ relay[r].step = "deliver" /\ e \in Next_in(r) /\ e \in Oversized
    /\ \/ /\ relay[r].phase = "fresh"
          /\ row' = [row EXCEPT ![e] = mark_undeliverable(e)]
          /\ relay' = [relay EXCEPT ![r].queue = @ \ {e}]
          /\ UNCHANGED trouble
       \/ /\ relay[r].phase = "resend" /\ trouble < MaxTrouble /\ trouble' = trouble + 1
          /\ relay' = [relay EXCEPT ![r].step = "backoff", ![r].item = e, ![r].queue = @ \ {e}]
          /\ UNCHANGED row
    /\ UNCHANGED <<stream, answers, acks, failing>>

mark(r) ==
    LET e == relay[r].item IN
    /\ relay[r].step = "mark"
    /\ row' = [row EXCEPT ![e] = IF relay[r].phase = "fresh" THEN mark_published(e)
                                 ELSE record_resend(e)]
    /\ relay' = [relay EXCEPT ![r].step = "deliver", ![r].item = NoEvent]
    /\ UNCHANGED <<stream, answers, acks, failing, trouble>>

\* A failed fresh row is counted; a failed resend ends the resend phase.
back_off(r) ==
    LET e == relay[r].item
        fresh == relay[r].phase = "fresh" IN
    /\ relay[r].step = "backoff"
    /\ row' = [row EXCEPT ![e] = record_transient_failure(e)]
    /\ relay' = [relay EXCEPT ![r].step = "deliver", ![r].item = NoEvent,
                              ![r].failed = IF fresh THEN "yes" ELSE @,
                              ![r].queue = IF fresh THEN @ ELSE {}]
    /\ UNCHANGED <<stream, answers, acks, failing, trouble>>

\* Mutant: a removal is sent again once.
DueOnce == {e \in Removals : /\ row[e].status = "published" /\ row[e].acked = "no"
                             /\ row[e].delay = After /\ row[e].resend = 0 /\ row[e].wait = 0}

Due == {e \in Removals : /\ row[e].status = "published" /\ row[e].acked = "no"
                         /\ row[e].armed = "yes" /\ row[e].resend = 0 /\ row[e].wait = 0}

\* resend_due runs only after a pass without a failed fresh row.
select_resends(r) ==
    /\ relay[r].step = "deliver" /\ relay[r].phase = "fresh"
    /\ relay[r].queue = {} /\ relay[r].failed = "no"
    /\ \E S \in SUBSET Due :
         /\ Cardinality(S) = Least(BatchSize, Cardinality(Due))
         /\ relay' = [relay EXCEPT ![r].phase = "resend", ![r].queue = S]
    /\ UNCHANGED <<row, stream, answers, acks, failing, trouble>>

\* occurred_at is not kept: any row may be older than FAILING_AGE_SECONDS.
oldest_row_is_stuck(old) ==
    \E e \in Oldest(Unpublished, 1) : row[e].attempts >= FAILING_ATTEMPTS \/ old

\* Mutant: a pass that had nothing to retry counts as healthy.
WaitingIsHealthy(r, old) ==
    IF relay[r].failed = "yes" /\ oldest_row_is_stuck(old) THEN "failing" ELSE "healthy"

\* Mutant: a pass without a failure never clears the flag.
HealthyIsWaiting(r, old) ==
    IF relay[r].failed = "yes" /\ oldest_row_is_stuck(old) THEN "failing" ELSE "waiting"

verdict_for(r, old) ==
    CASE ~oldest_row_is_stuck(old) -> "healthy"
      [] oldest_row_is_stuck(old) /\ relay[r].failed = "yes" -> "failing"
      [] oldest_row_is_stuck(old) /\ relay[r].failed = "no" -> "waiting"

\* PublisherHealth::record; a waiting pass changes nothing.
record(r, v) ==
    CASE v = "failing" -> failing \cup {r}
      [] v = "healthy" -> failing \ {r}
      [] v = "waiting" -> failing

finish(r) ==
    /\ relay[r].step = "deliver" /\ relay[r].queue = {}
    /\ relay[r].phase = "resend" \/ relay[r].failed = "yes"
    /\ \E old \in BOOLEAN : failing' = record(r, verdict_for(r, old))
    /\ relay' = [relay EXCEPT ![r] = Idle]
    /\ UNCHANGED <<row, stream, answers, acks, trouble>>

\* A query fails and the pass returns an error, or the process is restarted
\* and starts with a healthy flag.
abort(r) ==
    /\ relay[r].step # "idle" /\ trouble < MaxTrouble
    /\ trouble' = trouble + 1
    /\ relay' = [relay EXCEPT ![r] = Idle]
    /\ failing' \in {failing, failing \ {r}}
    /\ UNCHANGED <<row, stream, answers, acks>>

-----------------------------------------------------------------------------
(* The broker and Knowledge (external), and the answers *)

\* The events stream drops its oldest messages.
lose_event(e) ==
    /\ stream[e] = "held" /\ trouble < MaxTrouble
    /\ stream' = [stream EXCEPT ![e] = "gone"] /\ trouble' = trouble + 1
    /\ UNCHANGED <<row, answers, acks, relay, failing>>

\* Knowledge handles a copy of a removal and answers it.  It may see the copy
\* again, and may answer it differently then.
answer(e, o) ==
    /\ e \in Removals /\ stream[e] = "held"
    /\ stream' \in {stream, [stream EXCEPT ![e] = "gone"]}
    /\ answers' = [answers EXCEPT ![e] = @ \cup {o}]
    /\ acks' = acks \cup {<<e, o>>}
    /\ UNCHANGED <<row, relay, failing, trouble>>

lose_answer(e, o) ==
    /\ <<e, o>> \in acks /\ trouble < MaxTrouble
    /\ acks' = acks \ {<<e, o>>} /\ trouble' = trouble + 1
    /\ UNCHANGED <<row, stream, answers, relay, failing>>

\* Mutant: the newest answer wins.
AcknowledgedAgain(e, o) == [row[e] EXCEPT !.acked = o]

acknowledge(e, o) == IF row[e].acked = "no" THEN [row[e] EXCEPT !.acked = o] ELSE row[e]

\* The consumer applies an answer and acknowledges the message; when that
\* acknowledgement fails the message comes again.
apply(e, o) ==
    /\ <<e, o>> \in acks
    /\ row' = [row EXCEPT ![e] = acknowledge(e, o)]
    /\ acks' \in {acks, acks \ {<<e, o>>}}
    /\ UNCHANGED <<stream, answers, relay, failing, trouble>>

-----------------------------------------------------------------------------
(* The specification *)

\* The steps of the pass a relay is in.
Step(r) ==
    \/ \E e \in Events : deliver(r, e) \/ refuse(r, e) \/ find_undeliverable(r, e)
    \/ mark(r) \/ back_off(r) \/ select_resends(r) \/ finish(r)

Start(r) == \E d \in Intervals : select_fresh(r, d)

Knowledge(e) == \E o \in AckOutcome : answer(e, o)

Acks(e) == \E o \in AckOutcome : apply(e, o)

Next ==
    \/ \E r \in Relays : Start(r) \/ Step(r) \/ abort(r)
    \/ \E e \in Events : \/ append(e) \/ lose_event(e) \/ Knowledge(e) \/ Acks(e)
                         \/ \E o \in AckOutcome : lose_answer(e, o)

Spec == Init /\ [][Next]_vars

\* relay_outbox runs passes until shutdown; the consumer pulls until shutdown
\* and a message it did not acknowledge comes again.  That Knowledge handles
\* what it is sent is an assumption about another service.
FairSpec ==
    /\ Spec
    /\ \A r \in Relays : WF_vars(Start(r)) /\ WF_vars(Step(r))
    /\ \A e \in Events : WF_vars(Knowledge(e)) /\ WF_vars(Acks(e))

-----------------------------------------------------------------------------
(* Properties *)

\* A row is marked published only if the broker has stored its event: no crash,
\* failed delivery or second relay marks a row whose bytes were never taken.
PublishedIsStored == \A e \in Events : row[e].status = "published" => stream[e] # "never"

\* A published removal without an answer is on the resend schedule, whatever
\* was lost, refused, aborted or repeated since (removal_ack.rs mark_published,
\* record_resend).
RemovalStaysArmed ==
    \A e \in Removals :
        row[e].status = "published" /\ row[e].acked = "no" => row[e].armed = "yes"

\* The removal handshake: a removal is offered, answered and settled with one
\* of its answers, once.
Handshake ==
    INSTANCE RemovalHandshake WITH
        offered <- {e \in Removals : stream[e] # "never"},
        answers <- [e \in Removals |-> answers[e]],
        settled <- [e \in Removals |-> row[e].acked]

\* The relay and the acknowledgement consumer implement the handshake: copies,
\* losses and repeated answers are invisible in it.
RelayImplementsHandshake == Handshake!Spec

\* Every removal is settled or set aside as undeliverable, although copies and
\* answers get lost, deliveries are refused and passes abort.
EveryRemovalSettled ==
    \A e \in Removals : row[e].status # "absent" ~>
                             row[e].acked # "no" \/ row[e].undeliverable = "yes"

\* Readiness recovers: when the broker takes every row in the end, no relay
\* reports failing for ever.
HealthRecovers == \A r \in Relays : r \in failing ~> r \notin failing

\* "a failing head row cannot starve the rows behind it" (pump.rs run_once).
NoStarvation ==
    \A e \in Events \ Poison :
        row[e].status # "absent" ~> row[e].status = "published" \/ row[e].undeliverable = "yes"

\* A row the broker never takes makes the relay report failing in the end, and
\* passes in which it only waits do not take that back (health.rs record).
PoisonIsReported ==
    \A e \in Poison, r \in Relays : row[e].status # "absent" ~> [](r \in failing)

\* "SHALL publish the stored envelope bytes again ... whenever a published,
\* unacknowledged removal is due".  It is violated: the resend phase is skipped
\* in every pass in which a fresh row failed.
DueIsResent == \A e \in Removals : e \in Due ~> e \notin Due
=============================================================================
