-------------------------- MODULE CaptureLifecycle --------------------------
(***************************************************************************)
(* The life of an explicit capture, from the browser-capture command to    *)
(* the terminal report of every Platform operation it carries:             *)
(*                                                                         *)
(*   command_capture.rs     broker command -> inbox, capture, operation    *)
(*   capture.rs             HTTP submission and the unavailable fallback   *)
(*   capture_resolution.rs  the leasing, retrying, reporting worker        *)
(*   resolution.rs          what a surface answer does to the archive      *)
(*   tombstone.rs           local removal                                  *)
(*                                                                         *)
(* One action is one database transaction (or one statement outside a      *)
(* transaction), because PostgreSQL interleaves the tasks exactly there.   *)
(* The exception is store_resolution: it reads the prior projection before *)
(* it locks the media row, so it takes two actions.                        *)
(*                                                                         *)
(* A capture is its (user_ref, canonical_url) pair.  Timestamps are kept   *)
(* only as far as the code compares them: next_resolution_at is null, past *)
(* or future, and `passes' numbers the instants `now' of worker passes.    *)
(* The outbox table is split by aggregate: reports[o] are the operation    *)
(* reports of o and facts[c] the source facts of c, in insertion order.    *)
(***************************************************************************)
EXTENDS Integers, Sequences, FiniteSets

CONSTANTS
    Captures,       \* (user_ref, canonical_url) pairs
    NoCapture,      \* a command whose permalink cannot be mapped
    Permalinks,     \* canonical URLs; media rows are shared by all owners
    PermalinkOf,    \* [Captures -> Permalinks]
    Operations,     \* Platform operation ids
    Commands,       \* broker command ids
    OperationOf,    \* [Commands -> Operations]
    CaptureOf,      \* [Commands -> Captures \cup {NoCapture}]
    Workers,        \* resolver tasks (one per process) and library callers
    Captions,       \* normalized captions a payload can carry
    MaxAttempts,    \* ResolutionPolicy::max_attempts
    BatchSize,      \* ResolutionPolicy::batch_size
    MaxPasses,      \* bound: passes explored
    MaxFaults       \* bound: crashes and database failures explored

ASSUME CaptureAssumption ==
    /\ NoCapture \notin Captures
    /\ PermalinkOf \in [Captures -> Permalinks]
    /\ OperationOf \in [Commands -> Operations]
    /\ CaptureOf \in [Commands -> Captures \cup {NoCapture}]
    /\ MaxAttempts \in Nat \ {0} /\ BatchSize \in Nat \ {0}
    /\ MaxPasses \in Nat /\ MaxFaults \in Nat

\* A re-issued command repeats the request of the operation it carries.
ASSUME ReissueAssumption ==
    \A m, n \in Commands : OperationOf[m] = OperationOf[n] => CaptureOf[m] = CaptureOf[n]

VARIABLES
    inbox,      \* [Commands -> "new" | "processed" | "rejected"]
    capture,    \* the captures table
    latest,     \* newest availability observation of each capture
    media,      \* the media table: current projection of each permalink
    operations, \* capture_operations: the capture an operation is bound to
    reported,   \* operations whose reported_at is set
    reports,    \* operation reports in the outbox
    facts,      \* source facts in the outbox
    removed,    \* local_source_removals
    worker,     \* the pass each worker is in
    marking,    \* record_capture_unavailable calls between read and write
    passes,     \* the latest instant a pass started at
    faults      \* crashes and failures so far

vars == <<inbox, capture, latest, media, operations, reported, reports, facts,
          removed, worker, marking, passes, faults>>

-----------------------------------------------------------------------------
(* Data *)

\* 'failed' is in the schema's vocabulary, but no code path writes it.
Concluded == {"resolved", "unavailable", "tombstoned"}
Status == {"absent", "accepted"} \cup Concluded

Rows == [status: Status, attempts: 0..MaxAttempts - 1,
         due: {"null", "past", "future"}, media_id: {"null", "set"}]

\* SourceUnavailability, the reasons a report can give; an observation is one
\* of these or "available" (private, unsupported and resolution_failed are all
\* reported as inaccessible).
Reasons == {"deleted", "transient", "inaccessible"}
Kinds == Reasons \cup {"available"}
Terminal == Reasons \cup {"preserved"}

\* SurfaceOutcome without a payload; "denied" stands for Private, Unsupported,
\* Unavailable, an unreadable payload and a stored URL that no longer maps.
Failures == {"deleted", "denied", "temporarily_unavailable", "transport_failure"}

is_transient(outcome) == outcome \in {"temporarily_unavailable", "transport_failure"}

Observation(outcome) ==
    CASE outcome = "deleted" -> "deleted"
      [] outcome = "temporarily_unavailable" -> "transient"
      [] OTHER -> "inaccessible"

\* What a snapshot states about a source, and therefore what its digest covers.
Content == [caption: Captions, upstream: {"available", "deleted"}]
NoContent == [caption |-> "none", upstream |-> "none"]

Facts == [kind: {"captured", "updated"}, content: Content]
         \cup [kind: {"removed"}, content: {NoContent}]

HasFact(c) == \E i \in 1..Len(facts[c]) : facts[c][i].kind \in {"captured", "updated"}

Fact(kind, content) == [kind |-> kind, content |-> content]

Items == [capture: Captures, attempts: 0..MaxAttempts - 1, lane: {"worker", "direct"}]
NoItem == [capture |-> NoCapture, attempts |-> 0, lane |-> "worker"]

\* Where a worker is: between passes, about to fetch a leased capture, in the
\* transaction of store_resolution, or about to report what it concluded.
Pass == [step: {"idle", "next", "store", "report"}, now: Nat, leased: SUBSET Items,
         item: Items \cup {NoItem}, caption: Captions \cup {"none"},
         prior: Content \cup {NoContent}]

Idle == [step |-> "idle", now |-> 0, leased |-> {}, item |-> NoItem,
         caption |-> "none", prior |-> NoContent]

\* The rows keep their columns' types and a capture's attempts its budget.
TypeOK ==
    /\ inbox \in [Commands -> {"new", "processed", "rejected"}]
    /\ capture \in [Captures -> Rows]
    /\ latest \in [Captures -> [at: Nat, kind: Kinds \cup {"none"}]]
    /\ media \in [Permalinks -> Content \cup {NoContent}]
    /\ operations \in [Operations -> Captures \cup {NoCapture}]
    /\ reported \subseteq Operations
    /\ reports \in [Operations -> Seq(Terminal \cup {"queued"})]
    /\ facts \in [Captures -> Seq(Facts)]
    /\ removed \subseteq Captures
    /\ worker \in [Workers -> Pass]
    /\ marking \in [Captures -> {"no", "live", "dead"}]
    /\ passes \in Nat /\ faults \in Nat

Init ==
    /\ inbox = [m \in Commands |-> "new"]
    /\ capture = [c \in Captures |-> [status |-> "absent", attempts |-> 0,
                                      due |-> "null", media_id |-> "null"]]
    /\ latest = [c \in Captures |-> [at |-> 0, kind |-> "none"]]
    /\ media = [p \in Permalinks |-> NoContent]
    /\ operations = [o \in Operations |-> NoCapture]
    /\ reported = {}
    /\ reports = [o \in Operations |-> <<>>]
    /\ facts = [c \in Captures |-> <<>>]
    /\ removed = {}
    /\ worker = [w \in Workers |-> Idle]
    /\ marking = [c \in Captures |-> "no"]
    /\ passes = 0 /\ faults = 0

-----------------------------------------------------------------------------
(* Intake: command_capture.rs and the HTTP submission of capture.rs *)

\* submit_capture_in_transaction: insert, or reuse the row that is there.
submitted(c) ==
    IF capture[c].status = "absent"
    THEN [capture[c] EXCEPT !.status = "accepted"]
    ELSE capture[c]

\* Mutant: only a reopened capture is scheduled.
ScheduledWhenReopened(row) ==
    IF row.status # "unavailable" THEN row
    ELSE [row EXCEPT !.status = "accepted", !.attempts = 0, !.due = "past"]

\* The UPDATE of record_operation: reopen an unavailable capture with zero
\* attempts, give an accepted one a schedule if it has none.
scheduled(row) ==
    IF row.status \notin {"accepted", "unavailable"} THEN row
    ELSE [row EXCEPT !.status = "accepted",
                     !.attempts = IF row.status = "unavailable" THEN 0 ELSE @,
                     !.due = IF row.status = "unavailable" \/ row.due = "null"
                             THEN "past" ELSE @]

\* POST /v1/captures; a repeated submission reuses the row untouched.
submit_capture(c) ==
    /\ capture' = [capture EXCEPT ![c] = submitted(c)]
    /\ UNCHANGED <<inbox, latest, media, operations, reported, reports, facts,
                   removed, worker, marking, passes, faults>>

\* Mutant: the claim is not recorded.
ClaimAlways(m) == TRUE

\* The insert into inbox_events takes the command id unless it is there.
claims_inbox(m) == inbox[m] = "new"

\* A redelivered command loses the inbox claim.
IngestDuplicate(m) ==
    /\ ~claims_inbox(m)
    /\ UNCHANGED vars

\* A permalink that does not map: terminal report, no capture.
IngestRejected(m) ==
    /\ claims_inbox(m) /\ CaptureOf[m] = NoCapture
    /\ inbox' = [inbox EXCEPT ![m] = "rejected"]
    /\ reports' = [reports EXCEPT ![OperationOf[m]] = Append(@, "inaccessible")]
    /\ UNCHANGED <<capture, latest, media, operations, reported, facts, removed,
                   worker, marking, passes, faults>>

\* The operation row (on conflict do nothing) and the queued report that only
\* an inserted row gets.
record_operation(o, c) ==
    IF operations[o] = NoCapture
    THEN /\ operations' = [operations EXCEPT ![o] = c]
         /\ reports' = [reports EXCEPT ![o] = Append(@, "queued")]
    ELSE UNCHANGED <<operations, reports>>

IngestPreserved(m) ==
    LET c == CaptureOf[m] IN
    /\ claims_inbox(m) /\ c # NoCapture
    /\ inbox' = [inbox EXCEPT ![m] = "processed"]
    /\ capture' = [capture EXCEPT ![c] = scheduled(submitted(c))]
    /\ record_operation(OperationOf[m], c)
    /\ UNCHANGED <<latest, media, reported, facts, removed, worker, marking,
                   passes, faults>>

-----------------------------------------------------------------------------
(* Reporting: report_pending of capture_resolution.rs *)

\* Mutant: the UPDATE without `reported_at is null'.
PendingReportedToo(c) == {o \in Operations : operations[o] = c}

Pending(c) == {o \in Operations : operations[o] = c /\ o \notin reported}

latest_unavailability(c) ==
    IF latest[c].kind \in {"deleted", "transient"} THEN latest[c].kind ELSE "inaccessible"

\* The conclusion is derived from stored state only.
Conclusion(c) ==
    CASE capture[c].status = "resolved" -> "preserved"
      [] capture[c].status = "unavailable" -> latest_unavailability(c)
      [] OTHER -> "inaccessible"

\* Flips reported_at of every unreported operation of the concluded captures in
\* S and appends one report for each row flipped.
report_pending(S) ==
    LET due == {o \in Operations : \E c \in S : /\ capture[c].status \in Concluded
                                                /\ o \in Pending(c)} IN
    /\ reported' = reported \cup due
    /\ reports' = [o \in Operations |->
                     IF o \in due THEN Append(reports[o], Conclusion(operations[o]))
                     ELSE reports[o]]

-----------------------------------------------------------------------------
(* The worker: capture_resolution.rs *)

\* A pass of instant `now' with the captures in `rest' still to be fetched.
Continue(now, rest) ==
    IF rest = {} THEN Idle
    ELSE [Idle EXCEPT !.step = "next", !.now = now, !.leased = rest]

\* After a conclusion the worker reports; a direct caller is done.
Conclude(now, i, rest) ==
    IF i.lane = "direct" THEN Continue(now, rest)
    ELSE [Idle EXCEPT !.step = "report", !.now = now, !.leased = rest, !.item = i]

\* Mutant: a conclusion whose report a crash prevented is not picked up again.
ClaimableAcceptedOnly(c) ==
    Pending(c) # {} /\ capture[c].status = "accepted" /\ capture[c].due = "past"

Claimable(c) ==
    /\ Pending(c) # {}
    /\ \/ capture[c].status = "accepted" /\ capture[c].due = "past"
       \/ capture[c].status \in Concluded

\* One claim transaction.  `skip locked' leaves out rows other transactions
\* hold, so any non-empty part of the claimable captures may come back.
claim(w, S) ==
    LET accepted == {c \in S : capture[c].status = "accepted"} IN
    /\ worker[w].step = "idle" /\ passes < MaxPasses
    /\ S # {} /\ Cardinality(S) <= BatchSize
    /\ \A c \in S : Claimable(c)
    /\ passes' = passes + 1
    /\ capture' = [c \in Captures |->
                     IF c \in accepted THEN [capture[c] EXCEPT !.due = "future"]
                     ELSE capture[c]]
    /\ report_pending(S)
    /\ worker' = [worker EXCEPT ![w] =
         Continue(passes + 1,
                  {[capture |-> c, attempts |-> capture[c].attempts, lane |-> "worker"] :
                     c \in accepted})]
    /\ UNCHANGED <<inbox, latest, media, operations, facts, removed, marking, faults>>

\* Mutant: one attempt too many.
RetriesOffByOne(i) == i.attempts + 1 <= MaxAttempts

\* Attempts are counted from what the claim read.
retries_left(i) == i.attempts + 1 < MaxAttempts

\* A transient answer before the last attempt.  The UPDATE has no guard: it
\* applies whatever happened to the capture since it was leased.
reschedule(w, i) ==
    /\ worker[w].step = "next" /\ i.lane = "worker"
    /\ retries_left(i)
    /\ capture' = [capture EXCEPT ![i.capture].attempts = i.attempts + 1,
                                  ![i.capture].due = "future"]
    /\ worker' = [worker EXCEPT ![w] = Continue(@.now, @.leased \ {i})]
    /\ UNCHANGED <<inbox, latest, media, operations, reported, reports, facts,
                   removed, marking, passes, faults>>

\* The observation the conclusion of item i records for this outcome.  The
\* worker concludes a transient outcome only when the attempts are spent.
Recorded(i, outcome) ==
    IF i.lane = "worker" /\ is_transient(outcome) THEN "transient" ELSE Observation(outcome)

MayConclude(i, outcome) ==
    i.lane = "worker" /\ is_transient(outcome) => ~retries_left(i)

\* `order by observed_at desc, observation_id desc limit 1' after an insert.
Observe(c, at, kind) ==
    latest' = IF at >= latest[c].at
              THEN [latest EXCEPT ![c] = [at |-> at, kind |-> kind]]
              ELSE latest

\* record_failed_resolution: the observation, the status, and for a deletion of
\* a preserved source the media status and an updated fact.
record_failed_resolution(w, i, outcome) ==
    LET c == i.capture
        p == PermalinkOf[c]
        gone == outcome = "deleted" /\ capture[c].media_id # "null"
        content == [media[p] EXCEPT !.upstream = "deleted"] IN
    /\ worker[w].step = "next"
    /\ MayConclude(i, outcome)
    /\ Observe(c, worker[w].now, Recorded(i, outcome))
    /\ capture' = [capture EXCEPT ![c].status =
                     IF @ \in {"accepted", "resolved"} THEN "unavailable" ELSE @]
    /\ media' = IF gone THEN [media EXCEPT ![p] = content] ELSE media
    /\ facts' = IF gone THEN [facts EXCEPT ![c] = Append(@, Fact("updated", content))]
                ELSE facts
    /\ worker' = [worker EXCEPT ![w] = Conclude(@.now, i, @.leased \ {i})]
    /\ UNCHANGED <<inbox, operations, reported, reports, removed, marking, passes, faults>>

\* store_resolution, first part: a payload with this caption was fetched, and
\* the prior projection is read without a lock.
read_prior_projection(w, i, caption) ==
    /\ worker[w].step = "next"
    /\ worker' = [worker EXCEPT ![w] =
         [worker[w] EXCEPT !.step = "store", !.leased = worker[w].leased \ {i}, !.item = i,
                           !.caption = caption, !.prior = media[PermalinkOf[i.capture]]]]
    /\ UNCHANGED <<inbox, capture, latest, media, operations, reported, reports,
                   facts, removed, marking, passes, faults>>

normalized_changed(prior, caption) == prior = NoContent \/ prior.caption # caption

\* Mutant: a projection another owner already resolved is nothing new.
PublishesChangesOnly(c, prior, caption) == normalized_changed(prior, caption)

publishes(c, prior, caption) == ~HasFact(c) \/ normalized_changed(prior, caption)

\* Mutant: the kind follows the shared projection instead of the outbox.
FactKindByProjection(c) == IF media[PermalinkOf[c]] = NoContent THEN "captured" ELSE "updated"

fact_kind(c) == IF HasFact(c) THEN "updated" ELSE "captured"

\* store_resolution, second part: under the lock on the media row, the
\* projection, the observation, the capture and the fact.
store_resolution(w) ==
    LET i == worker[w].item
        c == i.capture
        content == [caption |-> worker[w].caption, upstream |-> "available"]
        fact == Fact(fact_kind(c), content) IN
    /\ worker[w].step = "store"
    /\ media' = [media EXCEPT ![PermalinkOf[c]] = content]
    /\ Observe(c, worker[w].now, "available")
    /\ capture' = [capture EXCEPT ![c].status = "resolved", ![c].media_id = "set"]
    /\ facts' = IF publishes(c, worker[w].prior, worker[w].caption)
                THEN [facts EXCEPT ![c] = Append(@, fact)] ELSE facts
    /\ worker' = [worker EXCEPT ![w] = Conclude(@.now, i, @.leased)]
    /\ UNCHANGED <<inbox, operations, reported, reports, removed, marking, passes, faults>>

\* Both transactions found no media row: the second insert breaks media's
\* unique permalink, the transaction rolls back and the item is given up.
lose_media_insert(w) ==
    /\ worker[w].step = "store" /\ worker[w].prior = NoContent
    /\ media[PermalinkOf[worker[w].item.capture]] # NoContent
    /\ worker' = [worker EXCEPT ![w] = Continue(@.now, @.leased)]
    /\ UNCHANGED <<inbox, capture, latest, media, operations, reported, reports,
                   facts, removed, marking, passes, faults>>

report_concluded(w) ==
    /\ worker[w].step = "report"
    /\ report_pending({worker[w].item.capture})
    /\ worker' = [worker EXCEPT ![w] = Continue(@.now, @.leased)]
    /\ UNCHANGED <<inbox, capture, latest, media, operations, facts, removed,
                   marking, passes, faults>>

\* A failed query gives up the item; it is retried after its lease.
fail_item(w) ==
    /\ faults < MaxFaults
    /\ \/ worker[w].step \in {"store", "report"}
          /\ worker' = [worker EXCEPT ![w] = Continue(@.now, @.leased)]
       \/ worker[w].step = "next"
          /\ \E i \in worker[w].leased :
               worker' = [worker EXCEPT ![w] = Continue(@.now, @.leased \ {i})]
    /\ faults' = faults + 1
    /\ UNCHANGED <<inbox, capture, latest, media, operations, reported, reports,
                   facts, removed, marking, passes>>

\* The process stops in the middle of a pass and is started again.
Crash(w) ==
    /\ worker[w].step # "idle" /\ faults < MaxFaults
    /\ worker' = [worker EXCEPT ![w] = Idle]
    /\ faults' = faults + 1
    /\ UNCHANGED <<inbox, capture, latest, media, operations, reported, reports,
                   facts, removed, marking, passes>>

\* Time passes next_resolution_at, of a retry delay or of a lease.  A lease can
\* end while its holder still works: it runs from the start of the pass, and
\* the captures of one pass are fetched one after the other.
Elapse(c) ==
    /\ capture[c].due = "future"
    /\ capture' = [capture EXCEPT ![c].due = "past"]
    /\ UNCHANGED <<inbox, latest, media, operations, reported, reports, facts,
                   removed, worker, marking, passes, faults>>

-----------------------------------------------------------------------------
(* Library operations the binary does not schedule itself *)

\* resolve_capture_permalink: fetch and apply without a lease or a report.
resolve_capture_permalink(w, c) ==
    /\ worker[w].step = "idle" /\ passes < MaxPasses
    /\ capture[c].status # "absent"
    /\ passes' = passes + 1
    /\ worker' = [worker EXCEPT ![w] =
         Continue(passes + 1, {[capture |-> c, attempts |-> 0, lane |-> "direct"]})]
    /\ UNCHANGED <<inbox, capture, latest, media, operations, reported, reports,
                   facts, removed, marking, faults>>

\* record_capture_unavailable reads the status without a lock...
read_capture_status(c) ==
    /\ capture[c].status # "absent" /\ marking[c] = "no"
    /\ marking' = [marking EXCEPT ![c] =
         IF capture[c].status \in {"accepted", "resolved"} THEN "live" ELSE "dead"]
    /\ UNCHANGED <<inbox, capture, latest, media, operations, reported, reports,
                   facts, removed, worker, passes, faults>>

\* ...and writes what the status it read calls for.
record_capture_unavailable(c, reason) ==
    /\ marking[c] # "no"
    /\ marking' = [marking EXCEPT ![c] = "no"]
    /\ Observe(c, passes, reason)
    /\ capture' = IF marking[c] = "live"
                  THEN [capture EXCEPT ![c].status = "unavailable"] ELSE capture
    /\ UNCHANGED <<inbox, media, operations, reported, reports, facts, removed,
                   worker, passes, faults>>

\* Mutant: the status stands in for the guard row.
NotTombstoned(c) == capture[c].status # "tombstoned"

\* The guard that makes a second tombstone a duplicate.
not_removed(c) == c \notin removed

tombstone_capture(c) ==
    /\ capture[c].status # "absent" /\ not_removed(c)
    /\ facts' = [facts EXCEPT ![c] = Append(@, Fact("removed", NoContent))]
    /\ removed' = removed \cup {c}
    /\ capture' = [capture EXCEPT ![c].status = "tombstoned"]
    /\ UNCHANGED <<inbox, latest, media, operations, reported, reports, worker,
                   marking, passes, faults>>

-----------------------------------------------------------------------------
(* Specification *)

Intake == \/ \E c \in Captures : submit_capture(c)
          \/ \E m \in Commands : \/ IngestDuplicate(m)
                                 \/ IngestRejected(m)
                                 \/ IngestPreserved(m)

Advance(w) ==
    \/ \E i \in worker[w].leased :
         \/ reschedule(w, i)
         \/ \E outcome \in Failures : record_failed_resolution(w, i, outcome)
         \/ \E caption \in Captions : read_prior_projection(w, i, caption)
    \/ store_resolution(w)
    \/ lose_media_insert(w)
    \/ report_concluded(w)

Claim(w) == \E S \in SUBSET Captures : claim(w, S)

ServiceStep ==
    \/ Intake
    \/ \E w \in Workers : Claim(w) \/ Advance(w) \/ fail_item(w) \/ Crash(w)
    \/ \E c \in Captures : Elapse(c)

LibraryStep ==
    \E c \in Captures :
        \/ \E w \in Workers : resolve_capture_permalink(w, c)
        \/ read_capture_status(c)
        \/ \E reason \in Reasons : record_capture_unavailable(c, reason)
        \/ tombstone_capture(c)

Next == ServiceStep \/ LibraryStep

Spec == Init /\ [][Next]_vars

\* The deployed binary alone.
ServiceSafety == Init /\ [][ServiceStep]_vars

\* Its resolver task loops for ever, a pass that started goes on, and time
\* passes every schedule.
ServiceSpec ==
    /\ ServiceSafety
    /\ \A w \in Workers : WF_vars(Claim(w)) /\ WF_vars(Advance(w))
    /\ \A c \in Captures : WF_vars(Elapse(c))

-----------------------------------------------------------------------------
(* Properties *)

\* Every operation bound to a capture has its queued report first and, once
\* reported_at is set, exactly one terminal report after it, whatever the
\* redeliveries, re-issued commands, overlapping workers and crashes
\* (README.md "exactly one terminal report"; report_pending).
OneReportPerOperation ==
    \A o \in Operations :
        /\ o \in reported => operations[o] # NoCapture
        /\ operations[o] # NoCapture =>
             /\ Len(reports[o]) = IF o \in reported THEN 2 ELSE 1
             /\ reports[o][1] = "queued"
             /\ o \in reported => reports[o][2] \in Terminal

\* A command with a permalink that cannot be mapped is answered once: an
\* operation without a capture has one report per rejected command, however
\* often the broker redelivers (ingest_browser_capture_command's inbox claim).
OneReportPerRejection ==
    \A o \in Operations : operations[o] = NoCapture =>
        Len(reports[o]) = Cardinality({m \in Commands : /\ OperationOf[m] = o
                                                        /\ inbox[m] = "rejected"})

\* An operation that waits for its terminal report is one the worker will find:
\* its capture exists and, while accepted, has a next_resolution_at.  A null
\* there would hide the capture from claim() for ever (record_operation).
PendingIsScheduled ==
    \A o \in Operations : operations[o] # NoCapture /\ o \notin reported =>
        /\ capture[operations[o]].status # "absent"
        /\ capture[operations[o]].status = "accepted" => capture[operations[o]].due # "null"

\* A `succeeded' report names a source that Knowledge can know: the captured
\* fact of that source is in the outbox (report_pending after store_resolution).
PreservedIsPublished ==
    \A o \in Operations : \A i \in 1..Len(reports[o]) :
        reports[o][i] = "preserved" => HasFact(operations[o])

\* A source is published as captured exactly once and before anything else is
\* said about its content; overlapping resolutions publish updates
\* (capture_has_fact in store_resolution).
CapturedOnceAndFirst ==
    \A c \in Captures : \A i \in 1..Len(facts[c]) :
        facts[c][i].kind = "captured" <=>
            /\ facts[c][i].kind # "removed"
            /\ \A j \in 1..(i - 1) : facts[c][j].kind = "removed"

\* A source is removed at most once, and its removal fact commits with its
\* local_source_removals row (tombstone_capture).
RemovedOnce ==
    \A c \in Captures :
        /\ c \in removed <=> \E i \in 1..Len(facts[c]) : facts[c][i].kind = "removed"
        /\ \A i, j \in 1..Len(facts[c]) :
             facts[c][i].kind = "removed" /\ facts[c][j].kind = "removed" => i = j

\* Every accepted operation reaches its terminal report, through retries, a
\* crash in any step of a pass and further commands (run_due_once).
EveryOperationReported ==
    \A o \in Operations : (operations[o] # NoCapture) ~> (o \in reported)

-----------------------------------------------------------------------------
(* What the documents say and the code does not do *)

\* After a resolution stored a projection, the newest fact of that source
\* states it (openspec social-source-publishing, "whose snapshot equals the
\* new stored state").  normalized_changed compares type and caption with the
\* shared media row: neither a source found available again after it was
\* recorded as deleted nor a caption another owner's resolution stored first
\* counts as a change.
StoredStateIsPublished ==
    [][\A w \in Workers : store_resolution(w) =>
         LET c == worker[w].item.capture
             newest == facts'[c][Len(facts'[c])] IN
         newest.kind # "removed" => newest.content = media'[PermalinkOf[c]]]_vars

\* Nothing about a source is published after its removal (design D4, "Update
\* late-completion and publication checks to consult this guard").
NothingAfterRemoval ==
    \A c \in Captures : \A i, j \in 1..Len(facts[c]) :
        facts[c][i].kind = "removed" /\ i < j => facts[c][j].kind = "removed"
=============================================================================
