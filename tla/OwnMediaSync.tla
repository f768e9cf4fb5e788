---------------------------- MODULE OwnMediaSync ----------------------------
(***************************************************************************)
(* Own-media synchronisation (own_media.rs) with the provider budget it    *)
(* spends (provider_budget.rs): the scheduler picks due accounts, and for  *)
(* each of them starts or resumes a run that reads the provider's          *)
(* catalogue newest first, page by page, stages every page, and finally    *)
(* makes the staged items the account's visible set.                       *)
(*                                                                         *)
(* One step is one statement or one transaction; a provider request lies   *)
(* between two of them.  Media identifiers grow with the publication, so   *)
(* "newest first" is descending order, and a continuation cursor stands    *)
(* for the identifier it continues below.                                  *)
(***************************************************************************)
EXTENDS Integers, FiniteSets, Sequences, SequencesExt, FiniteSetsExt

CONSTANTS
    Accounts,
    Workers,            \* schedulers: one per process, two while processes overlap
    MaxMedia,           \* bound: publications of one account
    Published,          \* media every account has published at the start
    Text,               \* their content
    Texts,              \* contents a medium may have (caption, permalink, time)
    Taken,              \* media whose permalink a capture's media row already holds
    Deletable,          \* media their account may delete upstream
    PageSize,
    PagesPerRun,        \* own_media.pages_per_run
    CallBudget,         \* own_media.call_budget
    AccountsPerTick,    \* own_media.accounts_per_tick
    MaxRuns,            \* bound: runs of one account
    MaxGenerations,     \* bound: capability generations of one account
    MaxEdits,           \* bound: provider edits and deletions
    MaxFaults           \* bound: failed or refused pages, crashes

ASSUME SyncAssumption ==
    /\ {MaxMedia, MaxGenerations, MaxEdits, MaxFaults} \subseteq Nat
    /\ {PageSize, PagesPerRun, CallBudget, AccountsPerTick, MaxRuns} \subseteq Nat \ {0}
    /\ IsFiniteSet(Accounts) /\ Text \in Texts /\ Texts \subseteq Nat \ {0}
    /\ Published \in 0..MaxMedia

VARIABLES
    account,    \* accounts joined with the own_media_read capability
    catalogue,  \* the provider's live media of each account (external)
    newest,     \* the identifier each account published last (external)
    runs,       \* own_media_sync_runs with their items, per account
    sync,       \* own_media_sync_state and own_media_authority, per account
    order,      \* accounts by coalesce(next_due_at, connected_at)
    due,        \* accounts whose next_due_at is absent or past
    media,      \* provider identities that have a media row
    facts,      \* contents published for each medium, in order
    worker,
    edits,
    faults

vars == <<account, catalogue, newest, runs, sync, order, due, media, facts, worker, edits,
          faults>>

-----------------------------------------------------------------------------
(* Rows *)

Media == 1..MaxMedia
\* 0 stands for NULL: no content, no watermark, no cursor, no run.
Contents == Texts \cup {0}
NoItems == [m \in Media |-> 0]

Runs == [status: {"running", "retryable", "completed", "failed"},
         generation: 1..MaxGenerations, start: 0..MaxMedia, candidate: 0..MaxMedia,
         cursor: 0..MaxMedia, items: [Media -> Contents], used: 0..CallBudget]

Steps == {"idle", "account", "noop", "eligible", "active", "resume", "budget", "insert",
          "page", "exhausted", "fetch", "retryable", "failed", "persist", "unfinished",
          "finalize"}
Idle == [step |-> "idle", todo |-> <<>>, generation |-> 1, run |-> 0, start |-> 0,
         candidate |-> 0, cursor |-> 0, ordinal |-> 1, pages |-> 0, page |-> NoItems]

Init ==
    /\ account = [a \in Accounts |->
                    [status |-> "connected", generation |-> 1, state |-> "available"]]
    /\ newest = [a \in Accounts |-> Published]
    /\ catalogue = [a \in Accounts |-> [m \in Media |-> IF m <= Published THEN Text ELSE 0]]
    /\ runs = [a \in Accounts |-> <<>>]
    /\ sync = [a \in Accounts |-> [watermark |-> 0, authority |-> 0]]
    /\ order = SetToSeq(Accounts)
    /\ due = Accounts
    /\ media = [a \in Accounts |-> {}]
    /\ facts = [a \in Accounts |-> [m \in Media |-> <<>>]]
    /\ worker = [w \in Workers |-> Idle]
    /\ edits = 0
    /\ faults = 0

Unfinished == {"running", "retryable"}
Active(a) == {r \in DOMAIN runs[a] : runs[a][r].status \in Unfinished}
Live(a) == {m \in Media : catalogue[a][m] # 0}
AccountOf(w) == Head(worker[w].todo)

\* What an observer of the account's own media sees.
Visible(a) == IF sync[a].authority = 0 THEN NoItems ELSE runs[a][sync[a].authority].items

-----------------------------------------------------------------------------
(* The worker's control *)

goto(w, s) == worker' = [worker EXCEPT ![w].step = s]

\* run_account_once returned, with whatever result: the next account's turn.
next_account(w) ==
    worker' = [worker EXCEPT ![w] =
                 [Idle EXCEPT !.todo = Tail(worker[w].todo),
                              !.step = IF Len(worker[w].todo) = 1 THEN "idle" ELSE "account"]]

\* next_due_at = now + cadence.
not_due_before_cadence(a) ==
    /\ due' = due \ {a}
    /\ order' = Append(SelectSeq(order, LAMBDA b : b # a), a)

\* update ... set status = s where run_id = r and status = from.
set_status(a, r, from, s) ==
    runs' = IF runs[a][r].status = from THEN [runs EXCEPT ![a][r].status = s] ELSE runs

-----------------------------------------------------------------------------
(* Scheduling *)

\* Bound: an account whose last run is over is selected while a run is left.
selectable(a) ==
    /\ a \in due \/ Active(a) # {}
    /\ Len(runs[a]) < MaxRuns \/ Active(a) # {}

run_due_once(w) ==
    LET selected == SelectSeq(order, selectable)
    IN  /\ worker[w].step = "idle" /\ selected # <<>>
        /\ worker' = [worker EXCEPT ![w].step = "account",
                        ![w].todo = SubSeq(selected, 1, Min({Len(selected), AccountsPerTick}))]
        /\ UNCHANGED <<account, catalogue, newest, runs, sync, order, due, media, facts, edits,
                       faults>>

\* The capability read that decides between a no-op and a run.
run_account_once(w) ==
    LET a == AccountOf(w)
    IN  /\ worker[w].step = "account"
        /\ IF account[a].status # "connected" \/ account[a].state # "available"
           THEN goto(w, "noop")
           ELSE worker' = [worker EXCEPT ![w].step = "eligible",
                                         ![w].generation = account[a].generation]
        /\ UNCHANGED <<account, catalogue, newest, runs, sync, order, due, media, facts, edits,
                       faults>>

\* The no-op transaction closes whatever run is unfinished.
capability_noop(w) ==
    LET a == AccountOf(w)
    IN  /\ worker[w].step = "noop"
        /\ runs' = [runs EXCEPT ![a] = [r \in DOMAIN runs[a] |->
                      IF r \in Active(a) THEN [runs[a][r] EXCEPT !.status = "failed"]
                                         ELSE runs[a][r]]]
        /\ not_due_before_cadence(a)
        /\ next_account(w)
        /\ UNCHANGED <<account, catalogue, newest, sync, media, facts, edits, faults>>

-----------------------------------------------------------------------------
(* Starting or resuming a run *)

\* The credential is read with the account and opened.
open_credential(w) ==
    /\ worker[w].step = "eligible"
    /\ IF account[AccountOf(w)].status = "connected" THEN goto(w, "active") ELSE next_account(w)
    /\ UNCHANGED <<account, catalogue, newest, runs, sync, order, due, media, facts, edits, faults>>

\* A plausible slip: only a running run is looked for.
finds_running_only(w) ==
    LET a == AccountOf(w)
        found == {r \in Active(a) : runs[a][r].status = "running"}
    IN  /\ worker[w].step = "active"
        /\ \/ /\ found = {}
              /\ worker' = [worker EXCEPT ![w].step = "insert", ![w].start = sync[a].watermark]
           \/ \E r \in found :
                worker' = [worker EXCEPT ![w].step = "resume", ![w].run = r,
                             ![w].start = runs[a][r].start, ![w].cursor = runs[a][r].cursor,
                             ![w].candidate = runs[a][r].candidate]
        /\ UNCHANGED <<account, catalogue, newest, runs, sync, order, due, media, facts, edits,
                       faults>>

find_active(w) ==
    LET a == AccountOf(w)
    IN  /\ worker[w].step = "active"
        /\ \/ /\ Active(a) = {}
              /\ worker' = [worker EXCEPT ![w].step = "insert", ![w].start = sync[a].watermark]
           \/ \E r \in Active(a) :
                IF runs[a][r].generation # worker[w].generation
                THEN next_account(w)
                ELSE worker' = [worker EXCEPT ![w].step = "resume", ![w].run = r,
                                  ![w].start = runs[a][r].start, ![w].cursor = runs[a][r].cursor,
                                  ![w].candidate = runs[a][r].candidate]
        /\ UNCHANGED <<account, catalogue, newest, runs, sync, order, due, media, facts, edits,
                       faults>>

resume_run(w) ==
    /\ worker[w].step = "resume"
    /\ set_status(AccountOf(w), worker[w].run, "retryable", "running")
    /\ goto(w, "budget")
    /\ UNCHANGED <<account, catalogue, newest, sync, order, due, media, facts, edits, faults>>

\* ProviderBudget::resume: the ordinal after the greatest one stored.
resume_budget(w) ==
    /\ worker[w].step = "budget"
    /\ worker' = [worker EXCEPT ![w].step = "page", ![w].pages = PagesPerRun,
                    ![w].ordinal = runs[AccountOf(w)][worker[w].run].used + 1]
    /\ UNCHANGED <<account, catalogue, newest, runs, sync, order, due, media, facts, edits, faults>>

\* A new run starts from the items of the visible generation.  The partial
\* unique index refuses a second unfinished run.
insert_run(w) ==
    LET a == AccountOf(w)
        new == [status |-> "running", generation |-> worker[w].generation,
                start |-> worker[w].start, candidate |-> 0, cursor |-> 0,
                items |-> Visible(a), used |-> 0]
    IN  /\ worker[w].step = "insert"
        /\ IF Active(a) # {} \/ Len(runs[a]) = MaxRuns
           THEN next_account(w) /\ UNCHANGED runs
           ELSE /\ runs' = [runs EXCEPT ![a] = Append(@, new)]
                /\ worker' = [worker EXCEPT ![w].step = "page", ![w].pages = PagesPerRun,
                                            ![w].run = Len(runs[a]) + 1]
        /\ UNCHANGED <<account, catalogue, newest, sync, order, due, media, facts, edits, faults>>

-----------------------------------------------------------------------------
(* One page *)

\* A plausible slip: one call more than the budget.
reserves_one_more(w) ==
    LET a == AccountOf(w)
        r == worker[w].run
    IN  /\ worker[w].step = "page"
        /\ \/ /\ worker[w].ordinal > CallBudget + 1
              /\ goto(w, "exhausted") /\ UNCHANGED runs
           \/ /\ worker[w].ordinal <= CallBudget + 1
              /\ runs' = [runs EXCEPT ![a][r].used = worker[w].ordinal]
              /\ worker' = [worker EXCEPT ![w].step = "fetch", ![w].pages = @ - 1,
                                          ![w].ordinal = @ + 1]
        /\ UNCHANGED <<account, catalogue, newest, sync, order, due, media, facts, edits, faults>>

\* The unit is spent before the request.  Another holder of the run that
\* stored this ordinal first makes the insert fail.
reserve(w) ==
    LET a == AccountOf(w)
        r == worker[w].run
    IN  /\ worker[w].step = "page"
        /\ \/ /\ worker[w].ordinal > CallBudget
              /\ goto(w, "exhausted") /\ UNCHANGED runs
           \/ /\ worker[w].ordinal <= CallBudget /\ worker[w].ordinal <= runs[a][r].used
              /\ next_account(w) /\ UNCHANGED runs
           \/ /\ worker[w].ordinal <= CallBudget /\ worker[w].ordinal > runs[a][r].used
              /\ runs' = [runs EXCEPT ![a][r].used = worker[w].ordinal]
              /\ worker' = [worker EXCEPT ![w].step = "fetch", ![w].pages = @ - 1,
                                          ![w].ordinal = @ + 1]
        /\ UNCHANGED <<account, catalogue, newest, sync, order, due, media, facts, edits, faults>>

\* The provider answers with the newest live media below the cursor, and a
\* cursor when there are more.
below(a, c) == {m \in Live(a) : c = 0 \/ m < c}
page_of(a, c) == {m \in below(a, c) : Cardinality({k \in below(a, c) : k > m}) < PageSize}
cursor_after(a, c) ==
    IF page_of(a, c) = below(a, c) THEN 0 ELSE Min(page_of(a, c))

\* A transient error, or a response that is refused.
page_fails(w) ==
    /\ worker[w].step = "fetch" /\ faults < MaxFaults
    /\ \E s \in {"retryable", "failed"} : goto(w, s)
    /\ faults' = faults + 1
    /\ UNCHANGED <<account, catalogue, newest, runs, sync, order, due, media, facts, edits>>

list_own_media_page(w) ==
    LET a == AccountOf(w)
        c == worker[w].cursor
        p == page_of(a, c)
    IN  /\ worker[w].step = "fetch"
        /\ worker' = [worker EXCEPT ![w].step = "persist",
                        ![w].page = [m \in Media |-> IF m \in p THEN catalogue[a][m] ELSE 0],
                        ![w].cursor = cursor_after(a, c),
                        ![w].candidate = IF @ = 0 /\ p # {} THEN Max(p) ELSE @]
        /\ UNCHANGED <<account, catalogue, newest, runs, sync, order, due, media, facts, edits,
                       faults>>

mark_provider_failure(w) ==
    /\ worker[w].step \in {"retryable", "failed"}
    /\ set_status(AccountOf(w), worker[w].run, "running", worker[w].step)
    /\ next_account(w)
    /\ UNCHANGED <<account, catalogue, newest, sync, order, due, media, facts, edits, faults>>

reached_watermark(w) == worker[w].start # 0 /\ worker[w].page[worker[w].start] # 0

\* A plausible slip: a run that may read no further page is complete.
page_limit_completes(w) ==
    IF reached_watermark(w) \/ worker[w].cursor = 0 \/ worker[w].pages = 0 THEN "finalize"
    ELSE "page"

after_page(w) ==
    IF reached_watermark(w) \/ (worker[w].start = 0 /\ worker[w].cursor = 0) THEN "finalize"
    ELSE IF worker[w].cursor = 0 \/ worker[w].pages = 0 THEN "unfinished"
    ELSE "page"

\* The items are stored whatever the run's status; its cursor only while it
\* is running.
StagedInto(run, w) ==
    LET staged == [run EXCEPT !.items = [m \in Media |->
                     IF worker[w].page[m] # 0 THEN worker[w].page[m] ELSE run.items[m]]]
    IN  IF run.status # "running" THEN staged
        ELSE [staged EXCEPT !.cursor = worker[w].cursor,
                            !.candidate = IF @ = 0 THEN worker[w].candidate ELSE @]

\* A plausible slip: the items go to the visible run as well.
stages_into_visible(w) ==
    LET a == AccountOf(w)
    IN  /\ worker[w].step = "persist"
        /\ runs' = [runs EXCEPT ![a] = [r \in DOMAIN runs[a] |->
                      IF r \in {worker[w].run, sync[a].authority} THEN StagedInto(runs[a][r], w)
                                                                 ELSE runs[a][r]]]
        /\ worker' = [worker EXCEPT ![w].step = after_page(w), ![w].page = NoItems]
        /\ UNCHANGED <<account, catalogue, newest, sync, order, due, media, facts, edits, faults>>

persist_page(w) ==
    LET a == AccountOf(w)
        r == worker[w].run
    IN  /\ worker[w].step = "persist"
        /\ runs' = [runs EXCEPT ![a][r] = StagedInto(@, w)]
        /\ worker' = [worker EXCEPT ![w].step = after_page(w), ![w].page = NoItems]
        /\ UNCHANGED <<account, catalogue, newest, sync, order, due, media, facts, edits, faults>>

\* An item of another account, or of an unknown type: nothing is stored and
\* the run stays running.
refuse_page(w) ==
    /\ worker[w].step = "persist" /\ faults < MaxFaults
    /\ next_account(w)
    /\ faults' = faults + 1
    /\ UNCHANGED <<account, catalogue, newest, runs, sync, order, due, media, facts, edits>>

\* No budget, no page left, or the end of the catalogue without the watermark.
stop_retryable(w) ==
    /\ worker[w].step \in {"exhausted", "unfinished"}
    /\ set_status(AccountOf(w), worker[w].run, "running", "retryable")
    /\ next_account(w)
    /\ UNCHANGED <<account, catalogue, newest, sync, order, due, media, facts, edits, faults>>

-----------------------------------------------------------------------------
(* Completion *)

still_authorized(w) ==
    account[AccountOf(w)] = [status |-> "connected", generation |-> worker[w].generation,
                             state |-> "available"]

capability_changed(w) ==
    /\ runs' = [runs EXCEPT ![AccountOf(w)][worker[w].run].status = "failed"]
    /\ UNCHANGED <<sync, order, due, media, facts>>

\* media is unique by permalink too: an item without a row of its provider
\* identity cannot be inserted over the row of a capture.
violates_permalink_key(w) ==
    \E m \in Media \ media[AccountOf(w)] :
        runs[AccountOf(w)][worker[w].run].items[m] # 0 /\ m \in Taken

\* A plausible slip: a published identity is not published again.
publishes_once(published, items) ==
    [m \in Media |-> IF items[m] = 0 \/ published[m] # <<>> THEN published[m]
                     ELSE Append(published[m], items[m])]

\* append_own_media_facts skips a content that was published before.
append_own_media_facts(published, items) ==
    [m \in Media |-> IF items[m] = 0 \/ items[m] \in ToSet(published[m]) THEN published[m]
                     ELSE Append(published[m], items[m])]

activate(w) ==
    LET a == AccountOf(w)
        r == worker[w].run
        items == runs[a][r].items
    IN  /\ media' = [media EXCEPT ![a] = @ \cup {m \in Media : items[m] # 0}]
        /\ facts' = [facts EXCEPT ![a] = append_own_media_facts(@, items)]
        /\ sync' = [sync EXCEPT ![a] = [watermark |-> worker[w].candidate, authority |-> r]]
        /\ runs' = IF runs[a][r].status # "running" THEN runs
                   ELSE [runs EXCEPT ![a][r].status = "completed", ![a][r].cursor = 0]
        /\ not_due_before_cadence(a)

finalize_run(w) ==
    /\ worker[w].step = "finalize"
    /\ \/ ~still_authorized(w) /\ capability_changed(w)
       \/ /\ still_authorized(w) /\ violates_permalink_key(w)
          /\ UNCHANGED <<runs, sync, order, due, media, facts>>
       \/ still_authorized(w) /\ ~violates_permalink_key(w) /\ activate(w)
    /\ next_account(w)
    /\ UNCHANGED <<account, catalogue, newest, edits, faults>>

-----------------------------------------------------------------------------
(* The provider's catalogue, the account's authorisation, time and crashes *)

publish(a) ==
    /\ newest[a] < MaxMedia /\ edits < MaxEdits
    /\ newest' = [newest EXCEPT ![a] = @ + 1]
    /\ \E t \in Texts : catalogue' = [catalogue EXCEPT ![a][newest[a] + 1] = t]
    /\ edits' = edits + 1
    /\ UNCHANGED <<account, runs, sync, order, due, media, facts, worker, faults>>

edit(a) ==
    /\ edits < MaxEdits
    /\ \E m \in Live(a) : \E t \in Texts \ {catalogue[a][m]} :
         catalogue' = [catalogue EXCEPT ![a][m] = t]
    /\ edits' = edits + 1
    /\ UNCHANGED <<newest, account, runs, sync, order, due, media, facts, worker, faults>>

withdraw(a) ==
    /\ edits < MaxEdits
    /\ \E m \in Live(a) \cap Deletable : catalogue' = [catalogue EXCEPT ![a][m] = 0]
    /\ edits' = edits + 1
    /\ UNCHANGED <<newest, account, runs, sync, order, due, media, facts, worker, faults>>

\* A refresh or a new connection replaces the capability generation; an
\* authentication failure or a revocation makes everything unavailable.
replace_generation(a) ==
    /\ account[a].generation < MaxGenerations
    /\ \E s \in {"connected", "reauthorization_required"}, c \in {"available", "unavailable"} :
         /\ s # "connected" => c = "unavailable"
         /\ account' = [account EXCEPT ![a] =
              [status |-> s, generation |-> account[a].generation + 1, state |-> c]]
    /\ UNCHANGED <<catalogue, newest, runs, sync, order, due, media, facts, worker, edits, faults>>

\* The scheduler ticks once per cadence, so next_due_at is past at every tick.
cadence_elapses ==
    /\ due' = Accounts
    /\ UNCHANGED <<account, catalogue, newest, runs, sync, order, media, facts, worker, edits,
                   faults>>

crash(w) ==
    /\ worker[w].step # "idle" /\ faults < MaxFaults
    /\ worker' = [worker EXCEPT ![w] = Idle]
    /\ faults' = faults + 1
    /\ UNCHANGED <<account, catalogue, newest, runs, sync, order, due, media, facts, edits>>

-----------------------------------------------------------------------------

run_eligible(w) ==
    \/ open_credential(w) \/ find_active(w) \/ resume_run(w) \/ resume_budget(w)
    \/ insert_run(w) \/ reserve(w) \/ list_own_media_page(w) \/ mark_provider_failure(w)
    \/ persist_page(w) \/ stop_retryable(w) \/ finalize_run(w)

progress(w) == run_due_once(w) \/ run_account_once(w) \/ capability_noop(w) \/ run_eligible(w)

Next ==
    \/ \E w \in Workers : progress(w) \/ page_fails(w) \/ refuse_page(w) \/ crash(w)
    \/ \E a \in Accounts : publish(a) \/ edit(a) \/ withdraw(a) \/ replace_generation(a)
    \/ cadence_elapses

Spec == Init /\ [][Next]_vars

\* The scheduler loops for ever, and every await of a pass returns.
LiveSpec ==
    /\ Spec
    /\ \A w \in Workers : WF_vars(progress(w))
    /\ WF_vars(cadence_elapses)

-----------------------------------------------------------------------------
(* Properties *)

\* Every row and every worker is well formed, and no run has spent more
\* provider calls than its budget.
TypeOK ==
    /\ account \in [Accounts -> [status: {"connected", "reauthorization_required"},
                                 generation: 1..MaxGenerations,
                                 state: {"available", "unavailable"}]]
    /\ catalogue \in [Accounts -> [Media -> Contents]] /\ newest \in [Accounts -> 0..MaxMedia]
    /\ \A a \in Accounts : \A r \in DOMAIN runs[a] : runs[a][r] \in Runs
    /\ \A a \in Accounts : Len(runs[a]) <= MaxRuns
    /\ sync \in [Accounts -> [watermark: 0..MaxMedia, authority: 0..MaxRuns]]
    /\ due \subseteq Accounts /\ ToSet(order) = Accounts
    /\ \A w \in Workers : worker[w].step \in Steps /\ worker[w].run \in 0..MaxRuns
    /\ edits \in 0..MaxEdits /\ faults \in 0..MaxFaults

\* The watermark proves a traversal: every medium at or below it that the
\* provider still has is in the visible set, however often the run that moved
\* it was stopped and resumed and whatever was published meanwhile.
NoGapBelowWatermark ==
    \A a \in Accounts : \A m \in Live(a) :
        m <= sync[a].watermark => Visible(a)[m] # 0

\* An unfinished or failed run is never the account's visible generation.
AuthorityIsCompleted ==
    \A a \in Accounts :
        sync[a].authority # 0 => runs[a][sync[a].authority].status = "completed"

\* The visible set changes only by activating another run: no observer sees
\* a page that was staged into the visible generation.
AuthorityChangesWhole ==
    [][\A a \in Accounts : Visible(a)' # Visible(a) => sync[a].authority' # sync[a].authority]_vars

\* Whatever is visible was published: facts commit with the activation.
VisibleIsPublished ==
    \A a \in Accounts, m \in Media :
        Visible(a)[m] # 0 => Visible(a)[m] \in ToSet(facts[a][m])

\* Every account whose own media stay readable is eventually scanned to the
\* end, whatever becomes of the other accounts.
EveryAccountScanned ==
    \A a \in Accounts : <>(sync[a].authority # 0 \/ account[a].state # "available")
=============================================================================
