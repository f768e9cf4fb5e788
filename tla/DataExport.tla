----------------------------- MODULE DataExport -----------------------------
(***************************************************************************)
(* Data Export import (data_export.rs and data_export/): an uploaded       *)
(* archive is stored under its digest and receipted, and workers inspect,  *)
(* parse and reconcile its run.                                            *)
(*                                                                         *)
(* A worker reads a run, does file work with no transaction open, and then *)
(* commits a compare-and-swap; several workers may overlap.  Inspection,   *)
(* staging and failing are one transaction each and one step here.         *)
(* Reconciliation is one transaction of many statements: the worker keeps  *)
(* its uncommitted rows, statements see committed rows and its own         *)
(* (READ COMMITTED), and a row or unique key written by an open            *)
(* transaction makes the next writer wait.                                 *)
(*                                                                         *)
(* A record stands for its own semantic digest.  updated_at is the order   *)
(* of the queue: every write of a run puts it last.                        *)
(***************************************************************************)
EXTENDS Integers, FiniteSets, Sequences, SequencesExt, TLC

CONSTANTS
    Owners,
    Archives,       \* contents, named by their digest
    Content,        \* Archives -> [size, safe, layout, records, unknown]: the saved posts
                    \* in the order of the file, and the digests of what is not readable
                    \* as a saved post
    Uploads,        \* calls of receive
    Workers,
    BatchSize,
    MaxBodyBytes,
    None,
    Damageable,     \* archives whose stored bytes may be damaged
    MaxFaults       \* bound: crashes, broken uploads and damaged files

Records == UNION {ToSet(Content[a].records) : a \in Archives}
Unreadable == UNION {ToSet(Content[a].unknown) : a \in Archives}
Evidence == [digest: Unreadable, ordinal: Nat]
Posts == {rec.post : rec \in Records}
Urls == {rec.url : rec \in Records}

ASSUME ExportAssumption ==
    /\ BatchSize \in Nat \ {0} /\ MaxBodyBytes \in Nat /\ MaxFaults \in Nat
    /\ \A a \in Archives : Content[a].size \in Nat
    /\ \A rec \in Records : rec.post \in Nat
    /\ Unreadable \subseteq Nat
    /\ None \notin Owners /\ None \notin Archives /\ None \notin Posts /\ None \notin Records

VARIABLES
    file,       \* the archive store, by digest
    upload,     \* calls of receive
    state,      \* import_runs.state
    history,    \* import_run_transitions
    queue,      \* unfinished runs by updated_at
    staged,     \* export_records of kind 'normalized' and 'unknown_record'
    conflicts,  \* export_records of kind 'conflict', by the record they keep
    report,     \* export_completeness_reports: the posts it compares
    media,      \* media rows, by media_id
    facts,      \* SocialSource facts of each owner and post, in order
    worker,
    faults

vars == <<file, upload, state, history, queue, staged, conflicts, report, media, facts,
          worker, faults>>

-----------------------------------------------------------------------------
(* Rows *)

\* export_snapshots is unique per owner and archive, and has one run.
Runs == Owners \X Archives
OwnerOf(r) == r[1]
ArchiveOf(r) == r[2]

Run == INSTANCE ImportRun

\* An export names a new row after the owner and the permalink; a public
\* resolution gives it a fresh identity.
source_identity(o, u) == <<o, u>>
MediaIds == (Owners \cup {None}) \X Urls
NoRow == [provider |-> None, permalink |-> None, method |-> None]
MediaRows == [provider: Posts \cup {None}, permalink: Urls \cup {None},
              method: {"data_export", "public_resolution", None}]

\* A pass of run_once: the rows it selected and has not advanced, the run it
\* advances, and the open reconciliation transaction.
Idle == [step |-> "idle", batch |-> <<>>, run |-> None, todo |-> {}, record |-> None,
         found |-> None, strong |-> FALSE, rows |-> <<>>, posted |-> <<>>,
         ambiguous |-> {}]

InTransaction == {"match", "write"}

\* The rows an open transaction wrote.
Written(w) == DOMAIN worker[w].rows

\* The rows keep their types, and a run is queued exactly while unfinished.
TypeOK ==
    /\ file \in [Archives -> {"absent", "intact", "damaged"}]
    /\ upload \in [Uploads -> [step: {"idle", "copied", "stored"}, owner: Owners \cup {None},
                               archive: Archives \cup {None}]]
    /\ state \in [Runs -> Run!States]
    /\ \A r \in Runs : history[r] \subseteq
           [ordinal: 1..4, from: Run!States, to: Run!States]
    /\ \A r \in Runs : Cardinality({i \in DOMAIN queue : queue[i] = r})
                         = IF state[r] \in {"received", "inspected", "parsed"} THEN 1 ELSE 0
    /\ \A r \in Runs : staged[r] \subseteq Records \cup Evidence
    /\ conflicts \in [Runs -> SUBSET Records]
    /\ report \in [Runs -> {None} \cup SUBSET Posts]
    /\ media \in [MediaIds -> MediaRows]
    /\ \A o \in Owners, p \in Posts : \A i \in DOMAIN facts[o, p] :
           facts[o, p][i] \in [kind: {"captured", "updated"}, digest: Records]
    /\ \A w \in Workers :
         /\ worker[w].step \in {"idle", "next", "inspect", "finish_inspection", "parse",
                                "persist_parsed", "reconcile"} \cup InTransaction
         /\ worker[w].run \in Runs \cup {None} /\ worker[w].todo \subseteq Records
         /\ Written(w) \subseteq MediaIds
    /\ faults \in 0..MaxFaults

Init ==
    /\ file = [a \in Archives |-> "absent"]
    /\ upload = [x \in Uploads |-> [step |-> "idle", owner |-> None, archive |-> None]]
    /\ Run!Init
    /\ queue = <<>>
    /\ staged = [r \in Runs |-> {}]
    /\ conflicts = [r \in Runs |-> {}]
    /\ report = [r \in Runs |-> None]
    /\ media = [m \in MediaIds |-> NoRow]
    /\ facts = [op \in Owners \X Posts |-> <<>>]
    /\ worker = [w \in Workers |-> Idle]
    /\ faults = 0

-----------------------------------------------------------------------------
(* receive *)

run_vars == <<state, history, queue>>
result_vars == <<staged, conflicts, report, media, facts>>

\* The body is hashed into a private temporary file within its byte budget; a
\* body over the budget is dropped.
copy_and_hash(x, o, a) ==
    /\ upload[x].step = "idle"
    /\ Content[a].size <= MaxBodyBytes
    /\ upload' = [upload EXCEPT ![x] = [step |-> "copied", owner |-> o, archive |-> a]]
    /\ UNCHANGED <<file, run_vars, result_vars, worker, faults>>

EndUpload(x) == [upload EXCEPT ![x] = [step |-> "idle", owner |-> None, archive |-> None]]

\* The hard link never overwrites; an object already there must verify.
publish_or_verify(x) ==
    LET a == upload[x].archive
    IN  /\ upload[x].step = "copied"
        /\ \/ /\ file[a] = "absent"
              /\ file' = [file EXCEPT ![a] = "intact"]
              /\ upload' = [upload EXCEPT ![x].step = "stored"]
           \/ /\ file[a] = "intact"
              /\ upload' = [upload EXCEPT ![x].step = "stored"]
              /\ UNCHANGED file
           \/ /\ file[a] = "damaged"
              /\ upload' = EndUpload(x)
              /\ UNCHANGED file
        /\ UNCHANGED <<run_vars, result_vars, worker, faults>>

\* A retry of the same owner and bytes finds the receipt and changes nothing.
persist_receipt(x) ==
    LET r == <<upload[x].owner, upload[x].archive>>
    IN  /\ upload[x].step = "stored"
        /\ upload' = EndUpload(x)
        /\ \/ /\ state[r] = "none"
              /\ state' = [state EXCEPT ![r] = "received"]
              /\ history' = [history EXCEPT
                   ![r] = @ \cup {[ordinal |-> 1, from |-> "none", to |-> "received"]}]
              /\ queue' = Append(queue, r)
           \/ /\ state[r] # "none"
              /\ UNCHANGED run_vars
        /\ UNCHANGED <<file, result_vars, worker, faults>>

\* A failed body stream or a crash ends the call wherever it is.
abandon_upload(x) ==
    /\ upload[x].step # "idle"
    /\ faults < MaxFaults
    /\ upload' = EndUpload(x)
    /\ faults' = faults + 1
    /\ UNCHANGED <<file, run_vars, result_vars, worker>>

-----------------------------------------------------------------------------
(* run_once and advance *)

Enter(w, step) == [worker EXCEPT ![w].step = step]

select_batch(w) ==
    LET rows == SubSeq(queue, 1, IF Len(queue) < BatchSize THEN Len(queue) ELSE BatchSize)
    IN  /\ worker[w].step = "idle" /\ queue # <<>>
        /\ worker' = [worker EXCEPT ![w] = [Idle EXCEPT
              !.step = "next", !.batch = [i \in DOMAIN rows |-> <<rows[i], state[rows[i]]>>]]]
        /\ UNCHANGED <<file, upload, run_vars, result_vars, faults>>

\* Variant: every selected row starts with the inspection.
AlwaysInspects(s) == "inspect"

\* The stage a selected row starts at is the state it was selected in; a row
\* in any other state is passed over.
FirstStage(s) ==
    CASE s = "received" -> "inspect"
      [] s = "inspected" -> "parse"
      [] s = "parsed" -> "reconcile"
      [] OTHER -> "next"

advance(w) ==
    /\ worker[w].step = "next"
    /\ worker' = [worker EXCEPT ![w] =
         IF worker[w].batch = <<>> THEN Idle
         ELSE [Idle EXCEPT !.step = FirstStage(Head(worker[w].batch)[2]),
                           !.run = Head(worker[w].batch)[1],
                           !.batch = Tail(worker[w].batch)]]
    /\ UNCHANGED <<file, upload, run_vars, result_vars, faults>>

\* A handled input failure and a lost compare-and-swap end with the next row.
NextRow(w) == [worker EXCEPT ![w] = [Idle EXCEPT !.step = "next", !.batch = worker[w].batch]]

\* Any other error ends the pass.
EndPass(w) == [worker EXCEPT ![w] = Idle]

\* A row locked by another open reconciliation.
RunLocked(w, r) ==
    \E v \in Workers \ {w} : worker[v].step \in InTransaction /\ worker[v].run = r

\* The stored bytes are verified against the receipt before they are read.
verified_path(r) == file[ArchiveOf(r)] = "intact"

\* The read, the verification and the inspection of an archive.
StartStage(w, step, expected, commit) ==
    LET r == worker[w].run
    IN  /\ worker[w].step = step
        /\ worker' = IF state[r] # expected THEN NextRow(w)
                     ELSE IF verified_path(r) THEN Enter(w, commit)
                     ELSE EndPass(w)
        /\ UNCHANGED <<file, upload, run_vars, result_vars, faults>>

inspect(w) == StartStage(w, "inspect", "received", "finish_inspection")
parse(w) == StartStage(w, "parse", "inspected", "persist_parsed")

\* Variant: the update carries no state precondition.
UnguardedSwap(r, from) == TRUE

\* One compare-and-swap: the state, its transition row and updated_at.
holds_state(r, from) == state[r] = from

Swap(r, from, to, ordinal) ==
    /\ state' = [state EXCEPT ![r] = to]
    /\ history' = [history EXCEPT
         ![r] = @ \cup {[ordinal |-> ordinal, from |-> from, to |-> to]}]
    /\ queue' = IF to \in {"failed", "reconciled"} THEN Remove(queue, r)
                ELSE Append(Remove(queue, r), r)

\* An unsafe archive fails the run, which is a handled input failure.
finish_inspection(w) ==
    LET r == worker[w].run
        safe == Content[ArchiveOf(r)].safe
    IN  /\ worker[w].step = "finish_inspection"
        /\ ~RunLocked(w, r)
        /\ \/ /\ holds_state(r, "received")
              /\ Swap(r, "received", IF safe THEN "inspected" ELSE "failed", 2)
              /\ worker' = IF safe THEN Enter(w, "parse") ELSE NextRow(w)
           \/ /\ ~holds_state(r, "received")
              /\ worker' = NextRow(w)
              /\ UNCHANGED run_vars
        /\ UNCHANGED <<file, upload, result_vars, faults>>

fail_parse(w) ==
    LET r == worker[w].run
    IN  /\ worker[w].step = "persist_parsed"
        /\ ~RunLocked(w, r)
        /\ ~Content[ArchiveOf(r)].layout
        /\ worker' = NextRow(w)
        /\ \/ /\ holds_state(r, "inspected")
              /\ Swap(r, "inspected", "failed", 3)
           \/ /\ ~holds_state(r, "inspected")
              /\ UNCHANGED run_vars
        /\ UNCHANGED <<file, upload, result_vars, faults>>

\* What the parser keeps.  An unreadable item gets a key of its digest and its
\* place in the order of the digests, so that repeated ones stay apart.
unknown_records(a) ==
    LET sorted == SortSeq(Content[a].unknown, <)
    IN  {[digest |-> sorted[i], ordinal |-> i] : i \in DOMAIN sorted}

parse_saved_posts(a) == ToSet(Content[a].records) \cup unknown_records(a)

\* evidence_key is the shortcode and the digest, unique within a run: records
\* that repeat one another violate the key.
distinct_keys(records) == IsInjective(records)

normalized(r) == staged[r] \cap Records

persist_parsed(w) ==
    LET r == worker[w].run
        records == Content[ArchiveOf(r)].records
    IN  /\ worker[w].step = "persist_parsed"
        /\ ~RunLocked(w, r)
        /\ Content[ArchiveOf(r)].layout
        /\ \/ /\ holds_state(r, "inspected") /\ distinct_keys(records)
              /\ staged' = [staged EXCEPT ![r] = parse_saved_posts(ArchiveOf(r))]
              /\ Swap(r, "inspected", "parsed", 3)
              /\ worker' = Enter(w, "reconcile")
           \/ /\ holds_state(r, "inspected") /\ ~distinct_keys(records)
              /\ worker' = EndPass(w)
              /\ UNCHANGED <<run_vars, staged>>
           \/ /\ ~holds_state(r, "inspected")
              /\ worker' = NextRow(w)
              /\ UNCHANGED <<run_vars, staged>>
        /\ UNCHANGED <<file, upload, conflicts, report, media, facts, faults>>

-----------------------------------------------------------------------------
(* reconcile *)

\* The statement that locks the run row decides what the call does: a run
\* another worker reconciled answers with its report.
begin_reconcile(w) ==
    LET r == worker[w].run
    IN  /\ worker[w].step = "reconcile"
        /\ ~RunLocked(w, r)
        /\ worker' = IF state[r] = "parsed"
                     THEN [worker EXCEPT ![w] = [@ EXCEPT !.step = "match",
                                                           !.todo = normalized(r)]]
                     ELSE NextRow(w)
        /\ UNCHANGED <<file, upload, run_vars, result_vars, faults>>

\* A statement of w sees its own rows over the committed ones.
Visible(w, m) == IF m \in Written(w) THEN worker[w].rows[m] ELSE media[m]

Matches(w, rec) ==
    {m \in MediaIds : LET row == Visible(w, m)
                      IN  row # NoRow /\ (row.provider = rec.post \/ row.permalink = rec.url)}

\* Variant: every matched row is overwritten.
NothingStronger(row) == FALSE

\* Only export and legacy rows are overwritten by an export.
stronger(row) == row.method # "data_export"

\* Variant: no order by clause.
Unordered(todo) == todo

\* order by provider_id, evidence_key: the digest decides among one post's.
InOrder(todo) == {rec \in todo : \A other \in todo : rec.post <= other.post}

\* The matching row is read and not locked.  A record that matches two rows is
\* kept as a conflict and projects nothing.
reconcile_record(w, rec) ==
    LET found == Matches(w, rec)
    IN  /\ worker[w].step = "match"
        /\ rec \in InOrder(worker[w].todo)
        /\ IF Cardinality(found) > 1
             THEN worker' = [worker EXCEPT ![w] = [@ EXCEPT
                    !.todo = @ \ {rec}, !.ambiguous = @ \cup {rec}]]
             ELSE worker' = [worker EXCEPT ![w] = [@ EXCEPT
                    !.step = "write", !.record = rec,
                    !.found = IF found = {} THEN None ELSE CHOOSE m \in found : TRUE,
                    !.strong = \E m \in found : stronger(Visible(w, m))]]
        /\ UNCHANGED <<file, upload, run_vars, result_vars, faults>>

\* The row the record's statements write; a stronger row is left alone.
Target(w) ==
    IF worker[w].found = None THEN source_identity(OwnerOf(worker[w].run), worker[w].record.url)
    ELSE worker[w].found
Projection(rec) == [provider |-> rec.post, permalink |-> rec.url, method |-> "data_export"]

SameKey(row, other) ==
    \/ row.permalink = other.permalink /\ row.permalink # None
    \/ row.provider = other.provider /\ row.provider # None

\* Open transactions that hold the row or one of its unique keys.
WaitsFor(w) ==
    IF worker[w].step # "write" \/ worker[w].strong THEN {}
    ELSE {v \in Workers \ {w} :
            \/ Target(w) \in Written(v)
            \/ \E m \in Written(v) : SameKey(worker[v].rows[m], Projection(worker[w].record))}

\* The key is taken by another committed row, or the row by another insert.
UniqueViolation(w) ==
    \/ worker[w].found = None /\ Visible(w, Target(w)) # NoRow
    \/ \E m \in MediaIds \ {Target(w)} :
          SameKey(Visible(w, m), Projection(worker[w].record))

\* The facts a statement of w sees for one post of the run's owner.
Prior(w, p) ==
    ToSet(facts[OwnerOf(worker[w].run), p])
      \cup {f \in ToSet(worker[w].posted) : f.digest.post = p}

\* Variant: any fact of the source counts as this one.
SourcePublished(prior, rec) == prior # {}

already_published(prior, rec) == \E f \in prior : f.digest = rec

\* The first fact of a source says captured, a later one updated, and a digest
\* that was published before is not published again.
append_fact(w, rec) ==
    LET prior == Prior(w, rec.post)
    IN  IF already_published(prior, rec) THEN worker[w].posted
        ELSE Append(worker[w].posted,
                    [kind |-> IF prior = {} THEN "captured" ELSE "updated", digest |-> rec])

\* Insert or overwrite the row, add the evidence, append the fact.
project_record(w) ==
    LET rec == worker[w].record
    IN  /\ worker[w].step = "write"
        /\ WaitsFor(w) = {}
        /\ worker' = IF ~worker[w].strong /\ UniqueViolation(w) THEN EndPass(w)
             ELSE [worker EXCEPT ![w] = [@ EXCEPT
                    !.step = "match", !.todo = @ \ {rec}, !.record = None,
                    !.found = None, !.strong = FALSE,
                    !.rows = IF worker[w].strong THEN @
                             ELSE (Target(w) :> Projection(rec)) @@ @,
                    !.posted = append_fact(w, rec)]]
        /\ UNCHANGED <<file, upload, run_vars, result_vars, faults>>

\* The report compares the posts of the staged records, conflicts included.
commit_reconcile(w) ==
    LET r == worker[w].run
        o == OwnerOf(r)
        new(p) == SelectSeq(worker[w].posted, LAMBDA f : f.digest.post = p)
    IN  /\ worker[w].step = "match" /\ worker[w].todo = {}
        /\ conflicts' = [conflicts EXCEPT ![r] = worker[w].ambiguous]
        /\ report' = [report EXCEPT ![r] = {rec.post : rec \in normalized(r)}]
        /\ media' = [m \in MediaIds |-> Visible(w, m)]
        /\ facts' = [op \in Owners \X Posts |->
                       IF op[1] = o THEN facts[op] \o new(op[2]) ELSE facts[op]]
        /\ Swap(r, "parsed", "reconciled", 4)
        /\ worker' = NextRow(w)
        /\ UNCHANGED <<file, upload, staged, faults>>

-----------------------------------------------------------------------------
(* Around the import *)

\* upsert_media_projection inserts a row for a permalink that has none; a key
\* an open reconciliation holds makes it wait.
store_resolution(u) ==
    /\ \A m \in MediaIds : media[m].permalink # u
    /\ \A w \in Workers : \A m \in Written(w) : worker[w].rows[m].permalink # u
    /\ media' = [media EXCEPT ![<<None, u>>] =
                   [provider |-> None, permalink |-> u, method |-> "public_resolution"]]
    /\ UNCHANGED <<file, upload, run_vars, staged, conflicts, report, facts, worker, faults>>

\* A worker stops or a statement fails: an open transaction is rolled back.
crash(w) ==
    /\ worker[w].step # "idle"
    /\ faults < MaxFaults
    /\ worker' = EndPass(w)
    /\ faults' = faults + 1
    /\ UNCHANGED <<file, upload, run_vars, result_vars>>

\* A stored archive stops matching its digest.
damage(a) ==
    /\ a \in Damageable /\ file[a] = "intact"
    /\ faults < MaxFaults
    /\ file' = [file EXCEPT ![a] = "damaged"]
    /\ faults' = faults + 1
    /\ UNCHANGED <<upload, run_vars, result_vars, worker>>

receive ==
    \E x \in Uploads :
      \/ \E o \in Owners, a \in Archives : copy_and_hash(x, o, a)
      \/ publish_or_verify(x)
      \/ persist_receipt(x)
      \/ abandon_upload(x)

run_once(w) ==
    \/ select_batch(w) \/ advance(w)
    \/ inspect(w) \/ finish_inspection(w)
    \/ parse(w) \/ fail_parse(w) \/ persist_parsed(w)
    \/ begin_reconcile(w)
    \/ \E rec \in Records : reconcile_record(w, rec)
    \/ project_record(w) \/ commit_reconcile(w)

Next ==
    \/ receive
    \/ \E w \in Workers : run_once(w) \/ crash(w)
    \/ \E u \in Urls : store_resolution(u)
    \/ \E a \in Archives : damage(a)

Spec == Init /\ [][Next]_vars

\* run ticks for ever, and a waiting statement proceeds when the lock is free.
LiveSpec == Spec /\ \A w \in Workers : WF_vars(run_once(w))

-----------------------------------------------------------------------------
(* Properties *)

\* Overlapping workers, stale selections and crashes never skip, reverse or
\* repeat a transition of a run: the import is the linear state machine.
OneLinearRun == Run!Spec

\* An archive is stored before its run exists, and a run stages records only
\* when it is parsed and has a report only when it is reconciled: a failed run
\* projects nothing (persist_parsed, reconcile).
NoEarlyProjection ==
    \A r \in Runs :
      /\ state[r] # "none" => file[ArchiveOf(r)] # "absent"
      /\ staged[r] # {} => state[r] \in {"parsed", "reconciled"}
      /\ conflicts[r] # {} \/ report[r] # None => state[r] = "reconciled"

\* Nothing an export holds is lost.  A parsed run has staged every saved post,
\* and every unreadable item as often as it occurs; a reconciled run has made
\* each post a fact of its owner or a retained conflict, whatever other runs
\* and public resolutions did meanwhile (parse_saved_posts, reconcile_record).
EveryRecordAccounted ==
    \A r \in Runs :
      LET content == Content[ArchiveOf(r)]
      IN  /\ state[r] \in {"parsed", "reconciled"} =>
               /\ ToSet(content.records) \subseteq staged[r]
               /\ \A d \in Unreadable :
                    Cardinality({e \in staged[r] \ Records : e.digest = d})
                      = Cardinality({i \in DOMAIN content.unknown : content.unknown[i] = d})
          /\ state[r] = "reconciled" => \A rec \in normalized(r) :
               \/ rec \in conflicts[r]
               \/ \E f \in ToSet(facts[OwnerOf(r), rec.post]) : f.digest = rec

\* An export never rewrites a row a stronger lane wrote, even when that row
\* appears between the reconciliation's read and its write (reconcile_record).
StrongerRowKept ==
    [][\A m \in MediaIds : media[m].method = "public_resolution" => media'[m] = media[m]]_vars

\* Two open reconciliations never wait for one another: both take the rows in
\* the order of the provider identity (reconcile, the order by clause).
NoWaitCycle ==
    \A v, w \in Workers : ~(v \in WaitsFor(w) /\ w \in WaitsFor(v))

\* A received run is eventually reconciled or failed (run_once).
Finishes ==
    \A r \in Runs : state[r] = "received" ~> state[r] \in {"reconciled", "failed"}

=============================================================================
