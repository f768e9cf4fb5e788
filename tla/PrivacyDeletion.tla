-------------------------- MODULE PrivacyDeletion --------------------------
(***************************************************************************)
(* Owner-requested deletion of a capture or of an official connection      *)
(* (privacy_deletion.rs, privacy_deletion/apply.rs), against the writers   *)
(* that share rows with it: capture submission, public resolution, the     *)
(* own-media synchronization, the export import and the consumer of        *)
(* Knowledge completions.                                                  *)
(*                                                                         *)
(* Media rows and raw records are shared by every owner; what a deletion   *)
(* may erase depends on who else holds them.  A deletion transaction takes *)
(* two steps: `decide' locks the target and reads who holds what, `commit' *)
(* makes the effects visible.  PostgreSQL runs it READ COMMITTED, so other *)
(* transactions commit in between; rows it has written stay locked.        *)
(* Every other writer here is one transaction.                             *)
(*                                                                         *)
(* A source is what Knowledge knows: <<owner, permalink>> for a capture    *)
(* and <<owner, provider id>> for a connected account's own media.  No     *)
(* code attaches archived bytes to a media row, so only raw records lead   *)
(* to blob tasks here; BlobDeletion follows the tasks.                     *)
(***************************************************************************)
EXTENDS Integers, FiniteSets

CONSTANTS
    Owners, Accounts,
    OwnerOf,        \* [Accounts -> Owners]
    Urls,           \* canonical permalinks
    Posts,          \* provider media ids
    CaptureIds, MediaIds, RawIds,   \* bounds: rows ever created / alive
    Operations,     \* deletion operation ids
    Callers,        \* concurrent DeletionStore::apply calls
    None            \* SQL null, or no row

VARIABLES
    capture,    \* the captures table; "gone" once deleted
    rows,       \* classes of rows that name a capture
    media,      \* the media table with the revisions of each row
    accounts,   \* the accounts table
    items,      \* raw records staged by the sync runs of an account
    profile,    \* raw records of its profile and permission observations
    raw,        \* the raw_records table
    published,  \* sources with a captured, updated or own-media fact
    removals,   \* removal facts appended for a source
    guard,      \* local_source_removals
    operation,  \* deletion_operations
    caller      \* where each apply call is, and what its transaction decided

vars == <<capture, rows, media, accounts, items, profile, raw, published,
          removals, guard, operation, caller>>

-----------------------------------------------------------------------------
(* Data *)

Sources == Owners \X (Urls \cup Posts)

\* Tables whose rows belong to one capture; "capture_rows" stands for its
\* notes, operations, re-resolution items and availability observations.
CaptureClasses == {"capture_analysis_links", "capture_rows"}

NoCapture == [state |-> "none", owner |-> None, url |-> None, media |-> None]
CaptureRows == [state: {"live", "gone"}, owner: Owners, url: Urls, media: MediaIds \cup {None}]
               \cup {NoCapture}

\* acquisition_method is 'public_oembed', 'official_api' or 'data_export'.
NoMedia == [method |-> "none", permalink |-> None, provider |-> None,
            account |-> None, revisions |-> {}]
MediaRows == [method: {"none", "public", "official", "export"},
              permalink: Urls \cup {None}, provider: Posts \cup {None},
              account: Accounts \cup {None}, revisions: SUBSET RawIds]

Targets == CaptureIds \cup Accounts

\* erase and detach are the media rows the transaction deletes and unlinks,
\* suppress whether another capture of the owner holds the source; of the
\* ways a call ends only a rollback forced by the schema is remembered.
Call(step, d, o, t, suppress, erase, detach) ==
    [step |-> step, op |-> d, owner |-> o, target |-> t,
     suppress |-> suppress, erase |-> erase, detach |-> detach, answer |-> "none"]
Idle == Call("idle", None, None, None, FALSE, {}, {})
Calls == [step: {"idle", "lock", "commit"}, op: Operations \cup {None},
          owner: Owners \cup {None}, target: Targets \cup {None},
          suppress: BOOLEAN, erase: SUBSET MediaIds, detach: SUBSET MediaIds,
          answer: {"none", "constraint"}]

\* The rows keep their columns' types.
TypeOK ==
    /\ capture \in [CaptureIds -> CaptureRows]
    /\ rows \in [CaptureIds -> SUBSET CaptureClasses]
    /\ media \in [MediaIds -> MediaRows]
    /\ accounts \subseteq Accounts
    /\ items \in [Accounts -> SUBSET RawIds]
    /\ profile \in [Accounts -> SUBSET RawIds]
    /\ raw \subseteq RawIds
    /\ published \subseteq Sources
    /\ removals \in [Sources -> Nat]
    /\ guard \subseteq Sources
    /\ operation \in [Operations -> {"none", "complete", "pending_blob_deletion"}]
    /\ caller \in [Callers -> Calls]

Init ==
    /\ capture = [c \in CaptureIds |-> NoCapture]
    /\ rows = [c \in CaptureIds |-> {}]
    /\ media = [m \in MediaIds |-> NoMedia]
    /\ accounts = Accounts
    /\ items = [a \in Accounts |-> {}]
    /\ profile = [a \in Accounts |-> {}]
    /\ raw = {}
    /\ published = {}
    /\ removals = [s \in Sources |-> 0]
    /\ guard = {}
    /\ operation = [d \in Operations |-> "none"]
    /\ caller = [k \in Callers |-> Idle]

-----------------------------------------------------------------------------
(* Holdings and locks *)

Live == {c \in CaptureIds : capture[c].state = "live"}
Held == {m \in MediaIds : \E c \in Live : capture[c].media = m}
Present == {m \in MediaIds : media[m].method # "none"}
SourceOf(c) == <<capture[c].owner, capture[c].url>>

Open == {k \in Callers : caller[k].step = "commit"}
LockedTargets == {caller[k].target : k \in Open}
LockedMedia == UNION {caller[k].erase \cup caller[k].detach : k \in Open}

\* Raw records a revision of a row outside `gone' still names.
Retained(gone) == UNION {media[m].revisions : m \in MediaIds \ gone}
RawOf(ms) == UNION {media[m].revisions : m \in ms}

-----------------------------------------------------------------------------
(* The writers that share rows with a deletion *)

submit_capture(c, o, u) ==
    /\ capture[c] = NoCapture
    /\ ~\E d \in Live : capture[d].owner = o /\ capture[d].url = u
    /\ capture' = [capture EXCEPT ![c] = [state |-> "live", owner |-> o, url |-> u,
                                          media |-> None]]
    /\ UNCHANGED <<rows, media, accounts, items, profile, raw, published, removals,
                   guard, operation, caller>>

\* Notes, operations and re-resolution items of a capture; each insert
\* waits for, and then fails on, a deletion that holds the capture's lock.
attach_row(c) ==
    /\ c \in Live \ LockedTargets
    /\ rows' = [rows EXCEPT ![c] = @ \cup {"capture_rows"}]
    /\ UNCHANGED <<capture, media, accounts, items, profile, raw, published, removals,
                   guard, operation, caller>>

\* A stored resolution: the media row of the permalink is found or created
\* and the new raw record becomes its revision.
store_resolution(c, m, r) ==
    /\ c \in Live \ LockedTargets
    /\ m \notin LockedMedia
    /\ r \in RawIds \ raw
    /\ \/ media[m].permalink = capture[c].url
       \/ /\ media[m] = NoMedia
          /\ \A n \in Present : media[n].permalink # capture[c].url
    /\ raw' = raw \cup {r}
    /\ media' = [media EXCEPT ![m] =
           [method |-> IF @.method = "none" THEN "public" ELSE @.method,
            permalink |-> capture[c].url, provider |-> @.provider, account |-> @.account,
            revisions |-> @.revisions \cup {r}]]
    /\ capture' = [capture EXCEPT ![c].media = m]
    /\ rows' = [rows EXCEPT ![c] = @ \cup {"capture_rows"}]
    /\ published' = published \cup {SourceOf(c)}
    /\ UNCHANGED <<accounts, items, profile, removals, guard, operation, caller>>

\* One finalized synchronization: the provider lists post p under permalink
\* u.  The row is found by provider id only; creating or renaming one must
\* respect the unique permalink.
finalize_run(a, p, u, m, r) ==
    /\ a \in accounts \ LockedTargets
    /\ m \notin LockedMedia
    /\ r \in RawIds \ raw
    /\ \/ media[m].provider = p
       \/ media[m] = NoMedia /\ \A n \in Present : media[n].provider # p
    /\ \A n \in Present \ {m} : media[n].permalink # u
    /\ raw' = raw \cup {r}
    /\ items' = [items EXCEPT ![a] = @ \cup {r}]
    /\ media' = [media EXCEPT ![m] = [method |-> "official", permalink |-> u,
           provider |-> p, account |-> a, revisions |-> media[m].revisions \cup {r}]]
    /\ published' = published \cup {<<OwnerOf[a], p>>}
    /\ UNCHANGED <<capture, rows, accounts, profile, removals, guard, operation, caller>>

\* A profile refresh stores the raw response its permission rows name.
store_profile(a, r) ==
    /\ a \in accounts \ LockedTargets
    /\ r \in RawIds \ raw
    /\ raw' = raw \cup {r}
    /\ profile' = [profile EXCEPT ![a] = @ \cup {r}]
    /\ UNCHANGED <<capture, rows, media, accounts, items, published, removals, guard,
                   operation, caller>>

\* A reconciled export creates a media row nobody else has.
import_media(m, u) ==
    /\ media[m] = NoMedia
    /\ \A n \in Present : media[n].permalink # u
    /\ media' = [media EXCEPT ![m] = [method |-> "export", permalink |-> u, provider |-> None,
                                      account |-> None, revisions |-> {}]]
    /\ UNCHANGED <<capture, rows, accounts, items, profile, raw, published, removals,
                   guard, operation, caller>>

\* Variant: the completion is linked without reading the local removals.
LinksRemovedSource(s) ==
    /\ \E c \in Live \ LockedTargets :
         /\ SourceOf(c) = s /\ capture[c].media # None
         /\ rows' = [rows EXCEPT ![c] = @ \cup {"capture_analysis_links"}]
    /\ UNCHANGED <<capture, media, accounts, items, profile, raw, published, removals,
                   guard, operation, caller>>

\* A Knowledge completion for source s, early or late: it links the owner's
\* resolved capture of the source unless the source was removed locally.
link_matching_capture(s) ==
    /\ s \notin guard
    /\ \E c \in Live \ LockedTargets :
         /\ SourceOf(c) = s /\ capture[c].media # None
         /\ rows' = [rows EXCEPT ![c] = @ \cup {"capture_analysis_links"}]
    /\ UNCHANGED <<capture, media, accounts, items, profile, raw, published, removals,
                   guard, operation, caller>>

-----------------------------------------------------------------------------
(* The deletion *)

\* load_existing: a known operation id is answered from its stored effects
\* and changes nothing, so only an unknown one goes on to the transaction.
begin_apply(k, d, o, t) ==
    /\ caller[k].step = "idle"
    /\ operation[d] = "none"
    /\ caller' = [caller EXCEPT ![k] = Call("lock", d, o, t, FALSE, {}, {})]
    /\ UNCHANGED <<capture, rows, media, accounts, items, profile, raw, published,
                   removals, guard, operation>>

owned(o, t) == \/ t \in Live /\ capture[t].owner = o
               \/ t \in accounts /\ OwnerOf[t] = o

\* Variant: the target is not read again under its lock.
TargetAssumed(k) == TRUE

require_owned_locked(k) == owned(caller[k].owner, caller[k].target)

refuse(k, answer) ==
    /\ caller' = [caller EXCEPT ![k] = [Idle EXCEPT !.answer = answer]]
    /\ UNCHANGED <<capture, rows, media, accounts, items, profile, raw, published,
                   removals, guard, operation>>

\* Variant: the target's row is read without a lock.
WaitsForOperationOnly(k) == \E j \in Open : caller[j].op = caller[k].op

\* Another transaction holds the target's row or has inserted the same
\* operation id: this one waits.
waits(k) == \E j \in Open : \/ caller[j].target = caller[k].target
                            \/ caller[j].op = caller[k].op

target_not_found(k) ==
    /\ caller[k].step = "lock" /\ ~waits(k)
    /\ ~require_owned_locked(k)
    /\ refuse(k, "none")

operation_conflict(k) ==
    /\ caller[k].step = "lock" /\ ~waits(k)
    /\ require_owned_locked(k)
    /\ operation[caller[k].op] # "none"
    /\ refuse(k, "none")

may_decide(k) ==
    /\ caller[k].step = "lock" /\ ~waits(k)
    /\ require_owned_locked(k)
    /\ operation[caller[k].op] = "none"

decided(k, suppress, erase, detach) ==
    /\ caller' = [caller EXCEPT ![k] =
           Call("commit", @.op, @.owner, @.target, suppress, erase, detach)]
    /\ UNCHANGED <<capture, rows, media, accounts, items, profile, raw, published,
                   removals, guard, operation>>

\* The owner has another capture of the same media row.  A capture that was
\* never resolved shares its source with none: (owner, url) is unique.
owner_holds_source(c) ==
    \E d \in Live \ {c} : /\ capture[d].owner = capture[c].owner
                          /\ capture[c].media # None
                          /\ capture[d].media = capture[c].media

\* Variant: other captures do not count.
HeldWithoutCaptures(c, m) == media[m].account # None \/ media[m].method = "export"

\* Another capture of any owner, a connected account or an export holds it.
independent_holding(c, m) ==
    \/ \E d \in Live \ {c} : capture[d].media = m
    \/ media[m].account # None
    \/ media[m].method = "export"

decide_capture(k) ==
    LET c == caller[k].target
        m == capture[c].media
        erase == IF m = None \/ independent_holding(c, m) THEN {} ELSE {m}
    IN  /\ may_decide(k)
        /\ c \in CaptureIds
        /\ erase \cap LockedMedia = {}
        /\ decided(k, owner_holds_source(c), erase, {})

\* Sync items reference raw records, and apply_connection_rows deletes them
\* only after erase_exclusive_connection_media has deleted the raw records
\* of the last erased row: the foreign key then rolls everything back.
violates_foreign_key(erase) ==
    \E a \in Accounts : items[a] \cap (RawOf(erase) \ Retained(erase)) # {}

OfAccount(a) == {m \in MediaIds : media[m].account = a}

decide_connection(k) ==
    LET ms == OfAccount(caller[k].target)
    IN  /\ may_decide(k)
        /\ caller[k].target \in Accounts
        /\ ms \cap LockedMedia = {}
        /\ IF violates_foreign_key(ms \ Held)
             THEN refuse(k, "constraint")
             ELSE decided(k, FALSE, ms \ Held, ms \cap Held)

\* The operation stays pending while it has scheduled blob tasks.
finished(k, erased) ==
    /\ operation' = [operation EXCEPT ![caller[k].op] =
           IF erased = {} THEN "complete" ELSE "pending_blob_deletion"]
    /\ caller' = [caller EXCEPT ![k] = Idle]

\* Variant: the analysis links are left.
RowClassesOnly == {"capture_rows"}

\* The tables apply_target_rows clears for a deleted capture.
deleted_classes == {"capture_analysis_links", "capture_rows"}

\* Deletes the capture and every row that names it; the last capture of the
\* source for its owner also appends the removal fact and the guard.
apply_target_rows(k) ==
    LET c == caller[k].target
        erased == RawOf(caller[k].erase) \ Retained(caller[k].erase)
    IN  /\ caller[k].step = "commit" /\ c \in CaptureIds
        /\ IF caller[k].suppress
             THEN UNCHANGED <<removals, guard>>
             ELSE /\ removals' = [removals EXCEPT ![SourceOf(c)] = @ + 1]
                  /\ guard' = guard \cup {SourceOf(c)}
        /\ capture' = [capture EXCEPT ![c] = [state |-> "gone", owner |-> @.owner, url |-> @.url,
                                              media |-> None]]
        /\ rows' = [rows EXCEPT ![c] = @ \ deleted_classes]
        /\ media' = [m \in MediaIds |-> IF m \in caller[k].erase THEN NoMedia ELSE media[m]]
        /\ raw' = raw \ erased
        /\ finished(k, erased)
        /\ UNCHANGED <<accounts, items, profile, published>>

\* Unlinks the media some capture holds, erases the rest with a removal fact
\* each, then the account's own rows and the raw records only it named.
apply_connection_rows(k) ==
    LET a == caller[k].target
        gone == caller[k].erase
        removed == {<<OwnerOf[a], media[m].provider>> : m \in gone}
        erased == (RawOf(gone) \cup items[a] \cup profile[a]) \ Retained(gone)
    IN  /\ caller[k].step = "commit" /\ a \in Accounts
        /\ media' = [m \in MediaIds |->
               IF m \in gone THEN NoMedia
               ELSE IF m \in caller[k].detach THEN [media[m] EXCEPT !.account = None]
               ELSE media[m]]
        /\ removals' = [s \in Sources |-> removals[s] + (IF s \in removed THEN 1 ELSE 0)]
        /\ guard' = guard \cup removed
        /\ accounts' = accounts \ {a}
        /\ items' = [items EXCEPT ![a] = {}]
        /\ profile' = [profile EXCEPT ![a] = {}]
        /\ raw' = raw \ erased
        /\ finished(k, erased)
        /\ UNCHANGED <<capture, rows, published>>

-----------------------------------------------------------------------------
(* Specification *)

Writers ==
    \/ \E c \in CaptureIds, o \in Owners, u \in Urls : submit_capture(c, o, u)
    \/ \E c \in CaptureIds : attach_row(c)
    \/ \E c \in CaptureIds, m \in MediaIds, r \in RawIds : store_resolution(c, m, r)
    \/ \E a \in Accounts, p \in Posts, u \in Urls, m \in MediaIds, r \in RawIds :
           finalize_run(a, p, u, m, r)
    \/ \E a \in Accounts, r \in RawIds : store_profile(a, r)
    \/ \E m \in MediaIds, u \in Urls : import_media(m, u)
    \/ \E s \in Sources : link_matching_capture(s)

apply(k) ==
    \/ \E d \in Operations, o \in Owners, t \in Targets : begin_apply(k, d, o, t)
    \/ target_not_found(k) \/ operation_conflict(k)
    \/ decide_capture(k) \/ decide_connection(k)
    \/ apply_target_rows(k) \/ apply_connection_rows(k)

Next == Writers \/ \E k \in Callers : apply(k)

Spec == Init /\ [][Next]_vars

-----------------------------------------------------------------------------
(* Properties *)

\* Deleting one holding never takes evidence from another: the media row a
\* live capture names exists, with its revisions' raw records, whichever
\* owner's capture or connection was deleted meanwhile (apply.rs:104-116,
\* 249-266).
HeldEvidence ==
    \A c \in Live : capture[c].media # None =>
        /\ capture[c].media \in Present
        /\ media[capture[c].media].revisions # {}
        /\ media[capture[c].media].revisions \subseteq raw

\* A deleted connection leaves nothing behind that names it: no media row,
\* no staged item and no profile evidence (apply.rs:249-370).
ConnectionErased ==
    \A a \in Accounts \ accounts :
        OfAccount(a) = {} /\ items[a] = {} /\ profile[a] = {}

\* However many operations, replays and concurrent callers ask for it, one
\* deleted capture or connection yields at most one removal fact for a source
\* (privacy_deletion.rs:348-366, apply.rs:50-82, 271-303).
RemovalsMatchDeletions ==
    \A o \in Owners :
        /\ \A u \in Urls : removals[<<o, u>>] <=
               Cardinality({c \in CaptureIds : capture[c].state = "gone"
                                                /\ SourceOf(c) = <<o, u>>})
        /\ \A p \in Posts : removals[<<o, p>>] <=
               Cardinality({a \in Accounts \ accounts : OwnerOf[a] = o})

\* A removal fact is never appended without the guard that makes a late
\* completion harmless: a source with a removal carries no analysis link, not
\* even after it was captured again (apply.rs:50-95, analysis_linkage.rs:121).
NoLateLink ==
    \A s \in Sources : removals[s] > 0 =>
        /\ s \in guard
        /\ \A c \in Live : SourceOf(c) = s => "capture_analysis_links" \notin rows[c]

\* A deleted capture leaves no row of any table that named it
\* (apply.rs:83-96), although those tables are still being written.
NoRemnant == \A c \in CaptureIds : capture[c].state = "gone" => rows[c] = {}

\* No personal evidence outlives its last holder: every raw record is named
\* by a revision, a staged item or a profile, and every media row is held by
\* a capture, a connected account or an export (apply.rs:104-116, 184-210).
NoOrphan ==
    /\ raw \subseteq Retained({}) \cup UNION {items[a] \cup profile[a] : a \in Accounts}
    /\ \A m \in Present \ Held : media[m].account # None \/ media[m].method = "export"

\* An owner's deletion of an existing connection is never refused by the
\* schema's own constraints.
ConnectionErasable == \A k \in Callers : caller[k].answer # "constraint"
=============================================================================
