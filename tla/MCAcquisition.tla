--------------------------- MODULE MCAcquisition ---------------------------
(***************************************************************************)
(* Instances of the ways an owner's data comes in: DataExport and its      *)
(* ArchiveInspection, the official connection of AccountLifecycle, and     *)
(* OwnMediaSync.  They share no state here, so a behaviour is one of a     *)
(* single instance, and `instance' says which; everything else keeps its   *)
(* initial value.                                                          *)
(*                                                                         *)
(*   overlapping  two workers import two exports of the same two posts     *)
(*   renamed      two exports name one post by different permalinks        *)
(*   refused      an oversized, an unsafe and an unknown archive           *)
(*   repeated     an archive that holds a record twice                     *)
(*   inspecting   one archive is inspected and one of its entries read     *)
(*   connecting   two calls connect, refresh and disconnect one account    *)
(*   resuming     one account is synchronized page by page                 *)
(*   competing    two schedulers synchronize it at once                    *)
(***************************************************************************)
EXTENDS MCExport, MCInspection

VARIABLES
    instance,
    archive, stage, index, names, compressed, decompressed, actual, refusal,
    connection, credential, matrix, flow, granted, issued, call, serving,   \* connection: account
    account, catalogue, newest, runs, sync, order, due, edits,
    own_media, own_facts, scheduler     \* media, facts and worker of OwnMediaSync

export_vars == <<file, upload, state, history, queue, staged, conflicts, report, media, facts,
                 worker>>
connection_vars == <<connection, credential, matrix, flow, granted, issued, call, serving>>
inspection_vars == <<archive, stage, index, names, compressed, decompressed, actual, refusal>>
sync_vars == <<account, catalogue, newest, runs, sync, order, due, edits, own_media, own_facts,
               scheduler>>
acquisition_vars == <<instance, export_vars, inspection_vars, connection_vars, sync_vars,
                      faults>>

Renaming == INSTANCE DataExport WITH Content <- Renamed, BatchSize <- 1, MaxFaults <- 1

Refusing == INSTANCE DataExport WITH
    Content <- Refused, Uploads <- {"x1", "x2"},
    BatchSize <- 1, Damageable <- {a2}, MaxFaults <- 1

Repeating == INSTANCE DataExport WITH
    Content <- Repeated, Uploads <- {"x1", "x2"}, BatchSize <- 1, MaxFaults <- 1

Inspecting == INSTANCE ArchiveInspection WITH
    Candidates <- MCCandidates, Requested <- {"n1", "n3"}, MaxWord <- 7, Buffer <- 2,
    MaxEntries <- 2, MaxPathBytes <- 2, MaxPathDepth <- 2, MaxTotalCompressed <- 6,
    MaxTotalDecompressed <- 6, MaxEntryDecompressed <- 5, MaxRatio <- 2

Report(t, b, w) == [type |-> t, basic |-> b, write |-> w]
MCReports == {Report("business", "granted", "granted"), Report("business", "declined", "absent")}

Connecting == INSTANCE AccountLifecycle WITH
    account <- connection, Owners <- {"o1", "o2"}, Identities <- {"i1"}, Flows <- {"f1", "f2"},
    Calls <- Workers, Reports <- MCReports, CallBudget <- 3, Retries <- 1, MaxTokens <- 4,
    MaxFaults <- 1

Resuming == INSTANCE OwnMediaSync WITH
    media <- own_media, facts <- own_facts, worker <- scheduler,
    Accounts <- {"a1"}, Workers <- {"s1"}, MaxMedia <- 4, Published <- 2, Text <- 1,
    Texts <- {1, 2}, Taken <- {}, Deletable <- {1, 2, 3}, PageSize <- 1, PagesPerRun <- 2,
    CallBudget <- 4, AccountsPerTick <- 1, MaxRuns <- 2, MaxGenerations <- 2, MaxEdits <- 2,
    MaxFaults <- 1

Competing == INSTANCE OwnMediaSync WITH
    media <- own_media, facts <- own_facts, worker <- scheduler,
    Accounts <- {"a1"}, MaxMedia <- 3, Published <- 2, Text <- 1,
    Texts <- {1}, Taken <- {3}, Deletable <- {2}, PageSize <- 1, PagesPerRun <- 2,
    CallBudget <- 3, AccountsPerTick <- 1, MaxRuns <- 2, MaxGenerations <- 1, MaxEdits <- 1,
    MaxFaults <- 0

AcquisitionInit ==
    /\ \/ instance = "renamed" /\ Renaming!Init
       \/ instance = "refused" /\ Refusing!Init
       \/ instance = "repeated" /\ Repeating!Init
       \/ instance \in {"overlapping", "inspecting", "connecting", "resuming", "competing"}
          /\ Init
    /\ \/ instance # "competing" /\ Resuming!Init
       \/ instance = "competing" /\ Competing!Init
    /\ Connecting!Init
    /\ Inspecting!Init
    /\ instance # "inspecting" => archive = Whole
    /\ instance # "connecting" =>
         \A i \in {"i1"} : connection[i] = Connecting!NoAccount /\ granted[i].basic = "granted"

AcquisitionNext ==
    /\ \/ /\ \/ instance = "overlapping" /\ Next
             \/ instance = "renamed" /\ Renaming!Next
             \/ instance = "refused" /\ Refusing!Next
             \/ instance = "repeated" /\ Repeating!Next
          /\ UNCHANGED <<inspection_vars, connection_vars, sync_vars>>
       \/ /\ instance = "inspecting" /\ Inspecting!Next
          /\ UNCHANGED <<export_vars, connection_vars, sync_vars, faults>>
       \/ /\ instance = "connecting" /\ Connecting!Next
          /\ UNCHANGED <<export_vars, inspection_vars, sync_vars>>
       \/ /\ \/ instance = "resuming" /\ Resuming!Next
             \/ instance = "competing" /\ Competing!Next
          /\ UNCHANGED <<export_vars, inspection_vars, connection_vars>>
    /\ UNCHANGED instance

AcquisitionSpec == AcquisitionInit /\ [][AcquisitionNext]_acquisition_vars

\* Workers differ only in their names.
Interchangeable == Permutations(Workers)

\* Every variable of every instance has its type.
AcquisitionTypes ==
    CASE instance = "overlapping" -> TypeOK
      [] instance = "renamed" -> Renaming!TypeOK
      [] instance = "refused" -> Refusing!TypeOK
      [] instance = "repeated" -> Repeating!TypeOK
      [] instance = "inspecting" -> Inspecting!TypeOK
      [] instance = "connecting" -> Connecting!TypeOK
      [] instance = "resuming" -> Resuming!TypeOK
      [] instance = "competing" -> Competing!TypeOK

\* Nothing an export holds is lost or projected early: DataExport's
\* EveryRecordAccounted where two permalinks name one post, and its
\* NoEarlyProjection for archives that are refused or cannot be stored.
RecordsAccounted ==
    /\ instance = "renamed" => Renaming!EveryRecordAccounted
    /\ instance = "refused" => Refusing!NoEarlyProjection
    /\ instance = "repeated" => Repeating!NoEarlyProjection

\* ArchiveInspection's InspectionExact and ReadBounded: what is accepted,
\* and what is read, keeps every limit.
ArchiveKeepsLimits ==
    instance = "inspecting" => Inspecting!InspectionExact /\ Inspecting!ReadBounded

\* DataExport's StrongerRowKept where two permalinks name one post.
StrongerProjectionKept ==
    [][instance = "renamed" => \A m \in Renaming!MediaIds :
         media[m].method = "public_resolution" => media'[m] = media[m]]_acquisition_vars

\* AccountLifecycle's RevokedIsScrubbed.
RevokedIsScrubbed == Connecting!RevokedIsScrubbed

\* AccountLifecycle's CapabilityCurrent.
CapabilityCurrent == Connecting!CapabilityCurrent

\* AccountLifecycle's FlowExchangedOnce.
FlowExchangedOnce == Connecting!FlowExchangedOnce

\* AccountLifecycle's OwnerKept.
OwnerKept == Connecting!OwnerKept

\* OwnMediaSync's NoGapBelowWatermark, for one scheduler and for two.
NoGapBelowWatermark ==
    IF instance = "competing" THEN Competing!NoGapBelowWatermark
    ELSE Resuming!NoGapBelowWatermark

\* OwnMediaSync's VisibleIsPublished and AuthorityIsCompleted, for one
\* scheduler: what is visible comes from a completed run and was published.
VisibleIsCompleteAndPublished ==
    instance = "resuming" => Resuming!VisibleIsPublished /\ Resuming!AuthorityIsCompleted

\* OwnMediaSync's AuthorityChangesWhole, for one scheduler.
AuthorityChangesWhole ==
    [][instance = "resuming" => \A a \in {"a1"} :
         Resuming!Visible(a)' # Resuming!Visible(a)
           => sync[a].authority' # sync[a].authority]_acquisition_vars

=============================================================================
