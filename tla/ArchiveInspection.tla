------------------------- MODULE ArchiveInspection -------------------------
(***************************************************************************)
(* The inspection of a Data Export archive before any parser reads it, and *)
(* the bounded read of one inspected entry                                 *)
(* (crates/instagram-archive/src/data_export/archive.rs).                  *)
(*                                                                         *)
(* An archive is its end-of-central-directory record and its entries.  The *)
(* record is abstracted to what the code tells apart:                      *)
(*   directory  "whole"; "missing", "multi_disk", "zip64" or "bounds": the *)
(*              record is refused; "size": it is accepted, but the entry   *)
(*              headers do not end where it says                           *)
(* An entry is what its two headers declare and what its data really is:   *)
(*   name, bytes, depth  the raw name, its length, its component count     *)
(*   clean      the name is UTF-8 with normal components only              *)
(*   header     "same"; else how the local header disagrees: "unreadable", *)
(*              "flags", "method", "name", or its "data" leaves the file   *)
(*   encrypted, method, regular, compressed, size   the declared metadata  *)
(*   actual, intact   the bytes the decompressor emits, and whether it     *)
(*              ends without an error (its CRC evidence included)          *)
(* The ZipArchive reader itself is a library.  Byte counters are u64:      *)
(* MaxWord stands for 2^64 - 1.                                            *)
(***************************************************************************)
EXTENDS Integers, Sequences, FiniteSets, FiniteSetsExt, SequencesExt

CONSTANTS
    Candidates,      \* the archives that may be uploaded
    Requested,       \* the entry names a parser asks for
    MaxWord,         \* the largest u64
    Buffer,          \* the read buffer
    \* ArchiveLimits
    MaxEntries, MaxPathBytes, MaxPathDepth, MaxTotalCompressed, MaxTotalDecompressed,
    MaxEntryDecompressed, MaxRatio

VARIABLES
    archive,         \* the archive at hand
    stage,           \* where the code is
    index,           \* the entry it looks at
    names,           \* names seen in this loop
    compressed,      \* total_compressed_bytes
    decompressed,    \* total_decompressed_bytes
    actual,          \* bytes emitted for the entry being read
    refusal          \* the ArchiveFailureClass of a refusal

inspection_vars == <<archive, stage, index, names, compressed, decompressed, actual, refusal>>

Stages == {"directory", "headers", "entries", "inspected", "reading", "returned",
           "refused", "read_refused"}
Classes == {"malformed", "duplicate_entry", "unsupported_encoding", "unsupported_entry_type",
            "unsafe_path", "resource_limit"}

Methods == {"stored", "deflated"}

entry == archive.entries[index]

Init ==
    /\ archive \in Candidates
    /\ stage = "directory"
    /\ index = 1
    /\ names = {}
    /\ compressed = 0
    /\ decompressed = 0
    /\ actual = 0
    /\ refusal = "none"

-----------------------------------------------------------------------------
(* The checks are ordered: the first that holds gives the refusal's class. *)

first_failure(checks) ==
    LET i == SelectInSeq(checks, LAMBDA c : c[1])
    IN  IF i = 0 THEN "none" ELSE checks[i][2]

saturating_mul(a, b) == IF a * b > MaxWord THEN MaxWord ELSE a * b

\* A plausible slip: the product wraps instead of saturating.
RatioWraps(emitted, stored) ==
    emitted > 0 /\ (stored = 0 \/ emitted > (stored * MaxRatio) % (MaxWord + 1))

exceeds_ratio(emitted, stored) ==
    emitted > 0 /\ (stored = 0 \/ emitted > saturating_mul(stored, MaxRatio))

\* checked_total refuses what does not fit a word, the caller what is over
\* its limit.
over_total(total, value, limit) == total + value > MaxWord \/ total + value > limit

directory_failure(a) ==
    first_failure(<< <<a.directory \in {"missing", "multi_disk"}, "malformed">>,
                     <<a.directory = "zip64", "resource_limit">>,
                     <<Len(a.entries) > MaxEntries, "resource_limit">>,
                     <<a.directory = "bounds", "malformed">> >>)

header_failure(e) ==
    first_failure(<< <<e.bytes = 0 \/ e.bytes > MaxPathBytes, "resource_limit">>,
                     <<e.name \in names, "duplicate_entry">>,
                     <<e.header = "unreadable", "malformed">>,
                     <<e.encrypted, "unsupported_encoding">>,
                     <<e.header \in {"flags", "method"}, "malformed">>,
                     <<e.method \notin Methods, "unsupported_encoding">>,
                     <<e.header \in {"name", "data"}, "malformed">> >>)

validate_path(e) ==
    << <<e.bytes = 0 \/ e.bytes > MaxPathBytes \/ ~e.clean, "unsafe_path">>,
       <<e.depth > MaxPathDepth, "resource_limit">> >>

entry_failure(e) ==
    first_failure(<< <<e.encrypted, "unsupported_encoding">>,
                     <<e.method \notin Methods, "unsupported_encoding">>,
                     <<~e.regular, "unsupported_entry_type">> >>
                  \o validate_path(e)
                  \o << <<e.name \in names, "duplicate_entry">>,
                        <<e.size > MaxEntryDecompressed, "resource_limit">>,
                        <<exceeds_ratio(e.size, e.compressed), "resource_limit">>,
                        <<over_total(compressed, e.compressed, MaxTotalCompressed),
                          "resource_limit">>,
                        <<over_total(decompressed, e.size, MaxTotalDecompressed),
                          "resource_limit">> >>)

refuse(outcome, class) ==
    /\ stage' = outcome
    /\ refusal' = class
    /\ UNCHANGED <<archive, index, names, compressed, decompressed, actual>>

-----------------------------------------------------------------------------
(* Inspection *)

end_of_central_directory ==
    /\ stage = "directory"
    /\ \/ directory_failure(archive) # "none" /\ refuse("refused", directory_failure(archive))
       \/ /\ directory_failure(archive) = "none"
          /\ stage' = "headers"
          /\ UNCHANGED <<archive, index, names, compressed, decompressed, actual, refusal>>

\* One central header and the local header it points to.
preflight_header ==
    /\ stage = "headers"
    /\ index <= Len(archive.entries)
    /\ \/ header_failure(entry) # "none" /\ refuse("refused", header_failure(entry))
       \/ /\ header_failure(entry) = "none"
          /\ names' = names \union {entry.name}
          /\ index' = index + 1
          /\ UNCHANGED <<archive, stage, compressed, decompressed, actual, refusal>>

\* The directory must end where its record says, and ZipArchive, which keeps
\* one entry for every name, must have as many as it counts.
directory_end_failure ==
    first_failure(<< <<archive.directory = "size", "malformed">>,
                     <<Cardinality(names) # Len(archive.entries), "duplicate_entry">> >>)

preflight_done ==
    /\ stage = "headers"
    /\ index > Len(archive.entries)
    /\ \/ directory_end_failure # "none" /\ refuse("refused", directory_end_failure)
       \/ /\ directory_end_failure = "none"
          /\ stage' = "entries"
          /\ index' = 1
          /\ names' = {}
          /\ UNCHANGED <<archive, compressed, decompressed, actual, refusal>>

inspect_entry ==
    /\ stage = "entries"
    /\ index <= Len(archive.entries)
    /\ \/ entry_failure(entry) # "none" /\ refuse("refused", entry_failure(entry))
       \/ /\ entry_failure(entry) = "none"
          /\ names' = names \union {entry.name}
          /\ compressed' = compressed + entry.compressed
          /\ decompressed' = decompressed + entry.size
          /\ index' = index + 1
          /\ UNCHANGED <<archive, stage, actual, refusal>>

inspected ==
    /\ stage = "entries"
    /\ index > Len(archive.entries)
    /\ stage' = "inspected"
    /\ UNCHANGED <<archive, index, names, compressed, decompressed, actual, refusal>>

-----------------------------------------------------------------------------
(* read_inspected_entry *)

open_entry(name) ==
    /\ stage = "inspected"
    /\ \/ name \notin names /\ refuse("read_refused", "malformed")
       \/ /\ name \in names
          /\ index' = CHOOSE i \in DOMAIN archive.entries : archive.entries[i].name = name
          /\ stage' = "reading"
          /\ UNCHANGED <<archive, names, compressed, decompressed, actual, refusal>>

\* One read of at most a buffer.  Every ceiling is applied to what the
\* decompressor emitted before the bytes are kept.
read_chunk ==
    /\ stage = "reading"
    /\ actual < entry.actual
    /\ \E n \in 1..Buffer :
         LET read == actual + n
             fits == /\ read <= MaxEntryDecompressed
                     /\ read <= MaxTotalDecompressed
                     /\ ~exceeds_ratio(read, entry.compressed)
         IN  /\ read <= entry.actual
             /\ \/ ~fits /\ refuse("read_refused", "resource_limit")
                \/ /\ fits
                   /\ actual' = read
                   /\ UNCHANGED <<archive, stage, index, names, compressed, decompressed,
                                  refusal>>

\* The end of the data: an error of the decompressor, or the comparison
\* with the declared size.
read_end ==
    /\ stage = "reading"
    /\ actual = entry.actual
    /\ \/ /\ ~entry.intact \/ actual # entry.size
          /\ refuse("read_refused", "malformed")
       \/ /\ entry.intact
          /\ actual = entry.size
          /\ stage' = "returned"
          /\ UNCHANGED <<archive, index, names, compressed, decompressed, actual, refusal>>

Next ==
    \/ end_of_central_directory
    \/ preflight_header
    \/ preflight_done
    \/ inspect_entry
    \/ inspected
    \/ \E name \in Requested : open_entry(name)
    \/ read_chunk
    \/ read_end

Spec == Init /\ [][Next]_inspection_vars

-----------------------------------------------------------------------------
(* Properties *)

\* The loops stay within the archive, and every u64 counter within its word
\* (inspect_reader, checked_total).
TypeOK ==
    /\ archive \in Candidates
    /\ stage \in Stages
    /\ index \in 1..(Len(archive.entries) + 1)
    /\ names \subseteq {archive.entries[i].name : i \in DOMAIN archive.entries}
    /\ compressed \in 0..MaxWord
    /\ decompressed \in 0..MaxWord
    /\ actual \in 0..MaxWord
    /\ refusal \in Classes \union {"none"}

\* What an archive must be, without the order of the checks, the running
\* totals and the width of the counters.
Acceptable(a) ==
    LET all == DOMAIN a.entries
        Total(field(_)) == MapThenSumSet(LAMBDA i : field(a.entries[i]), all)
    IN  /\ a.directory = "whole"
        /\ Len(a.entries) <= MaxEntries
        /\ IsInjective([i \in all |-> a.entries[i].name])
        /\ \A i \in all :
             LET e == a.entries[i]
             IN  /\ e.header = "same" /\ ~e.encrypted /\ e.method \in Methods
                 /\ e.regular /\ e.clean
                 /\ e.bytes \in 1..MaxPathBytes /\ e.depth <= MaxPathDepth
                 /\ e.size <= MaxEntryDecompressed /\ e.size <= e.compressed * MaxRatio
        /\ Total(LAMBDA e : e.compressed) <= MaxTotalCompressed
        /\ Total(LAMBDA e : e.size) <= MaxTotalDecompressed

\* An archive is inspected successfully exactly if it is Acceptable: no
\* order of entries, no running total and no overflow lets one through
\* that breaks a limit, or refuses one that keeps them all (inspect_reader,
\* preflight_headers).
InspectionExact ==
    /\ stage \in {"inspected", "reading", "returned", "read_refused"} => Acceptable(archive)
    /\ stage = "refused" => ~Acceptable(archive)

\* Whatever an entry's headers declare, the bytes kept while it is read
\* stay within the entry, total and ratio limits, and bytes that are
\* returned are all that the entry holds, as many as it declared
\* (read_inspected_entry).
ReadBounded ==
    stage \in {"reading", "returned"} =>
      /\ actual <= MaxEntryDecompressed
      /\ actual <= MaxTotalDecompressed
      /\ actual <= entry.compressed * MaxRatio
      /\ stage = "returned" => actual = entry.actual /\ actual = entry.size

=============================================================================
