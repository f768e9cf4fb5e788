---------------------- MODULE ArchiveInspectionProofs ----------------------
(***************************************************************************)
(* The bounded read of an inspected entry, for any archives, limits, word  *)
(* width and buffer: whatever the headers declare, the bytes kept in       *)
(* memory stay within every limit.                                         *)
(*                                                                         *)
(* The comparison with the ratio saturates at the largest word.  That      *)
(* makes the bound smaller than the exact product, never larger.           *)
(***************************************************************************)
EXTENDS ArchiveInspection, TLAPS

\* Archives and limits are what their types say.
WellFormed ==
    /\ {MaxEntryDecompressed, MaxTotalDecompressed, MaxRatio, MaxWord, Buffer} \subseteq Nat
    /\ \A a \in Candidates :
         /\ Len(a.entries) \in Nat /\ DOMAIN a.entries = 1..Len(a.entries)
         /\ \A i \in DOMAIN a.entries : a.entries[i].compressed \in Nat

\* The loops look at an entry of the archive and remember names of its
\* entries; nothing is emitted before an entry is read.
IInv ==
    /\ archive \in Candidates
    /\ index \in Nat \ {0}
    /\ names \subseteq {archive.entries[i].name : i \in DOMAIN archive.entries}
    /\ actual \in Nat
    /\ stage \in {"directory", "headers", "entries", "inspected"} => actual = 0
    /\ stage \in {"reading", "returned"} => index \in DOMAIN archive.entries
    /\ ReadBounded

\* A ratio that is not exceeded is not exceeded without the saturation.
LEMMA RatioBound ==
    ASSUME WellFormed, NEW n \in Nat \ {0}, NEW c \in Nat, ~exceeds_ratio(n, c)
    PROVE  n <= c * MaxRatio
<1>1. n <= saturating_mul(c, MaxRatio)
  <2>1. saturating_mul(c, MaxRatio) \in Int
    BY DEF saturating_mul, WellFormed
  <2> HIDE DEF saturating_mul
  <2> QED
    BY <2>1 DEF exceeds_ratio
<1>2. c * MaxRatio \in Int
  BY DEF WellFormed
<1>3. saturating_mul(c, MaxRatio) <= c * MaxRatio
  BY <1>2 DEF saturating_mul, WellFormed
<1>4. saturating_mul(c, MaxRatio) \in Int
  BY <1>2, SMTT(60) DEF saturating_mul, WellFormed
<1> QED
  BY <1>1, <1>2, <1>3, <1>4, SMTT(60)

\* A refusal ends the inspection or the read.
LEMMA Refusing ==
    ASSUME IInv, NEW outcome \in {"refused", "read_refused"}, NEW class, refuse(outcome, class)
    PROVE  IInv'
BY DEF IInv, refuse, ReadBounded, entry

\* Opening finds the entry of a name that was seen.
LEMMA Opening ==
    ASSUME WellFormed, IInv, NEW name, open_entry(name)
    PROVE  IInv'
<1>1. CASE name \notin names
  BY <1>1, Refusing, SMTT(60) DEF open_entry
<1>2. CASE name \in names
  <2>1. /\ stage = "inspected" /\ stage' = "reading"
        /\ index' = CHOOSE i \in DOMAIN archive.entries : archive.entries[i].name = name
        /\ UNCHANGED <<archive, names, actual>>
    BY <1>2, SMTT(60) DEF open_entry
  <2>2. \E i \in DOMAIN archive.entries : archive.entries[i].name = name
    BY <1>2, SMTT(60) DEF IInv
  <2>3. index' \in DOMAIN archive.entries
    BY <2>1, <2>2, SMTT(60)
  <2>4. index' \in Nat \ {0} /\ archive.entries[index'].compressed \in Nat
    BY <2>3, SMTT(60) DEF WellFormed, IInv
  <2>5. actual' = 0
    BY <2>1 DEF IInv
  <2>6. 0 <= archive.entries[index'].compressed * MaxRatio
    BY <2>4, SMTT(60) DEF WellFormed
  <2>7. ReadBounded'
    BY <2>1, <2>5, <2>6, SMTT(60) DEF ReadBounded, entry, WellFormed
  <2> QED
    BY <2>1, <2>3, <2>4, <2>5, <2>7, SMTT(60) DEF IInv
<1> QED
  BY <1>1, <1>2, SMTT(60)

\* A chunk is kept only within every limit.
LEMMA Reading ==
    ASSUME WellFormed, IInv, read_chunk
    PROVE  IInv'
<1>1. PICK n \in 1..Buffer :
        \/ refuse("read_refused", "resource_limit")
        \/ /\ actual + n <= MaxEntryDecompressed
           /\ actual + n <= MaxTotalDecompressed
           /\ ~exceeds_ratio(actual + n, entry.compressed)
           /\ actual' = actual + n
           /\ UNCHANGED <<archive, stage, index, names>>
  BY DEF read_chunk
<1>2. CASE refuse("read_refused", "resource_limit")
  BY <1>2, Refusing, SMTT(60)
<1>3. CASE ~refuse("read_refused", "resource_limit")
  <2>1. actual + n \in Nat \ {0} /\ actual' = actual + n
    BY <1>1, <1>3, SMTT(60) DEF IInv, WellFormed
  <2>2. stage = "reading" /\ entry.compressed \in Nat
    BY DEF read_chunk, IInv, WellFormed, entry
  <2>3. actual + n <= entry.compressed * MaxRatio
    BY <1>1, <1>3, <2>1, <2>2, RatioBound, SMTT(60)
  <2>4. ReadBounded'
    BY <1>1, <1>3, <2>1, <2>2, <2>3, SMTT(60) DEF ReadBounded, entry
  <2> QED
    BY <1>1, <1>3, <2>1, <2>2, <2>4, SMTT(60) DEF IInv
<1> QED
  BY <1>2, <1>3, SMTT(60)

\* The invariant is inductive.
LEMMA Inductive ==
    ASSUME WellFormed, IInv, [Next]_inspection_vars
    PROVE  IInv'
<1>1. CASE end_of_central_directory
  <2>1. CASE refuse("refused", directory_failure(archive))
    BY <2>1, Refusing, SMTT(60)
  <2>2. CASE ~refuse("refused", directory_failure(archive))
    <3>1. stage = "directory" /\ stage' = "headers" /\ UNCHANGED <<archive, index, names, actual>>
      BY <1>1, <2>2, SMTT(60) DEF end_of_central_directory
    <3> QED
      BY <3>1 DEF IInv, ReadBounded
  <2> QED
    BY <2>1, <2>2, SMTT(60)
<1>2. CASE preflight_header
  <2>1. CASE refuse("refused", header_failure(entry))
    BY <2>1, Refusing, SMTT(60)
  <2>2. CASE ~refuse("refused", header_failure(entry))
    <3>1. /\ stage = "headers" /\ index <= Len(archive.entries)
          /\ names' = names \union {entry.name} /\ index' = index + 1
          /\ UNCHANGED <<archive, stage, actual>>
      BY <1>2, <2>2, SMTT(60) DEF preflight_header
    <3>2. index \in DOMAIN archive.entries
      BY <3>1 DEF IInv, WellFormed
    <3> QED
      BY <3>1, <3>2, SMTT(60) DEF IInv, ReadBounded, entry
  <2> QED
    BY <2>1, <2>2, SMTT(60)
<1>3. CASE preflight_done
  <2>1. CASE refuse("refused", directory_end_failure)
    BY <2>1, Refusing, SMTT(60)
  <2>2. CASE ~refuse("refused", directory_end_failure)
    <3>1. /\ stage = "headers" /\ stage' = "entries" /\ names' = {} /\ index' = 1
          /\ UNCHANGED <<archive, actual>>
      BY <1>3, <2>2, SMTT(60) DEF preflight_done
    <3> QED
      BY <3>1 DEF IInv, ReadBounded
  <2> QED
    BY <2>1, <2>2, SMTT(60)
<1>4. CASE inspect_entry
  <2>1. CASE refuse("refused", entry_failure(entry))
    BY <2>1, Refusing
  <2>2. CASE ~refuse("refused", entry_failure(entry))
    <3>1. /\ stage = "entries" /\ index <= Len(archive.entries)
          /\ names' = names \union {entry.name} /\ index' = index + 1
          /\ UNCHANGED <<archive, stage, actual>>
      BY <1>4, <2>2, SMTT(60) DEF inspect_entry
    <3>2. index \in DOMAIN archive.entries
      BY <3>1, SMTT(60) DEF IInv, WellFormed
    <3> QED
      BY <3>1, <3>2, SMTT(60) DEF IInv, ReadBounded, entry
  <2> QED
    BY <2>1, <2>2
<1>5. CASE inspected
  BY <1>5 DEF inspected, IInv, ReadBounded
<1>6. CASE \E name \in Requested : open_entry(name)
  BY <1>6, Opening, SMTT(60)
<1>7. CASE read_chunk
  BY <1>7, Reading, SMTT(60)
<1>8. CASE read_end
  <2>1. CASE refuse("read_refused", "malformed")
    BY <2>1, Refusing, SMTT(60)
  <2>2. CASE ~refuse("read_refused", "malformed")
    <3>1. /\ stage = "reading" /\ stage' = "returned"
          /\ actual = entry.actual /\ actual = entry.size
          /\ UNCHANGED <<archive, index, names, actual>>
      BY <1>8, <2>2 DEF read_end
    <3> QED
      BY <3>1, ZenonT(60) DEF IInv, ReadBounded, entry
  <2> QED
    BY <2>1, <2>2, SMTT(60)
<1>9. CASE UNCHANGED inspection_vars
  BY <1>9 DEF inspection_vars, IInv, ReadBounded, entry
<1> QED
  BY <1>1, <1>2, <1>3, <1>4, <1>5, <1>6, <1>7, <1>8, <1>9, SMTT(60) DEF Next

\* For every archive, honest or not, the bytes a read keeps stay within the
\* entry, total and ratio limits, and what it returns is the whole entry as
\* declared (read_inspected_entry).
THEOREM ReadsBounded ==
    ASSUME WellFormed
    PROVE  Spec => []ReadBounded
<1>1. Init => IInv
  BY DEF Init, IInv, ReadBounded
<1>2. IInv /\ [Next]_inspection_vars => IInv'
  BY Inductive
<1> QED
  BY <1>1, <1>2, PTL DEF Spec, IInv

=============================================================================
