----------------------- MODULE PrivacyDeletionProofs -----------------------
(***************************************************************************)
(* What deletions promise for any owners, captures, accounts, posts and    *)
(* any number of overlapping calls.                                        *)
(*                                                                         *)
(* A deletion decides what to erase in one step and erases it in a later   *)
(* one, while other transactions commit.  What it decided stays true       *)
(* because of its row locks, and Decided says what that is: the target is  *)
(* still there and no other deletion has it, no other capture came to hold *)
(* a media row that will be erased, and no further row was linked to a     *)
(* connection that goes.                                                   *)
(***************************************************************************)
EXTENDS PrivacyDeletion, TLAPS

\* Identifiers of different tables differ, null is none of them, and no
\* permalink is a provider's media id.
Distinct ==
    /\ CaptureIds \cap Accounts = {} /\ Urls \cap Posts = {}
    /\ None \notin CaptureIds \cup Accounts \cup MediaIds \cup Urls \cup Owners

Columns == [state: {"none", "live", "gone"}, owner: Owners \cup {None}, url: Urls \cup {None},
            media: MediaIds \cup {None}]

Types ==
    /\ capture \in [CaptureIds -> Columns]
    /\ rows \in [CaptureIds -> SUBSET CaptureClasses]
    /\ media \in [MediaIds -> MediaRows]
    /\ accounts \subseteq Accounts
    /\ items = [a \in Accounts |-> items[a]]
    /\ profile = [a \in Accounts |-> profile[a]]
    /\ removals \in [Sources -> Nat]
    /\ caller = [k \in Callers |-> caller[k]]

\* A live capture belongs to an owner and a permalink, and (owner, permalink)
\* is unique among the live ones.
Unique ==
    /\ \A c \in Live : capture[c].owner \in Owners /\ capture[c].url \in Urls
    /\ \A c, d \in Live : SourceOf(c) = SourceOf(d) => c = d

\* Only a live capture is named by other rows.
RowsOfLive == \A c \in CaptureIds : capture[c].state # "live" => rows[c] = {}

\* A media row that a capture holds has revisions, and the raw record of
\* every revision is stored.
Evidence ==
    /\ \A c \in Live : capture[c].media # None =>
         media[capture[c].media].method # "none" /\ media[capture[c].media].revisions # {}
    /\ \A m \in MediaIds : media[m].revisions \subseteq raw

\* What an open deletion decided is still so.
Decision(k) ==
    /\ caller[k].erase \subseteq MediaIds
    /\ caller[k].target \in CaptureIds => caller[k].target \in Live
    /\ \A c \in Live : capture[c].media \in caller[k].erase => c = caller[k].target
    /\ caller[k].target \in Accounts =>
         OfAccount(caller[k].target) \subseteq caller[k].erase \cup caller[k].detach

Decided ==
    \A k \in Open : /\ Decision(k)
                    /\ \A j \in Open : caller[j].target = caller[k].target => j = k

IInv ==
    /\ Types /\ Unique /\ RowsOfLive /\ Evidence /\ Decided
    /\ ConnectionErased /\ NoLateLink

-----------------------------------------------------------------------------
(* Steps that make no decision *)

\* Open deletions keep what they decided when their targets stay live, no
\* capture comes to hold what they erase, and nothing is linked to an account
\* they delete.
LEMMA StillDecided ==
    ASSUME Decided, Open' \subseteq Open,
           \A j \in Open' : caller'[j] = caller[j],
           \A j \in Open' : caller[j].target \in Live => caller[j].target \in Live',
           \A j \in Open' : \A c \in Live' : capture'[c].media \in caller[j].erase =>
               c \in Live /\ capture[c].media = capture'[c].media,
           \A j \in Open' : caller[j].target \in Accounts =>
               \A m \in MediaIds : media'[m].account = caller[j].target =>
                   media[m].account = caller[j].target
    PROVE  Decided'
<1> SUFFICES ASSUME NEW k \in Open'
             PROVE  /\ Decision(k)'
                    /\ \A j \in Open' : caller'[j].target = caller'[k].target => j = k
  BY ZenonT(60) DEF Decided
<1>1. k \in Open /\ caller'[k] = caller[k] /\ Decision(k)
  BY DEF Decided
<1>2. \A j \in Open' : caller'[j].target = caller'[k].target => j = k
  BY <1>1 DEF Decided
<1>3. caller'[k].erase \subseteq MediaIds
  BY <1>1 DEF Decision
<1>4. caller'[k].target \in CaptureIds => caller'[k].target \in Live'
  BY <1>1 DEF Decision
<1>5. \A c \in Live' : capture'[c].media \in caller'[k].erase => c = caller'[k].target
  BY <1>1 DEF Decision
<1>6. (caller[k].target \in Accounts =>
         OfAccount(caller[k].target) \subseteq caller[k].erase \cup caller[k].detach)'
  BY <1>1 DEF Decision, OfAccount
<1> QED
  BY <1>2, <1>3, <1>4, <1>5, <1>6 DEF Decision

\* A capture is submitted.
LEMMA Submitting ==
    ASSUME Distinct, IInv, NEW c \in CaptureIds, NEW o \in Owners, NEW u \in Urls,
           submit_capture(c, o, u)
    PROVE  IInv'
<1> DEFINE new == [state |-> "live", owner |-> o, url |-> u, media |-> None]
<1>0. new \in Columns /\ new.state = "live" /\ new.owner = o /\ new.url = u /\ new.media = None
  BY DEF Columns
<1>1. /\ capture' = [capture EXCEPT ![c] = new]
      /\ UNCHANGED <<rows, media, accounts, items, profile, raw, removals, guard, caller>>
      /\ capture[c].state # "live"
      /\ \A d \in Live : ~(capture[d].owner = o /\ capture[d].url = u)
  BY DEF submit_capture, NoCapture
<1> HIDE DEF new
<1>2. /\ capture' \in [CaptureIds -> Columns]
      /\ capture'[c] = new
      /\ \A d \in CaptureIds \ {c} : capture'[d] = capture[d]
  BY <1>0, <1>1 DEF IInv, Types
<1>3. Live' = Live \cup {c} /\ c \notin Live
  BY <1>0, <1>1, <1>2 DEF Live
<1>4. Types'
  BY <1>1, <1>2 DEF IInv, Types
<1>5. Unique'
  BY <1>0, <1>1, <1>2, <1>3 DEF IInv, Unique, SourceOf, Live
<1>6. RowsOfLive'
  BY <1>0, <1>1, <1>2 DEF IInv, RowsOfLive
<1>7. Evidence'
  BY <1>0, <1>1, <1>2, <1>3 DEF IInv, Evidence, Live
<1>8. Decided'
  <2>1. Open' = Open
    BY <1>1 DEF Open
  <2>2. \A j \in Open : caller[j].erase \subseteq MediaIds
    BY DEF IInv, Decided, Decision
  <2>3. \A j \in Open : \A d \in Live' : capture'[d].media \in caller[j].erase =>
            d \in Live /\ capture[d].media = capture'[d].media
    BY <1>0, <1>2, <1>3, <2>2 DEF Live, Distinct
  <2> QED
    BY <1>1, <1>3, <2>1, <2>3, StillDecided DEF IInv
<1>9. ConnectionErased'
  BY <1>1 DEF IInv, ConnectionErased, OfAccount
<1>10. NoLateLink'
  BY <1>0, <1>1, <1>2, <1>3 DEF IInv, NoLateLink, SourceOf, RowsOfLive, Live
<1> QED
  BY <1>4, <1>5, <1>6, <1>7, <1>8, <1>9, <1>10 DEF IInv

\* A row is inserted that names a live capture; an analysis link only for a
\* source without a removal.
LEMMA Naming ==
    ASSUME IInv, NEW c \in Live, NEW class \in CaptureClasses,
           class = "capture_analysis_links" => SourceOf(c) \notin guard,
           rows' = [rows EXCEPT ![c] = @ \cup {class}],
           UNCHANGED <<capture, media, accounts, items, profile, raw, removals, guard, caller>>
    PROVE  IInv'
<1>1. c \in CaptureIds /\ capture[c].state = "live"
  BY DEF Live
<1>2. /\ rows' \in [CaptureIds -> SUBSET CaptureClasses]
      /\ rows'[c] = rows[c] \cup {class}
      /\ \A d \in CaptureIds \ {c} : rows'[d] = rows[d]
  BY <1>1 DEF IInv, Types
<1>3. Live' = Live /\ Open' = Open
  BY DEF Live, Open
<1>4. Types' /\ Unique' /\ RowsOfLive' /\ Evidence'
  BY <1>1, <1>2, <1>3 DEF IInv, Types, Unique, RowsOfLive, Evidence, SourceOf
<1>5. Decided' /\ ConnectionErased'
  BY <1>3 DEF IInv, Decided, Decision, ConnectionErased, OfAccount
<1>6. NoLateLink'
  <2> SUFFICES ASSUME NEW s \in Sources, removals[s] > 0
               PROVE  /\ s \in guard
                      /\ \A d \in Live : SourceOf(d) = s => "capture_analysis_links" \notin rows'[d]
    BY <1>3 DEF NoLateLink, SourceOf
  <2>1. /\ s \in guard
        /\ \A d \in Live : SourceOf(d) = s => "capture_analysis_links" \notin rows[d]
    BY DEF IInv, NoLateLink
  <2> QED
    BY <1>2, <2>1 DEF Live
<1> QED
  BY <1>4, <1>5, <1>6 DEF IInv

\* A media row is created or gets another revision.  It stays with its
\* account, or with none, or goes to one that nobody is deleting.
LEMMA Revising ==
    ASSUME Distinct, IInv, NEW m \in MediaIds, NEW row \in MediaRows,
           media' = [media EXCEPT ![m] = row],
           row.method # "none", media[m].revisions \subseteq row.revisions,
           row.revisions \subseteq raw', raw \subseteq raw',
           row.account \in {None, media[m].account} \cup (accounts \ LockedTargets),
           UNCHANGED <<accounts, caller>>
    PROVE  /\ media' \in [MediaIds -> MediaRows]
           /\ \A n \in MediaIds : /\ media'[n].revisions \subseteq raw'
                                  /\ media[n].revisions \subseteq media'[n].revisions
                                  /\ media[n].method # "none" => media'[n].method # "none"
           /\ \A a \in Accounts \ accounts : OfAccount(a)' = {}
           /\ \A j \in Open : caller[j].target \in Accounts =>
                \A n \in MediaIds : media'[n].account = caller[j].target =>
                    media[n].account = caller[j].target
<1>1. /\ media' \in [MediaIds -> MediaRows]
      /\ media'[m] = row
      /\ \A n \in MediaIds \ {m} : media'[n] = media[n]
  BY DEF IInv, Types
<1>2. \A n \in MediaIds : /\ media'[n].revisions \subseteq raw'
                          /\ media[n].revisions \subseteq media'[n].revisions
                          /\ media[n].method # "none" => media'[n].method # "none"
  BY <1>1 DEF IInv, Evidence
<1>3. \A a \in Accounts \ accounts : OfAccount(a)' = {}
  BY <1>1 DEF IInv, ConnectionErased, OfAccount, Distinct
<1>4. \A j \in Open : caller[j].target \in LockedTargets
  BY DEF LockedTargets
<1>5. \A j \in Open : caller[j].target \in Accounts =>
         \A n \in MediaIds : media'[n].account = caller[j].target =>
             media[n].account = caller[j].target
  BY <1>1, <1>4 DEF Distinct
<1> QED
  BY <1>1, <1>2, <1>3, <1>5

\* A synchronization or an import writes a media row that captures may hold.
LEMMA Projecting ==
    ASSUME Distinct, IInv, NEW m \in MediaIds, NEW row \in MediaRows,
           media' = [media EXCEPT ![m] = row],
           row.method # "none", media[m].revisions \subseteq row.revisions,
           row.revisions \subseteq raw', raw \subseteq raw',
           row.account \in {None, media[m].account} \cup (accounts \ LockedTargets),
           items' = [a \in Accounts |-> items'[a]],
           \A a \in Accounts \ accounts : items'[a] = items[a],
           UNCHANGED <<capture, rows, accounts, profile, removals, guard, caller>>
    PROVE  IInv'
<1>1. /\ media' \in [MediaIds -> MediaRows]
      /\ \A n \in MediaIds : /\ media'[n].revisions \subseteq raw'
                             /\ media[n].revisions \subseteq media'[n].revisions
                             /\ media[n].method # "none" => media'[n].method # "none"
      /\ \A a \in Accounts \ accounts : OfAccount(a)' = {}
      /\ \A j \in Open : caller[j].target \in Accounts =>
           \A n \in MediaIds : media'[n].account = caller[j].target =>
               media[n].account = caller[j].target
  BY Revising, ZenonT(60)
<1>2. Live' = Live /\ Open' = Open
  BY DEF Live, Open
<1>3. \A c \in Live : c \in CaptureIds /\ capture[c].media \in MediaIds \cup {None}
  BY DEF Live, IInv, Types, Columns
<1>4. Types' /\ Unique' /\ RowsOfLive'
  BY <1>1, <1>2 DEF IInv, Types, Unique, RowsOfLive, SourceOf
<1>5. Evidence'
  BY <1>1, <1>2, <1>3 DEF IInv, Evidence
<1>6. Decided'
  <2> SUFFICES ASSUME NEW k \in Open PROVE Decision(k)'
    BY <1>2 DEF IInv, Decided
  <2>1. Decision(k)
    BY DEF IInv, Decided
  <2> QED
    BY <1>1, <1>2, <2>1 DEF Decision, OfAccount
<1>7. ConnectionErased'
  BY <1>1 DEF IInv, ConnectionErased
<1>8. NoLateLink'
  BY <1>2 DEF IInv, NoLateLink, SourceOf
<1> QED
  BY <1>4, <1>5, <1>6, <1>7, <1>8 DEF IInv

\* A synchronization is finalized.
LEMMA Synchronizing ==
    ASSUME Distinct, IInv, NEW a \in Accounts, NEW p \in Posts, NEW u \in Urls,
           NEW m \in MediaIds, NEW r \in RawIds, finalize_run(a, p, u, m, r)
    PROVE  IInv'
<1> DEFINE row == [method |-> "official", permalink |-> u, provider |-> p, account |-> a,
                   revisions |-> media[m].revisions \cup {r}]
<1>1. media[m] \in MediaRows /\ media[m].revisions \subseteq RawIds
  BY DEF IInv, Types, MediaRows
<1>2. row \in MediaRows
  BY <1>1 DEF MediaRows
<1>3. /\ row.method # "none" /\ media[m].revisions \subseteq row.revisions
      /\ row.revisions = media[m].revisions \cup {r} /\ row.account = a
  OBVIOUS
<1>4. /\ media' = [media EXCEPT ![m] = row] /\ raw' = raw \cup {r}
      /\ items' = [items EXCEPT ![a] = @ \cup {r}]
      /\ a \in accounts \ LockedTargets
      /\ UNCHANGED <<capture, rows, accounts, profile, removals, guard, caller>>
  BY DEF finalize_run
<1> HIDE DEF row
<1>5. row.revisions \subseteq raw'
  BY <1>3, <1>4 DEF IInv, Evidence
<1>6. /\ items' = [b \in Accounts |-> items'[b]]
      /\ \A b \in Accounts \ accounts : items'[b] = items[b]
  BY <1>4, ZenonT(60) DEF IInv, Types
<1> QED
  BY <1>2, <1>3, <1>4, <1>5, <1>6, Projecting, ZenonT(60)

\* An export is reconciled.
LEMMA Importing ==
    ASSUME Distinct, IInv, NEW m \in MediaIds, NEW u \in Urls, import_media(m, u)
    PROVE  IInv'
<1> DEFINE row == [method |-> "export", permalink |-> u, provider |-> None, account |-> None,
                   revisions |-> {}]
<1>1. row \in MediaRows
  BY DEF MediaRows
<1>2. row.method # "none" /\ row.revisions = {} /\ row.account = None
  OBVIOUS
<1>3. /\ media' = [media EXCEPT ![m] = row] /\ media[m].revisions = {}
      /\ UNCHANGED <<capture, rows, accounts, items, profile, raw, removals, guard, caller>>
  BY DEF import_media, NoMedia
<1> HIDE DEF row
<1>4. items' = [b \in Accounts |-> items'[b]]
  BY <1>3 DEF IInv, Types
<1> QED
  BY <1>1, <1>2, <1>3, <1>4, Projecting, ZenonT(60)

\* A profile response is stored.
LEMMA Profiling ==
    ASSUME IInv, NEW a \in Accounts, NEW r \in RawIds, store_profile(a, r)
    PROVE  IInv'
<1>1. /\ raw \subseteq raw' /\ a \in accounts
      /\ profile' = [profile EXCEPT ![a] = @ \cup {r}]
      /\ UNCHANGED <<capture, rows, media, accounts, items, removals, guard, caller>>
  BY DEF store_profile
<1>2. /\ profile' = [b \in Accounts |-> profile'[b]]
      /\ \A b \in Accounts \ accounts : profile'[b] = profile[b]
  BY <1>1, ZenonT(60) DEF IInv, Types
<1>3. Live' = Live /\ Open' = Open
  BY <1>1 DEF Live, Open
<1>4. Types' /\ Unique' /\ RowsOfLive' /\ Evidence'
  BY <1>1, <1>2, <1>3 DEF IInv, Types, Unique, RowsOfLive, Evidence, SourceOf
<1>5. Decided' /\ ConnectionErased' /\ NoLateLink'
  BY <1>1, <1>2, <1>3 DEF IInv, Decided, Decision, ConnectionErased, OfAccount, NoLateLink, SourceOf
<1> QED
  BY <1>4, <1>5 DEF IInv

\* A resolution binds a live capture to a media row that no open deletion has
\* locked.
LEMMA Resolving ==
    ASSUME Distinct, IInv, NEW c \in CaptureIds, NEW m \in MediaIds, NEW r \in RawIds,
           store_resolution(c, m, r)
    PROVE  IInv'
<1> DEFINE row == [method |-> IF media[m].method = "none" THEN "public" ELSE media[m].method,
                   permalink |-> capture[c].url, provider |-> media[m].provider,
                   account |-> media[m].account, revisions |-> media[m].revisions \cup {r}]
           bound == [state |-> "live", owner |-> capture[c].owner, url |-> capture[c].url,
                     media |-> m]
<1>0. /\ c \in Live /\ capture[c].state = "live" /\ m \notin LockedMedia
      /\ raw' = raw \cup {r}
      /\ UNCHANGED <<accounts, items, profile, removals, guard, caller>>
  BY DEF store_resolution, Live
<1>1. /\ media[m] \in MediaRows /\ media[m].revisions \subseteq RawIds
      /\ capture[c] \in Columns /\ capture[c].url \in Urls
  BY <1>0 DEF IInv, Types, MediaRows, Unique
<1>2. row \in MediaRows /\ bound \in Columns
  BY <1>1 DEF MediaRows, Columns
<1>3. media' = [media EXCEPT ![m] = row]
  BY DEF store_resolution
<1>4. capture' = [capture EXCEPT ![c] = bound]
  <2>1. capture' = [capture EXCEPT ![c] = [capture[c] EXCEPT !.media = m]]
    BY DEF store_resolution
  <2>2. [capture[c] EXCEPT !.media = m] = bound
    BY <1>0, <1>1, SMTT(60) DEF Columns
  <2> QED
    BY <2>1, <2>2, Zenon
<1>5. /\ row.method # "none" /\ row.revisions = media[m].revisions \cup {r}
      /\ row.account = media[m].account
      /\ bound.state = "live" /\ bound.media = m
      /\ bound.owner = capture[c].owner /\ bound.url = capture[c].url
  BY SMTT(60)
<1> HIDE DEF row, bound
<1>6. row.revisions \subseteq raw'
  BY <1>0, <1>5, SMTT(60) DEF IInv, Evidence
<1>7. /\ media' \in [MediaIds -> MediaRows]
      /\ \A n \in MediaIds : /\ media'[n].revisions \subseteq raw'
                             /\ media[n].revisions \subseteq media'[n].revisions
                             /\ media[n].method # "none" => media'[n].method # "none"
      /\ \A a \in Accounts \ accounts : OfAccount(a)' = {}
      /\ \A j \in Open : caller[j].target \in Accounts =>
           \A n \in MediaIds : media'[n].account = caller[j].target =>
               media[n].account = caller[j].target
  BY <1>0, <1>2, <1>3, <1>5, <1>6, Revising, ZenonT(60)
<1>8. media'[m] = row
  BY <1>3 DEF IInv, Types
<1>9. /\ capture' \in [CaptureIds -> Columns]
      /\ capture'[c] = bound
      /\ \A d \in CaptureIds \ {c} : capture'[d] = capture[d]
  BY <1>2, <1>4 DEF IInv, Types
<1>10. Live' = Live /\ Open' = Open
  BY <1>0, <1>5, <1>9 DEF Live, Open
<1>11. \A d \in CaptureIds : SourceOf(d)' = SourceOf(d)
  BY <1>5, <1>9 DEF SourceOf
<1>12. /\ rows' \in [CaptureIds -> SUBSET CaptureClasses]
       /\ rows'[c] = rows[c] \cup {"capture_rows"}
       /\ \A d \in CaptureIds \ {c} : rows'[d] = rows[d]
  BY DEF store_resolution, IInv, Types, CaptureClasses
<1>13. Types'
  BY <1>0, <1>7, <1>9, <1>12 DEF IInv, Types
<1>14. Unique'
  BY <1>5, <1>9, <1>10, <1>11 DEF IInv, Unique, Live
<1>15. RowsOfLive'
  BY <1>0, <1>5, <1>9, <1>12, SMTT(60) DEF IInv, RowsOfLive
<1>16. Evidence'
  <2>1. \A d \in Live : d \in CaptureIds /\ capture[d].media \in MediaIds \cup {None}
    BY SMTT(60) DEF Live, IInv, Types, Columns
  <2> QED
    <3>1. \A d \in Live : capture'[d].media # None =>
            media'[capture'[d].media].method # "none" /\ media'[capture'[d].media].revisions # {}
      <4> SUFFICES ASSUME NEW d \in Live, capture'[d].media # None
                   PROVE  /\ media'[capture'[d].media].method # "none"
                          /\ media'[capture'[d].media].revisions # {}
        OBVIOUS
      <4>1. CASE d = c
        BY <1>5, <1>8, <1>9, <4>1, SMTT(60)
      <4>2. CASE d # c
        BY <1>7, <1>9, <2>1, <4>2 DEF IInv, Evidence
      <4> QED
        BY <4>1, <4>2
    <3> QED
      BY <1>7, <1>10, <3>1 DEF Evidence
<1>17. Decided'
  <2> SUFFICES ASSUME NEW k \in Open PROVE Decision(k)'
    BY <1>0, <1>10, SMTT(60) DEF IInv, Decided
  <2>1. Decision(k) /\ m \notin caller[k].erase
    BY <1>0, SMTT(60) DEF IInv, Decided, LockedMedia
  <2>2. \A d \in Live : capture'[d].media \in caller[k].erase => d = caller[k].target
    BY <1>5, <1>9, <2>1, SMTT(60) DEF Decision, Live
  <2> QED
    BY <1>0, <1>7, <1>10, <2>1, <2>2, SMTT(60) DEF Decision, OfAccount
<1>18. ConnectionErased'
  BY <1>0, <1>7, SMTT(60) DEF IInv, ConnectionErased
<1>19. NoLateLink'
  BY <1>0, <1>10, <1>11, <1>12 DEF IInv, NoLateLink, Live
<1> QED
  BY <1>13, <1>14, <1>15, <1>16, <1>17, <1>18, <1>19 DEF IInv
-----------------------------------------------------------------------------
(* The calls *)

\* A call that is not open stays so: it begins, or ends without effect.
LEMMA Asking ==
    ASSUME IInv, NEW k \in Callers, NEW call, call.step # "commit", k \notin Open,
           caller' = [caller EXCEPT ![k] = call],
           UNCHANGED <<capture, rows, media, accounts, items, profile, raw, removals, guard>>
    PROVE  IInv'
<1>1. /\ caller' = [j \in Callers |-> caller'[j]]
      /\ caller'[k] = call
      /\ \A j \in Callers \ {k} : caller'[j] = caller[j]
  BY SMTT(60) DEF IInv, Types
<1>2. Live' = Live /\ Open' = Open
  BY <1>1 DEF Live, Open
<1>3. \A j \in Open : caller'[j] = caller[j]
  BY <1>1 DEF Open
<1>4. Types' /\ Unique' /\ RowsOfLive' /\ Evidence'
  BY <1>1, <1>2, SMTT(60) DEF IInv, Types, Unique, RowsOfLive, Evidence, SourceOf
<1>5. Decided'
  BY <1>2, <1>3, StillDecided, SMTT(60) DEF IInv
<1>6. ConnectionErased' /\ NoLateLink'
  BY <1>2, SMTT(60) DEF IInv, ConnectionErased, OfAccount, NoLateLink, SourceOf
<1> QED
  BY <1>4, <1>5, <1>6 DEF IInv

\* A call decides on a target that no open deletion has: the others keep their
\* decisions, its own holds now.
LEMMA Deciding ==
    ASSUME IInv, NEW k \in Callers, NEW call, call.step = "commit", k \notin Open,
           caller' = [caller EXCEPT ![k] = call],
           \A j \in Open : caller[j].target # call.target,
           call.erase \subseteq MediaIds,
           call.target \in CaptureIds => call.target \in Live,
           \A c \in Live : capture[c].media \in call.erase => c = call.target,
           call.target \in Accounts => OfAccount(call.target) \subseteq call.erase \cup call.detach,
           UNCHANGED <<capture, rows, media, accounts, items, profile, raw, removals, guard>>
    PROVE  IInv'
<1>1. /\ caller' = [j \in Callers |-> caller'[j]]
      /\ caller'[k] = call
      /\ \A j \in Callers \ {k} : caller'[j] = caller[j]
  BY SMTT(60) DEF IInv, Types
<1>2. Live' = Live /\ Open' = Open \cup {k}
  BY <1>1 DEF Live, Open
<1>3. \A j \in Open : caller'[j] = caller[j] /\ j \in Callers
  BY <1>1 DEF Open
<1>4. Types' /\ Unique' /\ RowsOfLive' /\ Evidence'
  BY <1>1, <1>2 DEF IInv, Types, Unique, RowsOfLive, Evidence, SourceOf
<1>5. Decided'
  <2>1. Decision(k)'
    BY <1>1, <1>2, SMTT(60) DEF Decision, OfAccount
  <2>2. ASSUME NEW j \in Open PROVE Decision(j)'
    <3>1. Decision(j) /\ caller'[j] = caller[j]
      BY <1>3 DEF IInv, Decided
    <3> QED
      BY <1>2, <3>1, SMTT(60) DEF Decision, OfAccount
  <2>3. \A i, j \in Open \cup {k} : caller'[j].target = caller'[i].target => j = i
    BY <1>1, <1>3, SMTT(60) DEF IInv, Decided
  <2> QED
    BY <1>2, <2>1, <2>2, <2>3 DEF Decided
<1>6. ConnectionErased' /\ NoLateLink'
  BY <1>2 DEF IInv, ConnectionErased, OfAccount, NoLateLink, SourceOf
<1> QED
  BY <1>4, <1>5, <1>6 DEF IInv

\* A refused call forgets what it asked for.
LEMMA Refusing ==
    ASSUME IInv, NEW k \in Callers, NEW answer, caller[k].step = "lock", refuse(k, answer)
    PROVE  IInv'
<1> DEFINE call == [Idle EXCEPT !.answer = answer]
<1>1. call.step # "commit" /\ k \notin Open
  BY DEF Idle, Call, Open
<1>2. /\ caller' = [caller EXCEPT ![k] = call]
      /\ UNCHANGED <<capture, rows, media, accounts, items, profile, raw, removals, guard>>
  BY DEF refuse
<1> HIDE DEF call
<1> QED
  BY <1>1, <1>2, Asking, ZenonT(60)

\* A deletion of a capture decides: it erases the capture's media row only
\* when nothing else holds it.
LEMMA CaptureDecision ==
    ASSUME Distinct, IInv, NEW k \in Callers, decide_capture(k)
    PROVE  IInv'
<1> DEFINE c == caller[k].target
           m == capture[c].media
           erase == IF m = None \/ independent_holding(c, m) THEN {} ELSE {m}
           call == Call("commit", caller[k].op, caller[k].owner, c, owner_holds_source(c), erase, {})
<1>1. /\ c \in CaptureIds /\ caller[k].step = "lock" /\ ~waits(k) /\ require_owned_locked(k)
      /\ caller' = [caller EXCEPT ![k] = call]
      /\ UNCHANGED <<capture, rows, media, accounts, items, profile, raw, removals, guard>>
  BY DEF decide_capture, may_decide, decided
<1>2. k \notin Open /\ \A j \in Open : caller[j].target # c
  BY <1>1, SMTT(60) DEF Open, waits
<1>3. c \in Live
  BY <1>1, SMTT(60) DEF require_owned_locked, owned, Distinct, IInv, Types
<1>4. call.step = "commit" /\ call.target = c /\ call.erase = erase
  BY SMTT(60) DEF Call
<1>5. erase \subseteq MediaIds
  BY <1>1, SMTT(60) DEF IInv, Types, Columns
<1>6. \A d \in Live : capture[d].media \in erase => d = c
  BY SMTT(60) DEF independent_holding
<1>7. c \notin Accounts
  BY <1>1 DEF Distinct
<1> HIDE DEF call, erase, c
<1> QED
  BY <1>1, <1>2, <1>3, <1>4, <1>5, <1>6, <1>7, Deciding, ZenonT(60)

\* A deletion of a connection decides: every row of the account is erased or
\* unlinked, and what is erased no capture holds.
LEMMA ConnectionDecision ==
    ASSUME Distinct, IInv, NEW k \in Callers, decide_connection(k)
    PROVE  IInv'
<1> DEFINE a == caller[k].target
           ms == OfAccount(a)
           call == Call("commit", caller[k].op, caller[k].owner, a, FALSE, ms \ Held, ms \cap Held)
<1>1. /\ a \in Accounts /\ caller[k].step = "lock" /\ ~waits(k)
      /\ \/ refuse(k, "constraint")
         \/ /\ caller' = [caller EXCEPT ![k] = call]
            /\ UNCHANGED <<capture, rows, media, accounts, items, profile, raw, removals, guard>>
  BY ZenonT(60) DEF decide_connection, may_decide, decided
<1>2. CASE refuse(k, "constraint")
  BY <1>1, <1>2, Refusing
<1>3. CASE /\ caller' = [caller EXCEPT ![k] = call]
           /\ UNCHANGED <<capture, rows, media, accounts, items, profile, raw, removals, guard>>
  <2>1. k \notin Open /\ \A j \in Open : caller[j].target # a
    BY <1>1 DEF Open, waits
  <2>2. /\ call.step = "commit" /\ call.target = a
        /\ call.erase = ms \ Held /\ call.detach = ms \cap Held
    BY DEF Call
  <2>3. a \notin CaptureIds
    BY <1>1 DEF Distinct
  <2>4. ms \subseteq MediaIds
    BY DEF OfAccount
  <2>5. \A d \in Live : capture[d].media \notin ms \ Held
    BY <2>4 DEF Held
  <2>6. ms \subseteq (ms \ Held) \cup (ms \cap Held)
    OBVIOUS
  <2> HIDE DEF call, a
  <2> QED
    BY <1>1, <1>3, <2>1, <2>2, <2>3, <2>4, <2>5, <2>6, Deciding, ZenonT(60)
<1> QED
  BY <1>1, <1>2, <1>3, ZenonT(60)

-----------------------------------------------------------------------------
(* The effects *)

\* A call that commits leaves the others' decisions and their targets alone.
LEMMA Committing ==
    ASSUME IInv, NEW k \in Open, caller' = [caller EXCEPT ![k] = Idle]
    PROVE  /\ caller' = [j \in Callers |-> caller'[j]]
           /\ Open' = Open \ {k}
           /\ \A j \in Open' : caller'[j] = caller[j] /\ caller[j].target # caller[k].target
<1>1. Idle.step # "commit"
  BY DEF Idle, Call
<1>2. /\ k \in Callers /\ caller' = [j \in Callers |-> caller'[j]]
      /\ caller'[k] = Idle
      /\ \A j \in Callers \ {k} : caller'[j] = caller[j]
  BY SMTT(60) DEF IInv, Types, Open
<1>3. Open' = Open \ {k}
  BY <1>1, <1>2 DEF Open
<1>4. \A j \in Open' : caller'[j] = caller[j] /\ caller[j].target # caller[k].target
  BY <1>2, <1>3 DEF Open, IInv, Decided
<1> QED
  BY <1>2, <1>3, <1>4

\* Raw records that a surviving row's revisions name are not erased.
LEMMA Erasing ==
    ASSUME IInv, NEW gone, NEW lost, raw' = raw \ (lost \ Retained(gone)),
           \A m \in MediaIds : IF m \in gone THEN media'[m].revisions = {}
                                             ELSE media'[m].revisions = media[m].revisions
    PROVE  \A m \in MediaIds : media'[m].revisions \subseteq raw'
<1> SUFFICES ASSUME NEW m \in MediaIds, m \notin gone
             PROVE  media[m].revisions \subseteq raw'
  OBVIOUS
<1>1. media[m].revisions \subseteq raw
  BY SMTT(60) DEF IInv, Evidence
<1>2. media[m].revisions \subseteq Retained(gone)
  BY DEF Retained
<1> QED
  BY <1>1, <1>2

\* A capture is deleted.
LEMMA CaptureDeleted ==
    ASSUME Distinct, IInv, NEW k \in Callers, apply_target_rows(k)
    PROVE  IInv'
<1> DEFINE c == caller[k].target
           gone == caller[k].erase
           left == [state |-> "gone", owner |-> capture[c].owner, url |-> capture[c].url,
                    media |-> None]
<1>1. /\ c \in CaptureIds /\ k \in Open
      /\ capture' = [capture EXCEPT ![c] = left]
      /\ rows' = [rows EXCEPT ![c] = @ \ deleted_classes]
      /\ media' = [m \in MediaIds |-> IF m \in gone THEN NoMedia ELSE media[m]]
      /\ raw' = raw \ (RawOf(gone) \ Retained(gone))
      /\ caller' = [caller EXCEPT ![k] = Idle]
      /\ UNCHANGED <<accounts, items, profile>>
  BY SMTT(60) DEF apply_target_rows, finished, Open
<1>2. /\ c \in Live /\ gone \subseteq MediaIds
      /\ \A d \in Live : capture[d].media \in gone => d = c
  BY <1>1, SMTT(60) DEF IInv, Decided, Decision
<1>3. left \in Columns /\ left.state = "gone"
  <2>1. capture[c] \in Columns
    BY <1>1, SMTT(60) DEF IInv, Types
  <2> QED
    BY <2>1, SMTT(60) DEF Columns
<1>4. /\ NoMedia \in MediaRows /\ NoMedia.revisions = {} /\ NoMedia.account = None
  BY SMTT(60) DEF NoMedia, MediaRows
<1>5. /\ SourceOf(c) \in Sources
      /\ \/ UNCHANGED <<removals, guard>>
         \/ /\ removals' = [removals EXCEPT ![SourceOf(c)] = @ + 1]
            /\ guard' = guard \cup {SourceOf(c)}
  BY <1>2 DEF apply_target_rows, IInv, Unique, SourceOf, Sources
<1> HIDE DEF left, c
<1>6. /\ capture' \in [CaptureIds -> Columns]
      /\ capture'[c] = left
      /\ \A d \in CaptureIds \ {c} : capture'[d] = capture[d]
  BY <1>1, <1>3 DEF IInv, Types
<1>7. Live' = Live \ {c}
  BY <1>3, <1>6, SMTT(60) DEF Live
<1>8. \A d \in Live' : /\ capture'[d] = capture[d] /\ d \in Live /\ d \in CaptureIds /\ d # c
                       /\ SourceOf(d)' = SourceOf(d)
  BY <1>6, <1>7 DEF Live, SourceOf
<1>9. /\ rows' \in [CaptureIds -> SUBSET CaptureClasses]
      /\ rows'[c] = {}
      /\ \A d \in CaptureIds \ {c} : rows'[d] = rows[d]
  BY <1>1 DEF IInv, Types, CaptureClasses, deleted_classes
<1>10. /\ media' \in [MediaIds -> MediaRows]
       /\ \A m \in MediaIds : IF m \in gone THEN media'[m] = NoMedia ELSE media'[m] = media[m]
  BY <1>1, <1>4, SMTT(60) DEF IInv, Types
<1>11. \A m \in MediaIds : media'[m].revisions \subseteq raw'
  BY <1>1, <1>4, <1>10, Erasing, SMTT(60)
<1>12. /\ caller' = [j \in Callers |-> caller'[j]]
       /\ Open' = Open \ {k}
       /\ \A j \in Open' : caller'[j] = caller[j] /\ caller[j].target # c
  BY <1>1, Committing, ZenonT(60) DEF c
<1>13. /\ removals' \in [Sources -> Nat] /\ guard \subseteq guard'
       /\ \A s \in Sources : s # SourceOf(c) => removals'[s] = removals[s]
       /\ removals'[SourceOf(c)] > 0 => removals[SourceOf(c)] > 0 \/ SourceOf(c) \in guard'
  BY <1>5 DEF IInv, Types
<1>14. Types'
  BY <1>1, <1>6, <1>9, <1>10, <1>12, <1>13 DEF IInv, Types
<1>15. Unique'
  BY <1>8, SMTT(60) DEF IInv, Unique
<1>16. RowsOfLive'
  BY <1>6, <1>9 DEF IInv, RowsOfLive
<1>17. Evidence'
  <2>1. ASSUME NEW d \in Live', capture'[d].media # None
        PROVE  /\ media'[capture'[d].media].method # "none"
               /\ media'[capture'[d].media].revisions # {}
    <3>1. capture[d].media \in MediaIds \ gone /\ capture'[d].media = capture[d].media
      BY <1>2, <1>8, <2>1, SMTT(60) DEF IInv, Types, Columns
    <3> QED
      BY <1>8, <1>10, <2>1, <3>1, SMTT(60) DEF IInv, Evidence
  <2> QED
    BY <1>11, <2>1, SMTT(60) DEF Evidence
<1>18. Decided'
  <2>1. \A j \in Open' : caller[j].target \in Live => caller[j].target \in Live'
    BY <1>7, <1>12
  <2>2. \A j \in Open' : \A d \in Live' : capture'[d].media \in caller[j].erase =>
            d \in Live /\ capture[d].media = capture'[d].media
    BY <1>8, SMTT(60)
  <2>3. \A j \in Open' : caller[j].target \in Accounts =>
            \A m \in MediaIds : media'[m].account = caller[j].target =>
                media[m].account = caller[j].target
    BY <1>4, <1>10, SMTT(60) DEF Distinct
  <2> QED
    BY <1>12, <2>1, <2>2, <2>3, StillDecided DEF IInv
<1>19. ConnectionErased'
  BY <1>1, <1>4, <1>10 DEF IInv, ConnectionErased, OfAccount, Distinct
<1>20. NoLateLink'
  <2> SUFFICES ASSUME NEW s \in Sources, removals'[s] > 0
               PROVE  /\ s \in guard'
                      /\ \A d \in Live' : SourceOf(d) = s => "capture_analysis_links" \notin rows'[d]
    BY <1>8, SMTT(60) DEF NoLateLink
  <2>1. CASE s = SourceOf(c)
    BY <1>2, <1>8, <1>13, <2>1, SMTT(60) DEF IInv, Unique, NoLateLink
  <2>2. CASE s # SourceOf(c)
    BY <1>8, <1>9, <1>13, <2>2 DEF IInv, NoLateLink
  <2> QED
    BY <2>1, <2>2
<1> QED
  BY <1>14, <1>15, <1>16, <1>17, <1>18, <1>19, <1>20, SMTT(60) DEF IInv

\* A connection is deleted.
LEMMA ConnectionDeleted ==
    ASSUME Distinct, IInv, NEW k \in Callers, apply_connection_rows(k)
    PROVE  IInv'
<1> DEFINE a == caller[k].target
           gone == caller[k].erase
           detach == caller[k].detach
           removed == {<<OwnerOf[a], media[m].provider>> : m \in gone}
           lost == RawOf(gone) \cup items[a] \cup profile[a]
<1>1. /\ a \in Accounts /\ k \in Open
      /\ media' = [m \in MediaIds |-> IF m \in gone THEN NoMedia
                                      ELSE IF m \in detach THEN [media[m] EXCEPT !.account = None]
                                      ELSE media[m]]
      /\ removals' = [s \in Sources |-> removals[s] + (IF s \in removed THEN 1 ELSE 0)]
      /\ guard' = guard \cup removed
      /\ accounts' = accounts \ {a}
      /\ items' = [items EXCEPT ![a] = {}]
      /\ profile' = [profile EXCEPT ![a] = {}]
      /\ raw' = raw \ (lost \ Retained(gone))
      /\ caller' = [caller EXCEPT ![k] = Idle]
      /\ UNCHANGED <<capture, rows>>
  BY DEF apply_connection_rows, finished, Open
<1>2. /\ a \notin CaptureIds /\ gone \subseteq MediaIds
      /\ \A d \in Live : capture[d].media \notin gone
      /\ OfAccount(a) \subseteq gone \cup detach
  BY <1>1 DEF IInv, Decided, Decision, Distinct, Live
<1>3. \A m \in gone : media[m].provider \in Posts \cup {None}
  BY <1>2, SMTT(60) DEF IInv, Types, MediaRows
<1>4. NoMedia \in MediaRows /\ NoMedia.revisions = {} /\ NoMedia.account = None
  BY DEF NoMedia, MediaRows
<1>5. \A row \in MediaRows : /\ [row EXCEPT !.account = None] \in MediaRows
                             /\ [row EXCEPT !.account = None].account = None
                             /\ [row EXCEPT !.account = None].revisions = row.revisions
                             /\ [row EXCEPT !.account = None].method = row.method
  BY SMTT(60) DEF MediaRows
<1>6. \A d \in Live, s \in removed : SourceOf(d) # s
  BY <1>3 DEF IInv, Unique, SourceOf, Distinct
<1>7. \A s \in Sources : removals'[s] > 0 => removals[s] > 0 \/ s \in removed
  BY <1>1 DEF IInv, Types
<1>8. removals' \in [Sources -> Nat]
  BY <1>1 DEF IInv, Types
<1> HIDE DEF a, removed, lost, detach
<1>9. /\ media' \in [MediaIds -> MediaRows]
      /\ \A m \in MediaIds \ gone : /\ media'[m].revisions = media[m].revisions
                                    /\ media'[m].method = media[m].method
                                    /\ media'[m].account \in {media[m].account, None}
      /\ \A m \in gone : media'[m] = NoMedia
      /\ \A m \in detach \cap MediaIds : media'[m].account = None
  <2>1. \A m \in MediaIds : media[m] \in MediaRows
    BY DEF IInv, Types
  <2> QED
    BY <1>1, <1>2, <1>4, <1>5, <2>1
<1>10. \A m \in MediaIds : media'[m].revisions \subseteq raw'
  <2>1. \A m \in MediaIds : IF m \in gone THEN media'[m].revisions = {}
                                          ELSE media'[m].revisions = media[m].revisions
    BY <1>4, <1>9
  <2> QED
    BY <1>1, <2>1, Erasing, ZenonT(60)
<1>11. /\ caller' = [j \in Callers |-> caller'[j]]
       /\ Open' = Open \ {k}
       /\ \A j \in Open' : caller'[j] = caller[j] /\ caller[j].target # a
  BY <1>1, Committing, ZenonT(60) DEF a
<1>12. Live' = Live /\ \A d \in Live : SourceOf(d)' = SourceOf(d)
  BY <1>1 DEF Live, SourceOf
<1>13. /\ items' = [b \in Accounts |-> items'[b]] /\ profile' = [b \in Accounts |-> profile'[b]]
       /\ items'[a] = {} /\ profile'[a] = {}
       /\ \A b \in Accounts \ {a} : items'[b] = items[b] /\ profile'[b] = profile[b]
  BY <1>1, ZenonT(60) DEF IInv, Types
<1>14. Types'
  BY <1>1, <1>8, <1>9, <1>11, <1>13 DEF IInv, Types
<1>15. Unique' /\ RowsOfLive'
  BY <1>1, <1>12 DEF IInv, Unique, RowsOfLive
<1>16. Evidence'
  <2>1. ASSUME NEW d \in Live, capture[d].media # None
        PROVE  media'[capture[d].media].method # "none" /\ media'[capture[d].media].revisions # {}
    <3>1. capture[d].media \in MediaIds \ gone
      BY <1>2, <2>1 DEF IInv, Types, Columns, Live
    <3> QED
      BY <1>9, <2>1, <3>1 DEF IInv, Evidence
  <2> QED
    BY <1>1, <1>10, <1>12, <2>1, ZenonT(60) DEF Evidence
<1>17. Decided'
  <2>1. \A j \in Open' : caller[j].target \in Accounts =>
            \A m \in MediaIds : media'[m].account = caller[j].target =>
                media[m].account = caller[j].target
    BY <1>4, <1>9 DEF Distinct
  <2> QED
    BY <1>1, <1>11, <1>12, <2>1, StillDecided, SMTT(60) DEF IInv
<1>18. ConnectionErased'
  <2> SUFFICES ASSUME NEW b \in Accounts \ accounts'
               PROVE  OfAccount(b)' = {} /\ items'[b] = {} /\ profile'[b] = {}
    BY DEF ConnectionErased
  <2>1. CASE b = a
    <3>1. \A m \in MediaIds : media'[m].account # b
      <4>1. \A m \in MediaIds : media[m].account = a => m \in gone \cup detach
        BY <1>2 DEF OfAccount
      <4> QED
        BY <1>4, <1>9, <2>1, <4>1 DEF Distinct
    <3> QED
      BY <1>13, <2>1, <3>1, SMTT(60) DEF OfAccount
  <2>2. CASE b # a
    <3>1. /\ b \notin accounts /\ items[b] = {} /\ profile[b] = {}
          /\ \A m \in MediaIds : media[m].account # b
      BY <1>1, <2>2, SMTT(60) DEF IInv, ConnectionErased, OfAccount
    <3>2. \A m \in MediaIds : media'[m].account # b
      BY <1>4, <1>9, <3>1 DEF Distinct
    <3> QED
      BY <1>13, <2>2, <3>1, <3>2 DEF OfAccount
  <2> QED
    BY <2>1, <2>2
<1>19. NoLateLink'
  BY <1>1, <1>6, <1>7, <1>12 DEF IInv, NoLateLink
<1> QED
  BY <1>14, <1>15, <1>16, <1>17, <1>18, <1>19 DEF IInv

-----------------------------------------------------------------------------
(* Theorems *)

\* The invariant holds at first.
LEMMA Initially ==
    ASSUME Distinct, Init
    PROVE  IInv
<1>1. NoCapture \in Columns /\ NoCapture.state = "none"
  BY SMTT(60) DEF NoCapture, Columns
<1>2. NoMedia \in MediaRows /\ NoMedia.revisions = {}
  BY DEF NoMedia, MediaRows
<1>3. Idle.step # "commit"
  BY SMTT(60) DEF Idle, Call
<1>4. Types
  BY <1>1, <1>2 DEF Init, Types
<1>5. Live = {} /\ Open = {}
  BY <1>1, <1>3, SMTT(60) DEF Init, Live, Open
<1>6. Unique /\ RowsOfLive /\ Evidence /\ Decided
  BY <1>2, <1>5 DEF Init, Unique, RowsOfLive, Evidence, Decided
<1>7. ConnectionErased /\ NoLateLink
  BY DEF Init, ConnectionErased, NoLateLink
<1> QED
  BY <1>4, <1>6, <1>7 DEF IInv

\* Every writer keeps the invariant.
LEMMA WritersKeep ==
    ASSUME Distinct, IInv, Writers
    PROVE  IInv'
<1>1. ASSUME NEW c \in CaptureIds, NEW o \in Owners, NEW u \in Urls, submit_capture(c, o, u)
      PROVE  IInv'
  BY <1>1, Submitting
<1>2. ASSUME NEW c \in CaptureIds, attach_row(c)
      PROVE  IInv'
  <2>1. /\ c \in Live /\ rows' = [rows EXCEPT ![c] = @ \cup {"capture_rows"}]
        /\ UNCHANGED <<capture, media, accounts, items, profile, raw, removals, guard, caller>>
    BY <1>2 DEF attach_row
  <2>2. "capture_rows" \in CaptureClasses /\ "capture_rows" # "capture_analysis_links"
    BY DEF CaptureClasses
  <2> QED
    BY <2>1, <2>2, Naming, ZenonT(60)
<1>3. ASSUME NEW c \in CaptureIds, NEW m \in MediaIds, NEW r \in RawIds, store_resolution(c, m, r)
      PROVE  IInv'
  BY <1>3, Resolving
<1>4. ASSUME NEW a \in Accounts, NEW p \in Posts, NEW u \in Urls, NEW m \in MediaIds,
             NEW r \in RawIds, finalize_run(a, p, u, m, r)
      PROVE  IInv'
  BY <1>4, Synchronizing
<1>5. ASSUME NEW a \in Accounts, NEW r \in RawIds, store_profile(a, r)
      PROVE  IInv'
  BY <1>5, Profiling
<1>6. ASSUME NEW m \in MediaIds, NEW u \in Urls, import_media(m, u)
      PROVE  IInv'
  BY <1>6, Importing
<1>7. ASSUME NEW s \in Sources, link_matching_capture(s)
      PROVE  IInv'
  <2>1. PICK c \in Live \ LockedTargets :
            /\ SourceOf(c) = s
            /\ rows' = [rows EXCEPT ![c] = @ \cup {"capture_analysis_links"}]
    BY <1>7, ZenonT(60) DEF link_matching_capture
  <2>2. /\ s \notin guard
        /\ UNCHANGED <<capture, media, accounts, items, profile, raw, removals, guard, caller>>
    BY <1>7 DEF link_matching_capture
  <2>3. "capture_analysis_links" \in CaptureClasses
    BY DEF CaptureClasses
  <2> QED
    BY <2>1, <2>2, <2>3, Naming, ZenonT(60)
<1> QED
  BY <1>1, <1>2, <1>3, <1>4, <1>5, <1>6, <1>7 DEF Writers

\* Every step of a call keeps the invariant.
LEMMA CallsKeep ==
    ASSUME Distinct, IInv, NEW k \in Callers, apply(k)
    PROVE  IInv'
<1>1. ASSUME NEW d \in Operations, NEW o \in Owners, NEW t \in Targets, begin_apply(k, d, o, t)
      PROVE  IInv'
  <2> DEFINE call == Call("lock", d, o, t, FALSE, {}, {})
  <2>1. call.step # "commit" /\ k \notin Open
    BY <1>1 DEF Call, begin_apply, Open
  <2>2. /\ caller' = [caller EXCEPT ![k] = call]
        /\ UNCHANGED <<capture, rows, media, accounts, items, profile, raw, removals, guard>>
    BY <1>1 DEF begin_apply
  <2> HIDE DEF call
  <2> QED
    BY <2>1, <2>2, Asking, ZenonT(60)
<1>2. CASE target_not_found(k)
  BY <1>2, Refusing DEF target_not_found
<1>3. CASE operation_conflict(k)
  BY <1>3, Refusing DEF operation_conflict
<1>4. CASE decide_capture(k)
  BY <1>4, CaptureDecision
<1>5. CASE decide_connection(k)
  BY <1>5, ConnectionDecision
<1>6. CASE apply_target_rows(k)
  BY <1>6, CaptureDeleted
<1>7. CASE apply_connection_rows(k)
  BY <1>7, ConnectionDeleted
<1> QED
  BY <1>1, <1>2, <1>3, <1>4, <1>5, <1>6, <1>7 DEF apply

\* The invariant survives every step and every stutter.
LEMMA Kept ==
    ASSUME Distinct, IInv, [Next]_vars
    PROVE  IInv'
<1>1. CASE Next
  BY <1>1, WritersKeep, CallsKeep DEF Next
<1>2. CASE UNCHANGED vars
  <2>1. /\ UNCHANGED <<capture, rows, media, accounts, items, profile, raw, removals, guard, caller>>
        /\ Live' = Live /\ Open' = Open
    BY <1>2, SMTT(60) DEF vars, Live, Open
  <2>2. Types' /\ Unique' /\ RowsOfLive' /\ Evidence'
    BY <2>1, SMTT(60) DEF IInv, Types, Unique, RowsOfLive, Evidence, SourceOf
  <2>3. Decided' /\ ConnectionErased' /\ NoLateLink'
    BY <2>1 DEF IInv, Decided, Decision, ConnectionErased, OfAccount, NoLateLink, SourceOf
  <2> QED
    BY <2>2, <2>3, SMTT(60) DEF IInv
<1> QED
  BY <1>1, <1>2

\* The invariant, of every behaviour of the deletions and their writers.
THEOREM Invariant == Distinct /\ Spec => []IInv
<1>1. Distinct /\ Init => IInv
  BY Initially
<1>2. Distinct /\ IInv /\ [Next]_vars => IInv'
  BY Kept
<1>3. Distinct => []Distinct
  <2>1. Distinct => Distinct'
    BY DEF Distinct
  <2> QED
    BY <2>1, PTL
<1> QED
  BY <1>1, <1>2, <1>3, PTL DEF Spec

\* However deletions of any owners overlap with resolutions, the media row a
\* live capture names keeps its revisions and their raw records.
THEOREM EvidenceKept == Distinct /\ Spec => []HeldEvidence
<1>1. IInv => HeldEvidence
  <2> SUFFICES ASSUME IInv, NEW c \in Live, capture[c].media # None
               PROVE  /\ capture[c].media \in Present
                      /\ media[capture[c].media].revisions # {}
                      /\ media[capture[c].media].revisions \subseteq raw
    BY DEF HeldEvidence
  <2>1. capture[c].media \in MediaIds
    BY DEF IInv, Types, Columns, Live
  <2> QED
    BY <2>1, SMTT(60) DEF IInv, Evidence, Present
<1> QED
  BY <1>1, Invariant, PTL

\* A deleted connection leaves no media row, staged item or profile evidence
\* that names it.
THEOREM ConnectionsErased == Distinct /\ Spec => []ConnectionErased
<1>1. IInv => ConnectionErased
  BY DEF IInv
<1> QED
  BY <1>1, Invariant, PTL

\* A source with a removal fact is guarded and carries no analysis link.
THEOREM NeverLinkedLate == Distinct /\ Spec => []NoLateLink
<1>1. IInv => NoLateLink
  BY SMTT(60) DEF IInv
<1> QED
  BY <1>1, Invariant, PTL

\* A deleted capture is named by no row, although rows are inserted all along.
THEOREM NothingRemains == Distinct /\ Spec => []NoRemnant
<1>1. IInv => NoRemnant
  BY DEF IInv, RowsOfLive, NoRemnant
<1> QED
  BY <1>1, Invariant, PTL
=============================================================================
