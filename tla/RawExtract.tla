------------------------------ MODULE RawExtract ------------------------------
(***************************************************************************)
(* Incremental extraction of one Odoo model into its raw table:            *)
(* extract_odoo_raw and reconcile_ids (core/odoo_raw.py), the watermark    *)
(* (etl_platform/watermark.py) and the paging of the source                *)
(* (etl_platform/sources/odoo.py).                                         *)
(*                                                                         *)
(* Odoo changes all the while.  A transaction stamps write_date when it    *)
(* starts and is visible when it commits; a record may leave the domain    *)
(* (deleted, or edited so that it no longer matches).  The overlap is a    *)
(* fixed number of seconds: nothing in the code bounds a transaction, or   *)
(* an extraction, by it.                                                   *)
(* The extraction reads page after page, by offset, of the records that    *)
(* match now; then one MySQL transaction upserts what was read and moves   *)
(* the watermark.  The per-module lock makes it the only writer of both.   *)
(* Time is counted in half seconds: Odoo keeps fractions of a second and   *)
(* returns none.                                                           *)
(***************************************************************************)
EXTENDS Integers, FiniteSets

CONSTANTS Records,      \* ids of the model's records
          PageSize,     \* ODOO_PAGE_SIZE
          Overlap,      \* ETL_INCREMENTAL_OVERLAP_SECONDS
          \* bounds of the model: on the time from the start of an Odoo
          \* transaction to its commit and from the first page to the load, on the
          \* time that Odoo changes at all, and on the extractions that fail
          MaxTxn, MaxExtract, MaxClock, MaxFailures

ASSUME RecordsAssumption == Records \subseteq Nat /\ IsFiniteSet(Records)
ASSUME BoundsAssumption ==
    /\ PageSize \in Nat \ {0}
    /\ {Overlap, MaxTxn, MaxExtract, MaxClock, MaxFailures} \subseteq Nat

VARIABLES
    clock,
    live,      \* records that match the domain, as Odoo shows them now
    wd,        \* write_date of each record
    raw,       \* ids in the raw table
    marked,    \* those with _deleted_at set
    wm,        \* etl_watermark.last_write_date_utc, Empty when there is no row
    phase,     \* where the extraction stands
    full,      \* it reads everything
    begin,     \* when it read its first page
    offset,    \* of the next page
    got,       \* records read so far (by_id)
    top,       \* the greatest write_date among them
    ids,       \* what reconcile_ids got from search_ids
    failures,
    \* What the code does not know:
    current,   \* records in got that have not changed since they were read
    synced,    \* records whose raw row is unmarked and is what Odoo shows
    skipped,   \* records that slid over a page boundary while unread
    changed,   \* records changed since the extraction's first page and not read since
    slow       \* records whose last change took longer than the overlap, from the
               \* start of its transaction to the load that could not see it yet

odoo == <<clock, live, wd>>
extraction == <<full, begin, offset, got, top>>
vars == <<odoo, raw, marked, wm, phase, extraction, ids, failures, current, synced, skipped, changed, slow>>

Empty == -1

\* The write_date Odoo returns, truncated to the second.
Shown(t) == t - (t % 2)

TypeOK ==
    /\ clock \in Nat /\ live \subseteq Records /\ wd \in [Records -> Nat]
    /\ raw \subseteq Records /\ marked \subseteq raw
    /\ synced \subseteq (raw \cap live) \ marked
    /\ wm \in Nat \cup {Empty}
    /\ phase \in {"idle", "paging", "load", "loaded", "ids"}
    /\ full \in BOOLEAN /\ begin \in Nat /\ offset \in Nat
    /\ got \subseteq Records /\ current \subseteq got \cap live
    /\ top \in Nat \cup {Empty}
    /\ ids \subseteq Records /\ skipped \subseteq live
    /\ changed \subseteq live /\ slow \subseteq live
    /\ failures \in 0..MaxFailures

Init ==
    /\ clock = 0 /\ live \in SUBSET Records /\ wd = [r \in Records |-> 0]
    /\ raw = {} /\ marked = {} /\ synced = {} /\ wm = Empty
    /\ phase = "idle" /\ full = TRUE /\ begin = 0 /\ offset = 0
    /\ got = {} /\ top = Empty /\ current = {} /\ skipped = {} /\ changed = {} /\ slow = {}
    /\ ids = {} /\ failures = 0

(***************************** What is to be read ****************************)

\* Slip: the overlap is forgotten.
SinceMark == IF full THEN 0 ELSE wm

\* incremental_since: no lower bound for a full extraction.  The watermark
\* cannot move under the run, so it is the one that was read at the start.
Since == IF full THEN 0 ELSE wm - Overlap

\* Slip: the lower bound itself is left out of the answer.
AboveSince == {r \in live : wd[r] > Since}

Selected == {r \in live : wd[r] >= Since}

\* The place of r in the answer to the query, in id order.
Pos(r) == Cardinality({x \in Selected : x < r})

Page == {r \in Selected : offset <= Pos(r) /\ Pos(r) < offset + PageSize}

\* len(page) < page_size: nothing stands at the page's last place.
ShortPage == \A r \in Selected : Pos(r) < offset + PageSize - 1

(*********************************** Odoo ************************************)

Extracting == phase \in {"paging", "load"}

Tick ==
    /\ clock < MaxClock
    /\ Extracting => clock < begin + MaxExtract
    /\ clock' = clock + 1
    /\ UNCHANGED <<live, wd, raw, marked, wm, phase, extraction, ids, failures,
                   current, synced, skipped, changed, slow>>

\* A transaction that created or changed r commits, with the write_date it
\* took when it started.  Ids are handed out before the commit, so a new
\* record may turn up below those already seen.
Commit(r, stamp) ==
    /\ clock < MaxClock
    /\ clock - MaxTxn <= stamp /\ stamp <= clock /\ wd[r] <= stamp
    /\ live' = live \cup {r}
    /\ wd' = [wd EXCEPT ![r] = stamp]
    /\ current' = current \ {r}
    /\ synced' = synced \ {r}
    /\ skipped' = skipped \ {r}
    /\ changed' = IF Extracting THEN changed \cup {r} ELSE changed
    /\ slow' = IF clock - stamp > Overlap THEN slow \cup {r} ELSE slow \ {r}
    /\ UNCHANGED <<clock, raw, marked, wm, phase, extraction, ids, failures>>

\* r leaves the domain.  If it stood on a page already read, every later
\* record moves up one place, the first unread one onto the last page read.
Leave(r) ==
    /\ clock < MaxClock
    /\ r \in live
    /\ live' = live \ {r}
    /\ current' = current \ {r}
    /\ synced' = synced \ {r}
    /\ LET slid == IF phase = "paging" /\ r \in Selected
                   THEN {x \in Selected : r < x /\ Pos(x) = offset} \ (got \cup synced)
                   ELSE {}
       IN  skipped' = (skipped \cup slid) \ {r}
    /\ changed' = changed \ {r} /\ slow' = slow \ {r}
    /\ UNCHANGED <<clock, wd, raw, marked, wm, phase, extraction, ids, failures>>

(******************************* The extraction ******************************)

\* The local variables of a run whose load is over.
Forget ==
    /\ begin' = 0 /\ offset' = 0 /\ got' = {} /\ top' = Empty /\ current' = {} /\ changed' = {}

\* extract_odoo_raw up to its first query: --full, a spec that is not
\* incremental or an empty watermark make it read everything.
BeginRun(all) ==
    /\ phase = "idle"
    /\ wm = Empty => all
    /\ phase' = "paging"
    /\ full' = all /\ begin' = clock
    /\ UNCHANGED <<odoo, raw, marked, wm, offset, got, top, ids, failures,
                   current, synced, skipped, changed, slow>>

\* One search_read of search_read_incremental; the greatest write_date is
\* what advance will make the watermark.
ReadPage ==
    /\ phase = "paging"
    /\ got' = got \cup Page
    /\ current' = current \cup Page /\ changed' = changed \ Page
    /\ \E m \in {top} \cup {Shown(wd[r]) : r \in Page} :
          /\ \A r \in Page : Shown(wd[r]) <= m
          /\ top <= m
          /\ top' = m
    /\ IF ShortPage
       THEN phase' = "load" /\ offset' = offset
       ELSE phase' = phase /\ offset' = offset + PageSize
    /\ UNCHANGED <<odoo, raw, marked, wm, full, begin, ids, failures, synced, skipped, slow>>

\* advance: from nothing after a full extraction, else never backwards.
Advanced == IF full \/ top > wm THEN top ELSE wm

\* The transaction that upserts what was read, with _deleted_at NULL, and
\* saves the watermark.
Load ==
    /\ phase = "load"
    /\ phase' = "loaded"
    /\ raw' = raw \cup got
    /\ marked' = marked \ got
    /\ synced' = synced \cup current
    /\ skipped' = skipped \ current
    /\ slow' = (slow \cup {r \in changed : clock - wd[r] > Overlap}) \ current
    /\ wm' = Advanced
    /\ Forget
    /\ UNCHANGED <<odoo, full, ids, failures>>

\* Reconciliation is not due.  A full extraction always reconciles; when the
\* last one is 20 hours old any extraction does.
NotDue ==
    /\ phase = "loaded" /\ ~full
    /\ phase' = "idle"
    /\ UNCHANGED <<odoo, raw, marked, wm, extraction, ids, failures, current, synced, skipped,
                   changed, slow>>

\* reconcile_ids asks Odoo for every id, outside the transaction below.
ReadIds ==
    /\ phase = "loaded"
    /\ phase' = "ids"
    /\ ids' = live
    /\ UNCHANGED <<odoo, raw, marked, wm, extraction, failures, current, synced, skipped,
                   changed, slow>>

\* gone and back of reconcile_ids: the rows whose record is not among those
\* ids are marked, the others are not.
\* Slip: whatever Odoo does not show is marked, row or not.
NotInOdoo == Records \ ids
Gone == raw \ ids
Mark ==
    /\ phase = "ids"
    /\ phase' = "idle"
    /\ marked' = Gone
    /\ synced' = synced \ Gone
    /\ ids' = {}
    /\ UNCHANGED <<odoo, raw, wm, extraction, failures, current, skipped, changed, slow>>

\* Odoo or MySQL fails, or the process dies: what was committed stays.
Fail ==
    /\ phase # "idle" /\ failures < MaxFailures
    /\ phase' = "idle"
    /\ failures' = failures + 1
    /\ ids' = {}
    /\ Forget
    /\ UNCHANGED <<odoo, raw, marked, wm, full, synced, skipped, slow>>

(******************************* Specification *******************************)

Stamps == 0..MaxClock

Change == \E r \in Records : Leave(r) \/ \E stamp \in Stamps : Commit(r, stamp)
RunStep == (\E all \in BOOLEAN : BeginRun(all)) \/ ReadPage \/ Load \/ NotDue \/ ReadIds \/ Mark

Next == Tick \/ Change \/ RunStep \/ Fail

Spec == Init /\ [][Next]_vars

\* The clock runs, the scheduler starts the refresh again and again and its
\* steps end; a reconciliation that keeps being put off becomes due.
FairSpec == Spec /\ WF_vars(Tick) /\ WF_vars(RunStep) /\ SF_vars(ReadIds)

(******************************** Properties *********************************)

\* Whatever Odoo shows and the raw table does not (changed while it was read,
\* committed late, marked by a reconciliation that looked too early) is at or
\* above the next extraction's lower bound, so that extraction reads it.  Two
\* kinds of records are lost until a full extraction: those that slid over a
\* page boundary, and those whose transaction began longer before the load (or
\* its own commit) than the overlap reaches back.  Whatever else the pages, the
\* watermark or the reconciliation got wrong would show here.
\* (watermark.py:60-79, odoo_raw.py:95-140, odoo.py:290-317)
NothingMissed ==
    \A r \in live \ (synced \cup skipped \cup slow) : wm = Empty \/ wd[r] >= wm - Overlap

\* Once Odoo is quiet the raw table comes to mirror it: every record that did
\* not slide and was not too slow is there as it is, every row whose record is
\* gone is marked.  (odoo_raw.py:95-140)
EventuallyMirrors ==
    <>[](live \ (skipped \cup slow) \subseteq synced /\ raw \ live \subseteq marked)

=============================================================================
