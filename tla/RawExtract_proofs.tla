-------------------------- MODULE RawExtract_proofs --------------------------
(***************************************************************************)
(* What is proved of RawExtract for any set of records, any page size, any *)
(* overlap and extractions and transactions of any length: its types, and  *)
(* that nothing is missed but what slid over a page boundary and what was  *)
(* slower than the overlap.                                                *)
(***************************************************************************)
EXTENDS RawExtract, FiniteSetTheorems, TLAPS

-----------------------------------------------------------------------------
(* Places in the answer to a query *)

Below(S, r) == Cardinality({x \in S : x < r})

\* A place is a natural number, and grows with the set.
LEMMA BelowGrows ==
    ASSUME NEW T, IsFiniteSet(T), NEW S \in SUBSET T, NEW r
    PROVE  Below(S, r) \in Nat /\ Below(T, r) \in Nat /\ Below(S, r) <= Below(T, r)
<1> DEFINE A == {x \in S : x < r}
           B == {x \in T : x < r}
<1>1. B \in SUBSET T /\ A \in SUBSET B
  OBVIOUS
<1>2. IsFiniteSet(B)
  BY <1>1, FS_Subset
<1>3. IsFiniteSet(A) /\ Cardinality(A) <= Cardinality(B)
  BY <1>1, <1>2, FS_Subset
<1>4. Cardinality(A) \in Nat /\ Cardinality(B) \in Nat
  BY <1>2, <1>3, FS_CardinalityType
<1> QED
  BY <1>3, <1>4 DEF Below

\* When a leaves, those after it move up one place and no other moves.
LEMMA BelowLeave ==
    ASSUME NEW S, IsFiniteSet(S), NEW a \in S, NEW r
    PROVE  Below(S \ {a}, r) = IF a < r THEN Below(S, r) - 1 ELSE Below(S, r)
<1> DEFINE A == {x \in S : x < r}
<1>1. IsFiniteSet(A)
  <2>1. A \in SUBSET S
    OBVIOUS
  <2> QED
    BY <2>1, FS_Subset
<1>2. {x \in S \ {a} : x < r} = A \ {a}
  OBVIOUS
<1>3. Cardinality(A \ {a}) = IF a \in A THEN Cardinality(A) - 1 ELSE Cardinality(A)
  BY <1>1, FS_RemoveElement
<1>4. a \in A <=> a < r
  OBVIOUS
<1> QED
  BY <1>2, <1>3, <1>4 DEF Below

\* What the query selects is a finite set of records.
LEMMA SelectedFinite ==
    ASSUME live \subseteq Records
    PROVE  Selected \subseteq Records /\ IsFiniteSet(Selected)
<1>1. Selected \in SUBSET Records
  BY DEF Selected
<1> QED
  BY <1>1, RecordsAssumption, FS_Subset

-----------------------------------------------------------------------------
(* The inductive invariant *)

\* No date is ahead of the clock.
Times ==
    /\ wm <= clock /\ top <= clock
    /\ \A r \in Records : wd[r] <= clock

\* Between extractions their variables are empty; an empty watermark makes
\* the extraction a full one.
Locals ==
    /\ ~Extracting => offset = 0 /\ got = {} /\ current = {} /\ top = Empty /\ changed = {}
    /\ Extracting /\ wm = Empty => full

\* What was read and is no longer so has changed since the first page.
StaleHasChanged == (got \cap live) \ current \subseteq changed

\* A record is taken care of when it was read as it is, is in the raw table
\* as it is, slid, or changed since the first page.
Covered(r) == r \in current \cup synced \cup skipped \cup changed

\* So are all the records on the pages that were read.
PagesCovered ==
    /\ phase = "paging" => \A r \in Selected : Pos(r) < offset => Covered(r)
    /\ phase = "load" => \A r \in Selected : Covered(r)

\* A record that came since search_ids is in the next extraction's reach, or
\* was too slow.
LateIsRead ==
    phase = "ids" => \A r \in live \ (ids \cup slow) : wm = Empty \/ wd[r] >= wm - Overlap

IInv == TypeOK /\ Times /\ Locals /\ StaleHasChanged /\ PagesCovered /\ LateIsRead /\ NothingMissed

\* Time passes.
LEMMA TickIInv == IInv /\ Tick => IInv'
<1> SUFFICES ASSUME IInv, Tick PROVE IInv'
  OBVIOUS
<1> USE BoundsAssumption DEF IInv, Tick, extraction
<1>1. TypeOK' /\ Times' /\ Locals' /\ StaleHasChanged' /\ LateIsRead' /\ NothingMissed'
  BY DEF TypeOK, Times, Locals, StaleHasChanged, LateIsRead, NothingMissed, Extracting, Empty
<1>2. Selected' = Selected /\ \A r : Pos(r)' = Pos(r)
  BY DEF Selected, Since, Pos
<1>3. PagesCovered'
  BY <1>2 DEF PagesCovered, Covered
<1> QED
  BY <1>1, <1>3

\* A change that commits while pages are read is remembered, and moves the other
\* records to later pages, if at all.
LEMMA CommitIInv ==
    ASSUME IInv, NEW a \in Records, NEW stamp \in Stamps, Commit(a, stamp)
    PROVE  IInv'
<1> USE BoundsAssumption DEF IInv
<1>0. stamp \in Nat
  BY DEF Stamps
<1>1. TypeOK'
  BY <1>0 DEF TypeOK, Commit, extraction
<1>2. /\ \A r \in Records : r # a => wd'[r] = wd[r]
      /\ wd'[a] = stamp /\ stamp <= clock
      /\ a \notin slow' => stamp >= clock - Overlap
      /\ slow \subseteq slow' \cup {a}
  BY <1>0 DEF TypeOK, Commit
<1>3. Times' /\ Locals'
  BY <1>0, <1>2 DEF Commit, extraction, TypeOK, Times, Locals, Extracting, Empty
<1>4. Extracting => a \in changed'
  BY DEF Commit
<1>5. StaleHasChanged'
  <2>1. CASE Extracting
    BY <2>1, <1>2, <1>4 DEF Commit, extraction, TypeOK, StaleHasChanged
  <2>2. CASE ~Extracting
    BY <2>2 DEF Commit, extraction, Locals, StaleHasChanged
  <2> QED
    BY <2>1, <2>2
<1>6. LateIsRead' /\ NothingMissed'
  BY <1>0, <1>2 DEF Commit, extraction, TypeOK, Times, LateIsRead, NothingMissed, Empty
<1>7. ASSUME Extracting, NEW r \in Selected', r # a
      PROVE  r \in Selected /\ Pos(r) <= Pos(r)' /\ (Covered(r) => Covered(r)')
  <2>1. Since' = Since
    BY DEF Commit, extraction, Since
  <2>2. Selected \subseteq Selected'
    BY <1>0, <1>2, <2>1 DEF Commit, TypeOK, Selected, Since, Empty
  <2>3. Selected' \subseteq Records /\ IsFiniteSet(Selected')
    BY <1>1, RecordsAssumption, FS_Subset DEF TypeOK, Selected
  <2>4. Below(Selected, r) <= Below(Selected', r)
    BY <2>2, <2>3, BelowGrows
  <2>5. Pos(r) = Below(Selected, r) /\ Pos(r)' = Below(Selected', r)
    BY DEF Pos, Below
  <2>6. r \in Selected
    BY <1>2, <1>7, <2>1, <2>3 DEF Commit, Selected
  <2>7. Covered(r) => Covered(r)'
    BY <1>2, <1>7, <2>3 DEF Commit, extraction, Covered
  <2> QED
    BY <2>4, <2>5, <2>6, <2>7
<1>8. ASSUME NEW r \in Selected', Selected' \subseteq Records, Selected \subseteq Records
      PROVE  Pos(r)' \in Nat /\ Pos(r) \in Nat
  BY <1>8, SelectedFinite, BelowGrows, FS_Subset, RecordsAssumption DEF Pos, Below, TypeOK
<1>9. PagesCovered'
  <2>1. Selected' \subseteq Records /\ Selected \subseteq Records
    BY <1>1 DEF TypeOK, Selected
  <2>2. phase' = phase /\ offset' = offset /\ offset \in Nat
    BY DEF Commit, extraction, TypeOK
  <2>3. Extracting => \A r \in Selected' : r = a => Covered(r)'
    BY <1>4 DEF Covered
  <2> QED
    BY <1>7, <1>8, <2>1, <2>2, <2>3 DEF PagesCovered, Extracting
<1> QED
  BY <1>1, <1>3, <1>5, <1>6, <1>9

\* A record that leaves the domain moves the first unread one onto a page
\* already read: that one slid, or was read or loaded before.
LEMMA LeaveIInv ==
    ASSUME IInv, NEW a \in Records, Leave(a)
    PROVE  IInv'
<1> USE BoundsAssumption DEF IInv
<1> DEFINE slid == {x \in Selected : a < x /\ Pos(x) = offset} \ (got \cup synced)
<1>1. /\ phase = "paging" /\ a \in Selected => skipped' = (skipped \cup slid) \ {a}
      /\ ~(phase = "paging" /\ a \in Selected) => skipped' = skipped \ {a}
  BY DEF Leave
<1>2. Selected \subseteq live /\ slid \subseteq live \ synced
  BY DEF Selected
<1>3. skipped \subseteq skipped' \cup {a} /\ skipped' \subseteq live'
  BY <1>1, <1>2 DEF Leave, TypeOK
<1>4. TypeOK'
  BY <1>3 DEF TypeOK, Leave, extraction
<1>5. Times' /\ Locals' /\ StaleHasChanged'
  BY DEF Leave, extraction, TypeOK, Times, Locals, StaleHasChanged, Extracting
<1>6. LateIsRead' /\ NothingMissed'
  BY <1>3 DEF Leave, extraction, LateIsRead, NothingMissed
<1>7. /\ Selected' = Selected \ {a} /\ IsFiniteSet(Selected)
      /\ \A r \in Selected' : Covered(r) => Covered(r)'
  <2>1. Selected' = Selected \ {a}
    BY DEF Leave, extraction, Selected, Since
  <2>2. \A r \in Selected' : Covered(r) => Covered(r)'
    BY <2>1, <1>3 DEF Leave, extraction, Covered
  <2> QED
    BY <2>1, <2>2, SelectedFinite DEF TypeOK
<1>8. ASSUME phase = "paging", NEW r \in Selected', Pos(r)' < offset
      PROVE  Covered(r)'
  <2>1. /\ Pos(r) = Below(Selected, r) /\ Pos(r)' = Below(Selected \ {a}, r)
        /\ r # a /\ Pos(r) \in Nat /\ offset \in Nat
    BY <1>7, <1>8, BelowGrows DEF Pos, Below, TypeOK
  <2>2. CASE Pos(r) < offset
    BY <2>2, <1>7, <1>8 DEF PagesCovered
  <2>3. CASE Pos(r) >= offset
    <3>1. a \in Selected
      BY <2>1, <2>3, <1>7, <1>8
    <3>2. a < r /\ Pos(r) = offset
      BY <3>1, <2>1, <2>3, <1>7, <1>8, BelowLeave
    <3>3. CASE r \in slid
      BY <3>1, <3>3, <2>1, <1>1, <1>8 DEF Covered
    <3>4. CASE r \in synced
      BY <3>4, <1>7, <1>8 DEF Covered
    <3>5. CASE r \in got
      <4>1. r \in live
        BY <1>2, <1>7, <1>8
      <4>2. Covered(r)
        BY <3>5, <4>1 DEF StaleHasChanged, Covered
      <4> QED
        BY <4>2, <1>7, <1>8
    <3> QED
      BY <3>2, <3>3, <3>4, <3>5, <1>7, <1>8
  <2> QED
    BY <2>1, <2>2, <2>3
<1>9. PagesCovered'
  BY <1>7, <1>8 DEF PagesCovered, Leave, extraction
<1> QED
  BY <1>4, <1>5, <1>6, <1>9

\* The first page is still to be read.
LEMMA BeginRunIInv ==
    ASSUME IInv, NEW all \in BOOLEAN, BeginRun(all)
    PROVE  IInv'
<1> USE BoundsAssumption DEF IInv
<1>1. TypeOK' /\ Times' /\ Locals' /\ StaleHasChanged' /\ LateIsRead' /\ NothingMissed'
  BY DEF BeginRun, odoo, TypeOK, Times, Locals, StaleHasChanged, LateIsRead, NothingMissed, Extracting, Empty
<1>2. \A r \in Selected' : Pos(r)' \in Nat
  <2>1. Selected' \in SUBSET Records
    BY <1>1 DEF TypeOK, Selected
  <2> QED
    BY <2>1, RecordsAssumption, FS_Subset, BelowGrows DEF Pos, Below
<1>3. offset' = 0 /\ phase' = "paging"
  BY DEF BeginRun, Locals, Extracting
<1> QED
  BY <1>1, <1>2, <1>3 DEF PagesCovered

\* A page is read; a short one is the last.
LEMMA ReadPageIInv == IInv /\ ReadPage => IInv'
<1> SUFFICES ASSUME IInv, ReadPage PROVE IInv'
  OBVIOUS
<1> USE BoundsAssumption DEF IInv
<1>1. Page \subseteq Selected /\ Page \subseteq live /\ Page \subseteq Records
  BY DEF Page, Selected, TypeOK
<1>2. top' \in Nat \cup {Empty} /\ top' <= clock
  <2>1. \A r \in Page : Shown(wd[r]) \in Nat /\ Shown(wd[r]) <= clock
    BY <1>1 DEF Shown, TypeOK, Times
  <2> QED
    BY <2>1 DEF ReadPage, TypeOK, Times
<1>3. TypeOK'
  BY <1>1, <1>2 DEF ReadPage, odoo, TypeOK
<1>4. Times' /\ Locals' /\ StaleHasChanged' /\ LateIsRead' /\ NothingMissed'
  BY <1>1, <1>2 DEF ReadPage, odoo, TypeOK, Times, Locals, StaleHasChanged, LateIsRead, NothingMissed, Extracting
<1>5. /\ Selected' = Selected /\ \A r : Pos(r)' = Pos(r)
      /\ \A r : Covered(r) \/ r \in Page => Covered(r)'
  BY DEF ReadPage, odoo, Selected, Since, Pos, Covered
<1>6. \A r \in Selected : Pos(r) \in Nat
  BY SelectedFinite, BelowGrows DEF Pos, Below, TypeOK
<1>7. ASSUME NEW r \in Selected, Pos(r) < offset + PageSize
      PROVE  Covered(r)'
  BY <1>5, <1>6, <1>7 DEF ReadPage, Page, PagesCovered, TypeOK
<1>8. PagesCovered'
  BY <1>5, <1>6, <1>7 DEF ReadPage, ShortPage, PagesCovered, TypeOK
<1> QED
  BY <1>3, <1>4, <1>8

\* The watermark moves, to no more than now: what was not read as it is now
\* changed no earlier than the overlap or is slow, or was out of reach before and so is in the raw table.
LEMMA LoadIInv == IInv /\ Load => IInv'
<1> SUFFICES ASSUME IInv, Load PROVE IInv'
  OBVIOUS
<1> USE BoundsAssumption DEF IInv
<1>1. wm' \in Nat \cup {Empty} /\ wm' <= clock
  BY DEF Load, Advanced, TypeOK, Times
<1>2. TypeOK'
  BY <1>1 DEF Load, Forget, odoo, TypeOK
<1>3. Times' /\ Locals' /\ StaleHasChanged' /\ PagesCovered' /\ LateIsRead'
  BY <1>1 DEF Load, Forget, odoo, Times, TypeOK, Locals, StaleHasChanged, PagesCovered, LateIsRead, Extracting, Empty
<1>4. ASSUME NEW r \in live, r \notin synced', r \notin skipped', r \notin slow', wm' # Empty
      PROVE  wd[r] >= wm' - Overlap
  <2>1. r \notin current /\ r \notin synced /\ r \notin skipped /\ r \notin slow
    BY <1>4 DEF Load
  <2>2. r \in Selected
    <3>1. CASE full
      BY <3>1 DEF Selected, Since, TypeOK
    <3>2. CASE ~full
      BY <3>2, <2>1 DEF Selected, Since, NothingMissed, Locals, Extracting, Load
    <3> QED
      BY <3>1, <3>2 DEF TypeOK
  <2>3. r \in changed
    BY <2>1, <2>2 DEF PagesCovered, Covered, Load
  <2>4. clock - wd[r] <= Overlap
    BY <2>1, <2>3, <1>4 DEF Load, TypeOK
  <2> QED
    BY <2>4, <1>1, <1>4 DEF TypeOK, Empty
<1>5. NothingMissed'
  BY <1>4 DEF NothingMissed, Load, odoo
<1> QED
  BY <1>2, <1>3, <1>5

\* The reconciliation, or none: a record it marks too early came after
\* search_ids, and is read again.
LEMMA ReconcileIInv == IInv /\ (NotDue \/ ReadIds \/ Mark) => IInv'
<1> SUFFICES ASSUME IInv, NotDue \/ ReadIds \/ Mark PROVE IInv'
  OBVIOUS
<1> USE DEF IInv, odoo, extraction, Times, Locals, StaleHasChanged, PagesCovered, LateIsRead, Extracting
<1>1. CASE NotDue
  BY <1>1 DEF NotDue, TypeOK, NothingMissed
<1>2. CASE ReadIds
  BY <1>2 DEF ReadIds, TypeOK, NothingMissed
<1>3. CASE Mark
  <2>1. TypeOK'
    BY <1>3 DEF Mark, Gone, TypeOK
  <2>2. NothingMissed'
    BY <1>3 DEF Mark, Gone, NothingMissed
  <2> QED
    BY <1>3, <2>1, <2>2 DEF Mark
<1> QED
  BY <1>1, <1>2, <1>3

\* The invariant holds of every behaviour.
LEMMA IInvHolds == Spec => []IInv
<1>1. Init => IInv
  BY BoundsAssumption
  DEF Init, IInv, TypeOK, Times, Locals, StaleHasChanged, PagesCovered, LateIsRead, NothingMissed,
      Extracting, Empty
<1>2. IInv /\ Fail => IInv'
  BY BoundsAssumption
  DEF Fail, Forget, IInv, odoo, TypeOK, Times, Locals, StaleHasChanged, PagesCovered, LateIsRead,
      NothingMissed, Extracting, Empty
<1>3. ASSUME IInv, UNCHANGED vars PROVE IInv'
  <2> USE DEF IInv, vars, odoo, extraction
  <2>1. Selected' = Selected /\ \A r : Pos(r)' = Pos(r)
    BY <1>3 DEF Selected, Since, Pos
  <2> QED
    BY <1>3, <2>1 DEF TypeOK, Times, Locals, StaleHasChanged, PagesCovered, Covered, LateIsRead,
                      NothingMissed, Extracting
<1>4. IInv /\ [Next]_vars => IInv'
  BY <1>2, <1>3, TickIInv, CommitIInv, LeaveIInv, BeginRunIInv, ReadPageIInv, LoadIInv, ReconcileIInv
  DEF Next, Change, RunStep
<1> QED
  BY <1>1, <1>4, PTL DEF Spec

-----------------------------------------------------------------------------
(* Theorems *)

\* Variables keep their types; a marked row is a row, a row that mirrors its
\* record is not marked.
THEOREM RawTypeCorrect == Spec => []TypeOK
BY IInvHolds, PTL DEF IInv

\* An incremental extraction never leaves behind what a full one would fetch,
\* but for the records that slid over a page boundary and those whose last
\* change took longer, from the start of its transaction to the load that could
\* not see it, than the overlap.  How long transactions and extractions take is
\* not assumed.
\* (watermark.py:60-79, odoo_raw.py:95-140, odoo.py:290-317)
THEOREM NothingIsMissed == Spec => []NothingMissed
BY IInvHolds, PTL DEF IInv

=============================================================================
