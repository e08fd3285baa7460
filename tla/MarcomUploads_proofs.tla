------------------------ MODULE MarcomUploads_proofs ------------------------
(***************************************************************************)
(* What is proved of MarcomUploads for any number of batches, keys, files, *)
(* uploads and requests: its types, that an upload is imported once, that  *)
(* links, rows and brands stay sound, that taking a batch back costs no    *)
(* later batch what it stated, and that all of it implements MarcomLedger. *)
(*                                                                         *)
(* Only two kinds of step touch the rows: a commit (Writes) and a rollback *)
(* or removal (TakesBack).  The lemmas say what each of them does to one   *)
(* row; Inv follows from these facts, without the operators of the source. *)
(***************************************************************************)
EXTENDS MarcomUploads, WellFoundedInduction, TLAPS

\* A set of batches has a first one.
LEMMA FirstIsLeast ==
    ASSUME NEW S \in SUBSET Batches, S # {}
    PROVE  First(S) \in S /\ \A y \in S : First(S) <= y
<1> DEFINE Before == OpToRel(<, Nat)
<1>1. Batches \subseteq Nat
  BY UploadsAssumption DEF Batches
<1>2. IsWellFoundedOn(Before, Nat)
  BY NatLessThanWellFounded
<1>3. PICK x \in S : \A y \in S : <<y, x>> \notin Before
  <2> HIDE DEF Before
  <2> QED BY <1>1, <1>2, WFMin
<1>4. \A y \in S : x <= y
  <2> SUFFICES ASSUME NEW y \in S, ~ (x <= y) PROVE FALSE
    OBVIOUS
  <2>1. x \in Nat /\ y \in Nat /\ y < x
    BY <1>1
  <2>2. <<y, x>> \in Before
    <3> DEFINE p == <<y, x>>
    <3>1. p \in Nat \X Nat /\ p[1] = y /\ p[2] = x
      BY <2>1
    <3>2. p[1] < p[2]
      BY <2>1, <3>1
    <3> HIDE DEF p
    <3>3. p \in {q \in Nat \X Nat : q[1] < q[2]}
      BY <3>1, <3>2
    <3>4. Before = {q \in Nat \X Nat : q[1] < q[2]}
      BY DEF OpToRel
    <3> QED
      BY <3>3, <3>4 DEF p
  <2> QED
    BY <1>3, <2>2
<1> QED
  BY <1>4 DEF First

-----------------------------------------------------------------------------
(* The invariant of the tables *)

Owned(r)      == owner[r] # NoBatch
SameKey(r, s) == r[2] = s[2] /\ Owned(r) /\ Owned(s)

\* A request that is past the first checks names an upload; under the lock
\* that upload is not imported yet, and what was read is still so.
CommitInv ==
    /\ \A c \in Clients :
        /\ pc[c] \in {"checked", "locked", "diffed"} => upload[c] \in Uploads
        /\ pc[c] \in {"locked", "diffed"} => lock = c /\ imports[upload[c]] = 0
        /\ pc[c] = "diffed" => parsed[c] \in Files /\ diff[c] = current
    /\ \A u \in Uploads : staged[u] \in {"none", "open"} => imports[u] = 0

\* The batches are numbered in order, and those that stand have a file.
BatchInv ==
    /\ \A x, y \in Batches : x < y /\ status[y] # "none" => status[x] # "none"
    /\ \A b \in Batches : Success(b) => file[b] \in Files

\* A row was inserted by a batch that had its key, and only ever goes to a
\* later one.
RowsMade ==
    \A r \in Rows :
        /\ r \in current \/ superseded[r] # NoBatch => Owned(r)
        /\ Owned(r) =>
            /\ status[r[1]] # "none" /\ r[1] <= owner[r]
            /\ file[r[1]] \in Files /\ r[2] \in DOMAIN file[r[1]]

\* Of a key that has rows one is current, and it belongs to the last of the
\* batches that own them.
NewestIsCurrent ==
    /\ \A r, s \in Rows : SameKey(r, s) /\ r \in current => owner[s] <= owner[r]
    /\ \A r \in Rows : Owned(r) => \E s \in current : s[2] = r[2]

\* The rows of a key form a chain: a row points to the next batch that owns
\* one, and every owner but the first is pointed to.
NextInLine ==
    /\ \A r, s \in Rows :
        SameKey(r, s) /\ superseded[r] # NoBatch =>
            /\ owner[r] < superseded[r]
            /\ owner[r] < owner[s] => superseded[r] <= owner[s]
    /\ \A r, s \in Rows :
        SameKey(r, s) /\ owner[s] < owner[r] =>
            \E e \in Rows : e[2] = r[2] /\ superseded[e] = owner[r]

\* What a batch left unchanged has the value its file states, and as long as
\* it is there no batch before this one owns a newer row; of the other keys
\* of its file a standing batch owns the row it inserted.
AgreedInv ==
    \A x \in Batches :
        /\ \A s \in agreed[x] :
            /\ status[x] # "none" /\ status[s[1]] # "none"
            /\ s[2] \in DOMAIN file[x] /\ Value(s) = file[x][s[2]]
            /\ \A r \in Rows : SameKey(r, s) /\ owner[s] < owner[r] => x < owner[r]
        /\ Success(x) =>
            \A k \in DOMAIN file[x] : owner[<<x, k>>] = x \/ \E s \in agreed[x] : s[2] = k

TablesInv ==
    /\ BatchInv /\ RowsMade /\ LinksSound /\ NewestIsCurrent /\ NextInLine
    /\ AgreedInv /\ LiveIsStated

-----------------------------------------------------------------------------
(* What a commit and a removal do, row by row *)

New(b, f) == NewRows(b, f, current)
Old(f)    == Replaced(f, current)

Writes(b, f) ==
    /\ b \in Batches /\ f \in Files
    /\ Fresh(b)
    /\ status' = [status EXCEPT ![b] = "SUCCESS"]
    /\ file'   = [file EXCEPT ![b] = f]
    /\ agreed' = [agreed EXCEPT ![b] = Unchanged(f, current)]
    /\ owner'  = [r \in Rows |-> IF r \in New(b, f) THEN b ELSE owner[r]]
    /\ current' = (current \ Old(f)) \cup New(b, f)
    /\ superseded' = [r \in Rows |-> IF r \in Old(f) THEN b ELSE superseded[r]]
    /\ creator' = [x \in Brands |->
                     IF creator[x] = NoBatch /\ \E k \in DOMAIN f : Brand[f[k]] = x
                     THEN b ELSE creator[x]]

\* The batches after b whose file has the key of a row.
Naming(b, r) == {x \in Batches : b < x /\ Success(x) /\ r[2] \in DOMAIN file[x]}

TakesBack(b) ==
    /\ b \in Batches /\ Success(b)
    /\ \E verdict \in {"ROLLED_BACK", "REMOVED"} : status' = [status EXCEPT ![b] = verdict]
    /\ UNCHANGED <<file, agreed>>
    /\ \A r \in Rows :
        /\ owner[r] # b => owner'[r] = owner[r]
        /\ owner[r] = b =>
            IF r \in current /\ Naming(b, r) # {}
            THEN owner'[r] \in Naming(b, r) /\ \A x \in Naming(b, r) : owner'[r] <= x
            ELSE owner'[r] = NoBatch
        /\ superseded[r] # b =>
            superseded'[r] = IF owner'[r] = NoBatch THEN NoBatch ELSE superseded[r]
        /\ superseded[r] = b =>
            \E m \in Rows :
                /\ m[2] = r[2] /\ owner[m] = b
                /\ superseded'[r] = IF m \in current THEN owner'[m] ELSE superseded[m]
        /\ r \in current' <=> \/ r \in current /\ owner'[r] # NoBatch
                              \/ superseded[r] = b /\ superseded'[r] = NoBatch
    /\ current' \subseteq Rows
    /\ creator' = [x \in Brands |-> Creator(x, b, owner')]

\* The tables as they are, and perhaps a FAILED batch.
Quiet ==
    /\ \/ status' = status
       \/ \E b \in Batches : Fresh(b) /\ status' = [status EXCEPT ![b] = "FAILED"]
    /\ UNCHANGED <<file, agreed, rowVars>>

\* A commit finds the rows as it read them: it writes by the current ones.
LEMMA WriteWrites ==
    ASSUME TypeOK, CommitInv, NEW c \in Clients, Write(c)
    PROVE  \E b \in Batches, f \in Files : Writes(b, f)
<1>1. parsed[c] \in Files /\ diff[c] = current
  BY DEF Write, CommitInv
<1>2. PICK b \in Batches :
        /\ Fresh(b)
        /\ status'     = [status EXCEPT ![b] = "SUCCESS"]
        /\ file'       = [file EXCEPT ![b] = parsed[c]]
        /\ agreed'     = [agreed EXCEPT ![b] = Unchanged(parsed[c], diff[c])]
        /\ owner'      = [r \in Rows |-> IF r \in NewRows(b, parsed[c], diff[c]) THEN b ELSE owner[r]]
        /\ current'    = (current \ Replaced(parsed[c], diff[c])) \cup NewRows(b, parsed[c], diff[c])
        /\ superseded' = [r \in Rows |-> IF r \in Replaced(parsed[c], diff[c]) THEN b ELSE superseded[r]]
        /\ creator'    = [x \in Brands |->
                            IF creator[x] = NoBatch /\ \E k \in DOMAIN parsed[c] : Brand[parsed[c][k]] = x
                            THEN b ELSE creator[x]]
  BY DEF Write
<1>3. Writes(b, parsed[c])
  BY <1>1, <1>2 DEF Writes, New, Old
<1> QED
  BY <1>1, <1>3

\* The batches a row may go to, if it is current: those named in LaterFiles
\* whose file has its key are all whose file has it.
LEMMA TakersAreNaming ==
    ASSUME TypeOK, TablesInv, NEW b \in Batches, NEW later \in SUBSET Batches,
           later = LaterFiles(b) \/ (later = {} /\ \A x \in Batches : Success(x) => x <= b),
           NEW r \in Rows, owner[r] = b
    PROVE  Takers(r, later) = IF r \in current THEN Naming(b, r) ELSE {}
<1>1. CASE r \notin current
  BY <1>1 DEF Takers
<1>2. CASE r \in current /\ later = {} /\ \A x \in Batches : Success(x) => x <= b
  <2>1. Naming(b, r) = {}
    BY <1>2, UploadsAssumption DEF Naming, Batches
  <2> QED
    BY <1>2, <2>1 DEF Takers
<1>3. CASE r \in current /\ later = LaterFiles(b)
  <2>1. Takers(r, later) \subseteq Naming(b, r)
    BY <1>3 DEF Takers, Naming, LaterFiles
  <2>2. ASSUME NEW x \in Naming(b, r) PROVE agreed[x] # {}
    <3>1. x \in Batches /\ b < x /\ Success(x) /\ r[2] \in DOMAIN file[x]
      BY DEF Naming
    <3>2. <<x, r[2]>> \in Rows
      BY <3>1 DEF Rows
    <3>3. owner[<<x, r[2]>>] # x
      <4> SUFFICES ASSUME owner[<<x, r[2]>>] = x PROVE FALSE
        OBVIOUS
      <4>1. x <= b
        BY <1>3, <3>1, <3>2, UploadsAssumption
           DEF TablesInv, NewestIsCurrent, SameKey, Owned, NoBatch, Batches
      <4> QED
        BY <3>1, <4>1, UploadsAssumption DEF Batches
    <3> QED
      BY <3>1, <3>3 DEF TablesInv, AgreedInv
  <2> QED
    BY <1>3, <2>1, <2>2 DEF Takers, Naming, LaterFiles
<1> QED
  BY <1>1, <1>2, <1>3

\* planRemoval and applyRemoval, row by row.
LEMMA RemoveTakesBack ==
    ASSUME TypeOK, TablesInv, NEW b \in Batches, Success(b), NEW later \in SUBSET Batches,
           later = LaterFiles(b) \/ (later = {} /\ \A x \in Batches : Success(x) => x <= b),
           NEW verdict \in {"ROLLED_BACK", "REMOVED"}, Remove(b, later, verdict)
    PROVE  TakesBack(b)
<1> DEFINE H(r) == HandedTo(r, later)
           kept == {r \in Own(b) : H(r) # NoBatch}
           gone == Own(b) \ kept
<1>1. Batches \subseteq Nat /\ \A x \in Batches : x # NoBatch
  BY UploadsAssumption DEF Batches, NoBatch
<1>2. ASSUME NEW r \in Rows, owner[r] = b
      PROVE  IF r \in current /\ Naming(b, r) # {}
             THEN H(r) \in Naming(b, r) /\ \A x \in Naming(b, r) : H(r) <= x
             ELSE H(r) = NoBatch
  <2>1. Takers(r, later) = IF r \in current THEN Naming(b, r) ELSE {}
    BY <1>2, TakersAreNaming
  <2>2. Naming(b, r) \in SUBSET Batches
    BY DEF Naming
  <2> QED
    BY <2>1, <2>2, FirstIsLeast DEF HandedTo
<1>3. owner' = [r \in Rows |-> IF r \in gone THEN NoBatch ELSE IF r \in kept THEN H(r) ELSE owner[r]]
  BY DEF Remove
<1>4. \A r \in Rows : owner'[r] = IF owner[r] = b THEN H(r) ELSE owner[r]
  BY <1>3 DEF Own
<1>5. \A r \in Rows : r \in gone <=> owner[r] = b /\ H(r) = NoBatch
  BY DEF Own
<1>6. ASSUME NEW e \in Rows, superseded[e] = b
      PROVE  /\ owner[e] # b /\ owner[e] # NoBatch /\ e \notin current
             /\ \E m \in Rows :
                 /\ m[2] = e[2] /\ owner[m] = b
                 /\ Heir(e, b, later) = IF m \in current THEN H(m) ELSE superseded[m]
  <2>1. PICK m \in Rows : m[2] = e[2] /\ owner[m] = b
    BY <1>1, <1>6 DEF TablesInv, LinksSound, Own
  <2>2. owner[e] # NoBatch
    BY <1>1, <1>6 DEF TablesInv, RowsMade, Owned
  <2>3. owner[e] # b
    BY <1>1, <1>6, <2>2 DEF TablesInv, NextInLine, SameKey, Owned, TypeOK
  <2>4. e \notin current
    BY <1>1, <1>6, <2>2 DEF TablesInv, LinksSound
  <2>5. {r \in Own(b) : r[2] = e[2]} = {m}
    <3>1. \A r \in Own(b) : r[2] = e[2] => r = m
      BY <1>1, <2>1 DEF TablesInv, LinksSound, Own
    <3> QED
      BY <2>1, <3>1 DEF Own
  <2>6. (CHOOSE r \in {m} : TRUE) = m
    OBVIOUS
  <2>7. Heir(e, b, later) = IF m \in current THEN H(m) ELSE superseded[m]
    BY <2>5, <2>6 DEF Heir
  <2> QED
    BY <2>1, <2>2, <2>3, <2>4, <2>7
<1>7. superseded' = [r \in Rows |-> IF r \in gone THEN NoBatch
                                    ELSE IF r \in Earlier(b) THEN Heir(r, b, later) ELSE superseded[r]]
  BY DEF Remove
<1>8. ASSUME NEW r \in Rows, superseded[r] = b
      PROVE  superseded'[r] = Heir(r, b, later)
  BY <1>5, <1>6, <1>7, <1>8 DEF Earlier
<1>9. ASSUME NEW r \in Rows, superseded[r] # b
      PROVE  superseded'[r] = IF owner'[r] = NoBatch THEN NoBatch ELSE superseded[r]
  <2>1. superseded'[r] = IF r \in gone THEN NoBatch ELSE superseded[r]
    BY <1>7, <1>9 DEF Earlier
  <2>2. owner[r] = NoBatch => superseded[r] = NoBatch
    BY DEF TablesInv, RowsMade, Owned
  <2>3. owner'[r] = NoBatch <=> r \in gone \/ owner[r] = NoBatch
    BY <1>1, <1>4, <1>5
  <2> QED
    BY <2>1, <2>2, <2>3
<1>10. current' = (current \ gone) \cup {r \in Earlier(b) : Heir(r, b, later) = NoBatch}
  BY DEF Remove
<1>11. ASSUME NEW r \in Rows
       PROVE  r \in current' <=> \/ r \in current /\ owner'[r] # NoBatch
                                 \/ superseded[r] = b /\ superseded'[r] = NoBatch
  <2>1. r \in current => owner[r] # NoBatch
    BY DEF TablesInv, RowsMade, Owned
  <2>2. r \in current => (r \in gone <=> owner'[r] = NoBatch)
    BY <1>1, <1>4, <1>5, <2>1
  <2> QED
    BY <1>8, <1>10, <2>2 DEF Earlier
<1>12. current' \subseteq Rows
  BY <1>10 DEF Earlier, TypeOK
<1>13. creator' = [x \in Brands |-> Creator(x, b, owner')]
  BY <1>3 DEF Remove
<1>14. \A r \in Rows : superseded[r] = b =>
         \E m \in Rows :
             /\ m[2] = r[2] /\ owner[m] = b
             /\ superseded'[r] = IF m \in current THEN owner'[m] ELSE superseded[m]
  BY <1>4, <1>6, <1>8
<1>15. UNCHANGED <<file, agreed>> /\ status' = [status EXCEPT ![b] = verdict]
  BY DEF Remove
<1>16. ASSUME NEW r \in Rows
       PROVE  /\ owner[r] # b => owner'[r] = owner[r]
              /\ owner[r] = b =>
                  IF r \in current /\ Naming(b, r) # {}
                  THEN owner'[r] \in Naming(b, r) /\ \A x \in Naming(b, r) : owner'[r] <= x
                  ELSE owner'[r] = NoBatch
  <2> HIDE DEF H
  <2> QED
    BY <1>2, <1>4
<1> HIDE DEF H, kept, gone
<1> QED
  BY <1>9, <1>11, <1>12, <1>13, <1>14, <1>15, <1>16 DEF TakesBack

-----------------------------------------------------------------------------
(* Types, and the requests under way *)

\* Only the lock holder is past the first checks, and Leave frees the lock.
LEMMA CommitStep ==
    ASSUME TypeOK, CommitInv, [Next]_vars
    PROVE  TypeOK' /\ CommitInv'
<1> USE UploadsAssumption
<1>1. ASSUME NEW u \in Uploads, NEW f \in Files, Validate(u, f) PROVE TypeOK' /\ CommitInv'
  BY <1>1 DEF TypeOK, CommitInv, Validate, batchVars, rowVars, clientVars
<1>2. ASSUME NEW u \in Uploads, Expire(u) PROVE TypeOK' /\ CommitInv'
  BY <1>2 DEF TypeOK, CommitInv, Expire, batchVars, rowVars, clientVars
<1>3. ASSUME NEW u \in Uploads, CleanupFile(u) PROVE TypeOK' /\ CommitInv'
  BY <1>3 DEF TypeOK, CommitInv, CleanupFile, batchVars, rowVars, clientVars
<1>4. ASSUME NEW c \in Clients, NEW u \in Uploads, PreCheck(c, u) PROVE TypeOK' /\ CommitInv'
  BY <1>4 DEF TypeOK, CommitInv, PreCheck, batchVars, rowVars, stagedVars
<1>5. ASSUME NEW c \in Clients, TakeLock(c) PROVE TypeOK' /\ CommitInv'
  BY <1>5 DEF TypeOK, CommitInv, TakeLock, batchVars, rowVars, stagedVars
<1>6. ASSUME NEW c \in Clients, Refused(c) PROVE TypeOK' /\ CommitInv'
  BY <1>6 DEF TypeOK, CommitInv, Refused, Leave, batchVars, rowVars, stagedVars
<1>7. ASSUME NEW c \in Clients, Diff(c) PROVE TypeOK' /\ CommitInv'
  BY <1>7 DEF TypeOK, CommitInv, Diff, batchVars, rowVars, stagedVars
<1>8. ASSUME NEW c \in Clients, Write(c) PROVE TypeOK' /\ CommitInv'
  <2>1. parsed[c] \in Files /\ diff[c] = current /\ upload[c] \in Uploads
         /\ lock = c /\ imports[upload[c]] = 0 /\ imports \in [Uploads -> Nat]
    BY <1>8 DEF Write, CommitInv, TypeOK
  <2>2. \E b \in Batches, f \in Files : Writes(b, f)
    BY <1>8, WriteWrites
  <2>3. PICK b \in Batches, f \in Files : Writes(b, f)
    BY <2>2
  <2>4. DOMAIN f \subseteq Keys
    BY <2>3
  <2>5. New(b, f) \subseteq Rows /\ Unchanged(f, current) \subseteq Rows
    BY <2>3, <2>4 DEF New, NewRows, Unchanged, Rows, TypeOK
  <2>6. /\ status' \in [Batches -> {"none", "SUCCESS", "FAILED", "ROLLED_BACK", "REMOVED"}]
        /\ file' \in [Batches -> Files \cup {NoFile}]
        /\ agreed' \in [Batches -> SUBSET Rows]
        /\ owner' \in [Rows -> Batches \cup {NoBatch}]
        /\ current' \subseteq Rows
        /\ superseded' \in [Rows -> Batches \cup {NoBatch}]
        /\ creator' \in [Brands -> Batches \cup {NoBatch}]
    BY <2>3, <2>5 DEF Writes, TypeOK
  <2>7. \E at \in {"idle", "lostAnswer"} :
          /\ disk' \in [Uploads -> Files \cup {NoFile}]
          /\ Leave(c, at)
    BY <1>8 DEF Write, TypeOK
  <2>8. /\ staged' \in [Uploads -> {"none", "open", "consumed", "expired"}]
        /\ imports' \in [Uploads -> Nat]
    BY <1>8, <2>1 DEF Write, TypeOK
  <2>9. TypeOK'
    BY <2>6, <2>7, <2>8 DEF TypeOK, Leave
  <2>10. \A d \in Clients : d # c => pc[d] \notin {"locked", "diffed"}
    BY <2>1 DEF CommitInv
  <2>11. /\ \A d \in Clients : d # c => pc'[d] = pc[d] /\ upload'[d] = upload[d]
         /\ pc'[c] \in {"idle", "lostAnswer"}
    BY <2>7 DEF Leave, TypeOK
  <2>12. \A u \in Uploads : u # upload[c] => staged'[u] = staged[u] /\ imports'[u] = imports[u]
    BY <1>8 DEF Write, TypeOK
  <2>13. staged'[upload[c]] = "consumed"
    BY <1>8, <2>1 DEF Write, TypeOK
  <2>14. CommitInv'
    BY <2>10, <2>11, <2>12, <2>13 DEF CommitInv
  <2> QED
    BY <2>9, <2>14
<1>9. ASSUME NEW c \in Clients, CommitFails(c) PROVE TypeOK' /\ CommitInv'
  BY <1>9 DEF TypeOK, CommitInv, CommitFails, Leave, batchVars, rowVars, stagedVars
<1>10. CASE ApiDies
  BY <1>10 DEF TypeOK, CommitInv, ApiDies, batchVars, rowVars, stagedVars
<1>11. ASSUME NEW b \in Batches, NEW later \in SUBSET Batches,
              NEW verdict \in {"ROLLED_BACK", "REMOVED"}, Remove(b, later, verdict)
       PROVE  TypeOK' /\ CommitInv'
  <2> DEFINE kept == {r \in Own(b) : HandedTo(r, later) # NoBatch}
             gone == Own(b) \ kept
  <2>1. \A r \in Rows : HandedTo(r, later) \in Batches \cup {NoBatch}
    <3>1. \A r \in Rows : Takers(r, later) \in SUBSET Batches
      BY DEF Takers
    <3> QED
      BY <3>1, FirstIsLeast DEF HandedTo
  <2>2. \A e \in Rows : Heir(e, b, later) \in Batches \cup {NoBatch}
    <3> SUFFICES ASSUME NEW e \in Rows PROVE Heir(e, b, later) \in Batches \cup {NoBatch}
      OBVIOUS
    <3> DEFINE mine   == {r \in Own(b) : r[2] = e[2]}
               others == {r \in current \ Own(b) : r[2] = e[2]}
    <3>1. mine \subseteq Rows /\ others \subseteq Rows
      BY DEF Own, TypeOK
    <3>2. mine # {} => (CHOOSE r \in mine : TRUE) \in Rows
      BY <3>1
    <3>3. others # {} => (CHOOSE r \in others : TRUE) \in Rows
      BY <3>1
    <3> HIDE DEF mine, others
    <3>4. mine # {} => HandedTo(CHOOSE r \in mine : TRUE, later) \in Batches \cup {NoBatch}
      BY <2>1, <3>2
    <3>5. mine # {} => superseded[CHOOSE r \in mine : TRUE] \in Batches \cup {NoBatch}
      BY <3>2 DEF TypeOK
    <3>6. others # {} => owner[CHOOSE r \in others : TRUE] \in Batches \cup {NoBatch}
      BY <3>3 DEF TypeOK
    <3> QED
      BY <3>4, <3>5, <3>6 DEF Heir, mine, others
  <2>3. owner' \in [Rows -> Batches \cup {NoBatch}]
    <3>1. owner' = [r \in Rows |-> IF r \in gone THEN NoBatch
                                   ELSE IF r \in kept THEN HandedTo(r, later) ELSE owner[r]]
      BY <1>11 DEF Remove
    <3> HIDE DEF gone, kept
    <3> QED
      BY <2>1, <3>1 DEF TypeOK
  <2>4. current' \subseteq Rows
    BY <1>11 DEF Remove, Earlier, TypeOK
  <2>5. superseded' \in [Rows -> Batches \cup {NoBatch}]
    <3>1. superseded' = [r \in Rows |-> IF r \in gone THEN NoBatch
                                        ELSE IF r \in Earlier(b) THEN Heir(r, b, later) ELSE superseded[r]]
      BY <1>11 DEF Remove
    <3> HIDE DEF gone, kept
    <3> QED
      BY <2>2, <3>1 DEF TypeOK
  <2>6. creator' \in [Brands -> Batches \cup {NoBatch}]
    <3>1. creator' = [x \in Brands |-> Creator(x, b, owner')]
      BY <1>11 DEF Remove
    <3>2. ASSUME NEW x \in Brands PROVE Creator(x, b, owner') \in Batches \cup {NoBatch}
      <4> DEFINE users == {owner'[r] : r \in {r \in Rows : owner'[r] # NoBatch /\ Brand[Value(r)] = x}}
      <4>1. users \in SUBSET Batches
        BY <2>3
      <4>2. users # {} => First(users) \in Batches
        <5> HIDE DEF users
        <5> QED
          BY <4>1, FirstIsLeast
      <4>3. creator[x] \in Batches \cup {NoBatch}
        BY DEF TypeOK
      <4> QED
        BY <4>2, <4>3 DEF Creator
    <3> QED
      BY <3>1, <3>2
  <2>7. status' \in [Batches -> {"none", "SUCCESS", "FAILED", "ROLLED_BACK", "REMOVED"}]
    BY <1>11 DEF Remove, TypeOK
  <2>8. UNCHANGED <<file, agreed, stagedVars, clientVars, imports>> /\ lock = NoClient
    BY <1>11 DEF Remove
  <2>9. TypeOK'
    BY <2>3, <2>4, <2>5, <2>6, <2>7, <2>8 DEF TypeOK, stagedVars, clientVars
  <2>10. CommitInv'
    BY <2>8 DEF CommitInv, stagedVars, clientVars
  <2> QED
    BY <2>9, <2>10
<1>12. ASSUME NEW b \in Batches, RollbackBatch(b) PROVE TypeOK' /\ CommitInv'
  <2>1. {} \in SUBSET Batches /\ Remove(b, {}, "ROLLED_BACK")
    BY <1>12 DEF RollbackBatch
  <2> QED
    BY <1>11, <2>1
<1>13. ASSUME NEW b \in Batches, RemoveBatch(b) PROVE TypeOK' /\ CommitInv'
  <2>1. LaterFiles(b) \in SUBSET Batches /\ Remove(b, LaterFiles(b), "REMOVED")
    BY <1>13 DEF RemoveBatch, LaterFiles
  <2> QED
    BY <1>11, <2>1
<1>14. CASE UNCHANGED vars
  BY <1>14 DEF TypeOK, CommitInv, vars, batchVars, rowVars, stagedVars, clientVars
<1> QED
  BY <1>1, <1>2, <1>3, <1>4, <1>5, <1>6, <1>7, <1>8, <1>9, <1>10, <1>12, <1>13, <1>14 DEF Next

-----------------------------------------------------------------------------
(* The tables *)

\* Every step is a commit, a removal, or leaves the tables as they are.
LEMMA StepKinds ==
    ASSUME TypeOK, CommitInv, TablesInv, [Next]_vars
    PROVE  \/ \E b \in Batches, f \in Files : Writes(b, f)
           \/ \E b \in Batches : TakesBack(b)
           \/ Quiet
<1>1. ASSUME NEW u \in Uploads,
             Expire(u) \/ CleanupFile(u) \/ \E f \in Files : Validate(u, f)
      PROVE  Quiet
  BY <1>1 DEF Expire, CleanupFile, Validate, Quiet, batchVars
<1>2. ASSUME NEW c \in Clients,
             \/ \E u \in Uploads : PreCheck(c, u)
             \/ TakeLock(c) \/ Refused(c) \/ Diff(c)
      PROVE  Quiet
  BY <1>2 DEF PreCheck, TakeLock, Refused, Diff, Quiet, batchVars
<1>3. ASSUME NEW c \in Clients, CommitFails(c) PROVE Quiet
  BY <1>3 DEF CommitFails, Quiet
<1>4. CASE ApiDies
  BY <1>4 DEF ApiDies, Quiet, batchVars
<1>5. ASSUME NEW b \in Batches, RollbackBatch(b) PROVE TakesBack(b)
  <2>1. {} \in SUBSET Batches /\ "ROLLED_BACK" \in {"ROLLED_BACK", "REMOVED"}
    OBVIOUS
  <2> QED
    BY <1>5, <2>1, RemoveTakesBack DEF RollbackBatch
<1>6. ASSUME NEW b \in Batches, RemoveBatch(b) PROVE TakesBack(b)
  <2>1. LaterFiles(b) \in SUBSET Batches /\ "REMOVED" \in {"ROLLED_BACK", "REMOVED"}
    BY DEF LaterFiles
  <2> QED
    BY <1>6, <2>1, RemoveTakesBack DEF RemoveBatch
<1>7. CASE UNCHANGED vars
  BY <1>7 DEF Quiet, vars, batchVars
<1> QED
  BY <1>1, <1>2, <1>3, <1>4, <1>5, <1>6, <1>7, WriteWrites DEF Next

\* What a commit finds for the keys of its file: the number it takes is
\* new, and of a key it changes it replaces the current row.
LEMMA WriteFacts ==
    ASSUME TypeOK, TablesInv, NEW b \in Batches, NEW f \in Files, Writes(b, f)
    PROVE  /\ status[b] = "none"
           /\ \A x \in Batches : status[x] # "none" => x < b
           /\ \A r \in Rows : owner[r] < b /\ superseded[r] < b
           /\ New(b, f) \subseteq Rows /\ Old(f) \subseteq current
           /\ \A r \in New(b, f) :
                /\ r = <<b, r[2]>> /\ r[1] = b /\ r[2] \in DOMAIN f
                /\ ~ Owned(r) /\ r \notin current /\ superseded[r] = NoBatch
                /\ \A x \in current : x[2] = r[2] => x \in Old(f)
           /\ \A r \in Old(f) : <<b, r[2]>> \in New(b, f)
           /\ \A k \in DOMAIN f : <<b, k>> \in New(b, f) \/ \E x \in Unchanged(f, current) : x[2] = k
           /\ \A x \in Unchanged(f, current), r \in New(b, f) : x[2] # r[2]
<1>1. b \in Nat /\ Batches \subseteq Nat /\ NoBatch \notin Batches /\ NoBatch < b /\ DOMAIN f \subseteq Keys
  BY UploadsAssumption DEF Batches, NoBatch
<1>2. status[b] = "none" /\ \A x \in Batches : status[x] # "none" => x < b
  <2>1. status[b] = "none"
    BY DEF Writes, Fresh
  <2>2. ASSUME NEW x \in Batches, status[x] # "none" PROVE x < b
    <3>1. ~ (b < x) /\ x # b
      BY <2>1, <2>2 DEF TablesInv, BatchInv
    <3> QED
      BY <1>1, <3>1
  <2> QED
    BY <2>1, <2>2
<1>3. ASSUME NEW r \in Rows PROVE owner[r] < b /\ superseded[r] < b
  <2>1. owner[r] \in Batches => status[owner[r]] # "none"
    BY <1>1 DEF TablesInv, LiveIsStated, Success
  <2>2. superseded[r] \in Batches => status[superseded[r]] # "none"
    BY <1>1 DEF TablesInv, LinksSound, Success
  <2> QED
    BY <1>1, <1>2, <2>1, <2>2 DEF TypeOK
<1>4. New(b, f) \subseteq Rows /\ Old(f) \subseteq current
  BY <1>1 DEF New, Old, NewRows, Replaced, Rows
<1>5. ASSUME NEW r \in New(b, f)
      PROVE  /\ r = <<b, r[2]>> /\ r[1] = b /\ r[2] \in DOMAIN f
             /\ ~ Owned(r) /\ r \notin current /\ superseded[r] = NoBatch
             /\ \A x \in current : x[2] = r[2] => x \in Old(f)
  <2>1. r = <<b, r[2]>> /\ r[1] = b /\ r[2] \in DOMAIN f /\ \A x \in Unchanged(f, current) : x[2] # r[2]
    BY DEF New, NewRows
  <2>2. ~ Owned(r)
    BY <1>2, <1>4, <2>1 DEF TablesInv, RowsMade
  <2>3. r \notin current /\ superseded[r] = NoBatch
    BY <1>4, <2>2 DEF TablesInv, RowsMade
  <2>4. \A x \in current : x[2] = r[2] => x \in Old(f)
    BY <2>1 DEF Unchanged, Old, Replaced
  <2> QED
    BY <2>1, <2>2, <2>3, <2>4
<1>6. ASSUME NEW r \in Old(f) PROVE <<b, r[2]>> \in New(b, f)
  <2>1. r \in current /\ r \in Rows /\ r[2] \in DOMAIN f /\ Value(r) # f[r[2]]
    BY <1>4 DEF Old, Replaced, TypeOK
  <2>2. ASSUME NEW x \in Unchanged(f, current), x[2] = r[2] PROVE FALSE
    <3>1. x \in current /\ x \in Rows /\ Value(x) = f[x[2]]
      BY DEF Unchanged, TypeOK
    <3>2. x # r
      BY <2>1, <2>2, <3>1
    <3> QED
      BY <2>1, <2>2, <3>1, <3>2 DEF TablesInv, LinksSound, RowsMade, Owned
  <2> QED
    BY <2>1, <2>2 DEF New, NewRows
<1>7. ASSUME NEW k \in DOMAIN f
      PROVE  <<b, k>> \in New(b, f) \/ \E x \in Unchanged(f, current) : x[2] = k
  BY DEF New, NewRows
<1>8. \A x \in Unchanged(f, current), r \in New(b, f) : x[2] # r[2]
  BY DEF New, NewRows
<1> QED
  BY <1>2, <1>3, <1>4, <1>5, <1>6, <1>7, <1>8

LEMMA QuietStep ==
    ASSUME TypeOK, TablesInv, Quiet
    PROVE  TablesInv'
<1>1. \A x \in Batches : status'[x] # status[x] => ~ Success(x) /\ ~ Success(x)' /\ status'[x] # "none"
  BY DEF Quiet, Fresh, Success, TypeOK
<1>2. /\ \A x \in Batches : Success(x) <=> Success(x)'
      /\ \A x \in Batches : status[x] # "none" => status'[x] # "none"
  BY <1>1 DEF Success
<1>3. UNCHANGED <<file, agreed, owner, current, superseded, creator>>
  BY DEF Quiet, rowVars
<1>4. Batches \subseteq Nat /\ NoBatch \notin Batches
  BY UploadsAssumption DEF Batches, NoBatch
<1>5. BatchInv'
  <2>1. CASE status' = status
    BY <1>2, <1>3, <2>1 DEF TablesInv, BatchInv
  <2>2. ASSUME NEW b \in Batches, Fresh(b), status' = [status EXCEPT ![b] = "FAILED"]
        PROVE  BatchInv'
    BY <1>2, <1>3, <2>2 DEF TablesInv, BatchInv, Fresh, TypeOK
  <2> QED
    BY <2>1, <2>2 DEF Quiet
<1>6. RowsMade'
  BY <1>2, <1>3 DEF TablesInv, RowsMade, Owned, Rows
<1>7. LinksSound'
  <2>1. \A r \in Rows : superseded[r] # NoBatch => superseded[r] \in Batches
    BY DEF TypeOK
  <2>2. \A r \in Rows : superseded'[r] # NoBatch =>
          Success(superseded[r])' /\ \E m \in Rows : owner'[m] = superseded'[r] /\ m[2] = r[2]
    BY <1>2, <1>3, <2>1 DEF TablesInv, LinksSound, Own, Success
  <2>3. LinksSound => \A r, s \in Rows :
          /\ owner[r] # NoBatch => (r \in current <=> superseded[r] = NoBatch)
          /\ r # s /\ r[2] = s[2] /\ owner[r] # NoBatch /\ owner[s] # NoBatch =>
               owner[r] # owner[s] /\ superseded[r] # superseded[s]
    BY DEF LinksSound
  <2> QED
    BY <1>3, <2>2, <2>3 DEF TablesInv, LinksSound, Own
<1>8. NewestIsCurrent' /\ NextInLine'
  BY <1>3 DEF TablesInv, NewestIsCurrent, NextInLine, SameKey, Owned
<1>9. AgreedInv'
  BY <1>2, <1>3 DEF TablesInv, AgreedInv, SameKey, Owned, Value, TypeOK, Rows
<1>10. LiveIsStated'
  BY <1>2, <1>3, <1>4 DEF TablesInv, LiveIsStated, Value, Bereft, TypeOK
<1> QED
  BY <1>5, <1>6, <1>7, <1>8, <1>9, <1>10 DEF TablesInv

\* A commit adds its rows at the end of the chains of their keys.
LEMMA WriteStep ==
    ASSUME TypeOK, TablesInv, NEW b \in Batches, NEW f \in Files, Writes(b, f)
    PROVE  TablesInv'
<1> DEFINE N == New(b, f)
           O == Old(f)
           U == Unchanged(f, current)
<1>1. b \in Nat /\ b # NoBatch /\ NoBatch \notin Batches /\ Batches \subseteq Nat /\ NoBatch = 0
  BY UploadsAssumption DEF Batches, NoBatch
<1>2. \A r \in Rows : owner[r] \in Nat /\ superseded[r] \in Nat /\ r[1] \in Batches /\ r = <<r[1], r[2]>>
  <2>1. \A r \in Rows : r[1] \in Batches /\ r = <<r[1], r[2]>>
    BY DEF Rows
  <2>2. \A r \in Rows : owner[r] \in Nat /\ superseded[r] \in Nat
    <3>1. \A r \in Rows : owner[r] \in Batches \cup {NoBatch} /\ superseded[r] \in Batches \cup {NoBatch}
      BY DEF TypeOK
    <3>2. Batches \cup {NoBatch} \subseteq Nat
      BY <1>1
    <3> QED
      BY <3>1, <3>2
  <2> QED
    BY <2>1, <2>2
<1>3. current \subseteq Rows /\ N \subseteq Rows /\ O \subseteq current /\ U \subseteq current
  BY WriteFacts DEF TypeOK, Unchanged
<1>4. /\ status[b] = "none" /\ \A x \in Batches : status[x] # "none" => x < b
      /\ \A r \in Rows : owner[r] < b /\ superseded[r] < b
      /\ \A r \in N : /\ r = <<b, r[2]>> /\ r[1] = b /\ r[2] \in DOMAIN f
                      /\ ~ Owned(r) /\ r \notin current /\ superseded[r] = NoBatch
                      /\ \A x \in current : x[2] = r[2] => x \in O
      /\ \A r \in O : <<b, r[2]>> \in N
      /\ \A k \in DOMAIN f : <<b, k>> \in N \/ \E x \in U : x[2] = k
      /\ \A x \in U, r \in N : x[2] # r[2]
  BY WriteFacts
<1>5. /\ status' = [status EXCEPT ![b] = "SUCCESS"]
      /\ file'   = [file EXCEPT ![b] = f]
      /\ agreed' = [agreed EXCEPT ![b] = U]
      /\ owner'  = [r \in Rows |-> IF r \in N THEN b ELSE owner[r]]
      /\ current' = (current \ O) \cup N
      /\ superseded' = [r \in Rows |-> IF r \in O THEN b ELSE superseded[r]]
  BY DEF Writes
<1> HIDE DEF N, O, U
<1>6. /\ \A x \in Batches : Success(x)' <=> Success(x) \/ x = b
      /\ \A x \in Batches : status[x] # "none" => status'[x] # "none" /\ x # b
      /\ \A x \in Batches : x # b => status'[x] = status[x]
      /\ \A x \in Batches : x # b => file'[x] = file[x] /\ agreed'[x] = agreed[x]
      /\ file'[b] = f /\ agreed'[b] = U /\ status'[b] # "none" /\ status'[b] = "SUCCESS"
  BY <1>4, <1>5 DEF Success, TypeOK
<1>7. /\ \A r \in N : owner'[r] = b /\ superseded'[r] = NoBatch /\ r \in current'
      /\ \A r \in O : owner'[r] = owner[r] /\ superseded'[r] = b /\ r \notin current'
      /\ \A r \in Rows : r \notin N => owner'[r] = owner[r]
      /\ \A r \in Rows : r \notin O => superseded'[r] = superseded[r]
      /\ \A r \in Rows : r \notin O /\ r \notin N => (r \in current' <=> r \in current)
  BY <1>3, <1>4, <1>5
<1>8. \A r \in Rows : (Owned(r)' <=> Owned(r) \/ r \in N)
  BY <1>1, <1>7 DEF Owned
<1>9. /\ \A r \in Rows : Owned(r) => owner[r] \in Batches /\ owner[r] # b /\ status[r[1]] # "none" /\ r[1] # b
      /\ \A r \in current : Owned(r) /\ superseded[r] = NoBatch
      /\ \A r \in Rows : superseded[r] # NoBatch => Owned(r)
  BY <1>1, <1>2, <1>3, <1>4 DEF TablesInv, RowsMade, LinksSound, Owned, TypeOK
<1>10. \A r \in Rows : status[r[1]] # "none" => r \notin N /\ Value(r)' = Value(r)
  BY <1>2, <1>4, <1>6 DEF Value
<1>11. BatchInv'
  <2>1. \A x \in Batches : x < b => status[x] # "none"
    BY DEF Writes, Fresh
  <2>2. \A x, y \in Batches : x < y /\ status'[y] # "none" => status'[x] # "none"
    BY <1>1, <1>4, <1>6, <2>1 DEF TablesInv, BatchInv
  <2>3. \A x \in Batches : Success(x)' => file'[x] \in Files
    BY <1>6 DEF TablesInv, BatchInv
  <2> QED
    BY <2>2, <2>3 DEF BatchInv
<1>12. RowsMade'
  <2> SUFFICES ASSUME NEW r \in Rows
               PROVE  /\ r \in current' \/ superseded'[r] # NoBatch => Owned(r)'
                      /\ Owned(r)' => /\ status'[r[1]] # "none" /\ r[1] <= owner'[r]
                                      /\ file'[r[1]] \in Files /\ r[2] \in DOMAIN file'[r[1]]
    BY DEF RowsMade
  <2>1. CASE r \in N
    BY <1>1, <1>4, <1>6, <1>7, <1>8, <2>1
  <2>2. CASE r \in O
    BY <1>2, <1>3, <1>6, <1>7, <1>8, <1>9, <2>2 DEF TablesInv, RowsMade
  <2>3. CASE r \notin N /\ r \notin O
    BY <1>2, <1>6, <1>7, <1>8, <1>9, <2>3 DEF TablesInv, RowsMade
  <2> QED
    BY <2>1, <2>2, <2>3
<1>13. LinksSound'
  <2>1. ASSUME NEW r \in Rows
        PROVE  /\ superseded'[r] # NoBatch =>
                   /\ Success(superseded[r])'
                   /\ \E m \in Rows : owner'[m] = superseded'[r] /\ m[2] = r[2]
               /\ owner'[r] # NoBatch => (r \in current' <=> superseded'[r] = NoBatch)
    <3>1. CASE r \in O
      <4>1. <<b, r[2]>> \in N /\ <<b, r[2]>> \in Rows
        BY <1>3, <1>4, <3>1
      <4> QED
        BY <1>1, <1>6, <1>7, <3>1, <4>1 DEF Success
    <3>2. CASE r \in N
      BY <1>7, <3>2
    <3>3. CASE r \notin O /\ r \notin N
      <4>1. superseded'[r] = superseded[r] /\ owner'[r] = owner[r] /\ (r \in current' <=> r \in current)
        BY <1>7, <3>3
      <4>2. ASSUME superseded[r] # NoBatch
            PROVE  Success(superseded[r])' /\ \E m \in Rows : owner'[m] = superseded[r] /\ m[2] = r[2]
        <5>1. PICK m \in Rows : owner[m] = superseded[r] /\ m[2] = r[2]
          BY <4>2 DEF TablesInv, LinksSound, Own
        <5>2. m \notin N
          BY <1>4, <4>2, <5>1 DEF Owned
        <5>3. Success(superseded[r]) /\ superseded[r] \in Batches
          BY <4>2 DEF TablesInv, LinksSound, TypeOK
        <5> QED
          BY <1>6, <1>7, <4>1, <5>1, <5>2, <5>3 DEF Success
      <4> QED
        BY <4>1, <4>2 DEF TablesInv, LinksSound
    <3> QED
      BY <3>1, <3>2, <3>3
  <2>2. ASSUME NEW r \in Rows, NEW s \in Rows, r # s, r[2] = s[2], owner'[r] # NoBatch, owner'[s] # NoBatch
        PROVE  owner'[r] # owner'[s] /\ superseded'[r] # superseded'[s]
    <3>1. ~ (r \in N /\ s \in N)
      BY <1>4, <2>2
    <3>2. ASSUME NEW x \in Rows, NEW y \in Rows, x[2] = y[2], x \in N, y \notin N, owner'[y] # NoBatch
          PROVE  owner'[x] # owner'[y] /\ superseded'[x] # superseded'[y]
      <4>1. owner'[x] = b /\ superseded'[x] = NoBatch /\ owner'[y] = owner[y]
        BY <1>7, <3>2
      <4>2. y \in current => y \in O
        BY <1>4, <3>2
      <4>3. y \notin current => superseded[y] # NoBatch /\ y \notin O
        BY <1>3, <3>2, <4>1 DEF TablesInv, LinksSound
      <4> QED
        BY <1>1, <1>2, <1>4, <1>7, <4>1, <4>2, <4>3
    <3>3. CASE r \notin N /\ s \notin N
      <4>1. owner'[r] = owner[r] /\ owner'[s] = owner[s]
        BY <1>7, <3>3
      <4>2. owner[r] # owner[s] /\ superseded[r] # superseded[s]
        BY <2>2, <4>1 DEF TablesInv, LinksSound
      <4> QED
        BY <1>1, <1>2, <1>3, <1>4, <1>7, <1>9, <4>1, <4>2
    <3> QED
      BY <2>2, <3>1, <3>2, <3>3
  <2> QED
    BY <2>1, <2>2 DEF LinksSound, Own
<1>14. NewestIsCurrent'
  <2>1. ASSUME NEW r \in Rows, NEW s \in Rows, SameKey(r, s)', r \in current'
        PROVE  owner'[s] <= owner'[r]
    <3>1. owner'[s] <= b
      BY <1>1, <1>2, <1>4, <1>7
    <3>2. r \in N => owner'[s] <= owner'[r]
      BY <1>7, <3>1
    <3>3. ASSUME r \notin N
          PROVE  owner'[s] <= owner'[r]
      <4>1. r \in current /\ r \notin O
        BY <1>5, <2>1, <3>3
      <4>2. s \notin N
        BY <1>4, <2>1, <4>1 DEF SameKey
      <4>3. owner'[s] = owner[s] /\ owner'[r] = owner[r] /\ SameKey(r, s)
        BY <1>7, <1>8, <2>1, <3>3, <4>2 DEF SameKey
      <4> QED
        BY <4>1, <4>3 DEF TablesInv, NewestIsCurrent
    <3> QED
      BY <3>2, <3>3
  <2>2. ASSUME NEW r \in Rows, Owned(r)'
        PROVE  \E s \in current' : s[2] = r[2]
    <3>1. CASE r \in N
      BY <1>7, <3>1
    <3>2. CASE r \notin N
      <4>1. PICK s \in current : s[2] = r[2]
        BY <1>8, <2>2, <3>2 DEF TablesInv, NewestIsCurrent
      <4>2. s \in O => <<b, s[2]>> \in N
        BY <1>4
      <4> QED
        BY <1>5, <4>1, <4>2
    <3> QED
      BY <3>1, <3>2
  <2> QED
    BY <2>1, <2>2 DEF NewestIsCurrent
<1>15. NextInLine'
  <2>1. ASSUME NEW r \in Rows, NEW s \in Rows, SameKey(r, s)', superseded'[r] # NoBatch
        PROVE  owner'[r] < superseded'[r] /\ (owner'[r] < owner'[s] => superseded'[r] <= owner'[s])
    <3>1. r \notin N
      BY <1>7, <2>1
    <3>2. owner'[r] = owner[r] /\ Owned(r) /\ r[2] = s[2]
      BY <1>7, <1>8, <2>1, <3>1 DEF SameKey
    <3>3. s \in N => owner'[s] = b
      BY <1>7
    <3>4. s \notin N => owner'[s] = owner[s] /\ SameKey(r, s)
      BY <1>7, <1>8, <2>1, <3>2 DEF SameKey
    <3>5. CASE r \in O
      <4>1. owner[r] < b /\ superseded'[r] = b
        BY <1>4, <1>7, <3>5
      <4>2. s \notin N => owner[s] <= owner[r]
        BY <1>3, <3>4, <3>5 DEF TablesInv, NewestIsCurrent
      <4> QED
        BY <1>1, <1>2, <3>2, <3>3, <3>4, <4>1, <4>2
    <3>6. CASE r \notin O
      <4>1. superseded'[r] = superseded[r] /\ superseded[r] < b /\ SameKey(r, r)
        BY <1>4, <1>7, <3>2, <3>6 DEF SameKey
      <4>2. owner[r] < superseded[r]
        BY <2>1, <4>1 DEF TablesInv, NextInLine
      <4>3. s \notin N /\ owner[r] < owner[s] => superseded[r] <= owner[s]
        BY <2>1, <3>4, <4>1 DEF TablesInv, NextInLine
      <4> QED
        BY <1>1, <1>2, <3>2, <3>3, <3>4, <4>1, <4>2, <4>3
    <3> QED
      BY <3>5, <3>6
  <2>2. ASSUME NEW r \in Rows, NEW s \in Rows, SameKey(r, s)', owner'[s] < owner'[r]
        PROVE  \E e \in Rows : e[2] = r[2] /\ superseded'[e] = owner'[r]
    <3>1. s \notin N
      <4>1. owner'[r] <= b
        BY <1>1, <1>2, <1>4, <1>7
      <4> QED
        BY <1>1, <1>2, <1>7, <2>2, <4>1
    <3>2. Owned(s) /\ owner'[s] = owner[s] /\ s[2] = r[2]
      BY <1>7, <1>8, <2>2, <3>1 DEF SameKey
    <3>3. CASE r \in N
      <4>1. PICK e \in current : e[2] = s[2]
        BY <3>2 DEF TablesInv, NewestIsCurrent
      <4>2. e \in O
        BY <1>4, <3>2, <3>3, <4>1
      <4> QED
        BY <1>3, <1>7, <3>2, <3>3, <4>1, <4>2
    <3>4. CASE r \notin N
      <4>1. owner'[r] = owner[r] /\ SameKey(r, s)
        BY <1>7, <1>8, <2>2, <3>2, <3>4 DEF SameKey
      <4>2. PICK e \in Rows : e[2] = r[2] /\ superseded[e] = owner[r]
        BY <2>2, <3>2, <4>1 DEF TablesInv, NextInLine
      <4>3. e \notin O
        BY <1>3, <1>9, <4>1, <4>2 DEF SameKey, Owned
      <4> QED
        BY <1>7, <4>1, <4>2, <4>3
    <3> QED
      BY <3>3, <3>4
  <2> QED
    BY <2>1, <2>2 DEF NextInLine
<1>16. AgreedInv'
  <2> SUFFICES ASSUME NEW x \in Batches
               PROVE  /\ \A s \in agreed'[x] :
                          /\ status'[x] # "none" /\ status'[s[1]] # "none"
                          /\ s[2] \in DOMAIN file'[x] /\ Value(s)' = file'[x][s[2]]
                          /\ \A r \in Rows : SameKey(r, s)' /\ owner'[s] < owner'[r] => x < owner'[r]
                      /\ Success(x)' =>
                          \A k \in DOMAIN file'[x] : owner'[<<x, k>>] = x \/ \E s \in agreed'[x] : s[2] = k
    BY DEF AgreedInv
  <2>1. CASE x = b
    <3>1. ASSUME NEW s \in U
          PROVE  /\ status'[s[1]] # "none" /\ s[2] \in DOMAIN f /\ Value(s)' = f[s[2]]
                 /\ \A r \in Rows : ~ (SameKey(r, s)' /\ owner'[s] < owner'[r])
      <4>1. s \in current /\ s \in Rows /\ s[2] \in DOMAIN f /\ Value(s) = f[s[2]]
        BY <1>3 DEF U, Unchanged
      <4>2. Owned(s) /\ status[s[1]] # "none" /\ s \notin N /\ owner'[s] = owner[s]
        BY <1>7, <1>9, <1>10, <4>1
      <4>3. ASSUME NEW r \in Rows, SameKey(r, s)', owner'[s] < owner'[r] PROVE FALSE
        <5>1. r \notin N
          BY <1>4, <4>3 DEF SameKey
        <5>2. owner'[r] = owner[r] /\ SameKey(s, r)
          BY <1>7, <1>8, <4>2, <4>3, <5>1 DEF SameKey
        <5>3. owner[r] <= owner[s]
          BY <4>1, <5>2 DEF TablesInv, NewestIsCurrent
        <5> QED
          BY <1>2, <4>1, <4>2, <4>3, <5>2, <5>3
      <4> QED
        BY <1>2, <1>6, <1>10, <4>1, <4>2, <4>3
    <3>2. \A k \in DOMAIN f : owner'[<<b, k>>] = b \/ \E s \in U : s[2] = k
      BY <1>4, <1>7
    <3> QED
      BY <1>6, <2>1, <3>1, <3>2
  <2>2. CASE x # b
    <3>1. agreed'[x] = agreed[x] /\ file'[x] = file[x] /\ (Success(x)' <=> Success(x)) /\ agreed[x] \subseteq Rows
      BY <1>6, <2>2 DEF TypeOK
    <3>2. ASSUME NEW s \in agreed[x]
          PROVE  /\ status'[x] # "none" /\ status'[s[1]] # "none"
                 /\ s[2] \in DOMAIN file[x] /\ Value(s)' = file[x][s[2]]
                 /\ \A r \in Rows : SameKey(r, s)' /\ owner'[s] < owner'[r] => x < owner'[r]
      <4>1. /\ s \in Rows /\ status[x] # "none" /\ status[s[1]] # "none"
            /\ s[2] \in DOMAIN file[x] /\ Value(s) = file[x][s[2]]
        BY <3>1 DEF TablesInv, AgreedInv
      <4>2. s \notin N /\ owner'[s] = owner[s] /\ Value(s)' = Value(s) /\ x < b
        BY <1>4, <1>7, <1>10, <4>1
      <4>3. ASSUME NEW r \in Rows, SameKey(r, s)', owner'[s] < owner'[r]
            PROVE  x < owner'[r]
        <5>1. CASE r \in N
          BY <1>7, <4>2, <5>1
        <5>2. CASE r \notin N
          <6>1. owner'[r] = owner[r] /\ SameKey(r, s)
            BY <1>7, <1>8, <4>1, <4>2, <4>3, <5>2 DEF SameKey
          <6> QED
            BY <4>1, <4>2, <4>3, <6>1 DEF TablesInv, AgreedInv
        <5> QED
          BY <5>1, <5>2
      <4> QED
        BY <1>2, <1>6, <4>1, <4>2, <4>3
    <3>3. ASSUME Success(x), NEW k \in DOMAIN file[x]
          PROVE  owner'[<<x, k>>] = x \/ \E s \in agreed[x] : s[2] = k
      <4>1. k \in Keys
        BY <3>3, UploadsAssumption DEF TablesInv, BatchInv
      <4>2. <<x, k>> \in Rows /\ <<x, k>> \notin N
        BY <1>4, <2>2, <4>1 DEF Rows
      <4> QED
        BY <1>7, <3>3, <4>2 DEF TablesInv, AgreedInv
    <3> QED
      BY <3>1, <3>2, <3>3
  <2> QED
    BY <2>1, <2>2
<1>17. LiveIsStated'
  <2> SUFFICES ASSUME NEW r \in Rows
               PROVE  /\ r \in current' => owner'[r] # NoBatch
                      /\ owner'[r] # NoBatch =>
                          /\ Success(owner[r])'
                          /\ r[2] \in DOMAIN file'[owner'[r]]
                          /\ file'[owner'[r]][r[2]] = Value(r)' \/ Bereft(owner[r], r[2])'
    BY DEF LiveIsStated
  <2>1. r \in current' => owner'[r] # NoBatch
    BY <1>12 DEF RowsMade, Owned
  <2>2. CASE r \in N
    BY <1>1, <1>4, <1>6, <1>7, <2>1, <2>2 DEF Value, Success
  <2>3. ASSUME r \notin N, owner'[r] # NoBatch
        PROVE  /\ Success(owner[r])'
               /\ r[2] \in DOMAIN file'[owner'[r]]
               /\ file'[owner'[r]][r[2]] = Value(r)' \/ Bereft(owner[r], r[2])'
    <3> DEFINE o == owner[r]
    <3>1. owner'[r] = o /\ Owned(r) /\ o \in Batches /\ o # b /\ Value(r)' = Value(r)
      BY <1>7, <1>9, <1>10, <2>3 DEF Owned
    <3>2. Success(o) /\ r[2] \in DOMAIN file[o] /\ (file[o][r[2]] = Value(r) \/ Bereft(o, r[2]))
      BY <3>1 DEF TablesInv, LiveIsStated, Owned
    <3>3. file'[o] = file[o] /\ agreed'[o] = agreed[o] /\ status'[o] = status[o]
      BY <1>6, <3>1
    <3>4. Bereft(o, r[2]) => Bereft(owner[r], r[2])'
      <4> SUFFICES ASSUME NEW s \in agreed[o], s[2] = r[2], owner[s] = NoBatch
                   PROVE  Bereft(owner[r], r[2])'
        BY DEF Bereft
      <4>1. s \in Rows /\ status[s[1]] # "none"
        BY <3>1 DEF TablesInv, AgreedInv, TypeOK
      <4>2. owner'[s] = NoBatch
        BY <1>7, <1>10, <4>1
      <4> QED
        BY <3>1, <3>3, <4>2 DEF Bereft
    <3> QED
      BY <3>1, <3>2, <3>3, <3>4 DEF Success
  <2> QED
    BY <2>1, <2>2, <2>3
<1> QED
  BY <1>11, <1>12, <1>13, <1>14, <1>15, <1>16, <1>17 DEF TablesInv

\* What a removal does to owners and links, in terms of the chains: an owner
\* changes only for a current row of b, to a later batch; the row that b
\* superseded takes over what b's row of the key pointed to, or goes to.
LEMMA TakeBackFacts ==
    ASSUME TypeOK, TablesInv, NEW b \in Batches, TakesBack(b)
    PROVE  /\ \A r \in Rows : owner'[r] # NoBatch =>
                /\ owner[r] # NoBatch /\ owner[r] <= owner'[r] /\ owner'[r] # b
                /\ owner'[r] # owner[r] =>
                     owner[r] = b /\ b < owner'[r] /\ r \in current /\ owner'[r] \in Naming(b, r)
           /\ \A r \in Rows : owner[r] # NoBatch /\ owner[r] # b => owner'[r] = owner[r]
           /\ \A r \in Rows : owner[r] = b /\ r \notin current => owner'[r] = NoBatch
           /\ \A r \in Rows : superseded[r] = b =>
                owner'[r] = owner[r] /\ owner[r] # NoBatch /\ owner[r] < b /\ r \notin current
           /\ \A r, m \in Rows : superseded[r] = b /\ m[2] = r[2] /\ owner[m] = b =>
                superseded'[r] = IF m \in current THEN owner'[m] ELSE superseded[m]
           /\ \A r \in Rows : superseded[r] = b => \E m \in Rows : m[2] = r[2] /\ owner[m] = b
           /\ \A r, s \in Rows : owner[r] = b /\ owner[s] = b /\ r[2] = s[2] => r = s
<1>1. b # NoBatch /\ NoBatch \notin Batches /\ Batches \subseteq Nat /\ NoBatch = 0
  BY UploadsAssumption DEF Batches, NoBatch
<1>2. \A r \in Rows : owner[r] \in Nat /\ superseded[r] \in Nat
  <2>1. \A r \in Rows : owner[r] \in Batches \cup {NoBatch} /\ superseded[r] \in Batches \cup {NoBatch}
    BY DEF TypeOK
  <2>2. Batches \cup {NoBatch} \subseteq Nat
    BY <1>1
  <2> QED
    BY <2>1, <2>2
<1>3. ASSUME NEW r \in Rows
      PROVE  /\ owner[r] # b => owner'[r] = owner[r]
             /\ owner[r] = b => \/ owner'[r] = NoBatch
                                \/ r \in current /\ owner'[r] \in Naming(b, r)
  BY DEF TakesBack
<1>4. \A r \in Rows : Naming(b, r) \subseteq Batches /\ \A x \in Naming(b, r) : x \in Nat /\ b < x
  BY <1>1 DEF Naming
<1>5. \A r \in Rows : owner'[r] # NoBatch =>
        /\ owner[r] # NoBatch /\ owner[r] <= owner'[r] /\ owner'[r] # b
        /\ owner'[r] # owner[r] =>
             owner[r] = b /\ b < owner'[r] /\ r \in current /\ owner'[r] \in Naming(b, r)
  BY <1>1, <1>2, <1>3, <1>4
<1>6. \A r \in Rows : owner[r] = b /\ r \notin current => owner'[r] = NoBatch
  BY <1>3
<1>7. ASSUME NEW r \in Rows, superseded[r] = b
      PROVE  owner'[r] = owner[r] /\ owner[r] # NoBatch /\ owner[r] < b /\ r \notin current
  <2>1. owner[r] # NoBatch
    BY <1>1, <1>7 DEF TablesInv, RowsMade, Owned
  <2>2. owner[r] < b /\ r \notin current
    BY <1>1, <1>7, <2>1 DEF TablesInv, NextInLine, LinksSound, SameKey, Owned
  <2> QED
    BY <1>1, <1>2, <1>3, <2>1, <2>2
<1>8. ASSUME NEW r \in Rows, NEW s \in Rows, owner[r] = b, owner[s] = b, r[2] = s[2] PROVE r = s
  BY <1>1, <1>8 DEF TablesInv, LinksSound
<1>9. ASSUME NEW r \in Rows, superseded[r] = b
      PROVE  \E m \in Rows : /\ m[2] = r[2] /\ owner[m] = b
                             /\ superseded'[r] = IF m \in current THEN owner'[m] ELSE superseded[m]
  BY <1>9 DEF TakesBack
<1>10. \A r, m \in Rows : superseded[r] = b /\ m[2] = r[2] /\ owner[m] = b =>
         superseded'[r] = IF m \in current THEN owner'[m] ELSE superseded[m]
  BY <1>8, <1>9
<1> QED
  BY <1>3, <1>5, <1>6, <1>7, <1>8, <1>9, <1>10

\* A removal takes b's rows out of the chains, or moves the last one on.
LEMMA TakeBackStep ==
    ASSUME TypeOK, TablesInv, NEW b \in Batches, TakesBack(b)
    PROVE  TablesInv'
<1>1. b # NoBatch /\ NoBatch \notin Batches /\ Batches \subseteq Nat /\ NoBatch = 0 /\ b \in Nat
  BY UploadsAssumption DEF Batches, NoBatch
<1>2. \A r \in Rows : owner[r] \in Nat /\ superseded[r] \in Nat
  <2>1. \A r \in Rows : owner[r] \in Batches \cup {NoBatch} /\ superseded[r] \in Batches \cup {NoBatch}
    BY DEF TypeOK
  <2>2. Batches \cup {NoBatch} \subseteq Nat
    BY <1>1
  <2> QED
    BY <2>1, <2>2
<1>3. /\ \A x \in Batches : Success(x)' <=> Success(x) /\ x # b
      /\ \A x \in Batches : status'[x] # "none" <=> status[x] # "none"
      /\ file' = file /\ agreed' = agreed
  BY DEF TakesBack, Success, TypeOK
\* Owners and links, before and after.
<1>4. \A r \in Rows : owner'[r] # NoBatch =>
        /\ owner[r] # NoBatch /\ owner[r] <= owner'[r] /\ owner'[r] # b
        /\ owner'[r] # owner[r] =>
             owner[r] = b /\ b < owner'[r] /\ r \in current /\ owner'[r] \in Naming(b, r)
  BY TakeBackFacts
<1>5. /\ \A r \in Rows : owner[r] # NoBatch /\ owner[r] # b => owner'[r] = owner[r]
      /\ \A r \in Rows : owner[r] = b /\ r \notin current => owner'[r] = NoBatch
      /\ \A r, s \in Rows : owner[r] = b /\ owner[s] = b /\ r[2] = s[2] => r = s
  BY TakeBackFacts
<1>6. \A r \in Rows : superseded[r] = b =>
        /\ owner'[r] = owner[r] /\ owner[r] # NoBatch /\ owner[r] < b /\ r \notin current
        /\ \E m \in Rows : m[2] = r[2] /\ owner[m] = b
  BY TakeBackFacts
<1>7. \A r, m \in Rows : superseded[r] = b /\ m[2] = r[2] /\ owner[m] = b =>
        superseded'[r] = IF m \in current THEN owner'[m] ELSE superseded[m]
  BY TakeBackFacts
<1>8. \A r \in Rows : superseded[r] # b =>
        superseded'[r] = IF owner'[r] = NoBatch THEN NoBatch ELSE superseded[r]
  BY DEF TakesBack
<1>9. \A r \in Rows : r \in current' <=> \/ r \in current /\ owner'[r] # NoBatch
                                         \/ superseded[r] = b /\ superseded'[r] = NoBatch
  BY DEF TakesBack
<1>10. current \subseteq Rows /\ current' \subseteq Rows
  BY DEF TakesBack, TypeOK
\* What held of the chains.
<1>11. \A r, s \in Rows : owner[r] # NoBatch /\ owner[s] # NoBatch /\ r[2] = s[2] /\ r # s =>
         owner[r] # owner[s] /\ superseded[r] # superseded[s]
  BY DEF TablesInv, LinksSound
<1>12. /\ \A r \in Rows : owner[r] # NoBatch => (r \in current <=> superseded[r] = NoBatch)
       /\ \A r \in Rows : r \in current \/ superseded[r] # NoBatch => owner[r] # NoBatch
       /\ \A r \in Rows : superseded[r] # NoBatch =>
            /\ superseded[r] \in Batches /\ Success(superseded[r])
            /\ \E m \in Rows : owner[m] = superseded[r] /\ m[2] = r[2]
  BY DEF TablesInv, LinksSound, RowsMade, Owned, Own, TypeOK
<1>13. /\ \A r, s \in Rows : r[2] = s[2] /\ owner[r] # NoBatch /\ owner[s] # NoBatch /\ r \in current =>
            owner[s] <= owner[r]
       /\ \A r \in Rows : owner[r] # NoBatch => \E s \in current : s[2] = r[2]
  BY DEF TablesInv, NewestIsCurrent, SameKey, Owned
<1>14. \A r, s \in Rows :
         r[2] = s[2] /\ owner[r] # NoBatch /\ owner[s] # NoBatch /\ superseded[r] # NoBatch =>
            owner[r] < superseded[r] /\ (owner[r] < owner[s] => superseded[r] <= owner[s])
  BY DEF TablesInv, NextInLine, SameKey, Owned
<1>15. \A r, s \in Rows :
         r[2] = s[2] /\ owner[r] # NoBatch /\ owner[s] # NoBatch /\ owner[s] < owner[r] =>
            \E e \in Rows : e[2] = r[2] /\ superseded[e] = owner[r]
  BY DEF TablesInv, NextInLine, SameKey, Owned
\* A row of b's key is older than b's, unless b's is not the newest.
<1>16. \A m, s \in Rows :
         m[2] = s[2] /\ owner[m] = b /\ m \in current /\ owner[s] # NoBatch /\ s # m =>
            owner[s] < b /\ superseded[s] # NoBatch
  BY <1>1, <1>2, <1>11, <1>12, <1>13
<1>17. BatchInv'
  BY <1>3 DEF TablesInv, BatchInv
<1>18. RowsMade'
  <2> SUFFICES ASSUME NEW r \in Rows
               PROVE  /\ r \in current' \/ superseded'[r] # NoBatch => owner'[r] # NoBatch
                      /\ owner'[r] # NoBatch =>
                          /\ status'[r[1]] # "none" /\ r[1] <= owner'[r]
                          /\ file'[r[1]] \in Files /\ r[2] \in DOMAIN file'[r[1]]
    BY DEF RowsMade, Owned
  <2>1. r \in current' \/ superseded'[r] # NoBatch => owner'[r] # NoBatch
    BY <1>6, <1>8, <1>9
  <2>2. ASSUME owner'[r] # NoBatch
        PROVE  /\ status'[r[1]] # "none" /\ r[1] <= owner'[r]
               /\ file'[r[1]] \in Files /\ r[2] \in DOMAIN file'[r[1]]
    <3>1. owner[r] # NoBatch /\ owner[r] <= owner'[r] /\ r[1] \in Batches /\ r[1] \in Nat
      BY <1>1, <1>4, <2>2 DEF Rows
    <3>2. /\ status[r[1]] # "none" /\ r[1] <= owner[r]
          /\ file[r[1]] \in Files /\ r[2] \in DOMAIN file[r[1]]
      BY <3>1 DEF TablesInv, RowsMade, Owned
    <3>3. owner'[r] \in Nat
      <4>1. owner'[r] = owner[r] \/ owner'[r] \in Naming(b, r)
        BY <1>4, <2>2
      <4> QED
        BY <1>1, <1>2, <4>1 DEF Naming
    <3> QED
      BY <1>2, <1>3, <3>1, <3>2, <3>3
  <2> QED
    BY <2>1, <2>2
<1>19. \A r \in Rows : owner'[r] \in Nat /\ (owner'[r] # NoBatch => owner'[r] \in Batches /\ Success(owner'[r])
                                                               /\ r[2] \in DOMAIN file[owner'[r]])
  <2> SUFFICES ASSUME NEW r \in Rows
               PROVE  owner'[r] \in Nat /\ (owner'[r] # NoBatch => owner'[r] \in Batches /\ Success(owner'[r])
                                                               /\ r[2] \in DOMAIN file[owner'[r]])
    OBVIOUS
  <2>1. CASE owner'[r] = NoBatch
    BY <1>1, <2>1
  <2>2. CASE owner'[r] # NoBatch /\ owner'[r] = owner[r]
    BY <1>2, <2>2 DEF TablesInv, LiveIsStated, TypeOK
  <2>3. CASE owner'[r] # NoBatch /\ owner'[r] # owner[r]
    BY <1>1, <1>4, <2>3 DEF Naming
  <2> QED
    BY <2>1, <2>2, <2>3
<1>20. LinksSound'
  <2>1. ASSUME NEW r \in Rows, superseded'[r] # NoBatch
        PROVE  Success(superseded[r])' /\ \E m \in Rows : owner'[m] = superseded'[r] /\ m[2] = r[2]
    <3>1. CASE superseded[r] # b
      <4>1. superseded'[r] = superseded[r] /\ superseded[r] # NoBatch
        BY <1>8, <2>1, <3>1
      <4>2. PICK m \in Rows : owner[m] = superseded[r] /\ m[2] = r[2]
        BY <1>12, <4>1
      <4>3. owner'[m] = superseded[r]
        BY <1>5, <3>1, <4>1, <4>2
      <4>4. Success(superseded[r]) /\ superseded[r] \in Batches
        BY <1>12, <4>1
      <4> QED
        BY <1>3, <3>1, <4>1, <4>2, <4>3, <4>4 DEF Success
    <3>2. CASE superseded[r] = b
      <4>1. PICK m \in Rows : m[2] = r[2] /\ owner[m] = b
        BY <1>6, <3>2
      <4>2. CASE m \in current
        <5>1. superseded'[r] = owner'[m]
          BY <1>7, <3>2, <4>1, <4>2
        <5> QED
          BY <1>3, <1>4, <1>19, <2>1, <4>1, <5>1 DEF Success
      <4>3. CASE m \notin current
        <5>1. superseded'[r] = superseded[m] /\ superseded[m] # NoBatch
          BY <1>7, <2>1, <3>2, <4>1, <4>3
        <5>2. superseded[m] # b
          BY <1>1, <1>2, <1>6, <4>1
        <5>3. PICK n \in Rows : owner[n] = superseded[m] /\ n[2] = m[2]
          BY <1>12, <5>1
        <5>4. owner'[n] = superseded[m]
          BY <1>5, <5>1, <5>2, <5>3
        <5>5. Success(superseded[m]) /\ superseded[m] \in Batches
          BY <1>12, <5>1
        <5> QED
          BY <1>3, <4>1, <5>1, <5>2, <5>3, <5>4, <5>5 DEF Success
      <4> QED
        BY <4>2, <4>3
    <3> QED
      BY <3>1, <3>2
  <2>2. ASSUME NEW r \in Rows, owner'[r] # NoBatch
        PROVE  r \in current' <=> superseded'[r] = NoBatch
    <3>1. CASE superseded[r] # b
      BY <1>4, <1>8, <1>9, <1>12, <2>2, <3>1
    <3>2. CASE superseded[r] = b
      BY <1>6, <1>9, <3>2
    <3> QED
      BY <3>1, <3>2
  <2>3. ASSUME NEW r \in Rows, NEW s \in Rows, r # s, r[2] = s[2], owner'[r] # NoBatch, owner'[s] # NoBatch
        PROVE  owner'[r] # owner'[s] /\ superseded'[r] # superseded'[s]
    <3>1. owner[r] # NoBatch /\ owner[s] # NoBatch /\ owner[r] # owner[s] /\ superseded[r] # superseded[s]
      BY <1>4, <1>11, <2>3
    <3>2. ASSUME NEW x \in Rows, NEW y \in Rows, x # y, x[2] = y[2], owner'[x] # NoBatch,
                 owner[y] # NoBatch, owner'[x] # owner[x]
          PROVE  owner[y] < owner'[x] /\ owner'[y] = owner[y]
      <4>1. owner[x] = b /\ b < owner'[x] /\ x \in current
        BY <1>4, <3>2
      <4>2. owner[y] < b
        BY <1>16, <3>2, <4>1
      <4> QED
        BY <1>1, <1>2, <1>5, <1>19, <3>2, <4>1, <4>2
    <3>3. owner'[r] # owner'[s]
      BY <1>2, <1>19, <2>3, <3>1, <3>2
    <3>4. ASSUME NEW x \in Rows, NEW y \in Rows, x # y, x[2] = y[2], owner'[y] # NoBatch,
                 owner[y] # NoBatch, superseded[x] = b, superseded[y] # b
          PROVE  superseded'[x] # superseded'[y]
      <4>1. superseded'[y] = superseded[y]
        BY <1>8, <3>4
      <4>2. PICK m \in Rows : m[2] = x[2] /\ owner[m] = b
        BY <1>6, <3>4
      <4>3. CASE m \in current
        <5>1. superseded'[x] = owner'[m]
          BY <1>7, <3>4, <4>2, <4>3
        <5>2. CASE y = m
          BY <1>12, <3>4, <4>1, <4>3, <5>1, <5>2
        <5>3. CASE y # m
          <6>1. owner[y] < b /\ superseded[y] # NoBatch
            BY <1>16, <3>4, <4>2, <4>3, <5>3
          <6>2. PICK n \in Rows : owner[n] = superseded[y] /\ n[2] = y[2]
            BY <1>12, <6>1
          <6>3. superseded[y] <= b
            BY <1>1, <1>12, <1>13, <3>4, <4>2, <4>3, <6>1, <6>2
          <6> QED
            BY <1>1, <1>2, <1>4, <1>19, <4>1, <4>2, <5>1, <6>1, <6>3
        <5> QED
          BY <5>2, <5>3
      <4>4. CASE m \notin current
        <5>1. superseded'[x] = superseded[m] /\ y # m
          BY <1>5, <1>7, <3>4, <4>2, <4>4
        <5> QED
          BY <1>1, <1>11, <3>4, <4>1, <4>2, <5>1
      <4> QED
        BY <4>3, <4>4
    <3>5. superseded'[r] # superseded'[s]
      <4>1. CASE superseded[r] = b
        BY <2>3, <3>1, <3>4, <4>1
      <4>2. CASE superseded[s] = b
        BY <2>3, <3>1, <3>4, <4>2
      <4>3. CASE superseded[r] # b /\ superseded[s] # b
        BY <1>8, <2>3, <3>1, <4>3
      <4> QED
        BY <4>1, <4>2, <4>3
    <3> QED
      BY <3>3, <3>5
  <2> QED
    BY <2>1, <2>2, <2>3 DEF LinksSound, Own
<1>21. NewestIsCurrent'
  <2>1. ASSUME NEW r \in Rows, NEW s \in Rows, r[2] = s[2], owner'[r] # NoBatch, owner'[s] # NoBatch, r \in current'
        PROVE  owner'[s] <= owner'[r]
    <3> SUFFICES ASSUME r # s PROVE owner'[s] <= owner'[r]
      BY <1>19
    <3>1. owner[r] # NoBatch /\ owner[s] # NoBatch
      BY <1>4, <2>1
    <3>2. CASE r \in current
      <4>1. owner[s] <= owner[r] /\ owner[r] <= owner'[r]
        BY <1>4, <1>13, <2>1, <3>1, <3>2
      <4>2. s \notin current
        BY <1>11, <1>12, <2>1, <3>1, <3>2
      <4>3. owner'[s] = owner[s]
        BY <1>4, <2>1, <4>2
      <4> QED
        BY <1>2, <1>19, <4>1, <4>3
    <3>3. CASE r \notin current
      <4>1. superseded[r] = b /\ superseded'[r] = NoBatch
        BY <1>9, <2>1, <3>3
      <4>2. PICK m \in Rows : m[2] = r[2] /\ owner[m] = b
        BY <1>6, <4>1
      <4>3. m \in current /\ owner'[m] = NoBatch
        BY <1>1, <1>7, <1>12, <4>1, <4>2
      <4>4. s # m /\ owner[s] < b
        BY <1>16, <2>1, <3>1, <4>2, <4>3
      <4>5. owner'[s] = owner[s] /\ owner'[r] = owner[r]
        BY <1>1, <1>2, <1>5, <1>6, <3>1, <4>1, <4>4
      <4>6. ~ (owner[r] < owner[s])
        BY <1>1, <1>2, <1>14, <2>1, <3>1, <4>1, <4>4
      <4> QED
        BY <1>2, <4>5, <4>6
    <3> QED
      BY <3>2, <3>3
  <2>2. ASSUME NEW r \in Rows, owner'[r] # NoBatch
        PROVE  \E s \in current' : s[2] = r[2]
    <3>1. PICK m \in current : m[2] = r[2]
      BY <1>4, <1>13, <2>2
    <3>2. m \in Rows /\ owner[m] # NoBatch
      BY <1>10, <1>12
    <3>3. CASE owner'[m] # NoBatch
      BY <1>9, <3>1, <3>2, <3>3
    <3>4. CASE owner'[m] = NoBatch
      <4>1. owner[m] = b /\ r # m /\ owner[r] # NoBatch
        BY <1>4, <1>5, <2>2, <3>2, <3>4
      <4>2. owner[r] < b
        BY <1>16, <3>1, <3>2, <4>1
      <4>3. PICK e \in Rows : e[2] = m[2] /\ superseded[e] = b
        BY <1>15, <3>1, <3>2, <4>1, <4>2
      <4>4. superseded'[e] = NoBatch
        BY <1>7, <3>2, <3>4, <4>1, <4>3
      <4> QED
        BY <1>9, <3>1, <4>3, <4>4
    <3> QED
      BY <3>3, <3>4
  <2> QED
    BY <2>1, <2>2 DEF NewestIsCurrent, SameKey, Owned
<1>22. NextInLine'
  <2>1. ASSUME NEW r \in Rows, NEW s \in Rows, r[2] = s[2], owner'[r] # NoBatch, owner'[s] # NoBatch,
               superseded'[r] # NoBatch
        PROVE  owner'[r] < superseded'[r] /\ (owner'[r] < owner'[s] => superseded'[r] <= owner'[s])
    <3>1. owner[r] # NoBatch /\ owner[s] # NoBatch
      BY <1>4, <2>1
    <3>2. CASE superseded[r] # b
      <4>1. superseded'[r] = superseded[r] /\ superseded[r] # NoBatch /\ r \notin current
        BY <1>8, <1>12, <2>1, <3>1, <3>2
      <4>2. owner'[r] = owner[r]
        BY <1>4, <2>1, <4>1
      <4>3. owner[r] < superseded[r] /\ (owner[r] < owner[s] => superseded[r] <= owner[s])
        BY <1>14, <2>1, <3>1, <4>1
      <4>4. CASE owner'[s] = owner[s]
        BY <4>1, <4>2, <4>3, <4>4
      <4>5. CASE owner'[s] # owner[s]
        <5>1. owner[s] = b /\ b < owner'[s] /\ s \in current /\ r # s
          BY <1>4, <2>1, <4>1, <4>5
        <5>2. owner[r] < b
          BY <1>16, <2>1, <3>1, <5>1
        <5> QED
          BY <1>1, <1>2, <1>19, <4>1, <4>2, <4>3, <5>1, <5>2
      <4> QED
        BY <4>4, <4>5
    <3>3. CASE superseded[r] = b
      <4>1. owner'[r] = owner[r] /\ owner[r] < b
        BY <1>6, <3>3
      <4>2. PICK m \in Rows : m[2] = r[2] /\ owner[m] = b
        BY <1>6, <3>3
      <4>3. owner[r] < owner[s] => b <= owner[s]
        BY <1>14, <2>1, <3>1, <3>3, <1>1
      <4>4. CASE m \in current
        <5>1. superseded'[r] = owner'[m] /\ owner'[m] # NoBatch
          BY <1>7, <2>1, <3>3, <4>2, <4>4
        <5>2. b < owner'[m]
          BY <1>4, <4>2, <5>1
        <5>3. CASE s = m
          BY <1>1, <1>2, <1>19, <4>1, <5>1, <5>2, <5>3
        <5>4. CASE s # m
          <6>1. owner[s] < b
            BY <1>16, <2>1, <3>1, <4>2, <4>4, <5>4
          <6>2. owner'[s] = owner[s]
            BY <1>1, <1>2, <1>5, <3>1, <6>1
          <6> QED
            BY <1>1, <1>2, <1>19, <4>1, <4>2, <4>3, <5>1, <5>2, <6>1, <6>2
        <5> QED
          BY <5>3, <5>4
      <4>5. CASE m \notin current
        <5>1. superseded'[r] = superseded[m] /\ superseded[m] # NoBatch
          BY <1>7, <2>1, <3>3, <4>2, <4>5
        <5>2. owner'[m] = NoBatch /\ owner[m] # NoBatch
          BY <1>1, <1>5, <4>2, <4>5
        <5>3. owner[s] # b /\ owner'[s] = owner[s]
          BY <1>5, <2>1, <3>1, <4>2, <5>2
        <5>4. b < superseded[m] /\ (b < owner[s] => superseded[m] <= owner[s])
          BY <1>14, <2>1, <3>1, <4>2, <5>1, <5>2
        <5> QED
          BY <1>1, <1>2, <4>1, <4>3, <5>1, <5>3, <5>4
      <4> QED
        BY <4>4, <4>5
    <3> QED
      BY <3>2, <3>3
  <2>2. ASSUME NEW r \in Rows, NEW s \in Rows, r[2] = s[2], owner'[r] # NoBatch, owner'[s] # NoBatch,
               owner'[s] < owner'[r]
        PROVE  \E e \in Rows : e[2] = r[2] /\ superseded'[e] = owner'[r]
    <3>1. owner[r] # NoBatch /\ owner[s] # NoBatch /\ r # s
      BY <1>4, <1>19, <2>2
    <3>2. CASE owner'[r] # owner[r]
      <4>1. owner[r] = b /\ r \in current
        BY <1>4, <2>2, <3>2
      <4>2. owner[s] < b
        BY <1>16, <2>2, <3>1, <4>1
      <4>3. PICK e \in Rows : e[2] = r[2] /\ superseded[e] = b
        BY <1>15, <2>2, <3>1, <4>1, <4>2
      <4> QED
        BY <1>7, <4>1, <4>3
    <3>3. CASE owner'[r] = owner[r]
      <4>1. owner[r] # b /\ owner[s] < owner[r]
        BY <1>2, <1>4, <1>19, <2>2, <3>3
      <4>2. PICK e \in Rows : e[2] = r[2] /\ superseded[e] = owner[r]
        BY <1>15, <2>2, <3>1, <4>1
      <4>3. superseded[e] # b /\ owner[e] # NoBatch
        BY <1>12, <3>1, <4>1, <4>2
      <4>4. CASE owner'[e] # NoBatch
        BY <1>8, <3>3, <4>2, <4>3, <4>4
      <4>5. CASE owner'[e] = NoBatch
        <5>1. owner[e] = b /\ s # e /\ e \notin current
          BY <1>5, <1>12, <2>2, <3>1, <4>2, <4>3, <4>5
        <5>2. owner[s] # b /\ ~ (b < owner[s])
          BY <1>2, <1>5, <1>14, <2>2, <3>1, <4>1, <4>2, <4>3, <5>1
        <5>3. owner[s] < b
          BY <1>1, <1>2, <5>2
        <5>4. PICK d \in Rows : d[2] = e[2] /\ superseded[d] = b
          BY <1>15, <2>2, <3>1, <4>2, <4>3, <5>1, <5>3
        <5>5. superseded'[d] = superseded[e]
          BY <1>7, <5>1, <5>4
        <5> QED
          BY <3>3, <4>2, <5>4, <5>5
      <4> QED
        BY <4>4, <4>5
    <3> QED
      BY <3>2, <3>3
  <2> QED
    BY <2>1, <2>2 DEF NextInLine, SameKey, Owned
<1>23. AgreedInv'
  <2>1. ASSUME NEW x \in Batches, NEW s \in agreed[x]
        PROVE  /\ status'[x] # "none" /\ status'[s[1]] # "none"
               /\ s[2] \in DOMAIN file[x] /\ Value(s)' = file[x][s[2]]
               /\ \A r \in Rows : SameKey(r, s)' /\ owner'[s] < owner'[r] => x < owner'[r]
    <3>1. /\ s \in Rows /\ s[1] \in Batches /\ status[x] # "none" /\ status[s[1]] # "none"
          /\ s[2] \in DOMAIN file[x] /\ Value(s) = file[x][s[2]]
      BY DEF TablesInv, AgreedInv, TypeOK, Rows
    <3>2. ASSUME NEW r \in Rows, SameKey(r, s)', owner'[s] < owner'[r] PROVE x < owner'[r]
      <4>1. r[2] = s[2] /\ owner'[r] # NoBatch /\ owner'[s] # NoBatch /\ r # s
        BY <1>19, <3>1, <3>2 DEF SameKey, Owned
      <4>2. SameKey(r, s) /\ owner[r] # NoBatch /\ owner[s] # NoBatch /\ owner[s] <= owner'[s]
        BY <1>4, <3>1, <4>1 DEF SameKey, Owned
      <4>3. CASE owner'[r] = owner[r]
        <5>1. owner[s] < owner[r]
          BY <1>2, <1>19, <3>1, <3>2, <4>2, <4>3
        <5> QED
          BY <4>2, <4>3, <5>1 DEF TablesInv, AgreedInv
      <4>4. CASE owner'[r] # owner[r]
        <5>1. owner[r] = b /\ b < owner'[r] /\ r \in current
          BY <1>4, <4>1, <4>4
        <5>2. owner[s] < b
          BY <1>16, <3>1, <4>1, <4>2, <5>1
        <5>3. x < b
          BY <4>2, <5>1, <5>2 DEF TablesInv, AgreedInv
        <5> QED
          BY <1>1, <1>19, <5>1, <5>3
      <4> QED
        BY <4>3, <4>4
    <3> QED
      BY <1>3, <3>1, <3>2 DEF Value
  <2>2. ASSUME NEW x \in Batches, Success(x)', NEW k \in DOMAIN file[x]
        PROVE  owner'[<<x, k>>] = x \/ \E s \in agreed[x] : s[2] = k
    <3>1. Success(x) /\ x # b
      BY <1>3, <2>2
    <3>2. <<x, k>> \in Rows
      BY <2>2, <3>1, UploadsAssumption DEF TablesInv, BatchInv, Rows
    <3>3. owner[<<x, k>>] = x \/ \E s \in agreed[x] : s[2] = k
      BY <2>2, <3>1 DEF TablesInv, AgreedInv
    <3> QED
      BY <1>1, <1>5, <3>1, <3>2, <3>3
  <2> QED
    BY <1>3, <2>1, <2>2 DEF AgreedInv
<1>24. LiveIsStated'
  <2>1. \A r \in Rows : r \in current' => owner'[r] # NoBatch
    BY <1>18 DEF RowsMade, Owned
  <2>2. ASSUME NEW r \in Rows, owner'[r] # NoBatch
        PROVE  /\ Success(owner[r])'
               /\ r[2] \in DOMAIN file'[owner'[r]]
               /\ file'[owner'[r]][r[2]] = Value(r)' \/ Bereft(owner[r], r[2])'
    <3> DEFINE o == owner'[r]
    <3>1. o \in Batches /\ Success(o) /\ r[2] \in DOMAIN file[o] /\ o # b
      BY <1>4, <1>19, <2>2
    <3>2. Value(r)' = Value(r)
      BY <1>3 DEF Value
    <3>3. file[o][r[2]] = Value(r) \/ \E s \in agreed[o] : s[2] = r[2] /\ owner'[s] = NoBatch
      <4>1. CASE owner[r] = o
        <5>1. file[o][r[2]] = Value(r) \/ \E s \in agreed[o] : s[2] = r[2] /\ owner[s] = NoBatch
          BY <1>1, <3>1, <4>1 DEF TablesInv, LiveIsStated, Bereft
        <5>2. \A s \in agreed[o] : s \in Rows
          BY <3>1 DEF TypeOK
        <5> HIDE DEF o
        <5> QED
          BY <1>4, <5>1, <5>2
      <4>2. CASE owner[r] # o
        <5>1. owner[r] = b /\ b < o /\ r \in current
          BY <1>4, <2>2, <4>2
        <5>2. <<o, r[2]>> \in Rows /\ owner[<<o, r[2]>>] # o
          <6>1. <<o, r[2]>> \in Rows
            BY <3>1 DEF Rows
          <6>2. owner[<<o, r[2]>>] # NoBatch => owner[<<o, r[2]>>] <= b
            BY <1>1, <1>13, <5>1, <6>1
          <6> QED
            BY <1>1, <1>19, <3>1, <5>1, <6>1, <6>2
        <5>3. PICK s \in agreed[o] : s[2] = r[2]
          BY <3>1, <5>2 DEF TablesInv, AgreedInv
        <5>4. s \in Rows /\ Value(s) = file[o][r[2]]
          BY <3>1, <5>3 DEF TablesInv, AgreedInv, TypeOK
        <5>5. ASSUME owner'[s] # NoBatch, s # r PROVE FALSE
          <6>1. owner[s] # NoBatch /\ owner[s] < b
            BY <1>4, <1>16, <5>1, <5>3, <5>4, <5>5
          <6>2. SameKey(r, s)
            BY <1>1, <5>1, <5>3, <6>1 DEF SameKey, Owned
          <6>3. o < b
            BY <3>1, <5>1, <6>1, <6>2 DEF TablesInv, AgreedInv
          <6> QED
            BY <1>1, <1>19, <5>1, <6>3
        <5> HIDE DEF o
        <5> QED
          BY <5>3, <5>4, <5>5
      <4> QED
        BY <4>1, <4>2
    <3> QED
      BY <1>3, <3>1, <3>2, <3>3 DEF Success, Bereft
  <2> QED
    BY <2>1, <2>2 DEF LiveIsStated
<1> QED
  BY <1>17, <1>18, <1>20, <1>21, <1>22, <1>23, <1>24 DEF TablesInv

-----------------------------------------------------------------------------
(* Brands *)

\* A brand is made by the commit that needs it, and goes with the last row
\* that names it or to a batch that has one.
LEMMA BrandStep ==
    ASSUME TypeOK, TypeOK', CommitInv, TablesInv, TablesInv', BrandsOwned, [Next]_vars
    PROVE  BrandsOwned'
<1>1. NoBatch \notin Batches
  BY UploadsAssumption DEF Batches, NoBatch
\* BrandsOwned, row by row.
<1>2. \A x \in Brands :
        /\ creator[x] = NoBatch => \A r \in Rows : owner[r] # NoBatch => Brand[Value(r)] # x
        /\ creator[x] # NoBatch =>
             \E r \in Rows : owner[r] = creator[x] /\ owner[r] # NoBatch /\ Brand[Value(r)] = x
  <2> SUFFICES ASSUME NEW x \in Brands
               PROVE  /\ creator[x] = NoBatch => \A r \in Rows : owner[r] # NoBatch => Brand[Value(r)] # x
                      /\ creator[x] # NoBatch =>
                           \E r \in Rows : owner[r] = creator[x] /\ owner[r] # NoBatch /\ Brand[Value(r)] = x
    OBVIOUS
  <2> DEFINE users == {owner[r] : r \in {r \in Rows : owner[r] # NoBatch /\ Brand[Value(r)] = x}}
  <2>1. IF users = {} THEN creator[x] = NoBatch ELSE creator[x] \in users
    BY DEF BrandsOwned
  <2>2. NoBatch \notin users
    OBVIOUS
  <2> QED
    BY <2>1, <2>2
<1>3. SUFFICES \A x \in Brands :
        /\ creator'[x] = NoBatch => \A r \in Rows : owner'[r] # NoBatch => Brand[Value(r)'] # x
        /\ creator'[x] # NoBatch =>
             \E r \in Rows : owner'[r] = creator'[x] /\ owner'[r] # NoBatch /\ Brand[Value(r)'] = x
  <2> SUFFICES ASSUME NEW x \in Brands
               PROVE  LET users == {owner'[r] : r \in {r \in Rows : owner'[r] # NoBatch /\ Brand[Value(r)'] = x}}
                      IN  IF users = {} THEN creator'[x] = NoBatch
                          ELSE creator'[x] \in users /\ Success(creator[x])'
    BY DEF BrandsOwned
  <2> DEFINE users == {owner'[r] : r \in {r \in Rows : owner'[r] # NoBatch /\ Brand[Value(r)'] = x}}
  <2>1. IF users = {} THEN creator'[x] = NoBatch ELSE creator'[x] \in users
    BY <1>3
  <2>2. \A r \in Rows : owner'[r] # NoBatch => Success(owner[r])'
    BY DEF TablesInv, LiveIsStated
  <2>3. creator'[x] \in users => Success(creator[x])'
    <3> SUFFICES ASSUME creator'[x] \in users PROVE Success(creator[x])'
      OBVIOUS
    <3>1. PICK r \in Rows : owner'[r] # NoBatch /\ creator'[x] = owner'[r]
      OBVIOUS
    <3> HIDE DEF users
    <3> QED
      BY <2>2, <3>1 DEF Success
  <2> HIDE DEF users
  <2> QED
    BY <2>1, <2>3 DEF users
<1>4. SUFFICES ASSUME NEW x \in Brands
               PROVE  /\ creator'[x] = NoBatch => \A r \in Rows : owner'[r] # NoBatch => Brand[Value(r)'] # x
                      /\ creator'[x] # NoBatch =>
                           \E r \in Rows : owner'[r] = creator'[x] /\ owner'[r] # NoBatch /\ Brand[Value(r)'] = x
  OBVIOUS
<1>5. CASE Quiet
  BY <1>2, <1>5 DEF Quiet, rowVars, Value
<1>6. ASSUME NEW b \in Batches, NEW f \in Files, Writes(b, f)
      PROVE  /\ creator'[x] = NoBatch => \A r \in Rows : owner'[r] # NoBatch => Brand[Value(r)'] # x
             /\ creator'[x] # NoBatch =>
                  \E r \in Rows : owner'[r] = creator'[x] /\ owner'[r] # NoBatch /\ Brand[Value(r)'] = x
  <2>1. /\ status[b] = "none" /\ New(b, f) \subseteq Rows
        /\ \A r \in New(b, f) : r[1] = b /\ r[2] \in DOMAIN f /\ ~ Owned(r)
        /\ \A k \in DOMAIN f : <<b, k>> \in New(b, f) \/ \E y \in Unchanged(f, current) : y[2] = k
    BY <1>6, WriteFacts
  <2>2. ASSUME NEW r \in Rows, owner[r] # NoBatch PROVE Value(r)' = Value(r) /\ owner'[r] = owner[r]
    <3>1. r[1] \in Batches /\ r[1] # b /\ r \notin New(b, f)
      BY <2>1, <2>2 DEF TablesInv, RowsMade, Owned, Rows
    <3>2. file'[r[1]] = file[r[1]] /\ owner'[r] = owner[r]
      BY <1>6, <3>1 DEF Writes, TypeOK
    <3> QED
      BY <3>2 DEF Value
  <2>3. ASSUME NEW r \in New(b, f) PROVE Value(r)' = f[r[2]] /\ owner'[r] = b
    BY <1>6, <2>1 DEF Writes, Value, TypeOK
  <2>4. \A r \in Rows : owner'[r] # NoBatch => owner[r] # NoBatch \/ r \in New(b, f)
    BY <1>6 DEF Writes
  <2>5. creator'[x] = IF creator[x] = NoBatch /\ \E k \in DOMAIN f : Brand[f[k]] = x THEN b ELSE creator[x]
    BY <1>6 DEF Writes
  <2>6. CASE creator[x] # NoBatch
    <3>1. creator'[x] = creator[x]
      BY <2>5, <2>6
    <3> QED
      BY <1>2, <2>2, <2>6, <3>1
  <2>7. CASE creator[x] = NoBatch /\ \E k \in DOMAIN f : Brand[f[k]] = x
    <3>1. PICK k \in DOMAIN f : Brand[f[k]] = x
      BY <2>7
    <3>2. ASSUME NEW y \in Unchanged(f, current), y[2] = k PROVE FALSE
      <4>1. y \in current /\ y \in Rows /\ Value(y) = f[k]
        BY <3>2 DEF Unchanged, TypeOK
      <4>2. owner[y] # NoBatch
        BY <4>1 DEF TablesInv, RowsMade, Owned
      <4> QED
        BY <1>2, <2>7, <3>1, <4>1, <4>2
    <3>3. <<b, k>> \in New(b, f) /\ <<b, k>> \in Rows
      BY <2>1, <3>2
    <3>4. owner'[<<b, k>>] = b /\ Brand[Value(<<b, k>>)'] = x
      BY <2>3, <3>1, <3>3
    <3> QED
      BY <1>1, <2>5, <2>7, <3>3, <3>4
  <2>8. CASE creator[x] = NoBatch /\ \A k \in DOMAIN f : Brand[f[k]] # x
    <3>1. creator'[x] = NoBatch
      BY <2>5, <2>8
    <3>2. ASSUME NEW r \in Rows, owner'[r] # NoBatch PROVE Brand[Value(r)'] # x
      <4>1. CASE r \in New(b, f)
        BY <2>1, <2>3, <2>8, <4>1
      <4>2. CASE owner[r] # NoBatch
        BY <1>2, <2>2, <2>8, <4>2
      <4> QED
        BY <2>4, <3>2, <4>1, <4>2
    <3> QED
      BY <3>1, <3>2
  <2> QED
    BY <2>6, <2>7, <2>8
<1>7. ASSUME NEW b \in Batches, TakesBack(b)
      PROVE  /\ creator'[x] = NoBatch => \A r \in Rows : owner'[r] # NoBatch => Brand[Value(r)'] # x
             /\ creator'[x] # NoBatch =>
                  \E r \in Rows : owner'[r] = creator'[x] /\ owner'[r] # NoBatch /\ Brand[Value(r)'] = x
  <2>1. \A r \in Rows : Value(r)' = Value(r)
    BY <1>7 DEF TakesBack, Value
  <2>2. /\ \A r \in Rows : owner'[r] # NoBatch => owner[r] # NoBatch
        /\ \A r \in Rows : owner[r] # NoBatch /\ owner[r] # b => owner'[r] = owner[r]
    BY <1>7, TakeBackFacts
  <2>3. creator'[x] = Creator(x, b, owner')
    BY <1>7 DEF TakesBack
  <2>4. CASE creator[x] # b
    <3>1. creator'[x] = creator[x]
      BY <2>3, <2>4 DEF Creator
    <3> QED
      BY <1>2, <2>1, <2>2, <2>4, <3>1
  <2>5. CASE creator[x] = b
    <3> DEFINE users == {owner'[r] : r \in {r \in Rows : owner'[r] # NoBatch /\ Brand[Value(r)] = x}}
    <3>1. creator'[x] = IF users = {} THEN NoBatch ELSE First(users)
      BY <2>3, <2>5 DEF Creator
    <3>2. users \in SUBSET Batches
      BY DEF TypeOK
    <3>3. users # {} => First(users) \in users
      <4> HIDE DEF users
      <4> QED
        BY <3>2, FirstIsLeast
    <3>4. CASE users = {}
      BY <2>1, <3>1, <3>4
    <3>5. CASE users # {}
      <4>1. creator'[x] \in users
        BY <3>1, <3>3, <3>5
      <4>2. PICK r \in Rows : owner'[r] # NoBatch /\ Brand[Value(r)] = x /\ creator'[x] = owner'[r]
        BY <4>1
      <4> QED
        BY <2>1, <4>2
    <3> QED
      BY <3>4, <3>5
  <2> QED
    BY <2>4, <2>5
<1> QED
  BY <1>5, <1>6, <1>7, StepKinds

-----------------------------------------------------------------------------
(* The theorems *)

Inv == TypeOK /\ CommitInv /\ TablesInv /\ BrandsOwned /\ ImportedOnce

\* The invariant holds.
LEMMA InvHolds == Spec => []Inv
<1>1. Init => Inv
  <2> SUFFICES ASSUME Init PROVE Inv
    OBVIOUS
  <2>1. TypeOK
    BY DEF Init, TypeOK
  <2>2. CommitInv /\ ImportedOnce
    BY DEF Init, CommitInv, ImportedOnce
  <2>3. BatchInv /\ RowsMade /\ LinksSound
    BY UploadsAssumption DEF Init, BatchInv, RowsMade, LinksSound, Success, Owned
  <2>4. NewestIsCurrent /\ NextInLine
    BY DEF Init, NewestIsCurrent, NextInLine, SameKey, Owned
  <2>5. AgreedInv /\ LiveIsStated
    BY DEF Init, AgreedInv, LiveIsStated, Success
  <2>6. BrandsOwned
    BY DEF Init, BrandsOwned
  <2> QED
    BY <2>1, <2>2, <2>3, <2>4, <2>5, <2>6 DEF Inv, TablesInv
<1>2. Inv /\ [Next]_vars => Inv'
  <2> SUFFICES ASSUME Inv, [Next]_vars PROVE Inv'
    OBVIOUS
  <2>1. TypeOK' /\ CommitInv'
    BY CommitStep DEF Inv
  <2>2. TablesInv'
    BY StepKinds, QuietStep, WriteStep, TakeBackStep DEF Inv
  <2>3. BrandsOwned'
    BY <2>1, <2>2, BrandStep DEF Inv
  <2>4. ImportedOnce'
    <3>1. ASSUME NEW c \in Clients, Write(c) PROVE ImportedOnce'
      <4>1. imports[upload[c]] = 0 /\ imports' = [imports EXCEPT ![upload[c]] = @ + 1]
        BY <3>1 DEF Inv, CommitInv, Write
      <4> QED
        BY <4>1 DEF Inv, ImportedOnce, TypeOK
    <3>2. CASE UNCHANGED imports
      BY <3>2 DEF Inv, ImportedOnce
    <3>3. (\E c \in Clients : Write(c)) \/ UNCHANGED imports
      BY DEF Next, vars, Validate, Expire, CleanupFile, PreCheck, TakeLock, Refused, Diff,
             CommitFails, ApiDies, RollbackBatch, RemoveBatch, Remove
    <3> QED
      BY <3>1, <3>2, <3>3
  <2> QED
    BY <2>1, <2>2, <2>3, <2>4 DEF Inv
<1> QED
  BY <1>1, <1>2, PTL DEF Spec

\* Every variable of the uploads has its type.
THEOREM TypeCorrect == Spec => []TypeOK
BY InvHolds, PTL DEF Inv

\* The rows of a key stay one chain, whatever is committed, rolled back and
\* removed, in any order (removal.ts, rules b and c).
THEOREM LinksStaySound == Spec => []LinksSound
BY InvHolds, PTL DEF Inv, TablesInv

\* A row belongs to a standing batch with its key, and to its value but for
\* the one gap of the hand-over.
THEOREM LiveStaysStated == Spec => []LiveIsStated
BY InvHolds, PTL DEF Inv, TablesInv

\* What the reports show of a key is what the latest standing batch naming it
\* says, whatever was committed, rolled back and removed before -- but for the
\* gap of the hand-over (removal.ts, rules b and c).
THEOREM LatestStaysLive == Spec => []LatestIsLive
<1>1. ASSUME Inv, NEW k \in Keys, NEW b \in Batches, Latest(b, k), ~Bereft(b, k)
      PROVE  LiveValue(k) = {file[b][k]}
  <2>0. /\ owner \in [Rows -> Batches \cup {NoBatch}] /\ current \subseteq Rows
        /\ \A x \in Batches : x \in Nat /\ x # NoBatch
        /\ \A s \in agreed[b] : s \in Rows
        /\ Success(b) /\ k \in DOMAIN file[b]
    BY <1>1, UploadsAssumption DEF Inv, TypeOK, Batches, NoBatch, Latest, Names
  \* Nobody after b has a row for the key.
  <2>1. ASSUME NEW r \in Rows, r[2] = k, Owned(r) PROVE owner[r] \in Batches /\ owner[r] <= b
    <3>1. owner[r] \in Batches /\ Success(owner[r]) /\ k \in DOMAIN file[owner[r]]
      BY <1>1, <2>0, <2>1 DEF Inv, TablesInv, LiveIsStated, Owned
    <3> QED
      BY <1>1, <3>1 DEF Latest, Names
  \* The row that b stands for: its own, or the one that it left unchanged.
  <2>2. PICK s \in Rows : /\ s[2] = k /\ Owned(s) /\ Value(s) = file[b][k]
                          /\ \A r \in Rows : r[2] = k /\ Owned(r) => owner[r] <= owner[s]
    <3>1. CASE owner[<<b, k>>] = b
      <4>1. <<b, k>> \in Rows /\ Owned(<<b, k>>) /\ Value(<<b, k>>) = file[b][k]
        BY <2>0, <3>1 DEF Rows, Owned, Value
      <4> QED
        BY <2>1, <3>1, <4>1
    <3>2. CASE owner[<<b, k>>] # b
      <4>1. PICK s \in agreed[b] : s[2] = k
        BY <1>1, <2>0, <3>2 DEF Inv, TablesInv, AgreedInv
      <4>2. s \in Rows /\ Owned(s) /\ Value(s) = file[b][k]
        BY <1>1, <2>0, <4>1 DEF Inv, TablesInv, AgreedInv, Bereft, Owned
      <4>3. ASSUME NEW r \in Rows, r[2] = k, Owned(r), owner[s] < owner[r] PROVE FALSE
        <5>1. b < owner[r]
          BY <1>1, <4>1, <4>2, <4>3 DEF Inv, TablesInv, AgreedInv, SameKey
        <5> QED
          BY <2>0, <2>1, <4>3, <5>1
      <4>4. owner[s] \in Batches
        BY <2>1, <4>1, <4>2
      <4> QED
        BY <2>0, <2>1, <4>1, <4>2, <4>3, <4>4
    <3> QED
      BY <3>1, <3>2
  \* It is the current one.
  <2>3. ASSUME NEW r \in current, r[2] = k PROVE r = s
    <3>1. r \in Rows /\ Owned(r)
      BY <1>1, <2>0, <2>3 DEF Inv, TablesInv, RowsMade
    <3>2. owner[s] <= owner[r] /\ owner[r] <= owner[s]
      BY <1>1, <2>2, <2>3, <3>1 DEF Inv, TablesInv, NewestIsCurrent, SameKey
    <3>3. owner[r] = owner[s]
      BY <2>0, <2>1, <2>2, <2>3, <3>1, <3>2
    <3> QED
      BY <1>1, <2>2, <2>3, <3>1, <3>3 DEF Inv, TablesInv, LinksSound, Owned
  <2>4. s \in current
    <3>1. PICK r \in current : r[2] = k
      BY <1>1, <2>2 DEF Inv, TablesInv, NewestIsCurrent
    <3> QED
      BY <2>3, <3>1
  <2> QED
    BY <2>2, <2>3, <2>4 DEF LiveValue
<1>2. Inv => LatestIsLive
  BY <1>1 DEF LatestIsLive
<1> QED
  BY <1>2, InvHolds, PTL

\* A brand lives as long as its rows and belongs to a batch that has one
\* (removal.ts, rule d).
THEOREM BrandsStayOwned == Spec => []BrandsOwned
BY InvHolds, PTL DEF Inv

\* A staged upload is imported once (service.ts, loadStaged under the lock).
THEOREM NothingImportedTwice == Spec => []ImportedOnce
BY InvHolds, PTL DEF Inv

\* Taking a batch back changes no value that a later standing batch stated
\* (removal.ts, rules b and c2).
THEOREM LaterBatchesKeepTheirData == Spec => LaterKeepsItsData
<1>1. ASSUME Inv, [Next]_vars, NEW b \in Batches, NEW x \in Batches,
             b < x, Success(b), Success(x), status'[b] # "SUCCESS", NEW k \in DOMAIN file[x]
      PROVE  LiveValue(k)' = LiveValue(k)
  <2>1. TakesBack(b)
    <3>1. ~ Quiet
      BY <1>1 DEF Quiet, Fresh, Success, Inv, TypeOK
    <3>2. ASSUME NEW y \in Batches, NEW f \in Files, Writes(y, f) PROVE FALSE
      BY <1>1, <3>2 DEF Writes, Fresh, Success, Inv, TypeOK
    <3>3. ASSUME NEW y \in Batches, TakesBack(y) PROVE y = b
      BY <1>1, <3>3 DEF TakesBack, Success, Inv, TypeOK
    <3> QED
      BY <1>1, <3>1, <3>2, <3>3, StepKinds DEF Inv
  <2>2. ASSUME NEW r \in Rows, r[2] = k, r \in current, owner[r] = b PROVE owner'[r] # NoBatch
    <3>1. x \in Naming(b, r)
      BY <1>1, <2>2 DEF Naming
    <3> QED
      BY <2>1, <2>2, <3>1, UploadsAssumption DEF TakesBack, Naming, Batches, NoBatch
  <2>3. ASSUME NEW r \in Rows, r[2] = k PROVE r \in current' <=> r \in current
    <3>1. r \in current => owner[r] # NoBatch
      BY <1>1 DEF Inv, TablesInv, RowsMade, Owned
    <3>2. r \in current => r \in current'
      BY <1>1, <2>1, <2>2, <2>3, <3>1 DEF TakesBack
    <3>3. ASSUME r \in current', r \notin current PROVE FALSE
      <4>1. superseded[r] = b /\ superseded'[r] = NoBatch
        BY <2>1, <3>3 DEF TakesBack
      <4>2. PICK m \in Rows : /\ m[2] = r[2] /\ owner[m] = b
                              /\ superseded'[r] = IF m \in current THEN owner'[m] ELSE superseded[m]
        BY <2>1, <4>1 DEF TakesBack
      <4>3. owner[m] # NoBatch
        BY <4>2, UploadsAssumption DEF Batches, NoBatch
      <4>4. m \notin current => superseded[m] # NoBatch
        BY <1>1, <4>3 DEF Inv, TablesInv, LinksSound
      <4> QED
        BY <2>2, <2>3, <4>1, <4>2, <4>4
    <3> QED
      BY <3>2, <3>3
  <2>4. current \subseteq Rows /\ current' \subseteq Rows /\ \A r \in Rows : Value(r)' = Value(r)
    BY <1>1, <2>1 DEF Inv, TypeOK, TakesBack, Value
  <2>5. {r \in current' : r[2] = k} = {r \in current : r[2] = k}
    BY <2>3, <2>4
  <2> QED
    BY <2>4, <2>5 DEF LiveValue
<1>2. Inv /\ [Next]_vars =>
        [\A b, x \in Batches :
            /\ b < x /\ Success(b) /\ Success(x) /\ status'[b] # "SUCCESS"
            => \A k \in DOMAIN file[x] : LiveValue(k)' = LiveValue(k)]_vars
  BY <1>1
<1> QED
  BY <1>2, InvHolds, PTL DEF Spec, LaterKeepsItsData

-----------------------------------------------------------------------------
(* The ledger *)

\* What the rows say to the ledger, for any owners, values and current rows.
Entries(O, V) == {<<O[r], r[2], V[r]>> : r \in {r \in Rows : O[r] # NoBatch}}
Live(C, V)    == {<<r[2], V[r]>> : r \in C}

\* The newest entries are those of the current rows.
LEMMA CurrentIsSeen ==
    ASSUME NEW O \in [Rows -> Nat], NEW V, NEW C \in SUBSET Rows,
           \A r \in C : O[r] # NoBatch,
           \A r \in C, s \in Rows : r[2] = s[2] /\ O[s] # NoBatch => O[s] <= O[r],
           \A r \in Rows : O[r] # NoBatch => \E s \in C : s[2] = r[2],
           \A r, s \in Rows : r # s /\ r[2] = s[2] /\ O[r] # NoBatch /\ O[s] # NoBatch => O[r] # O[s]
    PROVE  /\ Ledger!Newest(Entries(O, V)) = {<<O[r], r[2], V[r]>> : r \in C}
           /\ Ledger!Seen(Entries(O, V)) = Live(C, V)
<1> DEFINE E == Entries(O, V)
           N == {<<O[r], r[2], V[r]>> : r \in C}
<1>1. ASSUME NEW e \in N PROVE e \in Ledger!Newest(E)
  <2>1. PICK r \in C : e = <<O[r], r[2], V[r]>>
    OBVIOUS
  <2>2. e \in E
    BY <2>1 DEF Entries
  <2>3. ASSUME NEW o \in E, o[2] = e[2] PROVE o[1] <= e[1]
    <3>1. PICK s \in Rows : O[s] # NoBatch /\ o = <<O[s], s[2], V[s]>>
      BY DEF Entries
    <3>2. o[1] = O[s] /\ s[2] = r[2] /\ e[1] = O[r]
      BY <2>1, <2>3, <3>1
    <3> QED
      BY <3>1, <3>2
  <2> QED
    BY <2>2, <2>3 DEF Ledger!Newest
<1>2. ASSUME NEW e \in Ledger!Newest(E) PROVE e \in N
  <2>1. e \in E /\ \A o \in E : o[2] = e[2] => o[1] <= e[1]
    BY DEF Ledger!Newest
  <2>2. PICK r \in Rows : O[r] # NoBatch /\ e = <<O[r], r[2], V[r]>>
    BY <2>1 DEF Entries
  <2>3. PICK s \in C : s[2] = r[2]
    BY <2>2
  <2>4. <<O[s], s[2], V[s]>> \in E
    BY DEF Entries
  <2>5. O[s] <= O[r] /\ O[r] <= O[s]
    <3> DEFINE o == <<O[s], s[2], V[s]>>
    <3>1. o[1] = O[s] /\ o[2] = s[2] /\ e[1] = O[r] /\ e[2] = r[2]
      BY <2>2
    <3> HIDE DEF o, E
    <3>2. o[1] <= e[1]
      BY <2>1, <2>3, <2>4, <3>1 DEF o
    <3> QED
      BY <2>2, <2>3, <3>1, <3>2
  <2>6. r = s
    BY <2>2, <2>3, <2>5
  <2> QED
    BY <2>2, <2>6
<1>3. Ledger!Newest(E) = N
  BY <1>1, <1>2
<1>4. Ledger!Seen(E) = {<<e[2], e[3]>> : e \in N}
  BY <1>3 DEF Ledger!Seen
<1>5. {<<e[2], e[3]>> : e \in N} = Live(C, V)
  <2>1. ASSUME NEW e \in N PROVE <<e[2], e[3]>> \in Live(C, V)
    <3>1. PICK r \in C : e = <<O[r], r[2], V[r]>>
      OBVIOUS
    <3>2. e[2] = r[2] /\ e[3] = V[r]
      BY <3>1
    <3> QED
      BY <3>2 DEF Live
  <2>2. ASSUME NEW l \in Live(C, V) PROVE \E e \in N : l = <<e[2], e[3]>>
    <3>1. PICK r \in C : l = <<r[2], V[r]>>
      BY DEF Live
    <3> DEFINE e == <<O[r], r[2], V[r]>>
    <3>2. e \in N /\ e[2] = r[2] /\ e[3] = V[r]
      OBVIOUS
    <3> QED
      BY <3>1, <3>2
  <2> HIDE DEF N
  <2> QED
    BY <2>1, <2>2
<1> QED
  BY <1>3, <1>4, <1>5

\* What the tables show of the ledger (ImplementsLedger).
LedgerFiles   == [b \in Batches |-> IF Success(b) THEN file[b] ELSE NoFile]
LedgerEntries == {<<owner[r], r[2], Value(r)>> : r \in {r \in Rows : owner[r] # NoBatch}}
LedgerLive    == {<<r[2], Value(r)>> : r \in current}

\* The current rows are what the ledger's reports see.
LEMMA LiveIsSeen ==
    ASSUME TypeOK, TablesInv
    PROVE  /\ Ledger!Newest(LedgerEntries) = {<<owner[r], r[2], Value(r)>> : r \in current}
           /\ Ledger!Seen(LedgerEntries) = LedgerLive
<1> DEFINE V == [r \in Rows |-> Value(r)]
<1>1. \A r \in Rows : V[r] = Value(r)
  OBVIOUS
<1>2. current \in SUBSET Rows /\ owner \in [Rows -> Nat]
  BY UploadsAssumption DEF TypeOK, Batches, NoBatch
<1> HIDE DEF V
<1>3. LedgerEntries = Entries(owner, V)
  BY <1>1 DEF Entries, LedgerEntries
<1>4. LedgerLive = Live(current, V)
  BY <1>1, <1>2 DEF Live, LedgerLive
<1>5. {<<owner[r], r[2], Value(r)>> : r \in current} = {<<owner[r], r[2], V[r]>> : r \in current}
  BY <1>1, <1>2
<1>6. /\ \A r \in current : owner[r] # NoBatch
      /\ \A r \in current, s \in Rows : r[2] = s[2] /\ owner[s] # NoBatch => owner[s] <= owner[r]
      /\ \A r \in Rows : owner[r] # NoBatch => \E s \in current : s[2] = r[2]
      /\ \A r, s \in Rows :
           r # s /\ r[2] = s[2] /\ owner[r] # NoBatch /\ owner[s] # NoBatch => owner[r] # owner[s]
  BY <1>2 DEF TablesInv, RowsMade, NewestIsCurrent, LinksSound, SameKey, Owned
<1>7. /\ Ledger!Newest(Entries(owner, V)) = {<<owner[r], r[2], V[r]>> : r \in current}
      /\ Ledger!Seen(Entries(owner, V)) = Live(current, V)
  BY <1>2, <1>6, CurrentIsSeen
<1> QED
  BY <1>3, <1>4, <1>5, <1>7

\* A commit is an import.
LEMMA WriteImports ==
    ASSUME TypeOK, TablesInv, NEW b \in Batches, NEW f \in Files, Writes(b, f),
           LedgerLive' = Ledger!Seen(LedgerEntries')
    PROVE  Ledger!Import(b, f)
<1>1. /\ status[b] = "none" /\ New(b, f) \subseteq Rows
      /\ \A x \in Batches : status[x] # "none" => x < b
      /\ \A r \in New(b, f) : r = <<b, r[2]>> /\ r[1] = b /\ r[2] \in DOMAIN f /\ ~ Owned(r)
  BY WriteFacts
<1>2. /\ \A x \in Batches : Success(x)' <=> Success(x) \/ x = b
      /\ \A x \in Batches : x # b => file'[x] = file[x]
      /\ file'[b] = f
  BY DEF Writes, Success, TypeOK
<1>3. ASSUME NEW x \in Batches, LedgerFiles[x] # NoFile PROVE x < b
  BY <1>1, <1>3 DEF LedgerFiles, Success
<1>4. LedgerFiles' = [LedgerFiles EXCEPT ![b] = f]
  BY <1>2 DEF LedgerFiles, Success
<1>5. ASSUME NEW r \in Rows, owner[r] # NoBatch
      PROVE  owner'[r] = owner[r] /\ Value(r)' = Value(r) /\ r \notin New(b, f)
  <2>1. r[1] \in Batches /\ r[1] # b /\ r \notin New(b, f)
    BY <1>1, <1>5 DEF TablesInv, RowsMade, Owned, Rows
  <2>2. owner'[r] = owner[r]
    BY <2>1 DEF Writes
  <2> QED
    BY <1>2, <2>1, <2>2 DEF Value
<1>6. ASSUME NEW r \in New(b, f) PROVE owner'[r] = b /\ Value(r)' = f[r[2]] /\ b # NoBatch
  BY <1>1, <1>2, UploadsAssumption DEF Writes, Value, Batches, NoBatch
<1>7. \A r \in Rows : owner'[r] # NoBatch <=> owner[r] # NoBatch \/ r \in New(b, f)
  BY <1>5, <1>6 DEF Writes
<1> DEFINE changed == {k \in DOMAIN f : <<k, f[k]>> \notin LedgerLive}
<1>8. ASSUME NEW k PROVE k \in changed <=> <<b, k>> \in New(b, f)
  <2>1. <<b, k>> \in New(b, f) <=> k \in DOMAIN f /\ \A y \in Unchanged(f, current) : y[2] # k
    BY DEF New, NewRows
  <2>2. ASSUME k \in DOMAIN f
        PROVE  <<k, f[k]>> \in LedgerLive <=> \E y \in Unchanged(f, current) : y[2] = k
    <3>1. <<k, f[k]>> \in LedgerLive <=> \E y \in current : y[2] = k /\ Value(y) = f[k]
      BY DEF LedgerLive
    <3>2. \A y : y \in Unchanged(f, current) /\ y[2] = k <=> y \in current /\ y[2] = k /\ Value(y) = f[k]
      BY <2>2 DEF Unchanged
    <3> QED
      BY <3>1, <3>2
  <2> QED
    BY <2>1, <2>2
<1>9. LedgerEntries' = LedgerEntries \cup {<<b, k, f[k]>> : k \in changed}
  <2>1. ASSUME NEW e \in LedgerEntries'
        PROVE  e \in LedgerEntries \cup {<<b, k, f[k]>> : k \in changed}
    <3>1. PICK r \in Rows : owner'[r] # NoBatch /\ e = <<owner'[r], r[2], Value(r)'>>
      BY DEF LedgerEntries
    <3>2. CASE owner[r] # NoBatch
      BY <1>5, <3>1, <3>2 DEF LedgerEntries
    <3>3. CASE r \in New(b, f)
      <4>1. r[2] \in changed
        BY <1>1, <1>8, <3>3
      <4>2. e = <<b, r[2], f[r[2]]>>
        BY <1>6, <3>1, <3>3
      <4> HIDE DEF changed
      <4> QED
        BY <4>1, <4>2
    <3> QED
      BY <1>7, <3>1, <3>2, <3>3
  <2>2. ASSUME NEW e \in LedgerEntries PROVE e \in LedgerEntries'
    <3>1. PICK r \in Rows : owner[r] # NoBatch /\ e = <<owner[r], r[2], Value(r)>>
      BY DEF LedgerEntries
    <3> QED
      BY <1>5, <3>1 DEF LedgerEntries
  <2>3. ASSUME NEW k \in changed PROVE <<b, k, f[k]>> \in LedgerEntries'
    <3> DEFINE r == <<b, k>>
    <3>1. r \in New(b, f) /\ r \in Rows /\ r[2] = k
      BY <1>1, <1>8
    <3>2. owner'[r] = b /\ Value(r)' = f[k] /\ b # NoBatch
      BY <1>6, <3>1
    <3> HIDE DEF r
    <3> QED
      BY <3>1, <3>2 DEF LedgerEntries
  <2> HIDE DEF changed
  <2> QED
    BY <2>1, <2>2, <2>3
<1> QED
  BY <1>3, <1>4, <1>9 DEF Ledger!Import, Ledger!Stands, LedgerFiles, LedgerEntries, LedgerLive

\* A rollback or a removal takes an import back.
LEMMA TakeBackTakesBack ==
    ASSUME TypeOK, TablesInv, NEW b \in Batches, TakesBack(b),
           LedgerLive' = Ledger!Seen(LedgerEntries')
    PROVE  Ledger!TakeBack(b)
<1>1. b # NoBatch /\ NoBatch \notin Batches /\ Batches \subseteq Nat /\ NoBatch = 0
  BY UploadsAssumption DEF Batches, NoBatch
<1>2. /\ \A x \in Batches : Success(x)' <=> Success(x) /\ x # b
      /\ Success(b) /\ file' = file /\ \A r \in Rows : Value(r)' = Value(r)
  BY DEF TakesBack, Success, Value, TypeOK
<1>3. \A x \in Batches : LedgerFiles[x] # NoFile <=> Success(x)
  BY UploadsAssumption DEF LedgerFiles, TablesInv, BatchInv
<1>4. LedgerFiles' = [LedgerFiles EXCEPT ![b] = NoFile]
  BY <1>2 DEF LedgerFiles, Success
<1>5. /\ \A r \in Rows : owner[r] # NoBatch /\ owner[r] # b => owner'[r] = owner[r]
      /\ \A r \in Rows : owner'[r] # NoBatch => owner[r] # NoBatch /\ owner'[r] # b
      /\ \A r \in Rows : owner'[r] # NoBatch /\ owner'[r] # owner[r] => owner[r] = b /\ r \in current
  BY TakeBackFacts
<1>6. \A r \in Rows : owner[r] = b =>
        IF r \in current /\ Naming(b, r) # {}
        THEN owner'[r] \in Naming(b, r) /\ \A x \in Naming(b, r) : owner'[r] <= x
        ELSE owner'[r] = NoBatch
  BY DEF TakesBack
<1>7. Ledger!Newest(LedgerEntries) = {<<owner[r], r[2], Value(r)>> : r \in current}
  BY LiveIsSeen
<1>8. ASSUME NEW r \in Rows, owner[r] = b
      PROVE  Ledger!Naming(<<b, r[2], Value(r)>>) = Naming(b, r)
  <2> DEFINE e == <<b, r[2], Value(r)>>
  <2>1. e[1] = b /\ e[2] = r[2]
    OBVIOUS
  <2>2. \A x \in Batches : Success(x) => LedgerFiles[x] = file[x]
    BY DEF LedgerFiles
  <2>3. Ledger!Naming(e) = {x \in Batches : x > e[1] /\ LedgerFiles[x] # NoFile /\ e[2] \in DOMAIN LedgerFiles[x]}
    BY DEF Ledger!Naming, Ledger!Stands, LedgerFiles
  <2> HIDE DEF e
  <2>4. Ledger!Naming(e) = Naming(b, r)
    BY <1>3, <2>1, <2>2, <2>3 DEF Naming
  <2> QED
    BY <2>4 DEF e
<1>9. ASSUME NEW r \in Rows, owner[r] = b, r \in current
      PROVE  Ledger!Passed(<<b, r[2], Value(r)>>) =
               IF owner'[r] = NoBatch THEN {} ELSE {<<owner'[r], r[2], Value(r)>>}
  <2> DEFINE e == <<b, r[2], Value(r)>>
             first == {x \in Naming(b, r) : \A y \in Naming(b, r) : x <= y}
  <2>1. e[2] = r[2] /\ e[3] = Value(r) /\ Ledger!Naming(e) = Naming(b, r)
    BY <1>8, <1>9
  <2>2. first = IF owner'[r] = NoBatch THEN {} ELSE {owner'[r]}
    <3>1. Naming(b, r) \subseteq Batches
      BY DEF Naming
    <3>2. CASE Naming(b, r) = {}
      BY <1>6, <1>9, <3>2
    <3>3. CASE Naming(b, r) # {}
      <4>1. owner'[r] \in Naming(b, r) /\ \A x \in Naming(b, r) : owner'[r] <= x
        BY <1>6, <1>9, <3>3
      <4>2. ASSUME NEW x \in first PROVE x = owner'[r]
        <5>1. x \in Naming(b, r) /\ x <= owner'[r] /\ owner'[r] <= x
          BY <4>1
        <5>2. x \in Nat /\ owner'[r] \in Nat
          BY <1>1, <3>1, <4>1, <5>1
        <5> QED
          BY <5>1, <5>2
      <4> QED
        BY <1>1, <3>1, <4>1, <4>2
    <3> QED
      BY <3>2, <3>3
  <2>3. Ledger!Passed(e) = {<<x, e[2], e[3]>> : x \in first}
    BY <2>1 DEF Ledger!Passed
  <2> HIDE DEF e, first
  <2>4. Ledger!Passed(e) = IF owner'[r] = NoBatch THEN {} ELSE {<<owner'[r], r[2], Value(r)>>}
    BY <2>1, <2>2, <2>3
  <2> QED
    BY <2>4 DEF e
<1> DEFINE kept   == {e \in LedgerEntries : e[1] # b}
           struck == {e \in Ledger!Newest(LedgerEntries) : e[1] = b}
           passed == UNION {Ledger!Passed(e) : e \in struck}
<1>10. ASSUME NEW e PROVE e \in struck <=> \E r \in current : owner[r] = b /\ e = <<b, r[2], Value(r)>>
  BY <1>7
<1>11. current \subseteq Rows
  BY DEF TypeOK
<1>12. LedgerEntries' = kept \cup passed
  <2>1. ASSUME NEW e \in LedgerEntries' PROVE e \in kept \/ e \in passed
    <3>1. PICK r \in Rows : owner'[r] # NoBatch /\ e = <<owner'[r], r[2], Value(r)>>
      BY <1>2 DEF LedgerEntries
    <3>2. CASE owner'[r] = owner[r]
      <4>1. owner[r] # b /\ e[1] = owner[r]
        BY <1>5, <3>1, <3>2
      <4> QED
        BY <3>1, <3>2, <4>1 DEF LedgerEntries
    <3>3. CASE owner'[r] # owner[r]
      <4>1. owner[r] = b /\ r \in current
        BY <1>5, <3>1, <3>3
      <4>2. e \in Ledger!Passed(<<b, r[2], Value(r)>>)
        BY <1>9, <3>1, <4>1
      <4>3. <<b, r[2], Value(r)>> \in struck
        BY <1>10, <4>1
      <4> HIDE DEF struck
      <4> QED
        BY <4>2, <4>3
    <3> QED
      BY <3>2, <3>3
  <2>2. ASSUME NEW e \in kept PROVE e \in LedgerEntries'
    <3>1. PICK r \in Rows : owner[r] # NoBatch /\ e = <<owner[r], r[2], Value(r)>>
      BY DEF LedgerEntries
    <3>2. owner[r] # b
      BY <3>1
    <3>3. owner'[r] = owner[r]
      BY <1>5, <3>1, <3>2
    <3> QED
      BY <1>2, <3>1, <3>3 DEF LedgerEntries
  <2>3. ASSUME NEW e \in passed PROVE e \in LedgerEntries'
    <3>1. PICK s \in struck : e \in Ledger!Passed(s)
      OBVIOUS
    <3> HIDE DEF struck, passed
    <3>2. PICK r \in current : owner[r] = b /\ s = <<b, r[2], Value(r)>>
      BY <1>10
    <3>3. owner'[r] # NoBatch /\ e = <<owner'[r], r[2], Value(r)>>
      BY <1>9, <1>11, <3>1, <3>2
    <3> QED
      BY <1>2, <1>11, <3>3 DEF LedgerEntries
  <2> HIDE DEF kept, passed
  <2> QED
    BY <2>1, <2>2, <2>3
<1>13. LedgerFiles[b] # NoFile
  BY <1>2, <1>3
<1> QED
  BY <1>4, <1>12, <1>13 DEF Ledger!TakeBack, Ledger!Stands, LedgerFiles, LedgerEntries, LedgerLive

\* The rows, links and hand-overs implement the ledger: a commit is an
\* import, a rollback or removal takes one back, all else is invisible.
THEOREM LedgerImplemented == Spec => ImplementsLedger
<1>1. Init => Ledger!Init
  BY DEF Init, Ledger!Init, Success
<1>2. Inv => LedgerLive = Ledger!Seen(LedgerEntries)
  BY LiveIsSeen DEF Inv
<1>3. Inv /\ (LedgerLive = Ledger!Seen(LedgerEntries))' /\ [Next]_vars => [Ledger!Next]_(Ledger!vars)
  <2> SUFFICES ASSUME Inv, (LedgerLive = Ledger!Seen(LedgerEntries))', [Next]_vars
               PROVE  [Ledger!Next]_(Ledger!vars)
    OBVIOUS
  <2>1. LedgerLive' = Ledger!Seen(LedgerEntries')
    BY DEF Ledger!Seen, Ledger!Newest
  <2>2. ASSUME NEW b \in Batches, NEW f \in Files, Writes(b, f) PROVE Ledger!Next
    BY <2>1, <2>2, WriteImports DEF Inv, Ledger!Next
  <2>3. ASSUME NEW b \in Batches, TakesBack(b) PROVE Ledger!Next
    BY <2>1, <2>3, TakeBackTakesBack DEF Inv, Ledger!Next
  <2>4. CASE Quiet
    <3>1. UNCHANGED <<file, owner, current>> /\ \A x \in Batches : Success(x)' <=> Success(x)
      BY <2>4 DEF Quiet, rowVars, Fresh, Success, Inv, TypeOK
    <3> QED
      BY <3>1 DEF Ledger!vars, Success, Value
  <2> QED
    BY <2>2, <2>3, <2>4, StepKinds DEF Inv
<1> QED
  BY <1>1, <1>2, <1>3, InvHolds, PTL DEF Spec, ImplementsLedger, Ledger!Spec

=============================================================================
