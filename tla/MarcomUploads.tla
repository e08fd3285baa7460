---------------------------- MODULE MarcomUploads ---------------------------
(***************************************************************************)
(* The MARCOM uploads (backend/src/marcom): a file is staged by a dry run, *)
(* committed in one transaction under a MySQL named lock, and a batch can  *)
(* be rolled back (the latest) or removed (any).  The data tables are      *)
(* append-only: a row that a later batch replaces stays, not current, and  *)
(* points to that batch; taking a batch back has to undo exactly this.     *)
(*                                                                         *)
(* The tables (ADAPTERS) are treated alike, so one stands for all.         *)
(***************************************************************************)
EXTENDS Integers, FiniteSets

CONSTANTS
    MaxBatches,   \* bound: AUTO_INCREMENT ids of marcom_upload_batch
    Keys, Values, \* natural keys and the contents of a row
    Brands, Brand,     \* the brand that a row's content names
    Files,        \* bound: the files users upload, values by key
    NoFile,
    Uploads,      \* bound: staged uploads that may be made
    Clients,      \* POST /commit requests that may run at a time
    NoClient, NoUpload

Batches == 1..MaxBatches
NoBatch == 0
\* A data row, named by the batch that inserted it and its natural key.
Rows == Batches \X Keys

ASSUME UploadsAssumption ==
    /\ MaxBatches \in Nat
    /\ \A f \in Files : DOMAIN f \subseteq Keys /\ \A k \in DOMAIN f : f[k] \in Values
    /\ NoFile \notin Files
    /\ Brand \in [Values -> Brands]
    /\ NoClient \notin Clients /\ NoUpload \notin Uploads

VARIABLES
    \* marcom_upload_batch; agreed: the rows that its file left unchanged (the
    \* table has their number, summary_json.totals.unchanged: which, is history)
    status, file, agreed,
    \* the data tables: batch_id (NoBatch: deleted), is_current, superseded_by_batch
    owner, current, superseded,
    creator,      \* marcom_brand.created_batch_id (NoBatch: no such brand)
    \* marcom_staged_upload, and its file in the staging directory (NoFile: none)
    staged, disk,
    lock,         \* who holds marcom_write_lock
    \* commitUpload in progress; what it parsed, the rows it compares with
    pc, upload, parsed, diff,
    imports       \* history: how often an upload was imported

batchVars  == <<status, file, agreed>>
rowVars    == <<owner, current, superseded, creator>>
stagedVars == <<staged, disk>>
clientVars == <<lock, pc, upload, parsed, diff>>
vars == <<batchVars, rowVars, stagedVars, clientVars, imports>>

Value(r)   == file[r[1]][r[2]]
Success(b) == status[b] = "SUCCESS"
Fresh(b)   == status[b] = "none" /\ \A x \in Batches : x < b => status[x] # "none"
First(S)   == CHOOSE x \in S : \A y \in S : x <= y

-----------------------------------------------------------------------------
(* validateUpload and cleanupExpiredStaged *)

\* The dry run: the file is written and parsed, nothing else is.
Validate(u, f) ==
    /\ staged[u] = "none"
    /\ staged' = [staged EXCEPT ![u] = "open"]
    /\ disk'   = [disk EXCEPT ![u] = f]
    /\ UNCHANGED <<batchVars, rowVars, clientVars, imports>>

\* expires_at passes; without its file an upload is as good as expired.
Expire(u) ==
    /\ staged[u] \in {"open", "consumed"} /\ disk[u] # NoFile
    /\ staged' = [staged EXCEPT ![u] = "expired"]
    /\ UNCHANGED <<batchVars, rowVars, disk, clientVars, imports>>

\* The file goes first; the DELETE waits for a commit that holds the row.
CleanupFile(u) ==
    /\ staged[u] = "expired" /\ disk[u] # NoFile
    /\ disk' = [disk EXCEPT ![u] = NoFile]
    /\ UNCHANGED <<batchVars, rowVars, staged, clientVars, imports>>

-----------------------------------------------------------------------------
(* commitUpload *)

\* The refusals before the lock: an upload that is consumed, expired or gone.
PreCheck(c, u) ==
    /\ pc[c] = "idle"
    /\ staged[u] = "open" /\ disk[u] # NoFile
    /\ pc'     = [pc EXCEPT ![c] = "checked"]
    /\ upload' = [upload EXCEPT ![c] = u]
    /\ UNCHANGED <<batchVars, rowVars, stagedVars, lock, parsed, diff, imports>>

\* The request is answered, or (lostAnswer) only its catch is left.
Leave(c, at) ==
    /\ lock'   = IF lock = c THEN NoClient ELSE lock
    /\ pc'     = [pc EXCEPT ![c] = at]
    /\ upload' = [upload EXCEPT ![c] = NoUpload]
    /\ parsed' = [parsed EXCEPT ![c] = NoFile]
    /\ diff'   = [diff EXCEPT ![c] = {}]

\* Slip: the upload is not looked at again under the lock.
TakeLockUnchecked(c) ==
    /\ pc[c] = "checked" /\ lock = NoClient
    /\ lock' = c
    /\ pc'   = [pc EXCEPT ![c] = "locked"]
    /\ UNCHANGED <<batchVars, rowVars, stagedVars, upload, parsed, diff, imports>>

\* GET_LOCK, and loadStaged again, on the locked row.
TakeLock(c) ==
    /\ pc[c] = "checked" /\ lock = NoClient
    /\ staged[upload[c]] = "open"
    /\ lock' = c
    /\ pc'   = [pc EXCEPT ![c] = "locked"]
    /\ UNCHANGED <<batchVars, rowVars, stagedVars, upload, parsed, diff, imports>>

\* 503 BUSY after 30 s, or 409 and 410: refused, and no batch row is written.
Refused(c) ==
    /\ pc[c] = "checked"
    /\ lock # NoClient \/ staged[upload[c]] # "open"
    /\ Leave(c, "idle")
    /\ UNCHANGED <<batchVars, rowVars, stagedVars, imports>>

\* runParse reads the staged file again; diffAll reads the current rows.
Diff(c) ==
    /\ pc[c] = "locked" /\ disk[upload[c]] # NoFile
    /\ parsed' = [parsed EXCEPT ![c] = disk[upload[c]]]
    /\ diff'   = [diff EXCEPT ![c] = current]
    /\ pc'     = [pc EXCEPT ![c] = "diffed"]
    /\ UNCHANGED <<batchVars, rowVars, stagedVars, lock, upload, imports>>

\* diffTable, by natural key.
Unchanged(f, S) == {r \in S : r[2] \in DOMAIN f /\ Value(r) = f[r[2]]}
Replaced(f, S)  == {r \in S : r[2] \in DOMAIN f /\ Value(r) # f[r[2]]}
NewRows(b, f, S) ==
    {r \in {b} \X DOMAIN f : \A x \in Unchanged(f, S) : x[2] # r[2]}

\* UPDATE ... AND is_current = 1 must hit a row, and an INSERT must find the
\* unique key (natural key, is_current) free; otherwise the commit throws.
Applies(old, new) ==
    /\ old \subseteq current
    /\ \A r \in new, x \in current : x[2] = r[2] => x \in old

\* The writes and COMMIT, then removeStagedFile.  The answer to COMMIT may be
\* lost: then the file stays and the catch runs too.
Write(c) ==
    /\ pc[c] = "diffed"
    /\ \E b \in Batches :
        /\ Fresh(b)                                        \* bound MaxBatches
        /\ LET f   == parsed[c]
               old == Replaced(f, diff[c])
               new == NewRows(b, f, diff[c])
           IN
            /\ Applies(old, new)
            /\ status'     = [status EXCEPT ![b] = "SUCCESS"]
            /\ file'       = [file EXCEPT ![b] = f]
            /\ agreed'     = [agreed EXCEPT ![b] = Unchanged(f, diff[c])]
            /\ owner'      = [r \in Rows |-> IF r \in new THEN b ELSE owner[r]]
            /\ current'    = (current \ old) \cup new
            /\ superseded' = [r \in Rows |-> IF r \in old THEN b ELSE superseded[r]]
            /\ creator'    = [x \in Brands |->
                                IF creator[x] = NoBatch /\ \E k \in DOMAIN f : Brand[f[k]] = x
                                THEN b ELSE creator[x]]
    /\ imports' = [imports EXCEPT ![upload[c]] = @ + 1]
    /\ staged' = [staged EXCEPT ![upload[c]] = "consumed"]
    /\ \/ disk' = [disk EXCEPT ![upload[c]] = NoFile] /\ Leave(c, "idle")
       \/ disk' = disk /\ Leave(c, "lostAnswer")

\* Anything unexpected: rolled back, and a FAILED row for the history, which
\* may not come about either.
CommitFails(c) ==
    /\ pc[c] \in {"locked", "diffed", "lostAnswer"}
    /\ \/ status' = status
       \/ \E b \in Batches : Fresh(b) /\ status' = [status EXCEPT ![b] = "FAILED"]
    /\ Leave(c, "idle")
    /\ UNCHANGED <<file, agreed, rowVars, stagedVars, imports>>

\* The API process dies: MySQL rolls back and frees the lock.
ApiDies ==
    /\ \E c \in Clients : pc[c] # "idle"
    /\ lock'   = NoClient
    /\ pc'     = [c \in Clients |-> "idle"]
    /\ upload' = [c \in Clients |-> NoUpload]
    /\ parsed' = [c \in Clients |-> NoFile]
    /\ diff'   = [c \in Clients |-> {}]
    /\ UNCHANGED <<batchVars, rowVars, stagedVars, imports>>

-----------------------------------------------------------------------------
(* removal.ts: planRemoval and applyRemoval, one transaction under the lock *)

Own(b)     == {r \in Rows : owner[r] = b}
Earlier(b) == {r \in Rows : superseded[r] = b}

\* Slip: as for a rollback, no later file is looked at.
NoLaterFiles(b) == {}

\* laterBatchKeys: only the files of batches that left a row unchanged.
LaterFiles(b) == {x \in Batches : x > b /\ Success(x) /\ agreed[x] # {}}

\* Slip: any later batch that left something unchanged, whatever its keys.
TakersOfAnyKey(r, later) == {x \in later : r \in current}

\* Rule c2: the batch a current row of the removed batch is handed over to.
Takers(r, later) == {x \in later : r \in current /\ r[2] \in DOMAIN file[x]}

\* Slip: the latest of them.
HandedToLast(r, later) ==
    IF Takers(r, later) = {} THEN NoBatch
    ELSE CHOOSE x \in Takers(r, later) : \A y \in Takers(r, later) : y <= x

HandedTo(r, later) == IF Takers(r, later) = {} THEN NoBatch ELSE First(Takers(r, later))

\* Slip: the rollback's rule for every batch, without c3.
HeirRearmed(e, b, later) ==
    LET mine == {r \in Own(b) : r[2] = e[2] /\ r \in current}
    IN  IF mine = {} THEN NoBatch ELSE HandedTo(CHOOSE r \in mine : TRUE, later)

\* Slip: current again although the row that replaced it was handed over.
HeirOfHanded(e, b, later) ==
    LET mine == {r \in Own(b) : r[2] = e[2] /\ r \notin current}
    IN  IF mine = {} THEN NoBatch ELSE superseded[CHOOSE r \in mine : TRUE]

\* Rules c1 to c3: what a row that b superseded points to afterwards;
\* NoBatch: it is current again.
Heir(e, b, later) ==
    LET mine   == {r \in Own(b) : r[2] = e[2]}
        others == {r \in current \ Own(b) : r[2] = e[2]}
        m      == CHOOSE r \in mine : TRUE
    IN  IF mine = {}
        THEN IF others = {} THEN NoBatch ELSE owner[CHOOSE r \in others : TRUE]
        ELSE IF m \in current THEN HandedTo(m, later) ELSE superseded[m]

\* Slip: a brand that is still used stays the removed batch's.
CreatorKept(x, b, newOwner) ==
    IF creator[x] = b /\ \A r \in Rows : newOwner[r] # NoBatch => Brand[Value(r)] # x
    THEN NoBatch ELSE creator[x]

\* Rule d: a brand that b created goes with its last row; until then it is
\* the earliest batch's that still has one.
Creator(x, b, newOwner) ==
    LET users == {newOwner[r] : r \in {r \in Rows : newOwner[r] # NoBatch /\ Brand[Value(r)] = x}}
    IN  IF creator[x] # b THEN creator[x] ELSE IF users = {} THEN NoBatch ELSE First(users)

Remove(b, later, verdict) ==
    LET kept     == {r \in Own(b) : HandedTo(r, later) # NoBatch}
        gone     == Own(b) \ kept
        newOwner == [r \in Rows |-> IF r \in gone THEN NoBatch
                                    ELSE IF r \in kept THEN HandedTo(r, later) ELSE owner[r]]
    IN
    /\ lock = NoClient
    /\ status'     = [status EXCEPT ![b] = verdict]
    /\ owner'      = newOwner
    /\ current'    = (current \ gone) \cup {r \in Earlier(b) : Heir(r, b, later) = NoBatch}
    /\ superseded' = [r \in Rows |-> IF r \in gone THEN NoBatch
                                     ELSE IF r \in Earlier(b) THEN Heir(r, b, later) ELSE superseded[r]]
    /\ creator'    = [x \in Brands |-> Creator(x, b, newOwner)]
    /\ UNCHANGED <<file, agreed, stagedVars, clientVars, imports>>

RollbackBatch(b) ==
    /\ Success(b) /\ \A x \in Batches : Success(x) => x <= b
    /\ Remove(b, {}, "ROLLED_BACK")

\* Slip: a status the column does not have.
RemoveBatchUnknown(b) ==
    /\ Success(b)
    /\ Remove(b, LaterFiles(b), "DELETED")

RemoveBatch(b) ==
    /\ Success(b)
    /\ Remove(b, LaterFiles(b), "REMOVED")

-----------------------------------------------------------------------------
Init ==
    /\ status = [b \in Batches |-> "none"]
    /\ file = [b \in Batches |-> NoFile]
    /\ agreed = [b \in Batches |-> {}]
    /\ owner = [r \in Rows |-> NoBatch]
    /\ current = {}
    /\ superseded = [r \in Rows |-> NoBatch]
    /\ creator = [x \in Brands |-> NoBatch]
    /\ staged = [u \in Uploads |-> "none"]
    /\ disk = [u \in Uploads |-> NoFile]
    /\ lock = NoClient
    /\ pc = [c \in Clients |-> "idle"]
    /\ upload = [c \in Clients |-> NoUpload]
    /\ parsed = [c \in Clients |-> NoFile]
    /\ diff = [c \in Clients |-> {}]
    /\ imports = [u \in Uploads |-> 0]

Next ==
    \/ \E u \in Uploads :
        \/ \E f \in Files : Validate(u, f)
        \/ Expire(u)
        \/ CleanupFile(u)
    \/ \E c \in Clients :
        \/ \E u \in Uploads : PreCheck(c, u)
        \/ TakeLock(c) \/ Refused(c)
        \/ Diff(c) \/ Write(c) \/ CommitFails(c)
    \/ ApiDies
    \/ \E b \in Batches : RollbackBatch(b) \/ RemoveBatch(b)

Spec == Init /\ [][Next]_vars

-----------------------------------------------------------------------------
(* Properties *)

\* Every variable has its type.
TypeOK ==
    /\ status \in [Batches -> {"none", "SUCCESS", "FAILED", "ROLLED_BACK", "REMOVED"}]
    /\ file \in [Batches -> Files \cup {NoFile}]
    /\ agreed \in [Batches -> SUBSET Rows]
    /\ owner \in [Rows -> Batches \cup {NoBatch}]
    /\ current \subseteq Rows
    /\ superseded \in [Rows -> Batches \cup {NoBatch}]
    /\ creator \in [Brands -> Batches \cup {NoBatch}]
    /\ staged \in [Uploads -> {"none", "open", "consumed", "expired"}]
    /\ disk \in [Uploads -> Files \cup {NoFile}]
    /\ lock \in Clients \cup {NoClient}
    /\ pc \in [Clients -> {"idle", "checked", "locked", "diffed", "lostAnswer"}]
    /\ upload \in [Clients -> Uploads \cup {NoUpload}]
    /\ parsed \in [Clients -> Files \cup {NoFile}]
    /\ diff \in [Clients -> SUBSET Rows]
    /\ imports \in [Uploads -> Nat]

\* The removal's comment "B has no row for the key (should not happen)": a
\* row points to a standing batch that has a row for its key, a batch has one
\* row for a key, and of a key's rows one is current and no two point to the
\* same batch -- after any order of commits, rollbacks and removals.
LinksSound ==
    /\ \A r \in Rows :
        /\ superseded[r] # NoBatch =>
            /\ Success(superseded[r])
            /\ \E m \in Own(superseded[r]) : m[2] = r[2]
        /\ owner[r] # NoBatch => (r \in current <=> superseded[r] = NoBatch)
    /\ \A r, s \in Rows :
        r # s /\ r[2] = s[2] /\ owner[r] # NoBatch /\ owner[s] # NoBatch =>
            owner[r] # owner[s] /\ superseded[r] # superseded[s]

\* The row that a batch left unchanged went with the batch that owned it,
\* while a third one had replaced it: only a current row changes hands.
Bereft(b, k) == \E r \in agreed[b] : r[2] = k /\ owner[r] = NoBatch

\* Nothing of a batch that was taken back is left, and nothing is attributed
\* to a batch whose file does not say it: every row belongs to a standing
\* batch, is for a key of that batch's file and holds what the file states --
\* unless the row that the file stated is gone: then a hand-over, which
\* compares keys only, may give the batch another value.
LiveIsStated ==
    \A r \in Rows :
        /\ r \in current => owner[r] # NoBatch
        /\ owner[r] # NoBatch =>
            /\ Success(owner[r])
            /\ r[2] \in DOMAIN file[owner[r]]
            /\ file[owner[r]][r[2]] = Value(r) \/ Bereft(owner[r], r[2])

\* What the reports show of a key is what the latest standing batch that names
\* it says (removal.ts, rules b to c3), after any order of commits, rollbacks
\* and removals -- unless the row that this batch left unchanged is gone.
LiveValue(k) == {Value(r) : r \in {r \in current : r[2] = k}}
Names(b, k)  == Success(b) /\ k \in DOMAIN file[b]
Latest(b, k) == Names(b, k) /\ \A x \in Batches : Names(x, k) => x <= b
LatestIsLive ==
    \A k \in Keys, b \in Batches :
        Latest(b, k) => LiveValue(k) = {file[b][k]} \/ Bereft(b, k)

\* Rule d: a brand exists exactly as long as a row uses it, and belongs to a
\* standing batch that has such a row, whose removal will delete it.
BrandsOwned ==
    \A x \in Brands :
        LET users == {owner[r] : r \in {r \in Rows : owner[r] # NoBatch /\ Brand[Value(r)] = x}}
        IN  IF users = {} THEN creator[x] = NoBatch
            ELSE creator[x] \in users /\ Success(creator[x])

\* Two commits of one staged upload, a retry after a lost answer or after a
\* restart: the upload is imported once.
ImportedOnce == \A u \in Uploads : imports[u] <= 1

\* Rules b and c2: taking a batch back changes no value that a later standing
\* batch stated.
LaterKeepsItsData ==
    [][\A b, x \in Batches :
        /\ b < x /\ Success(b) /\ Success(x) /\ status'[b] # "SUCCESS"
        => \A k \in DOMAIN file[x] : LiveValue(k)' = LiveValue(k)]_vars

\* The rows, links and hand-overs implement the ledger of MarcomLedger.
Ledger == INSTANCE MarcomLedger WITH
    NotThere <- NoFile,
    files    <- [b \in Batches |-> IF Success(b) THEN file[b] ELSE NoFile],
    entries  <- {<<owner[r], r[2], Value(r)>> : r \in {r \in Rows : owner[r] # NoBatch}},
    live     <- {<<r[2], Value(r)>> : r \in current}
ImplementsLedger == Ledger!Spec

-----------------------------------------------------------------------------
(* What a comment of the code says, and the code does not do *)

\* removal.ts:24: a future rollback or removal re-arms the right row: what
\* is current is what the latest standing batch that names the key says.
RightRowIsLive ==
    \A k \in Keys, b \in Batches : Latest(b, k) => LiveValue(k) = {file[b][k]}

=============================================================================
