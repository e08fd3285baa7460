---------------------------- MODULE MarcomLedger ----------------------------
(***************************************************************************)
(* What the MARCOM upload promises about its data: the imports that were   *)
(* not taken back form a ledger, an entry per value that an import         *)
(* changed, and the reports see the newest entry of each key.  Taking an   *)
(* import back strikes its entries, except a newest one whose key a later  *)
(* import named as well: that one passes to the first such import.         *)
(***************************************************************************)
EXTENDS Integers

CONSTANTS
    Batches,    \* ids of imports, in the order they are made
    Files,      \* what may be imported: values by key
    NotThere    \* in place of the file of an import there is not

VARIABLES
    files,      \* the file of every import that stands
    entries,    \* <<batch, key, value>>
    live        \* <<key, value>>: what the reports read

vars == <<files, entries, live>>

Stands(b) == files[b] # NotThere
Newest(E) == {e \in E : \A o \in E : o[2] = e[2] => o[1] <= e[1]}
Seen(E)   == {<<e[2], e[3]>> : e \in Newest(E)}

Init ==
    /\ files = [b \in Batches |-> NotThere]
    /\ entries = {}
    /\ live = {}

Import(b, f) ==
    /\ \A x \in Batches : Stands(x) => x < b
    /\ files'   = [files EXCEPT ![b] = f]
    /\ entries' = entries \cup {<<b, k, f[k]>> : k \in {k \in DOMAIN f : <<k, f[k]>> \notin live}}
    /\ live'    = Seen(entries')

\* The imports after e's that name its key.
Naming(e) == {x \in Batches : x > e[1] /\ Stands(x) /\ e[2] \in DOMAIN files[x]}
Passed(e) == {<<x, e[2], e[3]>> : x \in {x \in Naming(e) : \A y \in Naming(e) : x <= y}}

TakeBack(b) ==
    /\ Stands(b)
    /\ files'   = [files EXCEPT ![b] = NotThere]
    /\ entries' = {e \in entries : e[1] # b}
                     \cup UNION {Passed(e) : e \in {e \in Newest(entries) : e[1] = b}}
    /\ live'    = Seen(entries')

Next == \E b \in Batches : TakeBack(b) \/ \E f \in Files : Import(b, f)

Spec == Init /\ [][Next]_vars

=============================================================================
