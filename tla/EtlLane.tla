------------------------------ MODULE EtlLane ------------------------------
(***************************************************************************)
(* What the ETL API and the backend agree on about a lane, seen from       *)
(* either side: it runs one job at a time, a job can be asked to stop, and *)
(* a lane is taken again only after its job ended or a force reset ended   *)
(* it.  EtlJobTracker (the API) and EtlRunQueue (the backend) both         *)
(* implement it, so the lanes of the one are those of the other.           *)
(***************************************************************************)
CONSTANTS Lanes

VARIABLES slot      \* of each lane: free, or what its job is asked to do

vars == slot

Init == slot = [l \in Lanes |-> "free"]

Begin(l) ==
    /\ slot[l] = "free"
    /\ slot' = [slot EXCEPT ![l] = "run"]

AskToStop(l) ==
    /\ slot[l] = "run"
    /\ slot' = [slot EXCEPT ![l] = "stop"]

\* Jobs end one by one, or all lanes at once when they are force-reset.
End(S) ==
    /\ \A l \in S : slot[l] # "free"
    /\ slot' = [l \in Lanes |-> IF l \in S THEN "free" ELSE slot[l]]

Next ==
    \/ \E l \in Lanes : Begin(l) \/ AskToStop(l)
    \/ \E S \in SUBSET Lanes : End(S)

Spec == Init /\ [][Next]_vars

=============================================================================
