-------------------------- MODULE MCEtlJobTracker --------------------------
(* The lanes, and the runs that are polled, for TLC. *)
EXTENDS EtlJobTracker

MainAndLong == {"main", "long"}
OnlyMain    == {"main"}
Nobody      == {}
TheFirst    == {1}

=============================================================================
