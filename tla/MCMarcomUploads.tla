-------------------------- MODULE MCMarcomUploads --------------------------
(* The files, values and brands of the TLC runs of MarcomUploads. *)
EXTENDS MarcomUploads, TLC

CONSTANTS k1, k2

\* Two contents of a row, which name two brands.
MCBrand == [v \in Values |-> v]
MCFiles == {k1 :> "a", k1 :> "b" @@ k2 :> "a"}

\* Which of the staged uploads, or of the requests, is which does not matter.
MCSymmetry == Permutations(Uploads) \cup Permutations(Clients)

=============================================================================
