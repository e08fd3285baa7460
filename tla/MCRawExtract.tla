----------------------------- MODULE MCRawExtract -----------------------------
(* A small instance of RawExtract. *)
EXTENDS RawExtract

MCRecords == 1..2

=============================================================================
