----------------------------- MODULE MCBatchJob -----------------------------
(***************************************************************************)
(* Small instances of BatchJob for TLC: with three slices, four workers    *)
(* want more batches of five items than there may be.                      *)
(***************************************************************************)
EXTENDS BatchJob
=============================================================================
