------------------------------ MODULE MCCore ------------------------------
(* The sets of operations and of results of the runs of LwtCore.           *)
EXTENDS LwtCore
=============================================================================
