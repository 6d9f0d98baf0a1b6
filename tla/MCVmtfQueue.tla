----------------------------- MODULE MCVmtfQueue -----------------------------
(* VmtfQueue on small instances.  Stamps of the reversed and shuffled      *)
(* queue are negative.                                                     *)
EXTENDS VmtfQueue

MCMinBumped == -1

=============================================================================
