----------------------------- MODULE MCUsageLog -----------------------------
(* Instances of UsageLog for TLC.                                          *)
EXTENDS UsageLog, TLC

RecordSymmetry == Permutations(Records)
=============================================================================
