---------------------------- MODULE MCUsagePool -----------------------------
(* UsagePool for TLC: two processes, one of which may never start.         *)
EXTENDS UsagePool
=============================================================================
