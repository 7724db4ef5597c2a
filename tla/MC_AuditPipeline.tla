-------------------------- MODULE MC_AuditPipeline --------------------------
(* A small instance of AuditPipeline for TLC.                              *)
EXTENDS AuditPipeline

=============================================================================
