---------------------------- MODULE MC_AuditTask ----------------------------
(* Two events share a fingerprint and fit their columns; the third has a   *)
(* value that is too long for one of them.                                 *)
EXTENDS AuditTask, TLC

CONSTANTS e1, e2, e3, shared, other

MCEvents == {e1, e2, e3}
MCPrints == {shared, other}
MCFits == {e1, e2}
MCFingerprint == e1 :> shared @@ e2 :> shared @@ e3 :> other

=============================================================================
