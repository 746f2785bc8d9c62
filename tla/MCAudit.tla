------------------------------ MODULE MCAudit -------------------------------
(***************************************************************************)
(* The engine, model-checked. The workers of one pool and the document     *)
(* lists are interchangeable; environments, cases and submitters are not.  *)
(***************************************************************************)
EXTENDS AuditClaims, TLC

Symmetry == Permutations(FirstCrew) \cup Permutations(Docs)
=============================================================================
