---------------------------- MODULE BoundedLine -----------------------------
(***************************************************************************)
(* What the intake promises its callers (the docstring of                  *)
(* app/services/cartograph/intake.py): cases wait in the order they        *)
(* arrived, at most Bound of them are audited at once, and nothing leaves  *)
(* the line except to be audited, until the line closes.                   *)
(***************************************************************************)
EXTENDS Naturals, Sequences, FiniteSets

CONSTANTS Item, Bound

VARIABLES line, busy, closed

lineVars == <<line, busy, closed>>

LineInit == line = <<>> /\ busy = {} /\ closed = FALSE

Arrive(x) ==
  /\ ~closed
  /\ line' = Append(line, x)
  /\ UNCHANGED <<busy, closed>>

Start ==
  /\ line # <<>>
  /\ Cardinality(busy) < Bound
  /\ busy' = busy \cup {Head(line)}
  /\ line' = Tail(line)
  /\ UNCHANGED closed

Finish(x) ==
  /\ x \in busy
  /\ busy' = busy \ {x}
  /\ UNCHANGED <<line, closed>>

Close ==
  /\ ~closed
  /\ closed' = TRUE
  /\ line' = <<>>
  /\ UNCHANGED busy

LineNext == Start \/ Close \/ \E x \in Item : Arrive(x) \/ Finish(x)

LineSpec == LineInit /\ [][LineNext]_lineVars
=============================================================================
