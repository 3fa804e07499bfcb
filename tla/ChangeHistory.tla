---------------------------- MODULE ChangeHistory ----------------------------
(***************************************************************************)
(* What restores promise of a project's schema (CHANGE_RECOVERY.md,        *)
(* "Recovery plans"): "Every table the change touched must look exactly as *)
(* the change left it" for it to be undone, and "Unrelated later changes   *)
(* are untouched".  A change is made table by table until it closes; from  *)
(* then on it is in the schema with all it did, or not at all, and it      *)
(* comes and goes alone.                                                   *)
(***************************************************************************)
CONSTANTS Change, Table

VARIABLES
  made, \* the tables each change touched, once it has closed
  on    \* the tables that show it now

vars == <<made, on>>

None == [n \in Change |-> {}]

Init == made = None /\ on = None

\* A statement of a change that has not closed reaches one more table.
Work(n) ==
  /\ made[n] = {}
  /\ \E t \in Table : on' = [on EXCEPT ![n] = @ \cup {t}]
  /\ UNCHANGED made

\* The change closes: what it made is what it touched.
Close(n) ==
  /\ made[n] = {} /\ on[n] # {}
  /\ made' = [made EXCEPT ![n] = on[n]]
  /\ UNCHANGED on

\* It is taken out of every table it touched, while all of them show it.
Undo(n) ==
  /\ made[n] # {} /\ on[n] = made[n]
  /\ on' = [on EXCEPT ![n] = {}]
  /\ UNCHANGED made

\* It is put back on every table it touched, while none of them shows it.
Redo(n) ==
  /\ made[n] # {} /\ on[n] = {}
  /\ on' = [on EXCEPT ![n] = made[n]]
  /\ UNCHANGED made

Next == \E n \in Change : Work(n) \/ Close(n) \/ Undo(n) \/ Redo(n)

Spec == Init /\ [][Next]_vars
=============================================================================
