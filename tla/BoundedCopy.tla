----------------------------- MODULE BoundedCopy ------------------------------
(***************************************************************************)
(* What a region's copy promises its readers (lib/auth-projection): it     *)
(* answers with what home has held since the copy's watermark, and, once a *)
(* change is confirmed, never with what it replaced.  It may answer        *)
(* nothing: "a row missing from a copy is not evidence of anything; a      *)
(* reader asks home".                                                      *)
(*                                                                         *)
(* The contents of a row are numbered in the order home held them.         *)
(***************************************************************************)
EXTENDS Integers

CONSTANT Row

VARIABLES
  home,  \* the contents home holds
  floor, \* the oldest contents that may still be answered
  answer \* what the copy answers

vars == <<home, floor, answer>>

Contents == [Row -> Nat]

\* What the copy answers when it does not answer.
Nothing == -1

Allowed(r) == answer[r] # Nothing => answer[r] \in floor[r] .. home[r]

Init ==
  /\ home \in Contents /\ floor = home
  /\ answer = [r \in Row |-> Nothing]

\* Home commits a change.
Change ==
  /\ home' \in Contents /\ \A r \in Row : home'[r] >= home[r]
  /\ UNCHANGED <<floor, answer>>

\* The copy changes; its watermark moves, or a change is confirmed.
Deliver ==
  /\ floor' \in Contents /\ \A r \in Row : floor'[r] \in floor[r] .. home[r]
  /\ answer' \in [Row -> Nat \cup {Nothing}]
  /\ \A r \in Row : Allowed(r)'
  /\ UNCHANGED home

\* Home is restored to an earlier state.
Restore ==
  /\ home' \in Contents /\ floor' = home'
  /\ answer' = [r \in Row |-> Nothing]

Next == Change \/ Deliver \/ Restore

Spec == Init /\ [][Next]_vars

\* Whatever the copy answers, home has held since the watermark, and since each
\* confirmed change.
AnswersAreAllowed == \A r \in Row : Allowed(r)
=============================================================================
