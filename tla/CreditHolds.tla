----------------------------- MODULE CreditHolds ------------------------------
(***************************************************************************)
(* AI credit holds (lib/entitlements/credit-holds.ts) of one account: a    *)
(* customer's call holds its worst case against the account's credits,     *)
(* shrinks to what it used, and counts until its turn is charged.          *)
(*                                                                         *)
(* The calls and the months are those of AiSpend.  Tokens are counted in   *)
(* the unit money is counted in, so a call's worst case is Worst as well.  *)
(***************************************************************************)
EXTENDS AiSpend, Functions

CONSTANTS
  Turn,           \* what a customer is charged for: a tool call, a chat turn
  NoTurn,         \* a call made outside any turn
  TokensPerCredit,
  Cap             \* aiCreditCap, in credits

ASSUME CreditAssumption ==
  /\ NoTurn \notin Turn
  /\ TokensPerCredit \in Nat \ {0}
  /\ Cap \in Nat

VARIABLES
  creditHold, \* the table ai_credit_holds
  charged     \* account_ai_usage.tokenCount, by month

creditVars == <<creditHold, charged>>

\* turn: the turn whose scope it was taken in (turnScoped). pushed: the turn's
\* scope knows it. live: expiresAt has not passed. lapsed: it has, while the
\* hold counted.
CreditHold == [status : {"none", "reserved", "used", "charged", "released"},
               month : Months \cup {0}, turn : Turn \cup {NoTurn}, pushed : BOOLEAN,
               used : Nat, live : BOOLEAN, lapsed : BOOLEAN]

NoCreditHold == [status |-> "none", month |-> 0, turn |-> NoTurn, pushed |-> FALSE,
                 used |-> 0, live |-> FALSE, lapsed |-> FALSE]

CreditTypeOK ==
  /\ creditHold \in [Call -> CreditHold]
  /\ charged \in [Months -> Nat]

CreditInit ==
  /\ creditHold = [c \in Call |-> NoCreditHold]
  /\ charged = [m \in Months |-> 0]

-----------------------------------------------------------------------------
creditsFromTokens(tokens) == (tokens + TokensPerCredit - 1) \div TokensPerCredit

\* What a hold counts.
Weight(c) == IF creditHold[c].status = "reserved" THEN Worst[c] ELSE creditHold[c].used

\* Mutant: a hold stops counting when its call has answered.
CountsReserved(c) == creditHold[c].status = "reserved" /\ creditHold[c].live

Counts(c) == creditHold[c].status \in {"reserved", "used"} /\ creditHold[c].live

Held(m) == SumFunctionOnSet([c \in Call |-> Weight(c)],
                            {c \in Call : Counts(c) /\ creditHold[c].month = m})

Exhausted(m) == creditsFromTokens(charged[m] + Held(m)) >= Cap

hold(c, t, m, pushed) ==
  /\ creditHold' = [creditHold EXCEPT ![c] =
       [NoCreditHold EXCEPT !.status = "reserved", !.month = m, !.turn = t,
                            !.pushed = pushed, !.live = TRUE]]
  /\ UNCHANGED charged

\* creditHoldHook.settle: only a reserved hold moves. A call that ran in a turn
\* keeps counting, for USED_HOLD_TTL_MINUTES; any other is released.
settleHold(c, ran, used) ==
  LET h == creditHold[c] IN
  /\ UNCHANGED charged
  /\ \/ /\ h.status = "reserved" /\ h.turn # NoTurn /\ ran
        /\ creditHold' = [creditHold EXCEPT ![c] =
             [h EXCEPT !.status = "used", !.used = used, !.live = TRUE]]
     \/ /\ h.status = "reserved" /\ ~(h.turn # NoTurn /\ ran)
        /\ creditHold' = [creditHold EXCEPT ![c].status = "released"]
     \/ /\ h.status # "reserved"
        /\ UNCHANGED creditHold

\* recordAiConsumption, the charge of closeCreditTurn.
charge(tokens, m) ==
  /\ charged' = [charged EXCEPT ![m] = @ + tokens]
  /\ UNCHANGED creditHold

\* The second half of closeCreditTurn: the turn's used holds stop counting.
closeHolds(t, status) ==
  /\ creditHold' = [c \in Call |->
       IF creditHold[c].pushed /\ creditHold[c].turn = t /\ creditHold[c].status = "used"
       THEN [creditHold[c] EXCEPT !.status = status] ELSE creditHold[c]]
  /\ UNCHANGED charged

\* expiresAt passes.
lapse(c) ==
  /\ Counts(c)
  /\ creditHold' = [creditHold EXCEPT ![c].live = FALSE, ![c].lapsed = TRUE]
  /\ UNCHANGED charged
=============================================================================
