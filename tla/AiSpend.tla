------------------------------- MODULE AiSpend --------------------------------
(***************************************************************************)
(* The spend ledger (lib/ai/llm/spend.ts): what every model call may cost  *)
(* is reserved against the deployment's monthly limits before the call is  *)
(* sent, and settled once after it.  Each operator below is one database   *)
(* transaction; ModelCalls says who runs them and when.                    *)
(*                                                                         *)
(* Money is counted in whole units.  A month is a number.                  *)
(***************************************************************************)
EXTENDS Integers

CONSTANTS
  Call,      \* model calls, each with its own reservation
  Worst,     \* what each call may cost at most (maxCostOf)
  LastMonth, \* bound: months are 1 .. LastMonth
  Limit,     \* the limit of each scope, or Unlimited where it is not set
  Unlimited

Scopes == {"total", "platform"}
Payers == {"customer", "platform"}
Months == 1 .. LastMonth

ASSUME SpendAssumption ==
  /\ Worst \in [Call -> Nat]
  /\ LastMonth \in Nat \ {0}
  /\ Limit \in [Scopes -> Nat \cup {Unlimited}]
  /\ Unlimited \in Int \ Nat

VARIABLES
  period,   \* the table ai_spend_periods
  spendHold \* the table ai_spend_holds

spendVars == <<period, spendHold>>

Period == [reserved : Int, settled : Int, unknown : Int]

SpendHold == [status : {"none", "reserved", "settled", "released", "unknown"},
              month : Months \cup {0}, scopes : SUBSET Scopes, cost : Int]

NoSpendHold == [status |-> "none", month |-> 0, scopes |-> {}, cost |-> 0]

SpendTypeOK ==
  /\ period \in [Months \X Scopes -> Period]
  /\ spendHold \in [Call -> SpendHold]

SpendInit ==
  /\ period = [k \in Months \X Scopes |-> [reserved |-> 0, settled |-> 0, unknown |-> 0]]
  /\ spendHold = [c \in Call |-> NoSpendHold]

-----------------------------------------------------------------------------
scopesFor(payer) == IF payer = "platform" THEN Scopes ELSE {"total"}

Booked(p) == p.reserved + p.settled + p.unknown

\* Mutant: settled amounts are forgotten in the comparison.
HasRoomLoose(c, m, s) ==
  Limit[s] # Unlimited => period[m, s].reserved + period[m, s].unknown + Worst[c] <= Limit[s]

\* The condition of the conditional update.
HasRoom(c, m, s) ==
  Limit[s] # Unlimited => Booked(period[m, s]) + Worst[c] <= Limit[s]

\* One transaction: every limit that applies, or none.
reserve(c, payer, m) ==
  LET keys == {m} \X scopesFor(payer) IN
  /\ \A s \in scopesFor(payer) : HasRoom(c, m, s)
  /\ period' = [k \in Months \X Scopes |->
                  IF k \in keys THEN [period[k] EXCEPT !.reserved = @ + Worst[c]] ELSE period[k]]
  /\ spendHold' = [spendHold EXCEPT ![c] =
       [status |-> "reserved", month |-> m, scopes |-> scopesFor(payer), cost |-> 0]]

\* LimitReached: the transaction rolls back.
limitReached(c, payer, m) ==
  /\ \E s \in scopesFor(payer) : ~HasRoom(c, m, s)
  /\ UNCHANGED spendVars

\* Mutant: what an unknown answer may have cost is given back.
MovedFree(p, c, outcome, cost) ==
  [p EXCEPT !.reserved = @ - Worst[c],
            !.settled = IF outcome = "settled" THEN @ + cost ELSE @]

\* A period after the reservation of c settles.
Moved(p, c, outcome, cost) ==
  [p EXCEPT !.reserved = @ - Worst[c],
            !.settled = IF outcome = "settled" THEN @ + cost ELSE @,
            !.unknown = IF outcome = "unknown" THEN @ + Worst[c] ELSE @]

\* Mutant: the hold's status is not looked at.
settleAgain(c, outcome, cost) ==
  LET h == spendHold[c] IN
  /\ period' = [k \in Months \X Scopes |->
                  IF k \in {h.month} \X h.scopes THEN Moved(period[k], c, outcome, cost)
                  ELSE period[k]]
  /\ spendHold' = [spendHold EXCEPT ![c].status = outcome,
                                    ![c].cost = IF outcome = "settled" THEN cost ELSE 0]

\* One transaction: only a reservation still open moves, and in the month and
\* the scopes it was made in.
settle(c, outcome, cost) ==
  LET h == spendHold[c] IN
  \/ /\ h.status = "reserved"
     /\ period' = [k \in Months \X Scopes |->
                     IF k \in {h.month} \X h.scopes THEN Moved(period[k], c, outcome, cost)
                     ELSE period[k]]
     /\ spendHold' = [spendHold EXCEPT ![c].status = outcome,
                                       ![c].cost = IF outcome = "settled" THEN cost ELSE 0]
  \/ /\ h.status # "reserved"
     /\ UNCHANGED spendVars

\* One step of expire: a reservation selected because it was open and past its
\* expiry is booked as unknown, if it is still open by then.
expire(c) == spendHold[c].status # "none" /\ settle(c, "unknown", 0)
=============================================================================
