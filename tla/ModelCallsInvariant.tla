------------------------- MODULE ModelCallsInvariant --------------------------
(***************************************************************************)
(* Why the properties of ModelCalls hold: what each step may rely on of    *)
(* the calls, the two tables of holds, the turns and the totals.           *)
(***************************************************************************)
EXTENDS ModelCalls, FiniteSets

-----------------------------------------------------------------------------
(* The ledger of the deployment. *)

CallsTyped ==
  /\ call \in [Call -> Calling]
  /\ \A c \in Call : call[c].usage <= Worst[c]
  /\ month \in Months

\* What keeps the ledger within its limits: a call never costs more than was
\* reserved for it.
SpendInv == SpendTypeOK /\ CallsTyped /\ LedgerWithinLimits

\* Every total is a sum over these.
Started == {c \in Call : call[c].step # "idle"}

\* Where a call and its reservation stand to each other: it is settled or given
\* back for good, by what the call knows of its outcome.
Agree(c) ==
  LET r == call[c]
      h == spendHold[c]
  IN /\ r.step = "idle" => h = NoSpendHold
     /\ r.step \in {"idle", "holding", "refused", "sent"} =>
          r.outcome = "none" /\ h.status \in {"none", "reserved"}
     /\ h.status = "settled" => r.outcome = "ran" /\ h.cost = r.usage
     /\ h.status = "released" => r.outcome = "none"

BookInv == IsFiniteSet(Started) /\ BooksBalance /\ \A c \in Call : Agree(c)

-----------------------------------------------------------------------------
(* The credits of the account. *)

CreditTyped ==
  /\ creditHold \in [Call -> CreditHold]
  /\ turn \in [Turn -> TurnState]

\* Where a call, its hold and the scopes that counted it stand to each other.
Fits(c) ==
  LET h == creditHold[c] IN
  /\ call[c].step \in {"idle", "holding"} => h = NoCreditHold
  /\ h.pushed => h.turn = call[c].turn
  /\ call[c].step = "sent" /\ h.pushed => h.status = "reserved" /\ h.live
  /\ \A t \in Turn : c \in turn[t].metered =>
       /\ call[c].turn = t /\ call[c].outcome = "ran"
       /\ call[c].step \in {"answered", "booked", "done"}
       /\ h.pushed => Counts(c) \/ h.lapsed \/ Closed(t)

\* What a scope counts while it is open: every answer the customer pays for.
Scoped(c) ==
  /\ call[c].step = "booked" => call[c].payer = "customer"
  /\ \A t \in Turn :
       /\ call[c].turn = t /\ turn[t].step = "open"
       /\ call[c].payer = "customer" /\ call[c].outcome = "ran"
       => c \in turn[t].metered

\* A turn's tally is of calls its scope counted too, and only a chat's plan has
\* a price.
TallyFits(t) ==
  /\ turn[t].tallied \subseteq turn[t].metered
  /\ turn[t].plan > 0 => turn[t].step # "open"

CreditInv == /\ CallsTyped /\ CreditTyped
             /\ \A c \in Call : Fits(c) /\ Scoped(c)
             /\ \A t \in Turn : TallyFits(t)

Metering(c) == \E t \in Turn : c \in turn[t].metered

\* What a hold says of its call.
HoldTrue(c) ==
  LET h == creditHold[c] IN
  /\ h.status \in {"reserved", "used"} => h.live \/ h.lapsed
  /\ h.status = "used" => h.used = call[c].usage /\ call[c].step = "done"
  /\ Metering(c) => call[c].payer = "customer"

\* The turns the account has been charged for, or never will be; their calls
\* and the plans they built.
PastTurn(t) == turn[t].step \in {"closing", "closed", "uncharged"}

Past == {c \in Call : \E t \in Turn : c \in Billed(t) /\ PastTurn(t)}

PastPlans == {t \in Turn : turn[t].plan > 0 /\ PastTurn(t)}

Priced == {t \in Turn : turn[t].plan > 0}

PricesOf(turns) == SumFunctionOnSet([t \in Turn |-> turn[t].plan], turns)

\* No turn is charged twice, and no call with two turns.
ChargedOnce == /\ charged \in [Months -> Nat]
               /\ IsFiniteSet(Priced)
               /\ SumFunction(charged) <= TokensOf(Past) + PricesOf(PastPlans)

\* Every turn that closed was charged for its calls, in the month it says.
PaidIsCharged ==
  /\ TokensOf(PaidFor) <= SumFunction(charged)
  /\ \A m \in Months : TokensOf(PaidIn(m)) <= charged[m]

\* The calls that hold credits of month m, or were charged for in it, and what
\* each may yet turn out to have used.
Taken(m) == {c \in Call : LET h == creditHold[c] IN
               h.month = m /\ h.pushed /\ ~h.lapsed /\ (Counts(c) \/ c \in PaidIn(m))}

Claim(c) == IF Counts(c) THEN Weight(c) ELSE call[c].usage

Claims(calls) == SumFunctionOnSet([c \in Call |-> Claim(c)], calls)

\* All but the last that took them fitted below the cap.
CapKept ==
  \A m \in Months : Taken(m) = {} \/ \E last \in Call :
    creditsFromTokens(Claims(Taken(m) \ {last})) < Cap

HoldInv == /\ ChargedOnce /\ PaidIsCharged /\ CapKept
           /\ \A c \in Call : HoldTrue(c)

\* The inductive invariant.
MoneyInv == SpendInv /\ BookInv /\ CreditInv /\ HoldInv
=============================================================================
