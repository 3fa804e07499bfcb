------------------------------ MODULE ModelCalls ------------------------------
(***************************************************************************)
(* Every model call of a deployment (callModel in lib/ai/llm/index.ts):    *)
(* reserved against the deployment's limits and, when the customer pays,   *)
(* against the account's credits; sent; settled with both; and charged     *)
(* with its turn (closeCreditTurn).                                        *)
(*                                                                         *)
(* Each turn runs in a process and makes calls, side by side, or leaves    *)
(* one behind when it gives up waiting.  Between any two awaits other      *)
(* calls, other turns and the expiry of reservations go on.                *)
(***************************************************************************)
EXTENDS CreditHolds

CONSTANTS
  Chats,     \* the turns of backend_chat, charged by the brain's own tally
  PlanPrice, \* bound: what proxyTokensForSteps and a plan's design may come to
  MaxFaults  \* bound: of what seldom happens: processes that die, writes that
             \* throw, holds that expire before they are closed, months that end

ASSUME CallsAssumption ==
  /\ Chats \subseteq Turn
  /\ PlanPrice \subseteq Nat
  /\ MaxFaults \in Nat

VARIABLES
  call,   \* where each call is, and what it knows of its outcome
  turn,   \* each turn: its meter scope, and what it charges
  month,  \* thisMonth()
  faults

vars == <<spendVars, creditVars, call, turn, month, faults>>

\* outcome and usage: of an answer, or of the error that took its place.
Calling == [step : {"idle", "holding", "refused", "sent", "answered", "booked", "done"},
            payer : Payers, turn : Turn \cup {NoTurn},
            outcome : {"none", "ran", "unknown"}, usage : Nat]

NoCall == [step |-> "idle", payer |-> "customer", turn |-> NoTurn,
           outcome |-> "none", usage |-> 0]

\* step: a turn begins with its scope open. metered: the calls whose tokens the
\* scope counted (scope.tokens) until the turn closed. It goes on counting, but
\* what is charged has been read. tallied: of a chat, those the brain's loop
\* reported (onTokens). plan: what a chat that built a plan is charged for its
\* steps. month: the one it was charged in.
TurnState == [step : {"open", "charging", "closing", "closed", "uncharged"},
              metered : SUBSET Call, tallied : SUBSET Call,
              plan : Nat, month : Months \cup {0}]

NewTurn == [step |-> "open", metered |-> {}, tallied |-> {}, plan |-> 0, month |-> 0]

TypeOK ==
  /\ SpendTypeOK
  /\ CreditTypeOK
  /\ call \in [Call -> Calling]
  /\ turn \in [Turn -> TurnState]
  /\ month \in Months
  /\ faults \in 0 .. MaxFaults

Init ==
  /\ SpendInit
  /\ CreditInit
  /\ call = [c \in Call |-> NoCall]
  /\ turn = [t \in Turn |-> NewTurn]
  /\ month = 1
  /\ faults = 0

-----------------------------------------------------------------------------
Fault == faults < MaxFaults /\ faults' = faults + 1
NoFault == UNCHANGED faults

CallGoes(c, step) == call' = [call EXCEPT ![c].step = step]

Begun(payer, t, step) ==
  [NoCall EXCEPT !.step = step, !.payer = payer, !.turn = t]

MayCall(c, t) == call[c].step = "idle" /\ (t \in Turn => turn[t].step = "open")

\* reserveSpend: the deployment's limits come first. A platform's call is sent
\* at once.
ReserveSpend(c, payer, t) ==
  /\ MayCall(c, t)
  /\ reserve(c, payer, month)
  /\ call' = [call EXCEPT ![c] = Begun(payer, t, IF payer = "customer" THEN "holding" ELSE "sent")]
  /\ NoFault /\ UNCHANGED <<creditVars, turn, month>>

ReserveRefused(c, payer, t) ==
  /\ MayCall(c, t)
  /\ limitReached(c, payer, month)
  /\ call' = [call EXCEPT ![c] = [NoCall EXCEPT !.step = "done"]]
  /\ NoFault /\ UNCHANGED <<creditVars, turn, month>>

\* spend_unavailable: the transaction throws, whether or not it was committed.
ReserveFails(c, payer, t) ==
  /\ MayCall(c, t) /\ Fault
  /\ reserve(c, payer, month) \/ UNCHANGED spendVars
  /\ call' = [call EXCEPT ![c] = [NoCall EXCEPT !.step = "done"]]
  /\ UNCHANGED <<creditVars, turn, month>>

\* thisMonth() is read before the account's lock is had, and may be over when
\* it is: any month since the call's reservation may be the one read.
MonthRead(c) == {m \in Months : spendHold[c].month <= m /\ m <= month}

\* Mutant: the credits of the present month are asked, and the hold is of the
\* month that was read.
HoldCreditsAskingNow(c) ==
  /\ call[c].step = "holding"
  /\ ~Exhausted(month)
  /\ \E m \in MonthRead(c) : hold(c, call[c].turn, m, TRUE)
  /\ CallGoes(c, "sent")
  /\ NoFault /\ UNCHANGED <<spendVars, turn, month>>

\* creditHoldHook.reserve: its transaction, under the account's lock.
HoldCredits(c) ==
  /\ call[c].step = "holding"
  /\ \E m \in MonthRead(c) : ~Exhausted(m) /\ hold(c, call[c].turn, m, TRUE)
  /\ CallGoes(c, "sent")
  /\ NoFault /\ UNCHANGED <<spendVars, turn, month>>

CreditsExhausted(c) ==
  /\ call[c].step = "holding"
  /\ \E m \in MonthRead(c) : Exhausted(m)
  /\ CallGoes(c, "refused")
  /\ NoFault /\ UNCHANGED <<spendVars, creditVars, turn, month>>

\* The hold cannot be written, or is but nobody learns of it.
HoldFails(c) ==
  /\ call[c].step = "holding" /\ Fault
  /\ \/ \E m \in MonthRead(c) : hold(c, call[c].turn, m, FALSE)
     \/ UNCHANGED creditVars
  /\ CallGoes(c, "refused")
  /\ UNCHANGED <<spendVars, turn, month>>

\* No hold, and the call goes on: it names no account in a chat, whose scope
\* names none either, or the account's entitlements cannot be read.
HoldSkipped(c) ==
  /\ call[c].step = "holding"
  /\ \/ call[c].turn \in Chats /\ NoFault
     \/ Fault
  /\ CallGoes(c, "sent")
  /\ UNCHANGED <<spendVars, creditVars, turn, month>>

\* A call without credits gives its reservation back, if that can be written.
GiveBack(c) ==
  /\ call[c].step = "refused"
  /\ \/ settle(c, "released", 0) /\ NoFault
     \/ UNCHANGED spendVars /\ Fault
  /\ CallGoes(c, "done")
  /\ UNCHANGED <<creditVars, turn, month>>

-----------------------------------------------------------------------------
(* The request goes out. *)

\* Mutant: a call the platform pays for is metered too.
MeteredAll(c) ==
  LET t == call[c].turn IN
  IF t \in Turn /\ turn[t].step = "open"
  THEN [turn EXCEPT ![t].metered = @ \cup {c}] ELSE turn

\* recordRun, recordTokens: only what the customer pays for, and only in a scope.
Metered(c) ==
  LET t == call[c].turn IN
  IF call[c].payer = "customer" /\ t \in Turn /\ turn[t].step = "open"
  THEN [turn EXCEPT ![t].metered = @ \cup {c}] ELSE turn

\* The provider answers with its usage, a refusal or an answer that does not
\* parse included; recordRun counts it before anything is awaited.
Answered(c) ==
  /\ call[c].step = "sent"
  /\ \E u \in 1 .. Worst[c] :
       call' = [call EXCEPT ![c].step = "answered", ![c].outcome = "ran", ![c].usage = u]
  /\ turn' = Metered(c)
  /\ NoFault /\ UNCHANGED <<spendVars, creditVars, month>>

\* Refused before inference, after as many attempts as may help.
NotRun(c) ==
  /\ call[c].step = "sent"
  /\ CallGoes(c, "answered")
  /\ NoFault /\ UNCHANGED <<spendVars, creditVars, turn, month>>

\* Sent, and the answer is lost.
AnswerLost(c) ==
  /\ call[c].step = "sent"
  /\ call' = [call EXCEPT ![c].step = "answered", ![c].outcome = "unknown"]
  /\ NoFault /\ UNCHANGED <<spendVars, creditVars, turn, month>>

-----------------------------------------------------------------------------
(* settleSpend: the ledger first, then the customer's hold. *)

\* Mutant: the outcome itself is written.
SettlementRaw(outcome) == outcome

Settlement(outcome) ==
  CASE outcome = "ran" -> "settled" [] outcome = "none" -> "released" [] OTHER -> "unknown"

AfterLedger(c) == CallGoes(c, IF call[c].payer = "customer" THEN "booked" ELSE "done")

SettleSpend(c) ==
  /\ call[c].step = "answered"
  /\ settle(c, Settlement(call[c].outcome), call[c].usage)
  /\ AfterLedger(c)
  /\ NoFault /\ UNCHANGED <<creditVars, turn, month>>

\* The write throws and is not made: the reservation stays open until it expires.
SettleSpendFails(c) ==
  /\ call[c].step = "answered" /\ Fault
  /\ AfterLedger(c)
  /\ UNCHANGED <<spendVars, creditVars, turn, month>>

\* spend, when a step of the brain's loop returns to it. The classifier, the
\* architect and the calls that tools make are nobody's step, and a step whose
\* time ran out is not reported.
Tallied(c) ==
  LET t == call[c].turn IN
  /\ t \in Chats /\ turn[t].step = "open" /\ call[c].outcome = "ran"
  /\ turn' = [turn EXCEPT ![t].tallied = @ \cup {c}]

SettleCredits(c) ==
  /\ call[c].step = "booked"
  /\ settleHold(c, call[c].outcome = "ran", call[c].usage)
  /\ CallGoes(c, "done")
  /\ Tallied(c) \/ UNCHANGED turn
  /\ NoFault /\ UNCHANGED <<spendVars, month>>

SettleCreditsFails(c) ==
  /\ call[c].step = "booked" /\ Fault
  /\ CallGoes(c, "done")
  /\ Tallied(c) \/ UNCHANGED turn
  /\ UNCHANGED <<spendVars, creditVars, month>>

-----------------------------------------------------------------------------
(* closeCreditTurn: charge first, then close. *)

TokensOf(calls) == SumFunctionOnSet([c \in Call |-> call[c].usage], calls)

\* Nothing is said of a turn without calls.
Used(t) == \E c \in Call : call[c].turn = t

\* The calls a turn is charged for: what its scope counted or, for a chat, what
\* the brain's loop did.
Billed(t) == IF t \in Chats THEN turn[t].tallied ELSE turn[t].metered

\* Mutant: a turn is charged for the calls whose holds last.
ChargeOfHeld(t) == TokensOf({c \in Billed(t) : Counts(c)}) + turn[t].plan

\* chargeTokens.
ChargeOf(t) == TokensOf(Billed(t)) + turn[t].plan

\* A turn ends when its work does, or when it stops waiting for it. A chat that
\* built the plan of an earlier turn ran no loop, and is charged for its steps
\* whatever they used (blueprintExecuteTurn).
CloseTurn(t) ==
  /\ turn[t].step = "open" /\ Used(t)
  /\ \E plan \in {0} \cup PlanPrice :
       /\ plan > 0 => t \in Chats /\ turn[t].tallied = {}
       /\ turn' = [turn EXCEPT ![t].plan = plan,
            ![t].step = IF TokensOf(Billed(t)) + plan > 0 THEN "charging" ELSE "closing"]
  /\ NoFault /\ UNCHANGED <<spendVars, creditVars, call, month>>

ChargeTurn(t) ==
  /\ turn[t].step = "charging"
  /\ charge(ChargeOf(t), month)
  /\ turn' = [turn EXCEPT ![t].step = "closing", ![t].month = month]
  /\ NoFault /\ UNCHANGED <<spendVars, call, month>>

\* The charge throws, whether or not it was made: the holds are left to expire.
ChargeFails(t) ==
  /\ turn[t].step = "charging" /\ Fault
  /\ charge(ChargeOf(t), month) \/ UNCHANGED creditVars
  /\ turn' = [turn EXCEPT ![t].step = "uncharged"]
  /\ UNCHANGED <<spendVars, call, month>>

CloseHolds(t) ==
  /\ turn[t].step = "closing"
  /\ closeHolds(t, IF ChargeOf(t) > 0 THEN "charged" ELSE "released")
  /\ turn' = [turn EXCEPT ![t].step = "closed"]
  /\ NoFault /\ UNCHANGED <<spendVars, call, month>>

CloseHoldsFails(t) ==
  /\ turn[t].step = "closing" /\ Fault
  /\ turn' = [turn EXCEPT ![t].step = "closed"]
  /\ UNCHANGED <<spendVars, creditVars, call, month>>

-----------------------------------------------------------------------------
\* A reservation and a hold outlive the last attempt of their call
\* (timeoutMs * MAX_ATTEMPTS + SETTLE_GRACE_MS), but not a slow settlement.
PastLastAttempt(c) == call[c].step \in {"answered", "booked", "done"}

\* Some process's reserveSpend, once a minute.
Expire(c) ==
  /\ PastLastAttempt(c)
  /\ expire(c)
  /\ IF spendHold[c].status = "reserved" /\ call[c].outcome # "unknown" THEN Fault ELSE NoFault
  /\ UNCHANGED <<creditVars, call, turn, month>>

CreditHoldLapses(c) ==
  /\ PastLastAttempt(c) /\ Fault
  /\ lapse(c)
  /\ UNCHANGED <<spendVars, call, turn, month>>

NewMonth ==
  /\ month < LastMonth /\ Fault
  /\ month' = month + 1
  /\ UNCHANGED <<spendVars, creditVars, call, turn>>

\* A process dies with its calls. Those it had sent may be billed.
Die(calls) ==
  /\ Fault
  /\ call' = [c \in Call |->
       IF c \in calls
       THEN [call[c] EXCEPT !.step = "done", !.outcome = IF call[c].step = "sent" THEN "unknown" ELSE @]
       ELSE call[c]]
  /\ UNCHANGED <<spendVars, creditVars, month>>

InFlight(t) == {c \in Call : call[c].turn = t /\ call[c].step \notin {"idle", "done"}}

TurnDies(t) ==
  /\ Used(t)
  /\ turn[t].step \in {"open", "charging", "closing"} \/ InFlight(t) # {}
  /\ Die(InFlight(t))
  /\ turn' = [turn EXCEPT ![t].step =
       CASE @ \in {"open", "charging"} -> "uncharged" [] @ = "closing" -> "closed" [] OTHER -> @]

CallDies(c) ==
  /\ c \in InFlight(NoTurn)
  /\ Die({c})
  /\ UNCHANGED turn

-----------------------------------------------------------------------------
Calls(c) ==
  \/ \E payer \in Payers, t \in Turn \cup {NoTurn} :
       ReserveSpend(c, payer, t) \/ ReserveRefused(c, payer, t) \/ ReserveFails(c, payer, t)
  \/ HoldCredits(c) \/ CreditsExhausted(c) \/ HoldFails(c) \/ HoldSkipped(c) \/ GiveBack(c)
  \/ Answered(c) \/ NotRun(c) \/ AnswerLost(c)
  \/ SettleSpend(c) \/ SettleSpendFails(c) \/ SettleCredits(c) \/ SettleCreditsFails(c)

Turns(t) ==
  \/ CloseTurn(t) \/ ChargeTurn(t) \/ ChargeFails(t)
  \/ CloseHolds(t) \/ CloseHoldsFails(t) \/ TurnDies(t)

Next ==
  \/ \E c \in Call : \/ Calls(c) \/ CallDies(c)
                     \/ Expire(c) \/ CreditHoldLapses(c)
  \/ \E t \in Turn : Turns(t)
  \/ NewMonth

Spec == Init /\ [][Next]_vars

-----------------------------------------------------------------------------
(* Properties. *)

\* What is reserved, settled and unknown stays within each limit that is set,
\* however many calls reserve and settle at once.
LedgerWithinLimits ==
  \A m \in Months, s \in Scopes :
    Limit[s] # Unlimited => Booked(period[m, s]) <= Limit[s]

Booking(m, s, statuses) ==
  {c \in Call : /\ spendHold[c].month = m /\ s \in spendHold[c].scopes
                /\ spendHold[c].status \in statuses}

\* The month's totals are what its reservations say: each was added once and
\* settled once, whether by its call, late or not, or by the expiry that took it
\* for abandoned, and never in another month.
BooksBalance ==
  \A m \in Months, s \in Scopes :
    /\ period[m, s].reserved = SumFunctionOnSet(Worst, Booking(m, s, {"reserved"}))
    /\ period[m, s].unknown = SumFunctionOnSet(Worst, Booking(m, s, {"unknown"}))
    /\ period[m, s].settled =
         SumFunctionOnSet([c \in Call |-> spendHold[c].cost], Booking(m, s, {"settled"}))

\* What the provider may bill for a call.
Bill(c) == CASE call[c].outcome = "ran" -> call[c].usage
             [] call[c].outcome = "unknown" -> Worst[c]
             [] OTHER -> 0

\* What the provider bills is never more than what is booked for it, whatever
\* becomes of answers, processes and settlements: "a lost answer is not proof
\* nothing ran", and a request is not sent twice once it may have run.
BilledIsBooked ==
  \A m \in Months, s \in Scopes :
    SumFunctionOnSet([c \in Call |-> Bill(c)], Booking(m, s, {"reserved", "settled", "released", "unknown"}))
      <= Booked(period[m, s])

\* A turn that is closing has been charged.
Closed(t) == turn[t].step \in {"closing", "closed"}

\* The calls that turns were charged for, and those that answered in a turn not
\* charged yet, while their holds last.
PaidFor == {c \in Call : \E t \in Turn : c \in Billed(t) /\ Closed(t)}

Unpaid == {c \in Call : /\ creditHold[c].pushed /\ ~creditHold[c].lapsed
                        /\ \E t \in Turn : c \in turn[t].metered /\ ~Closed(t)}

\* "Charge first, then close" (credit-holds.ts): what a held call used counts
\* from its answer, as a hold until its turn is charged and in the charged
\* totals from then on, whether or not the hold expired meanwhile. The calls
\* left out are those a hold's expiry uncounts until the charge, those that
\* outlive their turn, and the calls of a chat its brain does not report, whose
\* holds are closed and whose tokens nobody is charged.
UseIsCounted ==
  TokensOf(PaidFor \cup Unpaid) <=
    SumFunction(charged) + SumFunctionOnSet([c \in Call |-> Weight(c)], {c \in Call : Counts(c)})

\* The calls charged for in month m.
PaidIn(m) == {c \in Call : \E t \in Turn :
                c \in Billed(t) /\ Closed(t) /\ turn[t].month = m}

\* "An account goes over its credits by at most one call" (credit-holds.ts): of
\* the calls that held credits of a month and still do, or were charged for in
\* it, all but one fitted below the cap, however many held credits at once, in
\* several turns and over a change of the month. The price of a plan, the calls
\* without a hold and those a chat is not charged for are beside the cap.
OverByOneCall ==
  \A m \in Months :
    LET counted == {c \in Unpaid \cup PaidIn(m) :
                      /\ creditHold[c].month = m
                      /\ creditHold[c].pushed /\ ~creditHold[c].lapsed}
    IN counted = {} \/ \E last \in counted :
         creditsFromTokens(TokensOf(counted \ {last})) < Cap

\* A customer is charged at most once for each call, and only for calls it
\* pays for that answered, besides the price of each plan it had built: never
\* for what the platform's own calls used, or for what a lost answer may have
\* cost.
ChargedForAnswers ==
  SumFunction(charged) <=
    TokensOf({c \in Call : call[c].payer = "customer" /\ call[c].outcome = "ran"})
    + SumFunctionOnSet([t \in Turn |-> turn[t].plan], {t \in Turn : turn[t].plan > 0})
=============================================================================
