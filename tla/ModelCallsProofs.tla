--------------------------- MODULE ModelCallsProofs ---------------------------
(***************************************************************************)
(* Proofs about ModelCalls: the limits of the spend ledger hold, and what  *)
(* a customer's call used is counted until its turn is charged, for any    *)
(* calls, turns, limits and faults.                                        *)
(***************************************************************************)
EXTENDS ModelCallsInvariant, TLAPS

-----------------------------------------------------------------------------
(* The transactions of the ledger. *)

\* A reservation that is granted leaves every limit kept.
LEMMA ReserveKeepsLimits ==
  ASSUME SpendTypeOK, LedgerWithinLimits, NEW c \in Call, NEW payer \in Payers,
         NEW m \in Months, reserve(c, payer, m)
  PROVE  SpendTypeOK' /\ LedgerWithinLimits'
<1> DEFINE keys == {m} \X scopesFor(payer)
<1>1. scopesFor(payer) \subseteq Scopes
  BY DEF scopesFor, Scopes
<1>2. Worst[c] \in Nat
  BY SpendAssumption
<1>3. /\ period' = [k \in Months \X Scopes |->
            IF k \in keys THEN [period[k] EXCEPT !.reserved = @ + Worst[c]] ELSE period[k]]
      /\ \A s \in scopesFor(payer) : HasRoom(c, m, s)
      /\ spendHold' = [spendHold EXCEPT ![c] =
            [status |-> "reserved", month |-> m, scopes |-> scopesFor(payer), cost |-> 0]]
  BY DEF reserve
<1> HIDE DEF keys
<1>4. \A k \in Months \X Scopes : period[k] \in Period
  BY DEF SpendTypeOK
<1>5. \A k \in Months \X Scopes : period'[k] \in Period
  BY <1>2, <1>3, <1>4 DEF Period
<1>6. SpendTypeOK'
  <2>1. period' \in [Months \X Scopes -> Period]
    BY <1>3, <1>5
  <2>2. spendHold' \in [Call -> SpendHold]
    BY <1>1, <1>3 DEF SpendTypeOK, SpendHold
  <2> QED
    BY <2>1, <2>2 DEF SpendTypeOK
<1>7. ASSUME NEW n \in Months, NEW s \in Scopes, Limit[s] # Unlimited
      PROVE  Booked(period[n, s])' <= Limit[s]
  <2> DEFINE k == <<n, s>>
  <2>1. k \in Months \X Scopes /\ Limit[s] \in Nat
    BY <1>7, SpendAssumption
  <2>2. (k = <<m, s>> /\ s \in scopesFor(payer)) \/ k \notin keys
    BY DEF keys
  <2>3. period[k] \in Period
    BY <2>1, <1>4
  <2> HIDE DEF k
  <2>4. CASE k \in keys
    <3>1. Booked(period[k]) + Worst[c] <= Limit[s]
      BY <2>2, <2>4, <1>3, <1>7 DEF HasRoom
    <3>2. period'[k] = [period[k] EXCEPT !.reserved = @ + Worst[c]]
      BY <2>1, <2>4, <1>3
    <3>3. Booked(period'[k]) = Booked(period[k]) + Worst[c]
      BY <1>2, <2>3, <3>2 DEF Booked, Period
    <3> QED
      BY <3>1, <3>3 DEF k, Booked
  <2>5. CASE k \notin keys
    <3>1. period'[k] = period[k]
      BY <2>1, <2>5, <1>3
    <3> QED
      BY <3>1, <1>7 DEF k, LedgerWithinLimits, Booked
  <2> QED
    BY <2>4, <2>5
<1> QED
  BY <1>6, <1>7 DEF LedgerWithinLimits

\* What a settlement moves in a period.
LEMMA MovedFields ==
  ASSUME NEW c \in Call, NEW outcome, NEW cost \in Nat, NEW p \in Period
  PROVE  LET q == Moved(p, c, outcome, cost) IN
         /\ q \in Period
         /\ q.reserved = p.reserved - Worst[c]
         /\ q.settled = IF outcome = "settled" THEN p.settled + cost ELSE p.settled
         /\ q.unknown = IF outcome = "unknown" THEN p.unknown + Worst[c] ELSE p.unknown
<1> DEFINE q == Moved(p, c, outcome, cost)
<1>1. /\ q.reserved = p.reserved - Worst[c]
      /\ q.settled = IF outcome = "settled" THEN p.settled + cost ELSE p.settled
      /\ q.unknown = IF outcome = "unknown" THEN p.unknown + Worst[c] ELSE p.unknown
  BY DEF Moved, Period
<1> DEFINE reserved == p.reserved - Worst[c]
           settled == IF outcome = "settled" THEN p.settled + cost ELSE p.settled
           unknown == IF outcome = "unknown" THEN p.unknown + Worst[c] ELSE p.unknown
<1>2. q = [p EXCEPT !.reserved = reserved, !.settled = settled, !.unknown = unknown]
  BY DEF Moved
<1>3. reserved \in Int /\ settled \in Int /\ unknown \in Int
  BY SpendAssumption DEF Period
<1> HIDE DEF q, reserved, settled, unknown
<1>4. q \in Period
  BY <1>2, <1>3 DEF Period
<1> QED
  BY <1>1, <1>4 DEF q

\* A settlement books no more than was reserved.
LEMMA SettleKeepsLimits ==
  ASSUME SpendTypeOK, LedgerWithinLimits, NEW c \in Call,
         NEW outcome \in {"settled", "released", "unknown"},
         NEW cost \in Nat, cost <= Worst[c], settle(c, outcome, cost)
  PROVE  SpendTypeOK' /\ LedgerWithinLimits'
<1> DEFINE h == spendHold[c]
           keys == {h.month} \X h.scopes
<1>1. CASE h.status # "reserved"
  <2>1. UNCHANGED spendVars
    BY <1>1 DEF settle
  <2> QED
    BY <2>1 DEF spendVars, SpendTypeOK, LedgerWithinLimits, Booked
<1>2. CASE h.status = "reserved"
  <2>1. /\ period' = [k \in Months \X Scopes |->
              IF k \in keys THEN Moved(period[k], c, outcome, cost) ELSE period[k]]
        /\ spendHold' = [spendHold EXCEPT ![c].status = outcome,
              ![c].cost = IF outcome = "settled" THEN cost ELSE 0]
    BY <1>2 DEF settle
  <2> HIDE DEF keys
  <2>2. Worst[c] \in Nat
    BY SpendAssumption
  <2>3. \A p \in Period : /\ Moved(p, c, outcome, cost) \in Period
                          /\ Booked(Moved(p, c, outcome, cost)) <= Booked(p)
    <3> SUFFICES ASSUME NEW p \in Period
                 PROVE  /\ Moved(p, c, outcome, cost) \in Period
                        /\ Booked(Moved(p, c, outcome, cost)) <= Booked(p)
      OBVIOUS
    <3> QED
      BY <2>2, MovedFields DEF Booked, Period
  <2>4. \A k \in Months \X Scopes : period[k] \in Period
    BY DEF SpendTypeOK
  <2>5. \A k \in Months \X Scopes :
          period'[k] \in Period /\ Booked(period'[k]) <= Booked(period[k])
    <3> SUFFICES ASSUME NEW k \in Months \X Scopes
                 PROVE  period'[k] \in Period /\ Booked(period'[k]) <= Booked(period[k])
      OBVIOUS
    <3>1. CASE k \in keys
      BY <2>1, <2>3, <2>4, <3>1
    <3>2. CASE k \notin keys
      <4>1. period'[k] = period[k]
        BY <2>1, <3>2
      <4> QED
        BY <4>1, <2>4 DEF Booked, Period
    <3> QED
      BY <3>1, <3>2
  <2>6. SpendTypeOK'
    <3>1. period' \in [Months \X Scopes -> Period]
      BY <2>1, <2>5
    <3>2. h \in SpendHold /\ (IF outcome = "settled" THEN cost ELSE 0) \in Int
      BY DEF SpendTypeOK
    <3>3. [h EXCEPT !.status = outcome, !.cost = IF outcome = "settled" THEN cost ELSE 0] \in SpendHold
      BY <3>2 DEF SpendHold
    <3>4. spendHold' = [spendHold EXCEPT ![c] =
            [h EXCEPT !.status = outcome, !.cost = IF outcome = "settled" THEN cost ELSE 0]]
      BY <2>1 DEF SpendTypeOK
    <3>5. spendHold' \in [Call -> SpendHold]
      BY <3>3, <3>4 DEF SpendTypeOK
    <3> QED
      BY <3>1, <3>5 DEF SpendTypeOK
  <2>7. ASSUME NEW n \in Months, NEW s \in Scopes, Limit[s] # Unlimited
        PROVE  Booked(period[n, s])' <= Limit[s]
    <3> DEFINE k == <<n, s>>
    <3>1. k \in Months \X Scopes /\ Limit[s] \in Nat
      BY <2>7, SpendAssumption
    <3>2. Booked(period[k]) <= Limit[s]
      BY <2>7 DEF LedgerWithinLimits
    <3>3. period[k] \in Period /\ period'[k] \in Period /\ Booked(period'[k]) <= Booked(period[k])
      BY <3>1, <2>4, <2>5
    <3> HIDE DEF k
    <3>4. Booked(period'[k]) <= Limit[s]
      BY <3>1, <3>2, <3>3 DEF Booked, Period
    <3> QED
      BY <3>4 DEF k, Booked
  <2> QED
    BY <2>6, <2>7 DEF LedgerWithinLimits
<1> QED
  BY <1>1, <1>2

-----------------------------------------------------------------------------
(* The calls. *)

\* A call moves on and stays typed.
LEMMA CallTyped ==
  ASSUME CallsTyped, NEW c \in Call, NEW r \in Calling, r.usage <= Worst[c],
         call' = [call EXCEPT ![c] = r], month' \in Months
  PROVE  CallsTyped'
BY DEF CallsTyped

LEMMA CallGoesTyped ==
  ASSUME CallsTyped, NEW c \in Call, NEW r \in Calling, r.usage = call[c].usage,
         call' = [call EXCEPT ![c] = r], UNCHANGED month
  PROVE  CallsTyped'
BY DEF CallsTyped

\* Where a call goes: to a step it may be at.
LEMMA StepTyped ==
  ASSUME CallsTyped, NEW c \in Call, UNCHANGED month,
         NEW step \in {"idle", "holding", "refused", "sent", "answered", "booked", "done"},
         CallGoes(c, step)
  PROVE  CallsTyped'
<1>1. [call[c] EXCEPT !.step = step] \in Calling
  BY DEF CallsTyped, Calling
<1>2. [call[c] EXCEPT !.step = step].usage = call[c].usage
  BY DEF CallsTyped, Calling
<1>3. call' = [call EXCEPT ![c] = [call[c] EXCEPT !.step = step]]
  BY DEF CallGoes, CallsTyped
<1> QED
  BY <1>1, <1>2, <1>3, CallGoesTyped

\* A call that has not begun is typed, and has used nothing.
LEMMA NoCallTyped ==
  ASSUME NEW payer \in Payers, NEW t \in Turn \cup {NoTurn},
         NEW step \in {"idle", "holding", "refused", "sent", "answered", "booked", "done"}
  PROVE  /\ Begun(payer, t, step) \in Calling /\ Begun(payer, t, step).usage = 0
         /\ [NoCall EXCEPT !.step = step] \in Calling
         /\ [NoCall EXCEPT !.step = step].usage = 0
BY DEF Begun, NoCall, Calling, Payers

LEMMA BeginTyped ==
  ASSUME CallsTyped, NEW c \in Call, NEW r \in Calling, r.usage = 0,
         call' = [call EXCEPT ![c] = r], UNCHANGED month
  PROVE  CallsTyped'
<1>1. r.usage <= Worst[c]
  BY SpendAssumption
<1>2. month' \in Months
  BY DEF CallsTyped
<1> QED
  BY <1>1, <1>2, CallTyped

\* Every step of the specification leaves the calls typed.
LEMMA CallsStayTyped ==
  ASSUME CallsTyped, [Next]_vars
  PROVE  CallsTyped'
<1> USE DEF NoFault, Fault
<1>1. ASSUME NEW c \in Call, Calls(c)
      PROVE  CallsTyped'
  <2>1. ASSUME NEW payer \in Payers, NEW t \in Turn \cup {NoTurn}, ReserveSpend(c, payer, t)
        PROVE  CallsTyped'
    <3> DEFINE step == IF payer = "customer" THEN "holding" ELSE "sent"
    <3>1. call' = [call EXCEPT ![c] = Begun(payer, t, step)] /\ UNCHANGED month
      BY <2>1 DEF ReserveSpend
    <3>2. Begun(payer, t, step) \in Calling /\ Begun(payer, t, step).usage = 0
      BY NoCallTyped
    <3> QED
      BY <3>1, <3>2, BeginTyped
  <2>2. ASSUME NEW payer \in Payers, NEW t \in Turn \cup {NoTurn},
               ReserveRefused(c, payer, t) \/ ReserveFails(c, payer, t)
        PROVE  CallsTyped'
    <3>1. call' = [call EXCEPT ![c] = [NoCall EXCEPT !.step = "done"]] /\ UNCHANGED month
      BY <2>2 DEF ReserveRefused, ReserveFails
    <3>2. [NoCall EXCEPT !.step = "done"] \in Calling /\ [NoCall EXCEPT !.step = "done"].usage = 0
      BY DEF NoCall, Calling, Payers
    <3> QED
      BY <3>1, <3>2, BeginTyped
  <2>3. ASSUME Answered(c)
        PROVE  CallsTyped'
    <3>1. PICK u \in 1 .. Worst[c] :
            call' = [call EXCEPT ![c].step = "answered", ![c].outcome = "ran", ![c].usage = u]
      BY <2>3 DEF Answered
    <3>2. call' = [call EXCEPT ![c] =
            [call[c] EXCEPT !.step = "answered", !.outcome = "ran", !.usage = u]]
      BY <3>1 DEF CallsTyped
    <3>3. u \in Nat /\ u <= Worst[c]
      BY SpendAssumption
    <3>4. [call[c] EXCEPT !.step = "answered", !.outcome = "ran", !.usage = u] \in Calling
      BY <3>3 DEF CallsTyped, Calling
    <3>5. [call[c] EXCEPT !.step = "answered", !.outcome = "ran", !.usage = u].usage = u
      BY DEF CallsTyped, Calling
    <3>6. month' \in Months
      BY <2>3 DEF Answered, CallsTyped
    <3> QED
      BY <3>2, <3>3, <3>4, <3>5, <3>6, CallTyped
  <2>4. ASSUME AnswerLost(c)
        PROVE  CallsTyped'
    <3>1. call' = [call EXCEPT ![c] = [call[c] EXCEPT !.step = "answered", !.outcome = "unknown"]]
      BY <2>4 DEF AnswerLost, CallsTyped
    <3>2. [call[c] EXCEPT !.step = "answered", !.outcome = "unknown"] \in Calling
      BY DEF CallsTyped, Calling
    <3>3. [call[c] EXCEPT !.step = "answered", !.outcome = "unknown"].usage = call[c].usage
      BY DEF CallsTyped, Calling
    <3>4. UNCHANGED month
      BY <2>4 DEF AnswerLost
    <3> QED
      BY <3>1, <3>2, <3>3, <3>4, CallGoesTyped
  <2>5. ASSUME \/ HoldCredits(c) \/ HoldSkipped(c)
        PROVE  CallsTyped'
    <3>1. CallGoes(c, "sent") /\ UNCHANGED month
      BY <2>5 DEF HoldCredits, HoldSkipped
    <3> QED
      BY <3>1, StepTyped
  <2>6. ASSUME CreditsExhausted(c) \/ HoldFails(c)
        PROVE  CallsTyped'
    <3>1. CallGoes(c, "refused") /\ UNCHANGED month
      BY <2>6 DEF CreditsExhausted, HoldFails
    <3> QED
      BY <3>1, StepTyped
  <2>7. ASSUME GiveBack(c) \/ SettleCredits(c) \/ SettleCreditsFails(c)
        PROVE  CallsTyped'
    <3>1. CallGoes(c, "done") /\ UNCHANGED month
      BY <2>7 DEF GiveBack, SettleCredits, SettleCreditsFails
    <3> QED
      BY <3>1, StepTyped
  <2>8. ASSUME NotRun(c)
        PROVE  CallsTyped'
    <3>1. CallGoes(c, "answered") /\ UNCHANGED month
      BY <2>8 DEF NotRun
    <3> QED
      BY <3>1, StepTyped
  <2>9. ASSUME SettleSpend(c) \/ SettleSpendFails(c)
        PROVE  CallsTyped'
    <3>1. CallGoes(c, IF call[c].payer = "customer" THEN "booked" ELSE "done") /\ UNCHANGED month
      BY <2>9 DEF SettleSpend, SettleSpendFails, AfterLedger
    <3> QED
      BY <3>1, StepTyped
  <2> QED
    BY <1>1, <2>1, <2>2, <2>3, <2>4, <2>5, <2>6, <2>7, <2>8, <2>9 DEF Calls
<1>2. ASSUME NEW calls, Die(calls)
      PROVE  CallsTyped'
  <2> DEFINE dead(c) == [call[c] EXCEPT !.step = "done",
                           !.outcome = IF call[c].step = "sent" THEN "unknown" ELSE @]
  <2>1. \A c \in Call : dead(c) \in Calling /\ dead(c).usage = call[c].usage
    BY DEF CallsTyped, Calling
  <2>2. call' = [c \in Call |-> IF c \in calls THEN dead(c) ELSE call[c]] /\ UNCHANGED month
    BY <1>2 DEF Die
  <2> HIDE DEF dead
  <2> QED
    BY <2>1, <2>2 DEF CallsTyped
<1>3. ASSUME NEW c \in Call, CallDies(c) \/ Expire(c) \/ CreditHoldLapses(c)
      PROVE  CallsTyped'
  <2>1. CASE CallDies(c)
    BY <2>1, <1>2 DEF CallDies
  <2>2. CASE Expire(c) \/ CreditHoldLapses(c)
    BY <2>2 DEF Expire, CreditHoldLapses, CallsTyped
  <2> QED
    BY <1>3, <2>1, <2>2
<1>4. ASSUME NEW t \in Turn, Turns(t)
      PROVE  CallsTyped'
  <2>1. CASE TurnDies(t)
    BY <2>1, <1>2 DEF TurnDies
  <2>2. CASE \/ CloseTurn(t) \/ ChargeTurn(t) \/ ChargeFails(t)
             \/ CloseHolds(t) \/ CloseHoldsFails(t)
    BY <2>2 DEF CloseTurn, ChargeTurn, ChargeFails, CloseHolds, CloseHoldsFails, CallsTyped
  <2> QED
    BY <1>4, <2>1, <2>2 DEF Turns
<1>5. CASE NewMonth
  BY <1>5, SpendAssumption DEF NewMonth, CallsTyped, Months
<1>6. CASE UNCHANGED vars
  BY <1>6 DEF vars, CallsTyped
<1> QED
  BY <1>1, <1>3, <1>4, <1>5, <1>6 DEF Next

-----------------------------------------------------------------------------
(* The limits. *)

\* A settlement of the ledger, of a call or of the expiry, costs no more than the
\* call may.
LEMMA CallSettles ==
  ASSUME SpendInv, NEW c \in Call, NEW outcome \in {"settled", "released", "unknown"},
         settle(c, outcome, 0) \/ settle(c, outcome, call[c].usage)
  PROVE  SpendTypeOK' /\ LedgerWithinLimits'
<1>1. 0 \in Nat /\ 0 <= Worst[c]
  BY SpendAssumption
<1>2. call[c].usage \in Nat /\ call[c].usage <= Worst[c]
  BY DEF SpendInv, CallsTyped, Calling
<1> QED
  BY <1>1, <1>2, SettleKeepsLimits DEF SpendInv

\* Every step of the specification keeps the limits.
LEMMA LimitsStep ==
  ASSUME SpendInv, [Next]_vars
  PROVE  SpendInv'
<1>1. CallsTyped'
  BY CallsStayTyped DEF SpendInv
<1>2. ASSUME UNCHANGED spendVars
      PROVE  SpendTypeOK' /\ LedgerWithinLimits'
  BY <1>2 DEF SpendInv, spendVars, SpendTypeOK, LedgerWithinLimits, Booked
<1>3. ASSUME NEW c \in Call, Calls(c)
      PROVE  SpendTypeOK' /\ LedgerWithinLimits'
  <2>1. ASSUME NEW payer \in Payers, NEW t \in Turn \cup {NoTurn},
               \/ ReserveSpend(c, payer, t) \/ ReserveRefused(c, payer, t)
               \/ ReserveFails(c, payer, t)
        PROVE  SpendTypeOK' /\ LedgerWithinLimits'
    <3>1. reserve(c, payer, month) \/ UNCHANGED spendVars
      BY <2>1 DEF ReserveSpend, ReserveRefused, ReserveFails, limitReached
    <3> QED
      BY <3>1, <1>2, ReserveKeepsLimits DEF SpendInv, CallsTyped
  <2>2. ASSUME GiveBack(c)
        PROVE  SpendTypeOK' /\ LedgerWithinLimits'
    BY <2>2, <1>2, CallSettles DEF GiveBack
  <2>3. ASSUME SettleSpend(c)
        PROVE  SpendTypeOK' /\ LedgerWithinLimits'
    <3>1. Settlement(call[c].outcome) \in {"settled", "released", "unknown"}
      BY DEF Settlement, SpendInv, CallsTyped, Calling
    <3> QED
      BY <2>3, <3>1, CallSettles DEF SettleSpend
  <2>4. ASSUME \/ HoldCredits(c) \/ CreditsExhausted(c) \/ HoldFails(c) \/ HoldSkipped(c)
               \/ Answered(c) \/ NotRun(c) \/ AnswerLost(c)
               \/ SettleSpendFails(c) \/ SettleCredits(c) \/ SettleCreditsFails(c)
        PROVE  SpendTypeOK' /\ LedgerWithinLimits'
    BY <2>4, <1>2 DEF HoldCredits, CreditsExhausted, HoldFails, HoldSkipped, Answered, NotRun,
       AnswerLost, SettleSpendFails, SettleCredits, SettleCreditsFails
  <2> QED
    BY <1>3, <2>1, <2>2, <2>3, <2>4 DEF Calls
<1>4. ASSUME NEW c \in Call, CallDies(c) \/ Expire(c) \/ CreditHoldLapses(c)
      PROVE  SpendTypeOK' /\ LedgerWithinLimits'
  <2>1. CASE Expire(c)
    BY <2>1, CallSettles DEF Expire, expire
  <2>2. CASE CallDies(c) \/ CreditHoldLapses(c)
    BY <2>2, <1>2 DEF CallDies, Die, CreditHoldLapses
  <2> QED
    BY <1>4, <2>1, <2>2
<1>5. ASSUME NEW t \in Turn, Turns(t)
      PROVE  SpendTypeOK' /\ LedgerWithinLimits'
  BY <1>5, <1>2 DEF Turns, CloseTurn, ChargeTurn, ChargeFails, CloseHolds,
     CloseHoldsFails, TurnDies, Die
<1>6. ASSUME NewMonth \/ UNCHANGED vars
      PROVE  SpendTypeOK' /\ LedgerWithinLimits'
  BY <1>6, <1>2 DEF NewMonth, vars
<1>7. SpendTypeOK' /\ LedgerWithinLimits'
  BY <1>3, <1>4, <1>5, <1>6 DEF Next
<1> QED
  BY <1>1, <1>7 DEF SpendInv

\* Nothing is booked at first.
LEMMA LimitsInit ==
  ASSUME Init
  PROVE  SpendInv
<1>1. SpendTypeOK
  BY DEF Init, SpendInit, SpendTypeOK, Period, SpendHold, NoSpendHold
<1>2. CallsTyped
  <2>1. NoCall \in Calling /\ NoCall.usage = 0
    BY DEF NoCall, Calling, Payers
  <2> QED
    BY <2>1, SpendAssumption DEF Init, CallsTyped, Months
<1>3. ASSUME NEW n \in Months, NEW s \in Scopes, Limit[s] # Unlimited
      PROVE  Booked(period[n, s]) <= Limit[s]
  <2> DEFINE k == <<n, s>>
  <2>1. k \in Months \X Scopes /\ Limit[s] \in Nat
    BY <1>3, SpendAssumption
  <2> HIDE DEF k
  <2>2. period[k] = [reserved |-> 0, settled |-> 0, unknown |-> 0]
    BY <2>1 DEF Init, SpendInit
  <2>3. Booked(period[k]) = 0
    BY <2>2 DEF Booked
  <2>4. Booked(period[k]) <= Limit[s]
    BY <2>1, <2>3
  <2> QED
    BY <2>4 DEF k, Booked
<1> QED
  BY <1>1, <1>2, <1>3 DEF SpendInv, LedgerWithinLimits

\* What is reserved, settled and unknown stays within each limit that is set, for
\* any calls, prices, limits and faults: every reservation checks and adds in one
\* update, and no settlement books more than was reserved.
THEOREM LimitsHold == Spec => []LedgerWithinLimits
<1>1. Init => SpendInv
  BY LimitsInit
<1>2. SpendInv /\ [Next]_vars => SpendInv'
  BY LimitsStep
<1>3. SpendInv => LedgerWithinLimits
  BY DEF SpendInv
<1> QED
  BY <1>1, <1>2, <1>3, PTL DEF Spec

-----------------------------------------------------------------------------
(* What a call used. *)

\* A call that a step leaves alone.
Untouched(c) ==
  /\ call'[c] = call[c] /\ creditHold'[c] = creditHold[c]
  /\ \A t \in Turn : /\ c \in turn'[t].metered => c \in turn[t].metered
                     /\ Closed(t) => Closed(t)'

LEMMA UntouchedFits ==
  ASSUME NEW c \in Call, Fits(c), Untouched(c)
  PROVE  Fits(c)'
BY DEF Fits, Untouched, Counts

\* A step of a call changes no scope: at most its turn's tally.
ScopesStay(c) == Tallied(c) \/ UNCHANGED turn

LEMMA TallyTyped ==
  ASSUME CreditTyped, NEW c \in Call, ScopesStay(c)
  PROVE  /\ turn' \in [Turn -> TurnState]
         /\ \A t \in Turn : /\ turn'[t].metered = turn[t].metered
                            /\ turn'[t].step = turn[t].step /\ turn'[t].plan = turn[t].plan
                            /\ turn'[t].month = turn[t].month
                            /\ turn[t].tallied \subseteq turn'[t].tallied
                            /\ turn'[t].tallied # turn[t].tallied =>
                                 /\ turn[t].step = "open" /\ call[c].outcome = "ran"
                                 /\ call[c].turn = t
                                 /\ turn'[t].tallied = turn[t].tallied \cup {c}
<1>1. CASE UNCHANGED turn
  BY <1>1 DEF CreditTyped
<1>2. CASE Tallied(c)
  <2> DEFINE t == call[c].turn
             w == [turn[t] EXCEPT !.tallied = @ \cup {c}]
  <2>1. /\ t \in Turn /\ turn[t].step = "open" /\ call[c].outcome = "ran"
        /\ turn' = [turn EXCEPT ![t] = w]
    BY <1>2, CallsAssumption DEF Tallied
  <2>2. /\ w \in TurnState /\ w.metered = turn[t].metered /\ w.step = turn[t].step
        /\ w.plan = turn[t].plan /\ w.month = turn[t].month
        /\ w.tallied = turn[t].tallied \cup {c}
    BY <2>1 DEF CreditTyped, TurnState
  <2> HIDE DEF w
  <2> QED
    BY <2>1, <2>2 DEF CreditTyped
<1> QED
  BY <1>1, <1>2 DEF ScopesStay

\* An answer adds its call to the scope of its turn, if the customer pays.
LEMMA MeteredGoes ==
  ASSUME CreditTyped, NEW c \in Call, turn' = Metered(c)
  PROVE  /\ turn' \in [Turn -> TurnState]
         /\ \A t \in Turn :
              /\ turn'[t].step = turn[t].step /\ turn'[t].tallied = turn[t].tallied
              /\ turn'[t].plan = turn[t].plan /\ turn'[t].month = turn[t].month
              /\ turn[t].metered \subseteq turn'[t].metered
              /\ turn'[t].metered \subseteq turn[t].metered \cup {c}
              /\ c \in turn'[t].metered => \/ c \in turn[t].metered
                                           \/ /\ t = call[c].turn /\ turn[t].step = "open"
                                              /\ call[c].payer = "customer"
              /\ call[c].payer = "customer" /\ t = call[c].turn /\ turn[t].step = "open"
                   => c \in turn'[t].metered
<1> DEFINE t == call[c].turn
           w == [turn[t] EXCEPT !.metered = @ \cup {c}]
<1>1. CASE call[c].payer = "customer" /\ t \in Turn /\ turn[t].step = "open"
  <2>1. turn' = [turn EXCEPT ![t] = w]
    BY <1>1 DEF Metered
  <2>2. /\ w \in TurnState /\ w.step = turn[t].step /\ w.metered = turn[t].metered \cup {c}
        /\ w.tallied = turn[t].tallied /\ w.plan = turn[t].plan /\ w.month = turn[t].month
    BY <1>1 DEF CreditTyped, TurnState
  <2> HIDE DEF w
  <2> QED
    BY <1>1, <2>1, <2>2 DEF CreditTyped
<1>2. CASE ~(call[c].payer = "customer" /\ t \in Turn /\ turn[t].step = "open")
  <2>1. turn' = turn
    BY <1>2 DEF Metered
  <2> QED
    BY <1>2, <2>1 DEF CreditTyped
<1> QED
  BY <1>1, <1>2

\* The hold of a call is replaced.
LEMMA HoldTyped ==
  ASSUME CreditTyped, NEW c \in Call, NEW h \in CreditHold,
         creditHold' = [creditHold EXCEPT ![c] = h], ScopesStay(c)
  PROVE  CreditTyped' /\ creditHold'[c] = h /\ \A d \in Call \ {c} : creditHold'[d] = creditHold[d]
BY TallyTyped DEF CreditTyped

\* A step of one call that touches neither holds nor scopes.
LEMMA CallFits ==
  ASSUME CreditInv, NEW c \in Call, NEW r, call' = [call EXCEPT ![c] = r],
         UNCHANGED creditHold, ScopesStay(c),
         creditHold[c] # NoCreditHold => r.step \notin {"idle", "holding"},
         creditHold[c].pushed => r.turn = call[c].turn,
         r.step = "sent" => ~creditHold[c].pushed,
         \A t \in Turn : c \in turn[t].metered =>
           r.turn = call[c].turn /\ r.outcome = "ran" /\ r.step \in {"answered", "booked", "done"}
  PROVE  CreditTyped' /\ \A d \in Call : Fits(d)'
<1>0. \A t \in Turn : turn'[t].metered = turn[t].metered /\ turn'[t].step = turn[t].step
  BY TallyTyped DEF CreditInv
<1>1. CreditTyped'
  BY TallyTyped DEF CreditInv, CreditTyped
<1>2. Fits(c)'
  <2>1. call'[c] = r
    BY DEF CreditInv, CallsTyped
  <2> QED
    BY <1>0, <2>1 DEF CreditInv, Fits, Counts, Closed
<1>3. ASSUME NEW d \in Call \ {c}
      PROVE  Fits(d)'
  <2>1. Untouched(d)
    BY <1>0 DEF Untouched, CreditInv, CallsTyped, Closed
  <2> QED
    BY <2>1, UntouchedFits DEF CreditInv
<1> QED
  BY <1>1, <1>2, <1>3

\* A call goes on past its answer, and nothing else changes.
LEMMA CallGoesFits ==
  ASSUME CreditInv, NEW c \in Call, NEW step \in {"refused", "answered", "booked", "done"},
         call[c].step \in {"answered", "booked"} => step \in {"booked", "done"},
         call[c].step # "done", CallGoes(c, step), UNCHANGED creditHold, ScopesStay(c)
  PROVE  CreditTyped' /\ \A d \in Call : Fits(d)'
<1> DEFINE r == [call[c] EXCEPT !.step = step]
<1>1. call' = [call EXCEPT ![c] = r]
  BY DEF CallGoes, CreditInv, CallsTyped
<1>2. /\ r.step = step /\ r.turn = call[c].turn /\ r.outcome = call[c].outcome
  BY DEF CreditInv, CallsTyped, Calling
<1>3. \A t \in Turn : c \in turn[t].metered =>
        call[c].outcome = "ran" /\ call[c].step \in {"answered", "booked", "done"}
  BY DEF CreditInv, Fits
<1> HIDE DEF r
<1> QED
  BY <1>1, <1>2, <1>3, CallFits

\* A call goes on with another hold.
LEMMA HoldFits ==
  ASSUME CreditInv, NEW c \in Call, NEW r, call' = [call EXCEPT ![c] = r],
         NEW h \in CreditHold, creditHold' = [creditHold EXCEPT ![c] = h], ScopesStay(c),
         r.step \notin {"idle", "holding"},
         h.pushed => h.turn = r.turn,
         r.step = "sent" /\ h.pushed => h.status = "reserved" /\ h.live,
         \A t \in Turn : c \in turn[t].metered =>
           /\ r.turn = call[c].turn /\ r.outcome = "ran" /\ r.step \in {"answered", "booked", "done"}
           /\ h.pushed => (h.status \in {"reserved", "used"} /\ h.live) \/ h.lapsed \/ Closed(t)
  PROVE  CreditTyped' /\ \A d \in Call : Fits(d)'
<1>0. \A t \in Turn : turn'[t].metered = turn[t].metered /\ turn'[t].step = turn[t].step
  BY TallyTyped DEF CreditInv
<1>1. CreditTyped' /\ creditHold'[c] = h /\ \A d \in Call \ {c} : creditHold'[d] = creditHold[d]
  BY HoldTyped DEF CreditInv
<1>2. Fits(c)'
  <2>1. call'[c] = r
    BY DEF CreditInv, CallsTyped
  <2> QED
    BY <1>0, <1>1, <2>1 DEF CreditInv, Fits, Counts, Closed
<1>3. ASSUME NEW d \in Call \ {c}
      PROVE  Fits(d)'
  <2>1. Untouched(d)
    BY <1>0, <1>1 DEF Untouched, CreditInv, CallsTyped, Closed
  <2> QED
    BY <2>1, UntouchedFits DEF CreditInv
<1> QED
  BY <1>1, <1>2, <1>3

\* The steps of a call before it is sent.
LEMMA BeforeSentFits ==
  ASSUME CreditInv, NEW c \in Call,
         \/ \E payer \in Payers, t \in Turn \cup {NoTurn} :
              ReserveSpend(c, payer, t) \/ ReserveRefused(c, payer, t) \/ ReserveFails(c, payer, t)
         \/ HoldCredits(c) \/ CreditsExhausted(c) \/ HoldFails(c) \/ HoldSkipped(c) \/ GiveBack(c)
  PROVE  CreditTyped' /\ \A d \in Call : Fits(d)'
<1>1. call[c].step \in {"idle", "holding"} =>
        /\ creditHold[c] = NoCreditHold /\ ~creditHold[c].pushed
        /\ \A t \in Turn : c \notin turn[t].metered
  <2>1. ~NoCreditHold.pushed
    BY DEF NoCreditHold
  <2> QED
    BY <2>1 DEF CreditInv, Fits
<1>2. ASSUME NEW payer \in Payers, NEW t \in Turn \cup {NoTurn},
             ReserveSpend(c, payer, t) \/ ReserveRefused(c, payer, t) \/ ReserveFails(c, payer, t)
      PROVE  CreditTyped' /\ \A d \in Call : Fits(d)'
  <2>1. PICK r : call' = [call EXCEPT ![c] = r]
    BY <1>2 DEF ReserveSpend, ReserveRefused, ReserveFails
  <2>2. call[c].step = "idle" /\ UNCHANGED creditHold /\ ScopesStay(c)
    BY <1>2 DEF ReserveSpend, ReserveRefused, ReserveFails, MayCall, creditVars, ScopesStay
  <2> QED
    BY <1>1, <2>1, <2>2, CallFits
<1>3. ASSUME NEW h \in CreditHold, NEW step \in {"sent", "refused"}, call[c].step = "holding",
             CallGoes(c, step), creditHold' = [creditHold EXCEPT ![c] = h], ScopesStay(c),
             h.pushed => h.turn = call[c].turn, h.status = "reserved" /\ h.live
      PROVE  CreditTyped' /\ \A d \in Call : Fits(d)'
  <2> DEFINE r == [call[c] EXCEPT !.step = step]
  <2>1. call' = [call EXCEPT ![c] = r] /\ r.step = step /\ r.turn = call[c].turn
    BY <1>3 DEF CallGoes, CreditInv, CallsTyped, Calling
  <2> HIDE DEF r
  <2> QED
    BY <1>1, <1>3, <2>1, HoldFits
<1>4. ASSUME call[c].step = "holding"
      PROVE  call[c].turn \in Turn \cup {NoTurn}
  BY DEF CreditInv, CallsTyped, Calling
<1>5. ASSUME NEW pushed \in BOOLEAN, NEW m \in Months, call[c].step = "holding"
      PROVE  LET h == [NoCreditHold EXCEPT !.status = "reserved", !.month = m,
                         !.turn = call[c].turn, !.pushed = pushed, !.live = TRUE] IN
             /\ h \in CreditHold /\ h.turn = call[c].turn /\ h.status = "reserved" /\ h.live
  BY <1>4, <1>5 DEF NoCreditHold, CreditHold, CreditInv, CallsTyped
<1>6. CASE HoldCredits(c)
  <2>1. PICK m \in Months : hold(c, call[c].turn, m, TRUE)
    BY <1>6 DEF HoldCredits, MonthRead
  <2> QED
    BY <1>3, <1>5, <1>6, <2>1 DEF HoldCredits, hold, ScopesStay
<1>7. CASE HoldFails(c)
  <2>1. ASSUME NEW m \in Months, hold(c, call[c].turn, m, FALSE)
        PROVE  CreditTyped' /\ \A d \in Call : Fits(d)'
    BY <1>3, <1>5, <1>7, <2>1 DEF HoldFails, hold, ScopesStay
  <2>2. CASE UNCHANGED creditVars
    BY <1>7, <2>2, CallGoesFits DEF HoldFails, creditVars, ScopesStay
  <2> QED
    BY <1>7, <2>1, <2>2 DEF HoldFails, MonthRead
<1>8. CASE HoldSkipped(c)
  <2> DEFINE r == [call[c] EXCEPT !.step = "sent"]
  <2>1. /\ call' = [call EXCEPT ![c] = r] /\ UNCHANGED creditHold /\ ScopesStay(c)
        /\ call[c].step = "holding"
    BY <1>8 DEF HoldSkipped, CallGoes, CreditInv, CallsTyped, creditVars, ScopesStay
  <2> HIDE DEF r
  <2> QED
    BY <1>1, <2>1, CallFits
<1>9. CASE CreditsExhausted(c) \/ GiveBack(c)
  <2>1. call[c].step \in {"holding", "refused"} /\ UNCHANGED creditHold /\ ScopesStay(c)
        /\ (CallGoes(c, "refused") \/ CallGoes(c, "done"))
    BY <1>9 DEF CreditsExhausted, GiveBack, creditVars, ScopesStay
  <2> QED
    BY <2>1, CallGoesFits
<1> QED
  BY <1>2, <1>6, <1>7, <1>8, <1>9

\* The steps of a call from its answer on.
LEMMA AfterSentFits ==
  ASSUME CreditInv, NEW c \in Call,
         \/ Answered(c) \/ NotRun(c) \/ AnswerLost(c)
         \/ SettleSpend(c) \/ SettleSpendFails(c) \/ SettleCredits(c) \/ SettleCreditsFails(c)
  PROVE  CreditTyped' /\ \A d \in Call : Fits(d)'
<1>1. \A t \in Turn : c \in turn[t].metered =>
        /\ call[c].turn = t /\ call[c].outcome = "ran"
        /\ call[c].step \in {"answered", "booked", "done"}
        /\ creditHold[c].pushed => Counts(c) \/ creditHold[c].lapsed \/ Closed(t)
  BY DEF CreditInv, Fits
<1>2. CASE Answered(c)
  <2>1. PICK u \in 1 .. Worst[c] :
          call' = [call EXCEPT ![c].step = "answered", ![c].outcome = "ran", ![c].usage = u]
    BY <1>2 DEF Answered
  <2> DEFINE r == [call[c] EXCEPT !.step = "answered", !.outcome = "ran", !.usage = u]
  <2>2. call'[c] = r /\ \A d \in Call \ {c} : call'[d] = call[d]
    BY <2>1 DEF CreditInv, CallsTyped
  <2>3. r.step = "answered" /\ r.outcome = "ran" /\ r.turn = call[c].turn
    BY DEF CreditInv, CallsTyped, Calling
  <2> HIDE DEF r
  <2>4. call[c].step = "sent" /\ UNCHANGED creditHold /\ turn' = Metered(c)
    BY <1>2 DEF Answered, creditVars
  <2>5. /\ turn' \in [Turn -> TurnState]
        /\ \A t \in Turn : turn'[t].step = turn[t].step
        /\ \A t \in Turn : turn'[t].metered \subseteq turn[t].metered \cup {c}
        /\ \A t \in Turn : c \in turn'[t].metered => c \in turn[t].metered \/ t = call[c].turn
    BY <2>4, MeteredGoes DEF CreditInv
  <2>6. CreditTyped'
    BY <2>4, <2>5 DEF CreditInv, CreditTyped
  <2>7. Fits(c)'
    <3>1. creditHold[c].pushed => creditHold[c].status = "reserved" /\ creditHold[c].live
          /\ creditHold[c].turn = call[c].turn
      BY <2>4 DEF CreditInv, Fits
    <3>2. \A t \in Turn : c \notin turn[t].metered
      BY <1>1, <2>4
    <3> QED
      BY <2>2, <2>3, <2>4, <2>5, <3>1, <3>2 DEF Fits, Counts
  <2>8. ASSUME NEW d \in Call \ {c}
        PROVE  Fits(d)'
    <3>1. Untouched(d)
      BY <2>2, <2>4, <2>5 DEF Untouched, Closed
    <3> QED
      BY <3>1, UntouchedFits DEF CreditInv
  <2> QED
    BY <2>6, <2>7, <2>8
<1>3. CASE NotRun(c)
  BY <1>3, CallGoesFits DEF NotRun, creditVars, ScopesStay
<1>4. CASE AnswerLost(c)
  <2> DEFINE r == [call[c] EXCEPT !.step = "answered", !.outcome = "unknown"]
  <2>1. /\ call' = [call EXCEPT ![c] = r] /\ call[c].step = "sent"
        /\ UNCHANGED creditHold /\ ScopesStay(c)
    BY <1>4 DEF AnswerLost, CreditInv, CallsTyped, creditVars, ScopesStay
  <2>2. r.step = "answered" /\ r.turn = call[c].turn
    BY DEF CreditInv, CallsTyped, Calling
  <2> HIDE DEF r
  <2> QED
    BY <1>1, <2>1, <2>2, CallFits
<1>5. CASE SettleSpend(c) \/ SettleSpendFails(c)
  <2>1. /\ call[c].step = "answered" /\ UNCHANGED creditHold /\ ScopesStay(c)
        /\ CallGoes(c, "booked") \/ CallGoes(c, "done")
    BY <1>5 DEF SettleSpend, SettleSpendFails, AfterLedger, creditVars, ScopesStay
  <2> QED
    BY <2>1, CallGoesFits
<1>6. CASE SettleCreditsFails(c)
  BY <1>6, CallGoesFits DEF SettleCreditsFails, creditVars, ScopesStay
<1>7. CASE SettleCredits(c)
  <2> DEFINE r == [call[c] EXCEPT !.step = "done"]
             h == creditHold[c]
  <2>1. /\ call[c].step = "booked" /\ CallGoes(c, "done") /\ ScopesStay(c)
        /\ settleHold(c, call[c].outcome = "ran", call[c].usage)
    BY <1>7 DEF SettleCredits, ScopesStay
  <2>2. /\ call' = [call EXCEPT ![c] = r]
        /\ r.step = "done" /\ r.turn = call[c].turn /\ r.outcome = call[c].outcome
    BY <2>1 DEF CallGoes, CreditInv, CallsTyped, Calling
  <2> HIDE DEF r
  <2>3. CASE h.status # "reserved"
    BY <2>1, <2>3, CallGoesFits DEF settleHold
  <2>4. CASE h.status = "reserved" /\ h.turn # NoTurn /\ call[c].outcome = "ran"
    <3> DEFINE g == [h EXCEPT !.status = "used", !.used = call[c].usage, !.live = TRUE]
    <3>1. creditHold' = [creditHold EXCEPT ![c] = g]
      BY <2>1, <2>4 DEF settleHold
    <3>2. /\ g \in CreditHold /\ g.status = "used" /\ g.live
          /\ g.turn = h.turn /\ g.pushed = h.pushed
      BY DEF CreditInv, CreditTyped, CreditHold, CallsTyped, Calling
    <3>3. h.pushed => h.turn = call[c].turn
      BY DEF CreditInv, Fits
    <3> HIDE DEF g
    <3>4. \A t \in Turn : c \in turn[t].metered =>
           /\ r.turn = call[c].turn /\ r.outcome = "ran" /\ r.step \in {"answered", "booked", "done"}
           /\ g.pushed => (g.status \in {"reserved", "used"} /\ g.live) \/ g.lapsed \/ Closed(t)
      BY <1>1, <2>2, <3>2
    <3>5. /\ r.step \notin {"idle", "holding"} /\ (g.pushed => g.turn = r.turn)
          /\ r.step = "sent" /\ g.pushed => g.status = "reserved" /\ g.live
      BY <2>2, <3>2, <3>3
    <3> QED
      BY <2>1, <2>2, <3>1, <3>2, <3>4, <3>5, HoldFits
  <2>5. CASE h.status = "reserved" /\ ~(h.turn # NoTurn /\ call[c].outcome = "ran")
    <3> DEFINE g == [h EXCEPT !.status = "released"]
    <3>1. creditHold' = [creditHold EXCEPT ![c] = g]
      BY <2>1, <2>5 DEF settleHold, CreditInv, CreditTyped
    <3>2. g \in CreditHold /\ g.turn = h.turn /\ g.pushed = h.pushed
      BY DEF CreditInv, CreditTyped, CreditHold
    <3>3. h.pushed => h.turn = call[c].turn
      BY DEF CreditInv, Fits
    <3>4. \A t \in Turn : c \in turn[t].metered => ~h.pushed
      BY <1>1, <2>5, <3>3, CreditAssumption
    <3> HIDE DEF g
    <3>5. \A t \in Turn : c \in turn[t].metered =>
           /\ r.turn = call[c].turn /\ r.outcome = "ran" /\ r.step \in {"answered", "booked", "done"}
           /\ g.pushed => (g.status \in {"reserved", "used"} /\ g.live) \/ g.lapsed \/ Closed(t)
      BY <1>1, <2>2, <3>2, <3>4
    <3>6. /\ r.step \notin {"idle", "holding"} /\ (g.pushed => g.turn = r.turn)
          /\ r.step = "sent" /\ g.pushed => g.status = "reserved" /\ g.live
      BY <2>2, <3>2, <3>3
    <3> QED
      BY <2>1, <2>2, <3>1, <3>2, <3>5, <3>6, HoldFits
  <2> QED
    BY <2>3, <2>4, <2>5
<1> QED
  BY <1>2, <1>3, <1>4, <1>5, <1>6, <1>7

TurnSteps == {"open", "charging", "closing", "closed", "uncharged"}

\* A turn goes to another step with what it charges, and never back from being
\* charged.
TurnGoesOn(t, step, plan, m) ==
  /\ Closed(t) => step \in {"closing", "closed"}
  /\ turn[t].step # "open" => step # "open"
  /\ turn' = [turn EXCEPT ![t].step = step, ![t].plan = plan, ![t].month = m]

LEMMA TurnGoes ==
  ASSUME CreditTyped, NEW t \in Turn, NEW step \in TurnSteps,
         NEW plan \in Nat, NEW m \in Months \cup {0}, TurnGoesOn(t, step, plan, m)
  PROVE  /\ turn' \in [Turn -> TurnState]
         /\ turn'[t].step = step /\ turn'[t].plan = plan /\ turn'[t].month = m
         /\ \A v \in Turn : /\ turn'[v].metered = turn[v].metered
                            /\ turn'[v].tallied = turn[v].tallied
                            /\ Closed(v) => Closed(v)'
                            /\ turn'[v].step = "open" => turn[v].step = "open"
         /\ \A v \in Turn \ {t} : turn'[v] = turn[v]
<1> DEFINE w == [turn[t] EXCEPT !.step = step, !.plan = plan, !.month = m]
<1>1. turn' = [turn EXCEPT ![t] = w]
  BY DEF TurnGoesOn
<1>2. /\ w \in TurnState /\ w.step = step /\ w.plan = plan /\ w.month = m
      /\ w.metered = turn[t].metered /\ w.tallied = turn[t].tallied
  BY DEF CreditTyped, TurnState, TurnSteps
<1>3. /\ Closed(t) => step \in {"closing", "closed"}
      /\ turn[t].step # "open" => step # "open"
  BY DEF TurnGoesOn
<1> HIDE DEF w
<1>4. turn \in [Turn -> TurnState] /\ turn' \in [Turn -> TurnState] /\ turn'[t] = w
      /\ \A v \in Turn \ {t} : turn'[v] = turn[v]
  BY <1>1, <1>2 DEF CreditTyped
<1> QED
  BY <1>2, <1>3, <1>4 DEF Closed

\* A turn that goes to another step, and no more.
LEMMA TurnGoesPlain ==
  ASSUME CreditTyped, NEW t \in Turn, NEW step \in TurnSteps,
         Closed(t) => step \in {"closing", "closed"}, turn[t].step # "open" => step # "open",
         turn' = [turn EXCEPT ![t].step = step]
  PROVE  /\ TurnGoesOn(t, step, turn[t].plan, turn[t].month)
         /\ turn[t].plan \in Nat /\ turn[t].month \in Months \cup {0}
<1> DEFINE w == [turn[t] EXCEPT !.step = step]
           v == [turn[t] EXCEPT !.step = step, !.plan = turn[t].plan, !.month = turn[t].month]
<1>1. w = v
  BY DEF CreditTyped, TurnState
<1>2. turn' = [turn EXCEPT ![t] = w]
  OBVIOUS
<1>3. turn' = [turn EXCEPT ![t] = v]
  BY <1>1, <1>2
<1> QED
  BY <1>3 DEF TurnGoesOn, CreditTyped, TurnState

\* The turn's own steps, and what they write to it.
LEMMA TurnStepGoes ==
  ASSUME CreditTyped, NEW t \in Turn, Turns(t), month \in Months
  PROVE  \E step \in TurnSteps, plan \in Nat, m \in Months \cup {0} :
           /\ TurnGoesOn(t, step, plan, m)
           /\ plan # turn[t].plan => turn[t].step = "open" /\ step # "open"
           /\ m # turn[t].month => turn[t].step = "charging"
<1>1. turn[t].step \in TurnSteps /\ turn[t].plan \in Nat /\ turn[t].month \in Months \cup {0}
  BY DEF CreditTyped, TurnState, TurnSteps
<1>2. CASE CloseTurn(t)
  <2>1. PICK plan \in Nat, step \in {"charging", "closing"} :
          /\ turn' = [turn EXCEPT ![t].plan = plan, ![t].step = step]
          /\ turn[t].step = "open"
    BY <1>2, CallsAssumption DEF CloseTurn
  <2> DEFINE w == [turn[t] EXCEPT !.plan = plan, !.step = step]
             v == [turn[t] EXCEPT !.step = step, !.plan = plan, !.month = turn[t].month]
  <2>2. w = v
    BY DEF CreditTyped, TurnState
  <2>3. turn' = [turn EXCEPT ![t] = w]
    BY <2>1
  <2>4. turn' = [turn EXCEPT ![t] = v]
    BY <2>2, <2>3
  <2>5. TurnGoesOn(t, step, plan, turn[t].month)
    BY <2>1, <2>4 DEF TurnGoesOn, Closed
  <2>6. step \in TurnSteps /\ step # "open"
    BY DEF TurnSteps
  <2> QED
    BY <1>1, <2>1, <2>5, <2>6
<1>3. CASE ChargeTurn(t)
  <2> DEFINE w == [turn[t] EXCEPT !.step = "closing", !.month = month]
             v == [turn[t] EXCEPT !.step = "closing", !.plan = turn[t].plan, !.month = month]
  <2>1. turn[t].step = "charging" /\ turn' = [turn EXCEPT ![t] = w]
    BY <1>3 DEF ChargeTurn
  <2>2. w = v
    BY DEF CreditTyped, TurnState
  <2>3. turn' = [turn EXCEPT ![t] = v]
    BY <2>1, <2>2
  <2>4. TurnGoesOn(t, "closing", turn[t].plan, month) /\ "closing" \in TurnSteps
    BY <2>1, <2>3 DEF TurnGoesOn, Closed, TurnSteps
  <2>5. month \in Months \cup {0} /\ turn[t].plan \in Nat /\ turn[t].step = "charging"
    BY <1>1, <2>1
  <2> QED
    BY <2>4, <2>5
<1>4. CASE \/ ChargeFails(t) \/ CloseHolds(t) \/ CloseHoldsFails(t) \/ TurnDies(t)
  <2>1. PICK step \in TurnSteps :
          /\ turn' = [turn EXCEPT ![t].step = step]
          /\ Closed(t) => step \in {"closing", "closed"}
          /\ turn[t].step # "open" => step # "open"
    BY <1>1, <1>4 DEF ChargeFails, CloseHolds, CloseHoldsFails, TurnDies, Closed, TurnSteps
  <2> QED
    BY <1>1, <2>1, TurnGoesPlain
<1> QED
  BY <1>2, <1>3, <1>4 DEF Turns

LEMMA TurnFits ==
  ASSUME CreditInv, NEW t \in Turn, Turns(t), UNCHANGED <<call, creditHold>>
  PROVE  CreditTyped' /\ \A d \in Call : Fits(d)'
<1>1. /\ turn' \in [Turn -> TurnState]
      /\ \A v \in Turn : turn'[v].metered = turn[v].metered /\ (Closed(v) => Closed(v)')
  BY TurnStepGoes, TurnGoes DEF CreditInv, CallsTyped
<1>2. CreditTyped'
  BY <1>1 DEF CreditInv, CreditTyped
<1>3. ASSUME NEW d \in Call
      PROVE  Fits(d)'
  <2>1. Untouched(d)
    BY <1>1 DEF Untouched
  <2> QED
    BY <2>1, UntouchedFits DEF CreditInv
<1> QED
  BY <1>2, <1>3

\* The turn's holds stop counting when it is charged.
LEMMA CloseHoldsFits ==
  ASSUME CreditInv, NEW t \in Turn, CloseHolds(t)
  PROVE  CreditTyped' /\ \A d \in Call : Fits(d)'
<1> DEFINE status == IF ChargeOf(t) > 0 THEN "charged" ELSE "released"
           shut(c) == [creditHold[c] EXCEPT !.status = status]
           mine(c) == /\ creditHold[c].pushed /\ creditHold[c].turn = t
                      /\ creditHold[c].status = "used"
<1>1. /\ creditHold' = [c \in Call |-> IF mine(c) THEN shut(c) ELSE creditHold[c]]
      /\ turn[t].step = "closing" /\ turn' = [turn EXCEPT ![t].step = "closed"]
      /\ UNCHANGED call
  BY DEF CloseHolds, closeHolds
<1>2. status \in {"charged", "released"}
  OBVIOUS
<1> HIDE DEF status
<1>3. /\ turn' \in [Turn -> TurnState] /\ turn'[t].step = "closed"
      /\ \A v \in Turn : turn'[v].metered = turn[v].metered /\ (Closed(v) => Closed(v)')
  <2>1. "closed" \in TurnSteps
    BY DEF TurnSteps
  <2> QED
    BY <1>1, <2>1, TurnGoes, TurnGoesPlain DEF CreditInv
<1>4. \A c \in Call : /\ shut(c) \in CreditHold /\ shut(c).pushed = creditHold[c].pushed
                      /\ shut(c).turn = creditHold[c].turn
  BY <1>2 DEF CreditInv, CreditTyped, CreditHold
<1> HIDE DEF shut
<1>5. CreditTyped'
  BY <1>1, <1>3, <1>4 DEF CreditInv, CreditTyped
<1>6. ASSUME NEW d \in Call
      PROVE  Fits(d)'
  <2>1. CASE ~mine(d)
    <3>1. Untouched(d)
      BY <1>1, <1>3, <2>1 DEF Untouched
    <3> QED
      BY <3>1, UntouchedFits DEF CreditInv
  <2>2. CASE mine(d)
    <3>1. /\ Fits(d) /\ creditHold'[d] = shut(d) /\ call'[d] = call[d]
          /\ creditHold[d].turn = t /\ creditHold[d].status = "used" /\ creditHold[d].pushed
      BY <1>1, <2>2 DEF CreditInv
    <3>2. call[d].turn = t
      BY <3>1 DEF Fits
    <3>3. call[d].step \notin {"idle", "holding", "sent"}
      BY <3>1 DEF Fits, NoCreditHold
    <3>4. Closed(t)'
      BY <1>3 DEF Closed
    <3>5. \A v \in Turn : d \in turn'[v].metered => v = t /\ call[d].outcome = "ran"
                            /\ call[d].step \in {"answered", "booked", "done"}
      BY <1>3, <3>1, <3>2 DEF Fits
    <3> QED
      BY <1>4, <3>1, <3>2, <3>3, <3>4, <3>5 DEF Fits
  <2> QED
    BY <2>1, <2>2
<1> QED
  BY <1>5, <1>6

\* A process dies with its calls.
LEMMA DieFits ==
  ASSUME CreditInv, NEW calls, Die(calls), turn' \in [Turn -> TurnState],
         \A v \in Turn : turn'[v].metered = turn[v].metered /\ (Closed(v) => Closed(v)')
  PROVE  CreditTyped' /\ \A d \in Call : Fits(d)'
<1> DEFINE dead(c) == [call[c] EXCEPT !.step = "done",
                         !.outcome = IF call[c].step = "sent" THEN "unknown" ELSE @]
<1>1. /\ call' = [c \in Call |-> IF c \in calls THEN dead(c) ELSE call[c]]
      /\ UNCHANGED creditHold
  BY DEF Die, creditVars
<1>2. \A c \in Call : /\ dead(c).step = "done" /\ dead(c).turn = call[c].turn
                      /\ call[c].step # "sent" => dead(c).outcome = call[c].outcome
  BY DEF CreditInv, CallsTyped, Calling
<1> HIDE DEF dead
<1>3. CreditTyped'
  BY <1>1 DEF CreditInv, CreditTyped
<1>4. ASSUME NEW d \in Call
      PROVE  Fits(d)'
  <2>1. CASE d \notin calls
    <3>1. Untouched(d)
      BY <1>1, <2>1 DEF Untouched
    <3> QED
      BY <3>1, UntouchedFits DEF CreditInv
  <2>2. CASE d \in calls
    <3>1. call'[d] = dead(d) /\ creditHold'[d] = creditHold[d] /\ Fits(d)
      BY <1>1, <2>2 DEF CreditInv
    <3> QED
      BY <1>2, <3>1 DEF Fits, Counts
  <2> QED
    BY <2>1, <2>2
<1> QED
  BY <1>3, <1>4

\* A hold that expires says so.
LEMMA LapseFits ==
  ASSUME CreditInv, NEW c \in Call, CreditHoldLapses(c)
  PROVE  CreditTyped' /\ \A d \in Call : Fits(d)'
<1> DEFINE h == [creditHold[c] EXCEPT !.live = FALSE, !.lapsed = TRUE]
           r == call[c]
<1>1. /\ PastLastAttempt(c) /\ UNCHANGED <<call, turn>>
      /\ creditHold' = [creditHold EXCEPT ![c] = h]
  BY DEF CreditHoldLapses, lapse, CreditInv, CreditTyped
<1>2. /\ h \in CreditHold /\ h.turn = creditHold[c].turn /\ h.pushed = creditHold[c].pushed
      /\ h.lapsed
  BY DEF CreditInv, CreditTyped, CreditHold
<1>3. call' = [call EXCEPT ![c] = r]
  BY <1>1 DEF CreditInv, CallsTyped
<1>4. r.step \notin {"idle", "holding", "sent"}
  BY <1>1 DEF PastLastAttempt
<1>5. /\ creditHold[c].pushed => creditHold[c].turn = r.turn
      /\ \A t \in Turn : c \in turn[t].metered =>
           r.outcome = "ran" /\ r.step \in {"answered", "booked", "done"}
  BY DEF CreditInv, Fits
<1>7. ScopesStay(c)
  BY <1>1 DEF ScopesStay
<1> HIDE DEF h, r
<1>6. \A t \in Turn : c \in turn[t].metered =>
        /\ r.turn = call[c].turn /\ r.outcome = "ran" /\ r.step \in {"answered", "booked", "done"}
        /\ h.pushed => (h.status \in {"reserved", "used"} /\ h.live) \/ h.lapsed \/ Closed(t)
  BY <1>2, <1>5 DEF r
<1> QED
  BY <1>1, <1>2, <1>3, <1>4, <1>5, <1>6, <1>7, HoldFits

\* The steps of a turn.
LEMMA TurnStepFits ==
  ASSUME CreditInv, NEW t \in Turn, Turns(t)
  PROVE  CreditTyped' /\ \A d \in Call : Fits(d)'
<1>1. CASE CloseTurn(t) \/ ChargeTurn(t) \/ ChargeFails(t) \/ CloseHoldsFails(t)
  <2>1. UNCHANGED <<call, creditHold>>
    BY <1>1 DEF CloseTurn, ChargeTurn, ChargeFails, CloseHoldsFails, charge, creditVars
  <2> QED
    BY <2>1, TurnFits
<1>2. CASE CloseHolds(t)
  BY <1>2, CloseHoldsFits
<1>3. CASE TurnDies(t)
  <2>1. /\ turn' \in [Turn -> TurnState]
        /\ \A v \in Turn : turn'[v].metered = turn[v].metered /\ (Closed(v) => Closed(v)')
    BY TurnStepGoes, TurnGoes DEF CreditInv, CallsTyped
  <2>2. Die(InFlight(t))
    BY <1>3 DEF TurnDies
  <2> QED
    BY <2>1, <2>2, DieFits
<1> QED
  BY <1>1, <1>2, <1>3 DEF Turns



\* No scope forgets a call, and none opens again.
LEMMA ScopesGrow ==
  ASSUME CreditInv, [Next]_vars
  PROVE  \A t \in Turn : /\ turn[t].metered \subseteq turn'[t].metered
                         /\ turn'[t].step = "open" => turn[t].step = "open"
<1>0. CreditTyped /\ month \in Months
  BY DEF CreditInv, CallsTyped
<1>1. ASSUME NEW c \in Call, Answered(c)
      PROVE  \A t \in Turn : /\ turn[t].metered \subseteq turn'[t].metered
                             /\ turn'[t].step = turn[t].step
  BY <1>0, <1>1, MeteredGoes DEF Answered
<1>2. ASSUME NEW c \in Call, Calls(c), ~Answered(c)
      PROVE  ScopesStay(c)
  BY <1>2 DEF Calls, ReserveSpend, ReserveRefused, ReserveFails, HoldCredits, CreditsExhausted,
     HoldFails, HoldSkipped, GiveBack, NotRun, AnswerLost, SettleSpend, SettleSpendFails,
     SettleCredits, SettleCreditsFails, ScopesStay
<1>3. ASSUME NEW c \in Call, CallDies(c) \/ Expire(c) \/ CreditHoldLapses(c)
      PROVE  UNCHANGED turn
  BY <1>3 DEF CallDies, Expire, CreditHoldLapses
<1>4. NewMonth \/ UNCHANGED vars => UNCHANGED turn
  BY DEF NewMonth, vars
<1>5. ASSUME NEW c \in Call, Calls(c)
      PROVE  \A t \in Turn : /\ turn[t].metered \subseteq turn'[t].metered
                             /\ turn'[t].step = turn[t].step
  BY <1>0, <1>1, <1>2, <1>5, TallyTyped
<1>6. ASSUME NEW t \in Turn, Turns(t)
      PROVE  \A v \in Turn : /\ turn[v].metered \subseteq turn'[v].metered
                             /\ turn'[v].step = "open" => turn[v].step = "open"
  BY <1>0, <1>6, TurnStepGoes, TurnGoes
<1> QED
  BY <1>3, <1>4, <1>5, <1>6 DEF Next

\* A call's own step leaves its scope counting what it should.
LEMMA CallScoped ==
  ASSUME CreditInv, NEW c \in Call, Calls(c),
         \A t \in Turn : /\ turn[t].metered \subseteq turn'[t].metered
                         /\ turn'[t].step = "open" => turn[t].step = "open"
  PROVE  \A d \in Call : Scoped(d)'
<1> DEFINE r == call'[c]
           was == call[c]
<1>1. was \in Calling /\ Scoped(c)
  BY DEF CreditInv, CallsTyped
<1>2. \A d \in Call \ {c} : call'[d] = call[d]
  BY DEF CreditInv, CallsTyped, Calls, ReserveSpend, ReserveRefused, ReserveFails, HoldCredits,
     CreditsExhausted, HoldFails, HoldSkipped, GiveBack, Answered, NotRun, AnswerLost,
     SettleSpend, SettleSpendFails, SettleCredits, SettleCreditsFails, CallGoes, AfterLedger
<1>3. ASSUME NEW d \in Call \ {c}
      PROVE  Scoped(d)'
  BY <1>2 DEF CreditInv, Scoped
<1>4. ASSUME NEW payer \in Payers, NEW t \in Turn \cup {NoTurn},
             ReserveSpend(c, payer, t) \/ ReserveRefused(c, payer, t) \/ ReserveFails(c, payer, t)
      PROVE  Scoped(c)'
  <2>1. \/ r = [NoCall EXCEPT !.step = "done"]
        \/ \E step \in {"holding", "sent"} : r = Begun(payer, t, step)
    BY <1>4 DEF CreditInv, CallsTyped, ReserveSpend, ReserveRefused, ReserveFails
  <2>2. r.outcome = "none" /\ r.step # "booked"
    BY <2>1 DEF Begun, NoCall
  <2> QED
    BY <2>2 DEF Scoped
<1>5. ASSUME \/ HoldCredits(c) \/ CreditsExhausted(c) \/ HoldFails(c) \/ HoldSkipped(c) \/ GiveBack(c)
             \/ NotRun(c) \/ SettleSpend(c) \/ SettleSpendFails(c)
             \/ SettleCredits(c) \/ SettleCreditsFails(c)
      PROVE  Scoped(c)'
  <2>1. PICK step \in {"sent", "refused", "done", "answered", "booked"} :
          CallGoes(c, step) /\ (step = "booked" => was.payer = "customer")
    BY <1>5 DEF HoldCredits, CreditsExhausted, HoldFails, HoldSkipped, GiveBack, NotRun,
       SettleSpend, SettleSpendFails, SettleCredits, SettleCreditsFails, AfterLedger
  <2>2. /\ r.step = step /\ r.turn = was.turn /\ r.payer = was.payer /\ r.outcome = was.outcome
    BY <1>1, <2>1 DEF CallGoes, CreditInv, CallsTyped, Calling
  <2> QED
    BY <1>1, <2>1, <2>2 DEF Scoped
<1>6. ASSUME AnswerLost(c)
      PROVE  Scoped(c)'
  <2>1. r.step = "answered" /\ r.outcome = "unknown"
    BY <1>1, <1>6 DEF AnswerLost, CreditInv, CallsTyped, Calling
  <2> QED
    BY <2>1 DEF Scoped
<1>7. ASSUME Answered(c)
      PROVE  Scoped(c)'
  <2>1. r.step = "answered" /\ r.turn = was.turn /\ r.payer = was.payer
    BY <1>1, <1>7 DEF Answered, CreditInv, CallsTyped, Calling
  <2>2. was.payer = "customer" /\ was.turn \in Turn /\ turn[was.turn].step = "open"
          => c \in turn'[was.turn].metered
    BY <1>7, MeteredGoes DEF Answered, CreditInv
  <2> QED
    BY <2>1, <2>2 DEF Scoped
<1>8. Scoped(c)'
  BY <1>4, <1>5, <1>6, <1>7 DEF Calls
<1> QED
  BY <1>3, <1>8

\* Every step leaves each scope counting what it should.
LEMMA ScopedStep ==
  ASSUME CreditInv, [Next]_vars
  PROVE  \A d \in Call : Scoped(d)'
<1>1. \A t \in Turn : /\ turn[t].metered \subseteq turn'[t].metered
                      /\ turn'[t].step = "open" => turn[t].step = "open"
  BY ScopesGrow
<1>2. ASSUME UNCHANGED call
      PROVE  \A d \in Call : Scoped(d)'
  BY <1>1, <1>2 DEF CreditInv, Scoped
<1>3. ASSUME NEW calls, Die(calls)
      PROVE  \A d \in Call : Scoped(d)'
  <2> SUFFICES ASSUME NEW d \in Call
               PROVE  Scoped(d)'
    OBVIOUS
  <2> DEFINE dead == [call[d] EXCEPT !.step = "done",
                        !.outcome = IF call[d].step = "sent" THEN "unknown" ELSE @]
  <2>1. call'[d] = call[d] \/ call'[d] = dead
    BY <1>3 DEF Die
  <2>2. /\ dead.step = "done" /\ dead.turn = call[d].turn /\ dead.payer = call[d].payer
        /\ dead.outcome = call[d].outcome \/ dead.outcome = "unknown"
    BY DEF CreditInv, CallsTyped, Calling
  <2> HIDE DEF dead
  <2> QED
    BY <1>1, <2>1, <2>2 DEF CreditInv, Scoped
<1>4. ASSUME NEW c \in Call, CallDies(c) \/ Expire(c) \/ CreditHoldLapses(c)
      PROVE  \A d \in Call : Scoped(d)'
  BY <1>2, <1>3, <1>4 DEF CallDies, Expire, CreditHoldLapses
<1>5. ASSUME NEW t \in Turn, Turns(t)
      PROVE  \A d \in Call : Scoped(d)'
  BY <1>2, <1>3, <1>5 DEF Turns, CloseTurn, ChargeTurn, ChargeFails, CloseHolds, CloseHoldsFails,
     TurnDies
<1>6. ASSUME NewMonth \/ UNCHANGED vars
      PROVE  \A d \in Call : Scoped(d)'
  BY <1>2, <1>6 DEF NewMonth, vars
<1>7. ASSUME NEW c \in Call, Calls(c)
      PROVE  \A d \in Call : Scoped(d)'
  BY <1>1, <1>7, CallScoped
<1> QED
  BY <1>4, <1>5, <1>6, <1>7 DEF Next

\* Every step leaves a turn's tally within what its scope counts.
LEMMA TallyStep ==
  ASSUME CreditInv, [Next]_vars
  PROVE  \A t \in Turn : TallyFits(t)'
<1>0. CreditTyped /\ month \in Months /\ \A t \in Turn : TallyFits(t)
  BY DEF CreditInv, CallsTyped
<1>1. ASSUME UNCHANGED turn
      PROVE  \A t \in Turn : TallyFits(t)'
  BY <1>0, <1>1 DEF TallyFits
<1>2. ASSUME NEW c \in Call, Answered(c)
      PROVE  \A t \in Turn : TallyFits(t)'
  BY <1>0, <1>2, MeteredGoes DEF Answered, TallyFits
<1>3. ASSUME NEW c \in Call, SettleCredits(c) \/ SettleCreditsFails(c)
      PROVE  \A t \in Turn : TallyFits(t)'
  <2>1. ScopesStay(c) /\ call[c].step = "booked" /\ Scoped(c)
    BY <1>3 DEF SettleCredits, SettleCreditsFails, ScopesStay, CreditInv
  <2> SUFFICES ASSUME NEW t \in Turn
               PROVE  TallyFits(t)'
    OBVIOUS
  <2>2. /\ turn'[t].metered = turn[t].metered
        /\ turn'[t].step = turn[t].step /\ turn'[t].plan = turn[t].plan
        /\ turn'[t].tallied # turn[t].tallied =>
             /\ turn[t].step = "open" /\ call[c].outcome = "ran" /\ call[c].turn = t
             /\ turn'[t].tallied = turn[t].tallied \cup {c}
    BY <1>0, <2>1, TallyTyped
  <2> QED
    BY <1>0, <2>1, <2>2 DEF TallyFits, Scoped
<1>4. ASSUME NEW c \in Call, Calls(c), ~Answered(c), ~SettleCredits(c), ~SettleCreditsFails(c)
      PROVE  UNCHANGED turn
  BY <1>4 DEF Calls, ReserveSpend, ReserveRefused, ReserveFails, HoldCredits, CreditsExhausted,
     HoldFails, HoldSkipped, GiveBack, NotRun, AnswerLost, SettleSpend, SettleSpendFails
<1>5. ASSUME NEW c \in Call, CallDies(c) \/ Expire(c) \/ CreditHoldLapses(c)
      PROVE  UNCHANGED turn
  BY <1>5 DEF CallDies, Expire, CreditHoldLapses
<1>6. NewMonth \/ UNCHANGED vars => UNCHANGED turn
  BY DEF NewMonth, vars
<1>7. ASSUME NEW t \in Turn, Turns(t)
      PROVE  \A v \in Turn : TallyFits(v)'
  <2>1. PICK step \in TurnSteps, plan \in Nat, m \in Months \cup {0} :
           /\ TurnGoesOn(t, step, plan, m)
           /\ plan # turn[t].plan => turn[t].step = "open" /\ step # "open"
    BY <1>0, <1>7, TurnStepGoes
  <2>2. /\ turn'[t].step = step /\ turn'[t].plan = plan
        /\ \A v \in Turn : /\ turn'[v].metered = turn[v].metered
                           /\ turn'[v].tallied = turn[v].tallied
                           /\ turn'[v].step = "open" => turn[v].step = "open"
        /\ \A v \in Turn \ {t} : turn'[v] = turn[v]
    BY <1>0, <2>1, TurnGoes
  <2> QED
    BY <1>0, <2>1, <2>2 DEF TallyFits
<1>8. ASSUME NEW c \in Call, Calls(c)
      PROVE  \A t \in Turn : TallyFits(t)'
  BY <1>1, <1>2, <1>3, <1>4, <1>8
<1>9. ASSUME \/ NewMonth \/ UNCHANGED vars
             \/ \E c \in Call : CallDies(c) \/ Expire(c) \/ CreditHoldLapses(c)
      PROVE  \A t \in Turn : TallyFits(t)'
  BY <1>1, <1>5, <1>6, <1>9
<1> QED
  BY <1>7, <1>8, <1>9 DEF Next

\* Every step keeps calls, holds and scopes as they stand to each other.
LEMMA CreditStep ==
  ASSUME CreditInv, [Next]_vars
  PROVE  CreditInv'
<1>1. CallsTyped'
  BY CallsStayTyped DEF CreditInv
<1>2. ASSUME UNCHANGED <<creditVars, call, turn>>
      PROVE  CreditTyped' /\ \A d \in Call : Fits(d)'
  <2>1. \A d \in Call : Untouched(d)
    BY <1>2 DEF Untouched, creditVars, Closed
  <2>2. CreditTyped'
    BY <1>2 DEF CreditInv, CreditTyped, creditVars
  <2> QED
    BY <2>1, <2>2, UntouchedFits DEF CreditInv
<1>3. ASSUME NEW c \in Call, Calls(c)
      PROVE  CreditTyped' /\ \A d \in Call : Fits(d)'
  <2>1. \/ \E payer \in Payers, t \in Turn \cup {NoTurn} :
             ReserveSpend(c, payer, t) \/ ReserveRefused(c, payer, t) \/ ReserveFails(c, payer, t)
        \/ HoldCredits(c) \/ CreditsExhausted(c) \/ HoldFails(c) \/ HoldSkipped(c) \/ GiveBack(c)
        \/ Answered(c) \/ NotRun(c) \/ AnswerLost(c)
        \/ SettleSpend(c) \/ SettleSpendFails(c) \/ SettleCredits(c) \/ SettleCreditsFails(c)
    BY <1>3 DEF Calls
  <2> QED
    BY <2>1, BeforeSentFits, AfterSentFits
<1>4. ASSUME NEW c \in Call, CallDies(c) \/ Expire(c) \/ CreditHoldLapses(c)
      PROVE  CreditTyped' /\ \A d \in Call : Fits(d)'
  <2>1. CASE CallDies(c)
    <3>1. Die({c}) /\ turn' = turn
      BY <2>1 DEF CallDies
    <3> QED
      BY <3>1, DieFits DEF CreditInv, CreditTyped, Closed
  <2>2. CASE Expire(c)
    BY <2>2, <1>2 DEF Expire
  <2>3. CASE CreditHoldLapses(c)
    BY <2>3, LapseFits
  <2> QED
    BY <1>4, <2>1, <2>2, <2>3
<1>5. ASSUME NewMonth \/ UNCHANGED vars
      PROVE  CreditTyped' /\ \A d \in Call : Fits(d)'
  BY <1>5, <1>2 DEF NewMonth, vars
<1>6. CreditTyped' /\ \A d \in Call : Fits(d)'
  BY <1>3, <1>4, <1>5, TurnStepFits DEF Next
<1> QED
  BY <1>1, <1>6, ScopedStep, TallyStep DEF CreditInv

\* Nothing is held or counted at first.
LEMMA CreditStarts ==
  ASSUME Init
  PROVE  CreditInv
<1>1. CallsTyped
  BY LimitsInit DEF SpendInv
<1>2. CreditTyped
  <2>1. NoCreditHold \in CreditHold
    BY DEF NoCreditHold, CreditHold
  <2> QED
    BY <2>1 DEF Init, CreditInit, CreditTyped, TurnState, NewTurn
<1>3. ASSUME NEW c \in Call
      PROVE  Fits(c) /\ Scoped(c)
  BY DEF Fits, Scoped, Init, CreditInit, NoCall, NoCreditHold, NewTurn
<1>4. ASSUME NEW t \in Turn
      PROVE  TallyFits(t)
  BY DEF TallyFits, Init, NewTurn
<1> QED
  BY <1>1, <1>2, <1>3, <1>4 DEF CreditInv
=============================================================================
