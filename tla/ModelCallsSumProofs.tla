-------------------------- MODULE ModelCallsSumProofs --------------------------
(***************************************************************************)
(* Proofs about the sums of ModelCalls: the ledger's totals are what its   *)
(* reservations say, what the provider may bill is booked, an account goes *)
(* over its credits by one call, and is charged once for each answer.      *)
(***************************************************************************)
EXTENDS ModelCallsProofs, SumTheorems

-----------------------------------------------------------------------------
(* The calls that have started are finitely many. *)

\* Each step starts at most one call.
LEMMA OneStarts ==
  ASSUME CallsTyped, [Next]_vars
  PROVE  \E c : Started' \subseteq Started \cup {c}
<1>1. ASSUME NEW c \in Call, Calls(c)
      PROVE  \A d \in Call : d # c => call'[d] = call[d]
  BY <1>1 DEF Calls, ReserveSpend, ReserveRefused, ReserveFails, HoldCredits, CreditsExhausted,
     HoldFails, HoldSkipped, GiveBack, Answered, NotRun, AnswerLost, SettleSpend, SettleSpendFails,
     SettleCredits, SettleCreditsFails, CallGoes, AfterLedger, CallsTyped
<1>2. ASSUME NEW calls, Die(calls), \A c \in calls : call[c].step # "idle"
      PROVE  Started' \subseteq Started
  <2>1. \A d \in Call : d \in Started \/ call'[d] = call[d]
    BY <1>2 DEF Die, Started
  <2>. QED  BY <2>1 DEF Started
<1>3. ASSUME NEW t, TurnDies(t) \/ CallDies(t)
      PROVE  Started' \subseteq Started
  BY <1>2, <1>3 DEF TurnDies, CallDies, InFlight
<1>4. ASSUME UNCHANGED call
      PROVE  Started' \subseteq Started
  BY <1>4 DEF Started
<1>5. ASSUME NEW t \in Turn, Turns(t)
      PROVE  Started' \subseteq Started
  <2>1. UNCHANGED call \/ TurnDies(t)
    BY <1>5 DEF Turns, CloseTurn, ChargeTurn, ChargeFails, CloseHolds, CloseHoldsFails
  <2>. QED  BY <1>3, <1>4, <2>1
<1>6. ASSUME NEW c \in Call, Calls(c)
      PROVE  Started' \subseteq Started \cup {c}
  BY <1>1, <1>6 DEF Started
<1>. QED  BY <1>3, <1>4, <1>5, <1>6 DEF Next, vars, Expire, CreditHoldLapses, NewMonth

LEMMA StartedFinite ==
  ASSUME CallsTyped, IsFiniteSet(Started), [Next]_vars
  PROVE  IsFiniteSet(Started')
<1>1. PICK c : Started' \subseteq Started \cup {c}
  BY OneStarts
<1>2. IsFiniteSet(Started \cup {c})
  BY FS_AddElement
<1>. QED  BY <1>1, <1>2, FS_Subset

-----------------------------------------------------------------------------
(* The totals of a month. *)

In(h, m, s, status) == h.month = m /\ s \in h.scopes /\ h.status = status

Costs == [c \in Call |-> spendHold[c].cost]

\* What the sums become when c's reservation becomes h.
Shifts(c, h, m, s, status) ==
  /\ SumFunctionOnSet(Worst, Booking(m, s, {status})') =
       SumFunctionOnSet(Worst, Booking(m, s, {status}))
       - (IF In(spendHold[c], m, s, status) THEN Worst[c] ELSE 0)
       + (IF In(h, m, s, status) THEN Worst[c] ELSE 0)
  /\ SumFunctionOnSet(Costs', Booking(m, s, {status})') =
       SumFunctionOnSet(Costs, Booking(m, s, {status}))
       - (IF In(spendHold[c], m, s, status) THEN spendHold[c].cost ELSE 0)
       + (IF In(h, m, s, status) THEN h.cost ELSE 0)

\* What one reservation moves in the sums.
LEMMA TotalsMove ==
  ASSUME SpendTypeOK, BookInv, NEW c \in Call, NEW h \in SpendHold,
         spendHold' = [spendHold EXCEPT ![c] = h], NEW m \in Months, NEW s \in Scopes,
         NEW status \in {"reserved", "settled", "unknown"}
  PROVE  Shifts(c, h, m, s, status)
<1> DEFINE S == Booking(m, s, {status})
           T == Booking(m, s, {status})'
<1>1. /\ c \in S <=> In(spendHold[c], m, s, status)
      /\ c \in T <=> In(h, m, s, status)
      /\ S \ {c} = T \ {c}
  BY DEF Booking, In, SpendTypeOK
<1>2. S \subseteq Started
  BY DEF Booking, Started, BookInv, Agree, NoSpendHold
<1>3. IsFiniteSet(S) /\ IsFiniteSet(T)
  <2>1. IsFiniteSet(S)
    BY <1>2, FS_Subset DEF BookInv
  <2>2. T \in SUBSET (S \cup {c})
    BY <1>1
  <2> HIDE DEF S, T
  <2>. QED  BY <2>1, <2>2, FS_AddElement, FS_Subset
<1>4. S \subseteq Call /\ T \subseteq Call
  BY DEF Booking
<1>5. \A d \in Call : Worst[d] \in Int /\ Costs[d] \in Int /\ Costs'[d] \in Int
  <2>1. h.cost \in Int /\ \A d \in Call : spendHold[d].cost \in Int /\ Worst[d] \in Int
    <3> HIDE DEF S, T
    <3>1. \A d \in Call : spendHold[d] \in SpendHold
      BY DEF SpendTypeOK
    <3>2. \A g \in SpendHold : g.cost \in Int
      BY DEF SpendHold
    <3>. QED  BY <3>1, <3>2, SpendAssumption
  <2>2. \A d \in Call : Costs[d] = spendHold[d].cost
                        /\ Costs'[d] = IF d = c THEN h.cost ELSE spendHold[d].cost
    BY DEF Costs, SpendTypeOK
  <2>. QED  BY <2>1, <2>2
<1>6. /\ Costs[c] = spendHold[c].cost /\ Costs'[c] = h.cost
      /\ \A d \in Call \ {c} : Costs'[d] = Costs[d]
  BY DEF Costs, SpendTypeOK
<1> HIDE DEF S, T
<1>7. Sums(Worst, S) /\ Sums(Worst, T)
  BY <1>3, <1>4, <1>5 DEF Sums
<1>8. Sums(Costs, S) /\ Sums(Costs', T)
  BY <1>3, <1>4, <1>5 DEF Sums
<1>9. SumFunctionOnSet(Worst, T) = SumFunctionOnSet(Worst, S)
        - (IF c \in S THEN Worst[c] ELSE 0) + (IF c \in T THEN Worst[c] ELSE 0)
  <2>1. S \ {c} = T \ {c} /\ \A d \in S \ {c} : Worst[d] = Worst[d]
    BY <1>1
  <2>. QED  BY <1>7, <2>1, SumMoves, Zenon
<1>10. SumFunctionOnSet(Costs', T) = SumFunctionOnSet(Costs, S)
        - (IF c \in S THEN Costs[c] ELSE 0) + (IF c \in T THEN Costs'[c] ELSE 0)
  <2>1. S \ {c} = T \ {c} /\ \A d \in S \ {c} : Costs'[d] = Costs[d]
    BY <1>1, <1>4, <1>6
  <2>. QED  BY <1>8, <2>1, SumMoves, Zenon
<1>. QED  BY <1>1, <1>6, <1>9, <1>10 DEF S, T, Shifts

\* The totals of a month go with its reservations.
Balanced(m, s) ==
  LET p == period[<<m, s>>] IN
  /\ p.reserved = SumFunctionOnSet(Worst, Booking(m, s, {"reserved"}))
  /\ p.unknown = SumFunctionOnSet(Worst, Booking(m, s, {"unknown"}))
  /\ p.settled = SumFunctionOnSet(Costs, Booking(m, s, {"settled"}))

LEMMA BalancedAll == BooksBalance <=> \A m \in Months, s \in Scopes : Balanced(m, s)
BY Zenon DEF BooksBalance, Balanced, Costs

LEMMA BalancedAllNext == BooksBalance' <=> \A m \in Months, s \in Scopes : Balanced(m, s)'
BY Zenon DEF BooksBalance, Balanced, Costs

LEMMA WorstNat == \A d \in Call : Worst[d] \in Nat /\ Worst[d] \in Int
BY SpendAssumption

\* The sums of integers are integers.
LEMMA TotalsInt ==
  ASSUME SpendTypeOK, BookInv, NEW m \in Months, NEW s \in Scopes,
         NEW statuses \in SUBSET {"reserved", "settled", "released", "unknown"}
  PROVE  /\ IsFiniteSet(Booking(m, s, statuses))
         /\ SumFunctionOnSet(Worst, Booking(m, s, statuses)) \in Int
         /\ SumFunctionOnSet(Costs, Booking(m, s, statuses)) \in Int
<1> DEFINE S == Booking(m, s, statuses)
<1>1. S \subseteq Started /\ S \subseteq Call
  BY DEF Booking, Started, BookInv, Agree, NoSpendHold
<1>2. \A d \in Call : Worst[d] \in Int /\ Costs[d] \in Int
  <2>1. \A d \in Call : spendHold[d] \in SpendHold /\ Costs[d] = spendHold[d].cost
    BY DEF SpendTypeOK, Costs
  <2>2. \A g \in SpendHold : g.cost \in Int
    BY DEF SpendHold
  <2> HIDE DEF S
  <2>. QED  BY <2>1, <2>2, WorstNat
<1> HIDE DEF S
<1>3. IsFiniteSet(S)
  BY <1>1, FS_Subset DEF BookInv
<1>4. SumFunctionOnSet(Worst, S) \in Int /\ SumFunctionOnSet(Costs, S) \in Int
  BY <1>1, <1>2, <1>3, SumInt
<1>. QED  BY <1>3, <1>4 DEF S

LEMMA ReserveBalances ==
  ASSUME SpendTypeOK, BookInv, NEW c \in Call, spendHold[c] = NoSpendHold,
         NEW payer \in Payers, NEW n \in Months, reserve(c, payer, n)
  PROVE  BooksBalance'
<1> DEFINE h == [status |-> "reserved", month |-> n, scopes |-> scopesFor(payer), cost |-> 0]
<1>1. h \in SpendHold /\ spendHold' = [spendHold EXCEPT ![c] = h]
  BY DEF reserve, SpendHold, scopesFor, Scopes
<1>2. period' = [k \in Months \X Scopes |->
         IF k \in {n} \X scopesFor(payer) THEN [period[k] EXCEPT !.reserved = @ + Worst[c]]
         ELSE period[k]]
  BY DEF reserve
<1>3. /\ h.status = "reserved" /\ h.month = n /\ h.scopes = scopesFor(payer) /\ h.cost = 0
      /\ spendHold[c].status = "none"
  BY DEF NoSpendHold
<1> HIDE DEF h
<1>4. ASSUME NEW m \in Months, NEW s \in Scopes
      PROVE  Balanced(m, s)'
  <2> DEFINE k == <<m, s>>
             added == IF m = n /\ s \in scopesFor(payer) THEN Worst[c] ELSE 0
  <2>1. /\ SumFunctionOnSet(Worst, Booking(m, s, {"reserved"})') =
             SumFunctionOnSet(Worst, Booking(m, s, {"reserved"})) - 0 + added
        /\ SumFunctionOnSet(Worst, Booking(m, s, {"unknown"})') =
             SumFunctionOnSet(Worst, Booking(m, s, {"unknown"})) - 0 + 0
        /\ SumFunctionOnSet(Costs', Booking(m, s, {"settled"})') =
             SumFunctionOnSet(Costs, Booking(m, s, {"settled"})) - 0 + 0
    <3>1. \A status : /\ ~In(spendHold[c], m, s, status) \/ status = "none"
                      /\ In(h, m, s, status) <=>
                           m = n /\ s \in scopesFor(payer) /\ status = "reserved"
      BY <1>3 DEF In
    <3>2. \A status \in {"reserved", "settled", "unknown"} : Shifts(c, h, m, s, status)
      BY <1>1, TotalsMove, Zenon
    <3>. QED  BY <3>1, <3>2 DEF Shifts
  <2>2. added \in Int
    BY SpendAssumption
  <2>3. /\ period'[k].reserved = period[k].reserved + added
        /\ period'[k].unknown = period[k].unknown
        /\ period'[k].settled = period[k].settled
    <3>1. k \in Months \X Scopes
      OBVIOUS
    <3>2. period[k] \in Period
      BY <3>1 DEF SpendTypeOK
    <3>3. k \in {n} \X scopesFor(payer) <=> m = n /\ s \in scopesFor(payer)
      OBVIOUS
    <3> HIDE DEF k
    <3>. QED  BY <1>2, <3>1, <3>2, <3>3 DEF Period
  <2> HIDE DEF added
  <2>4. Balanced(m, s)
    BY BalancedAll DEF BookInv
  <2>5. /\ SumFunctionOnSet(Worst, Booking(m, s, {"reserved"})) \in Int
        /\ SumFunctionOnSet(Worst, Booking(m, s, {"unknown"})) \in Int
        /\ SumFunctionOnSet(Costs, Booking(m, s, {"settled"})) \in Int
    BY TotalsInt
  <2>. QED  BY <2>1, <2>2, <2>3, <2>4, <2>5 DEF Balanced
<1>. QED  BY <1>4, BalancedAllNext

LEMMA SettleBalances ==
  ASSUME SpendTypeOK, BookInv, NEW c \in Call,
         NEW outcome \in {"settled", "released", "unknown"}, NEW cost \in Nat,
         settle(c, outcome, cost)
  PROVE  BooksBalance'
<1>1. CASE spendHold[c].status # "reserved"
  <2>1. UNCHANGED <<period, spendHold>>
    BY <1>1 DEF settle, spendVars
  <2>2. \A m, s, statuses : Booking(m, s, statuses)' = Booking(m, s, statuses)
    BY <2>1 DEF Booking
  <2>3. Costs' = Costs
    BY <2>1 DEF Costs
  <2>4. \A m \in Months, s \in Scopes : Balanced(m, s)'
    BY <2>1, <2>2, <2>3, BalancedAll DEF BookInv, Balanced
  <2>. QED  BY <2>4, BalancedAllNext
<1>2. CASE spendHold[c].status = "reserved"
  <2> DEFINE g == spendHold[c]
             paid == IF outcome = "settled" THEN cost ELSE 0
             h == [g EXCEPT !.status = outcome, !.cost = paid]
  <2>1. /\ period' = [k \in Months \X Scopes |->
             IF k \in {g.month} \X g.scopes THEN Moved(period[k], c, outcome, cost) ELSE period[k]]
        /\ spendHold' = [spendHold EXCEPT ![c] = h]
    BY <1>2 DEF settle, SpendTypeOK
  <2>2. paid \in Int /\ g \in SpendHold
    BY DEF SpendTypeOK
  <2>3. /\ h \in SpendHold /\ h.status = outcome /\ h.cost = paid
        /\ h.month = g.month /\ h.scopes = g.scopes
    BY <2>2 DEF SpendHold
  <2>4. outcome = "settled" => paid = cost
    OBVIOUS
  <2> HIDE DEF h, paid
  <2>5. ASSUME NEW m \in Months, NEW s \in Scopes
        PROVE  Balanced(m, s)'
    <3> DEFINE k == <<m, s>>
               mine == m = g.month /\ s \in g.scopes
               freed == IF mine THEN Worst[c] ELSE 0
               lost == IF mine /\ outcome = "unknown" THEN Worst[c] ELSE 0
               spent == IF mine /\ outcome = "settled" THEN cost ELSE 0
    <3>1. /\ SumFunctionOnSet(Worst, Booking(m, s, {"reserved"})') =
               SumFunctionOnSet(Worst, Booking(m, s, {"reserved"})) - freed + 0
          /\ SumFunctionOnSet(Worst, Booking(m, s, {"unknown"})') =
               SumFunctionOnSet(Worst, Booking(m, s, {"unknown"})) - 0 + lost
          /\ SumFunctionOnSet(Costs', Booking(m, s, {"settled"})') =
               SumFunctionOnSet(Costs, Booking(m, s, {"settled"})) - 0 + spent
      <4>1. \A status : /\ In(g, m, s, status) <=> mine /\ status = "reserved"
                        /\ In(h, m, s, status) <=> mine /\ status = outcome
        BY <1>2, <2>3 DEF In
      <4>2. \A status \in {"reserved", "settled", "unknown"} : Shifts(c, h, m, s, status)
        BY <2>1, <2>3, TotalsMove, Zenon
      <4> HIDE DEF mine, g
      <4>. QED  BY <2>3, <2>4, <4>1, <4>2 DEF Shifts, g
    <3>2. freed \in Int /\ lost \in Int /\ spent \in Int
      BY SpendAssumption
    <3>3. /\ period'[k].reserved = period[k].reserved - freed
          /\ period'[k].unknown = period[k].unknown + lost
          /\ period'[k].settled = period[k].settled + spent
      <4>1. k \in Months \X Scopes
        OBVIOUS
      <4>2. period[k] \in Period
        BY <4>1 DEF SpendTypeOK
      <4>3. k \in {g.month} \X g.scopes <=> mine
        OBVIOUS
      <4>4. period'[k] = IF mine THEN Moved(period[k], c, outcome, cost) ELSE period[k]
        BY <2>1, <4>1, <4>3
      <4> HIDE DEF k, mine
      <4>5. CASE mine
        <5>1. period'[k] = Moved(period[k], c, outcome, cost)
          BY <4>4, <4>5
        <5>2. /\ period'[k].reserved = period[k].reserved - Worst[c]
              /\ period'[k].settled = IF outcome = "settled" THEN period[k].settled + cost ELSE period[k].settled
              /\ period'[k].unknown = IF outcome = "unknown" THEN period[k].unknown + Worst[c] ELSE period[k].unknown
          BY <4>2, <5>1, MovedFields
        <5>. QED  BY <4>2, <4>5, <5>2 DEF Period
      <4>6. CASE ~mine
        BY <4>2, <4>4, <4>6 DEF Period
      <4>. QED  BY <4>5, <4>6
    <3> HIDE DEF freed, lost, spent, k
    <3>4. Balanced(m, s)
      BY BalancedAll DEF BookInv
    <3>5. /\ SumFunctionOnSet(Worst, Booking(m, s, {"reserved"})) \in Int
          /\ SumFunctionOnSet(Worst, Booking(m, s, {"unknown"})) \in Int
          /\ SumFunctionOnSet(Costs, Booking(m, s, {"settled"})) \in Int
      BY TotalsInt
    <3>. QED  BY <3>1, <3>2, <3>3, <3>4, <3>5 DEF Balanced, k
  <2>. QED  BY <2>5, BalancedAllNext
<1>. QED  BY <1>1, <1>2

-----------------------------------------------------------------------------
(* The steps of the calls. *)

LEMMA SameTotals ==
  ASSUME SpendTypeOK, BookInv, UNCHANGED spendVars
  PROVE  BooksBalance'
<1>1. UNCHANGED <<period, spendHold>>
  BY DEF spendVars
<1>2. \A m, s, statuses : Booking(m, s, statuses)' = Booking(m, s, statuses)
  BY <1>1 DEF Booking
<1>3. Costs' = Costs
  BY <1>1 DEF Costs
<1>4. \A m \in Months, s \in Scopes : Balanced(m, s)'
  BY <1>1, <1>2, <1>3, BalancedAll DEF BookInv, Balanced
<1>. QED  BY <1>4, BalancedAllNext

\* A reservation is opened for a call that begins.
LEMMA ReserveAgrees ==
  ASSUME SpendInv, BookInv, NEW c \in Call, NEW r \in Calling, call[c].step = "idle",
         NEW payer \in Payers, reserve(c, payer, month), call' = [call EXCEPT ![c] = r],
         r.step # "idle", r.outcome = "none"
  PROVE  BooksBalance' /\ \A d \in Call : Agree(d)'
<1> DEFINE h == [status |-> "reserved", month |-> month, scopes |-> scopesFor(payer), cost |-> 0]
<1>1. spendHold[c] = NoSpendHold /\ month \in Months
  BY DEF BookInv, Agree, SpendInv, CallsTyped
<1>2. BooksBalance'
  BY <1>1, ReserveBalances DEF SpendInv
<1>3. spendHold' = [spendHold EXCEPT ![c] = h] /\ h.status = "reserved"
  BY DEF reserve
<1> HIDE DEF h
<1>4. ASSUME NEW d \in Call
      PROVE  Agree(d)'
  <2>1. CASE d = c
    <3>1. call'[d] = r /\ spendHold'[d] = h
      BY <1>3, <2>1 DEF SpendInv, SpendTypeOK, CallsTyped
    <3>. QED  BY <1>3, <3>1 DEF Agree
  <2>2. CASE d # c
    <3>1. call'[d] = call[d] /\ spendHold'[d] = spendHold[d]
      BY <1>3, <2>2 DEF SpendInv, SpendTypeOK, CallsTyped
    <3>. QED  BY <3>1 DEF Agree, BookInv
  <2>. QED  BY <2>1, <2>2
<1>. QED  BY <1>2, <1>4

\* Only what a call knows changes.
LEMMA CallAgrees ==
  ASSUME SpendInv, BookInv, NEW c \in Call, NEW r \in Calling, UNCHANGED spendVars,
         call' = [call EXCEPT ![c] = r],
         r.step = "idle" => spendHold[c] = NoSpendHold,
         r.step \in {"idle", "holding", "refused", "sent"} =>
           r.outcome = "none" /\ spendHold[c].status \in {"none", "reserved"},
         \/ spendHold[c].status \in {"none", "reserved", "unknown"}
         \/ r.outcome = call[c].outcome /\ r.usage = call[c].usage
  PROVE  BooksBalance' /\ \A d \in Call : Agree(d)'
<1>1. BooksBalance'
  BY SameTotals DEF SpendInv
<1>2. ASSUME NEW d \in Call
      PROVE  Agree(d)'
  <2>1. CASE d = c
    <3>1. call'[d] = r /\ spendHold'[d] = spendHold[c] /\ Agree(c)
      BY <2>1 DEF SpendInv, SpendTypeOK, CallsTyped, spendVars, BookInv
    <3>. QED  BY <3>1 DEF Agree
  <2>2. CASE d # c
    <3>1. call'[d] = call[d] /\ spendHold'[d] = spendHold[d]
      BY <2>2 DEF SpendInv, SpendTypeOK, CallsTyped, spendVars
    <3>. QED  BY <3>1 DEF Agree, BookInv
  <2>. QED  BY <2>1, <2>2
<1>. QED  BY <1>1, <1>2

\* A call goes on, and knows no more than it did.
LEMMA CallGoesAgrees ==
  ASSUME SpendInv, BookInv, NEW c \in Call, UNCHANGED spendVars,
         NEW step \in {"holding", "refused", "sent", "answered", "booked", "done"},
         CallGoes(c, step), call[c].step # "idle",
         step \in {"holding", "refused", "sent"} =>
           call[c].step \in {"holding", "refused", "sent"}
  PROVE  BooksBalance' /\ \A d \in Call : Agree(d)'
<1> DEFINE r == [call[c] EXCEPT !.step = step]
<1>1. call' = [call EXCEPT ![c] = r]
  BY DEF CallGoes, SpendInv, CallsTyped
<1>2. /\ r \in Calling /\ r.step = step
      /\ r.outcome = call[c].outcome /\ r.usage = call[c].usage
  BY DEF SpendInv, CallsTyped, Calling
<1>3. Agree(c)
  BY DEF BookInv
<1> HIDE DEF r
<1>4. r.step \in {"idle", "holding", "refused", "sent"} =>
        r.outcome = "none" /\ spendHold[c].status \in {"none", "reserved"}
  BY <1>2, <1>3 DEF Agree
<1>. QED  BY <1>1, <1>2, <1>4, CallAgrees

\* A reservation settles by what the call knows, or is taken for abandoned.
LEMMA SettleAgrees ==
  ASSUME SpendInv, BookInv, NEW c \in Call, NEW r \in Calling,
         call' = [call EXCEPT ![c] = r],
         r.outcome = call[c].outcome, r.usage = call[c].usage,
         r.step \notin {"idle", "holding", "refused", "sent"},
         NEW outcome \in {"settled", "released", "unknown"}, NEW cost \in Nat,
         settle(c, outcome, cost),
         outcome = "settled" => r.outcome = "ran" /\ cost = r.usage,
         outcome = "released" => r.outcome = "none"
  PROVE  BooksBalance' /\ \A d \in Call : Agree(d)'
<1>1. BooksBalance'
  BY SettleBalances DEF SpendInv
<1>2. CASE spendHold[c].status # "reserved"
  <2>1. UNCHANGED spendVars
    BY <1>2 DEF settle
  <2>2. \A d \in Call : Agree(d)'
    BY <2>1, CallAgrees
  <2>. QED  BY <1>1, <2>2
<1>3. CASE spendHold[c].status = "reserved"
  <2> DEFINE paid == IF outcome = "settled" THEN cost ELSE 0
             h == [spendHold[c] EXCEPT !.status = outcome, !.cost = paid]
  <2>1. spendHold' = [spendHold EXCEPT ![c] = h]
    BY <1>3 DEF settle, SpendInv, SpendTypeOK
  <2>2. h.status = outcome /\ h.cost = paid
    BY DEF SpendInv, SpendTypeOK, SpendHold
  <2>3. outcome = "settled" => paid = cost
    OBVIOUS
  <2> HIDE DEF h, paid
  <2>4. ASSUME NEW d \in Call
        PROVE  Agree(d)'
    <3>1. CASE d = c
      <4>1. call'[d] = r /\ spendHold'[d] = h
        BY <2>1, <3>1 DEF SpendInv, SpendTypeOK, CallsTyped
      <4>. QED  BY <2>2, <2>3, <4>1 DEF Agree
    <3>2. CASE d # c
      <4>1. call'[d] = call[d] /\ spendHold'[d] = spendHold[d]
        BY <2>1, <3>2 DEF SpendInv, SpendTypeOK, CallsTyped
      <4>. QED  BY <4>1 DEF Agree, BookInv
    <3>. QED  BY <3>1, <3>2
  <2>. QED  BY <1>1, <2>4
<1>. QED  BY <1>2, <1>3

\* Every step keeps the ledger's books, and the calls in step with them.
LEMMA BookStep ==
  ASSUME SpendInv, BookInv, [Next]_vars
  PROVE  BookInv'
<1> USE DEF NoFault, Fault
<1>1. ASSUME UNCHANGED <<spendVars, call>>
      PROVE  BooksBalance' /\ \A d \in Call : Agree(d)'
  <2>1. BooksBalance'
    BY <1>1, SameTotals DEF SpendInv
  <2>. QED  BY <1>1, <2>1 DEF BookInv, Agree, spendVars
<1>2. ASSUME NEW c \in Call, NEW payer \in Payers, NEW t \in Turn \cup {NoTurn},
             ReserveSpend(c, payer, t) \/ ReserveRefused(c, payer, t) \/ ReserveFails(c, payer, t)
      PROVE  BooksBalance' /\ \A d \in Call : Agree(d)'
  <2> DEFINE step == IF payer = "customer" THEN "holding" ELSE "sent"
  <2>1. PICK r \in {Begun(payer, t, step), [NoCall EXCEPT !.step = "done"]} :
          call' = [call EXCEPT ![c] = r]
    BY <1>2 DEF ReserveSpend, ReserveRefused, ReserveFails
  <2>2. r \in Calling /\ r.step # "idle" /\ r.outcome = "none" /\ r.usage = 0
    <3>1. /\ Begun(payer, t, step) \in Calling /\ Begun(payer, t, step).step = step
          /\ Begun(payer, t, step).outcome = "none" /\ Begun(payer, t, step).usage = 0
      BY DEF Begun, NoCall, Calling, Payers
    <3>2. /\ [NoCall EXCEPT !.step = "done"] \in Calling /\ [NoCall EXCEPT !.step = "done"].step = "done"
          /\ [NoCall EXCEPT !.step = "done"].outcome = "none" /\ [NoCall EXCEPT !.step = "done"].usage = 0
      BY DEF NoCall, Calling, Payers
    <3>. QED  BY <3>1, <3>2
  <2>3. call[c].step = "idle" /\ (reserve(c, payer, month) \/ UNCHANGED spendVars)
    BY <1>2 DEF ReserveSpend, ReserveRefused, ReserveFails, MayCall, limitReached
  <2>4. spendHold[c] = NoSpendHold /\ spendHold[c].status = "none"
    BY <2>3 DEF BookInv, Agree, NoSpendHold
  <2>5. CASE reserve(c, payer, month)
    BY <2>1, <2>2, <2>3, <2>5, ReserveAgrees
  <2>6. CASE UNCHANGED spendVars
    BY <2>1, <2>2, <2>4, <2>6, CallAgrees
  <2>. QED  BY <2>3, <2>5, <2>6
<1>3. ASSUME NEW c \in Call, HoldCredits(c) \/ CreditsExhausted(c) \/ HoldFails(c) \/ HoldSkipped(c)
      PROVE  BooksBalance' /\ \A d \in Call : Agree(d)'
  <2>1. /\ UNCHANGED spendVars /\ call[c].step = "holding"
        /\ CallGoes(c, "sent") \/ CallGoes(c, "refused")
    BY <1>3 DEF HoldCredits, CreditsExhausted, HoldFails, HoldSkipped
  <2>. QED  BY <2>1, CallGoesAgrees
<1>4. ASSUME NEW c \in Call, NotRun(c) \/ SettleSpendFails(c) \/ SettleCredits(c) \/ SettleCreditsFails(c)
      PROVE  BooksBalance' /\ \A d \in Call : Agree(d)'
  <2>1. PICK step \in {"answered", "booked", "done"} : CallGoes(c, step)
    BY <1>4 DEF NotRun, SettleSpendFails, SettleCredits, SettleCreditsFails, AfterLedger
  <2>2. UNCHANGED spendVars /\ call[c].step # "idle"
    BY <1>4 DEF NotRun, SettleSpendFails, SettleCredits, SettleCreditsFails
  <2>. QED  BY <2>1, <2>2, CallGoesAgrees
<1>5. ASSUME NEW c \in Call, Answered(c) \/ AnswerLost(c)
      PROVE  BooksBalance' /\ \A d \in Call : Agree(d)'
  <2>1. UNCHANGED spendVars /\ call[c].step = "sent"
    BY <1>5 DEF Answered, AnswerLost
  <2>2. PICK outcome \in {"ran", "unknown"}, u \in Nat :
          call' = [call EXCEPT ![c] = [call[c] EXCEPT !.step = "answered", !.outcome = outcome, !.usage = u]]
    <3>1. CASE Answered(c)
      <4>1. PICK u \in 1 .. Worst[c] :
              call' = [call EXCEPT ![c].step = "answered", ![c].outcome = "ran", ![c].usage = u]
        BY <3>1 DEF Answered
      <4>2. u \in Nat
        BY SpendAssumption
      <4>. QED  BY <4>1, <4>2 DEF SpendInv, CallsTyped
    <3>2. CASE AnswerLost(c)
      <4>1. call[c] \in Calling
        BY DEF SpendInv, CallsTyped
      <4>2. [call[c] EXCEPT !.step = "answered", !.outcome = "unknown", !.usage = call[c].usage] =
            [call[c] EXCEPT !.step = "answered", !.outcome = "unknown"]
        BY <4>1 DEF Calling
      <4>3. call' = [call EXCEPT ![c] = [call[c] EXCEPT !.step = "answered", !.outcome = "unknown"]]
        BY <3>2 DEF AnswerLost, SpendInv, CallsTyped
      <4>4. call[c].usage \in Nat
        BY <4>1 DEF Calling
      <4>. QED  BY <4>2, <4>3, <4>4
    <3>. QED  BY <1>5, <3>1, <3>2
  <2> DEFINE r == [call[c] EXCEPT !.step = "answered", !.outcome = outcome, !.usage = u]
  <2>3. r \in Calling /\ r.step = "answered"
    BY DEF SpendInv, CallsTyped, Calling
  <2>4. spendHold[c].status \in {"none", "reserved"}
    BY <2>1 DEF BookInv, Agree
  <2>5. call' = [call EXCEPT ![c] = r]
    BY <2>2
  <2> HIDE DEF r
  <2>. QED  BY <2>1, <2>3, <2>4, <2>5, CallAgrees
<1>6. ASSUME NEW c \in Call, GiveBack(c) \/ SettleSpend(c)
      PROVE  BooksBalance' /\ \A d \in Call : Agree(d)'
  <2>1. PICK step \in {"booked", "done"} : CallGoes(c, step)
    BY <1>6 DEF GiveBack, SettleSpend, AfterLedger
  <2> DEFINE r == [call[c] EXCEPT !.step = step]
  <2>2. call' = [call EXCEPT ![c] = r]
    BY <2>1 DEF CallGoes, SpendInv, CallsTyped
  <2>3. /\ r \in Calling /\ r.step \in {"booked", "done"}
        /\ r.outcome = call[c].outcome /\ r.usage = call[c].usage
        /\ call[c].usage \in Nat /\ call[c].outcome \in {"none", "ran", "unknown"}
    BY DEF SpendInv, CallsTyped, Calling
  <2>4. call[c].step # "idle"
    BY <1>6 DEF GiveBack, SettleSpend
  <2> HIDE DEF r
  <2>5. CASE UNCHANGED spendVars
    BY <2>1, <2>4, <2>5, CallGoesAgrees
  <2>6. CASE GiveBack(c) /\ settle(c, "released", 0)
    <3>1. call[c].outcome = "none"
      BY <2>6 DEF GiveBack, BookInv, Agree
    <3>. QED  BY <2>2, <2>3, <2>6, <3>1, SettleAgrees
  <2>7. CASE SettleSpend(c)
    <3>1. settle(c, Settlement(call[c].outcome), call[c].usage)
      BY <2>7 DEF SettleSpend
    <3>2. /\ Settlement(call[c].outcome) \in {"settled", "released", "unknown"}
          /\ Settlement(call[c].outcome) = "settled" => call[c].outcome = "ran"
          /\ Settlement(call[c].outcome) = "released" => call[c].outcome = "none"
      BY <2>3 DEF Settlement
    <3>. QED  BY <2>2, <2>3, <3>1, <3>2, SettleAgrees
  <2>. QED  BY <1>6, <2>5, <2>6, <2>7 DEF GiveBack
<1>7. ASSUME NEW c \in Call, Expire(c)
      PROVE  BooksBalance' /\ \A d \in Call : Agree(d)'
  <2>1. /\ settle(c, "unknown", 0) /\ UNCHANGED call
        /\ call[c].step \notin {"idle", "holding", "refused", "sent"}
    BY <1>7 DEF Expire, expire, PastLastAttempt
  <2>2. call' = [call EXCEPT ![c] = call[c]] /\ call[c] \in Calling
    BY <2>1 DEF SpendInv, CallsTyped
  <2>. QED  BY <2>1, <2>2, SettleAgrees
<1>8. ASSUME NEW calls, Die(calls), \A c \in calls : call[c].step # "idle"
      PROVE  BooksBalance' /\ \A d \in Call : Agree(d)'
  <2> DEFINE dead(c) == [call[c] EXCEPT !.step = "done",
                           !.outcome = IF call[c].step = "sent" THEN "unknown" ELSE @]
  <2>1. /\ call' = [c \in Call |-> IF c \in calls THEN dead(c) ELSE call[c]]
        /\ UNCHANGED spendVars
    BY <1>8 DEF Die
  <2>2. \A c \in Call : /\ dead(c).step = "done" /\ dead(c).usage = call[c].usage
                        /\ dead(c).outcome = IF call[c].step = "sent" THEN "unknown" ELSE call[c].outcome
    BY DEF SpendInv, CallsTyped, Calling
  <2> HIDE DEF dead
  <2>3. BooksBalance'
    BY <2>1, SameTotals DEF SpendInv
  <2>4. ASSUME NEW d \in Call
        PROVE  Agree(d)'
    <3>1. call'[d] = (IF d \in calls THEN dead(d) ELSE call[d]) /\ spendHold'[d] = spendHold[d]
      BY <2>1 DEF spendVars
    <3>2. Agree(d)
      BY DEF BookInv
    <3>. QED  BY <2>2, <3>1, <3>2 DEF Agree
  <2>. QED  BY <2>3, <2>4
<1>9. ASSUME NEW t, TurnDies(t) \/ CallDies(t)
      PROVE  BooksBalance' /\ \A d \in Call : Agree(d)'
  BY <1>8, <1>9 DEF TurnDies, CallDies, InFlight
<1>10. ASSUME NEW t \in Turn, Turns(t)
       PROVE  BooksBalance' /\ \A d \in Call : Agree(d)'
  <2>1. UNCHANGED <<spendVars, call>> \/ TurnDies(t)
    BY <1>10 DEF Turns, CloseTurn, ChargeTurn, ChargeFails, CloseHolds, CloseHoldsFails
  <2>. QED  BY <1>1, <1>9, <2>1
<1>11. ASSUME NEW c \in Call, Calls(c)
       PROVE  BooksBalance' /\ \A d \in Call : Agree(d)'
  BY <1>2, <1>3, <1>4, <1>5, <1>6, <1>11 DEF Calls
<1>12. ASSUME UNCHANGED vars \/ NewMonth \/ \E c \in Call : CreditHoldLapses(c)
       PROVE  BooksBalance' /\ \A d \in Call : Agree(d)'
  BY <1>1, <1>12 DEF vars, NewMonth, CreditHoldLapses
<1>13. BooksBalance' /\ \A d \in Call : Agree(d)'
  BY <1>7, <1>9, <1>10, <1>11, <1>12 DEF Next
<1>14. IsFiniteSet(Started)'
  BY StartedFinite DEF SpendInv, BookInv
<1>. QED  BY <1>13, <1>14 DEF BookInv

LEMMA BookStarts ==
  ASSUME Init
  PROVE  BookInv
<1>1. \A c \in Call : call[c] = NoCall /\ spendHold[c] = NoSpendHold
  BY DEF Init, SpendInit
<1>2. \A c \in Call : Agree(c)
  <2>1. NoCall.step = "idle" /\ NoCall.outcome = "none" /\ NoSpendHold.status = "none"
    BY DEF NoCall, NoSpendHold
  <2>. QED  BY <1>1, <2>1 DEF Agree
<1>3. Started = {}
  BY <1>1 DEF Started, NoCall
<1>4. IsFiniteSet(Started)
  BY <1>3, FS_EmptySet
<1>5. ASSUME NEW m \in Months, NEW s \in Scopes
      PROVE  Balanced(m, s)
  <2>1. \A statuses \in {{"reserved"}, {"unknown"}, {"settled"}} : Booking(m, s, statuses) = {}
    BY <1>1 DEF Booking, NoSpendHold
  <2> DEFINE k == <<m, s>>
  <2>2. k \in Months \X Scopes
    OBVIOUS
  <2> HIDE DEF k
  <2>3. period[k] = [reserved |-> 0, settled |-> 0, unknown |-> 0]
    BY <2>2 DEF Init, SpendInit
  <2>4. period[k].reserved = 0 /\ period[k].settled = 0 /\ period[k].unknown = 0
    BY <2>3
  <2>. QED  BY <2>1, <2>4, SumEmpty DEF Balanced, k
<1>. QED  BY <1>2, <1>4, <1>5, BalancedAll DEF BookInv

LEMMA LedgerKept == Spec => [](SpendInv /\ BookInv)
<1>1. Init => SpendInv /\ BookInv
  BY LimitsInit, BookStarts
<1>2. SpendInv /\ BookInv /\ [Next]_vars => SpendInv' /\ BookInv'
  BY LimitsStep, BookStep
<1>. QED  BY <1>1, <1>2, PTL DEF Spec

\* The month's totals are what its reservations say, for any calls, prices, limits
\* and faults: every reservation is added once and settled once, by its call or by
\* the expiry that took it for abandoned, in the month and the scopes it was made in.
THEOREM BooksStayBalanced == Spec => []BooksBalance
<1>1. BookInv => BooksBalance
  BY DEF BookInv
<1>. QED  BY <1>1, LedgerKept, PTL

Bills == [c \in Call |-> Bill(c)]

\* What the reservations of one status may be billed.
LEMMA BillsWithin ==
  ASSUME SpendInv, BookInv, NEW m \in Months, NEW s \in Scopes
  PROVE  SumFunctionOnSet(Bills, Booking(m, s, {"reserved", "settled", "released", "unknown"}))
           <= Booked(period[<<m, s>>])
<1> DEFINE R == Booking(m, s, {"reserved"})
           P == Booking(m, s, {"settled"})
           F == Booking(m, s, {"released"})
           U == Booking(m, s, {"unknown"})
<1>1. /\ IsFiniteSet(R) /\ IsFiniteSet(P) /\ IsFiniteSet(F) /\ IsFiniteSet(U)
      /\ SumFunctionOnSet(Worst, R) \in Int /\ SumFunctionOnSet(Worst, U) \in Int
      /\ SumFunctionOnSet(Costs, P) \in Int
  BY TotalsInt DEF SpendInv
<1>2. \A c \in Call : /\ Bills[c] = IF call[c].outcome = "ran" THEN call[c].usage
                                    ELSE IF call[c].outcome = "unknown" THEN Worst[c] ELSE 0
                      /\ Costs[c] = spendHold[c].cost
                      /\ call[c].usage \in Nat /\ call[c].usage <= Worst[c]
                      /\ call[c].outcome \in {"none", "ran", "unknown"}
                      /\ Agree(c)
  <2>1. \A c \in Call : call[c] \in Calling /\ call[c].usage <= Worst[c]
    BY DEF SpendInv, CallsTyped
  <2>2. \A r \in Calling : r.usage \in Nat /\ r.outcome \in {"none", "ran", "unknown"}
    BY DEF Calling
  <2>. QED  BY <2>1, <2>2 DEF Bills, Bill, Costs, BookInv
<1>3. \A c \in Call : Bills[c] \in Int /\ Bills[c] <= Worst[c] /\ Worst[c] \in Int
  <2> HIDE DEF R, P, F, U
  <2> SUFFICES ASSUME NEW c \in Call
               PROVE  Bills[c] \in Int /\ Bills[c] <= Worst[c] /\ Worst[c] \in Int
    OBVIOUS
  <2>1. Worst[c] \in Nat /\ call[c].usage \in Nat /\ call[c].usage <= Worst[c]
    BY <1>2, WorstNat
  <2>2. Bills[c] = call[c].usage \/ Bills[c] = Worst[c] \/ Bills[c] = 0
    BY <1>2
  <2>. QED  BY <2>1, <2>2
<1>4. /\ R \subseteq Call /\ P \subseteq Call /\ F \subseteq Call /\ U \subseteq Call
      /\ \A c \in P : Bills[c] = Costs[c]
      /\ \A c \in F : Bills[c] = 0
  BY <1>2 DEF Booking, Agree
<1>5. Booking(m, s, {"reserved", "settled", "released", "unknown"}) = ((R \cup P) \cup F) \cup U
  BY DEF Booking
<1>6. R \cap P = {} /\ (R \cup P) \cap F = {} /\ ((R \cup P) \cup F) \cap U = {}
  BY DEF Booking
<1>7. Balanced(m, s)
  BY BalancedAll DEF BookInv
<1> HIDE DEF R, P, F, U
<1>8. /\ Sums(Bills, R) /\ Sums(Bills, P) /\ Sums(Bills, F) /\ Sums(Bills, U)
      /\ Sums(Worst, R) /\ Sums(Worst, U)
  BY <1>1, <1>3, <1>4 DEF Sums
<1>9. Sums(Bills, R \cup P) /\ Sums(Bills, (R \cup P) \cup F)
  <2>1. Sums(Bills, R \cup P)
    BY <1>8, FS_Union DEF Sums
  <2>. QED  BY <1>8, <2>1, FS_Union DEF Sums
<1>10. SumFunctionOnSet(Bills, R) <= SumFunctionOnSet(Worst, R)
  BY <1>3, <1>4, <1>8, SumMonotone
<1>11. SumFunctionOnSet(Bills, U) <= SumFunctionOnSet(Worst, U)
  BY <1>3, <1>4, <1>8, SumMonotone
<1>12. SumFunctionOnSet(Bills, P) = SumFunctionOnSet(Costs, P)
  BY <1>4, <1>8, SumSame
<1>13. SumFunctionOnSet(Bills, F) = 0
  BY <1>1, <1>4, SumZero
<1>14. SumFunctionOnSet(Bills, ((R \cup P) \cup F) \cup U) =
         SumFunctionOnSet(Bills, R) + SumFunctionOnSet(Bills, P)
         + SumFunctionOnSet(Bills, F) + SumFunctionOnSet(Bills, U)
  <2>1. SumFunctionOnSet(Bills, R \cup P) = SumFunctionOnSet(Bills, R) + SumFunctionOnSet(Bills, P)
    BY <1>6, <1>8, SumUnion
  <2>2. SumFunctionOnSet(Bills, (R \cup P) \cup F) =
          SumFunctionOnSet(Bills, R \cup P) + SumFunctionOnSet(Bills, F)
    BY <1>6, <1>8, <1>9, SumUnion
  <2>3. SumFunctionOnSet(Bills, ((R \cup P) \cup F) \cup U) =
          SumFunctionOnSet(Bills, (R \cup P) \cup F) + SumFunctionOnSet(Bills, U)
    BY <1>6, <1>8, <1>9, SumUnion
  <2>. QED  BY <2>1, <2>2, <2>3
<1>15. /\ SumFunctionOnSet(Bills, R) \in Int /\ SumFunctionOnSet(Bills, P) \in Int
       /\ SumFunctionOnSet(Bills, F) \in Int /\ SumFunctionOnSet(Bills, U) \in Int
  BY <1>8, SumInt DEF Sums
<1>16. Booked(period[<<m, s>>]) =
         SumFunctionOnSet(Worst, R) + SumFunctionOnSet(Costs, P) + SumFunctionOnSet(Worst, U)
  BY <1>7 DEF Booked, Balanced, R, P, U
<1>17. SumFunctionOnSet(Bills, ((R \cup P) \cup F) \cup U) <= Booked(period[<<m, s>>])
  BY <1>1, <1>10, <1>11, <1>12, <1>13, <1>14, <1>15, <1>16
<1>. QED  BY <1>5, <1>17

\* What the provider may bill is never more than what is booked for it, for any
\* calls, prices, limits and faults: what a call knows of its outcome decides what
\* its reservation becomes, and an outcome nobody knows keeps its worst case.
THEOREM BillsAreBooked == Spec => []BilledIsBooked
<1>1. SpendInv /\ BookInv => BilledIsBooked
  <2> SUFFICES ASSUME SpendInv, BookInv, NEW m \in Months, NEW s \in Scopes
               PROVE  SumFunctionOnSet([c \in Call |-> Bill(c)],
                        Booking(m, s, {"reserved", "settled", "released", "unknown"}))
                          <= Booked(period[m, s])
    BY Zenon DEF BilledIsBooked
  <2>. QED  BY BillsWithin, Zenon DEF Bills
<1>. QED  BY <1>1, LedgerKept, PTL

-----------------------------------------------------------------------------
(* What the account is charged. *)

Usage == [c \in Call |-> call[c].usage]

Plans == [t \in Turn |-> turn[t].plan]

LEMMA UsageNat ==
  /\ CallsTyped => \A c \in Call : Usage[c] = call[c].usage /\ Usage[c] \in Nat
  /\ CallsTyped' => \A c \in Call : Usage'[c] = call'[c].usage /\ Usage'[c] \in Nat
<1>1. \A r \in Calling : r.usage \in Nat
  BY DEF Calling
<1>. QED  BY <1>1 DEF CallsTyped, Usage

LEMMA TokensNat ==
  ASSUME CallsTyped, IsFiniteSet(Started), NEW S, S \subseteq Started
  PROVE  /\ IsFiniteSet(S) /\ Sums(Usage, S)
         /\ TokensOf(S) = SumFunctionOnSet(Usage, S) /\ TokensOf(S) \in Nat
<1>1. IsFiniteSet(S) /\ \A c \in S : Usage[c] \in Nat
  BY UsageNat, FS_Subset DEF Started
<1>2. TokensOf(S) = SumFunctionOnSet(Usage, S)
  BY DEF TokensOf, Usage
<1>. QED  BY <1>1, <1>2, SumNat DEF Sums

\* The calls a turn counted have started, and it is charged for no others.
LEMMA MeteredStarted ==
  ASSUME CreditInv, NEW t \in Turn
  PROVE  /\ turn[t].metered \subseteq Started /\ Billed(t) \subseteq turn[t].metered
         /\ \A c \in Billed(t) : c \in Call /\ call[c].turn = t
<1>1. turn[t].metered \subseteq Call
  BY DEF CreditInv, CreditTyped, TurnState
<1>2. Billed(t) \subseteq turn[t].metered
  BY DEF CreditInv, TallyFits, Billed
<1>. QED  BY <1>1, <1>2 DEF CreditInv, Fits, Started

\* What two kinds of calls used.
LEMMA TokensAdd ==
  ASSUME CallsTyped, IsFiniteSet(Started), NEW S, S \subseteq Started,
         NEW N, N \subseteq Started, S \cap N = {}
  PROVE  TokensOf(S \cup N) = TokensOf(S) + TokensOf(N)
<1>1. /\ TokensOf(S \cup N) = SumFunctionOnSet(Usage, S \cup N)
      /\ TokensOf(S) = SumFunctionOnSet(Usage, S) /\ Sums(Usage, S)
      /\ TokensOf(N) = SumFunctionOnSet(Usage, N) /\ Sums(Usage, N)
  BY TokensNat
<1>. QED  BY <1>1, SumUnion

\* The same calls used what they had used.
LEMMA TokensStand ==
  ASSUME CallsTyped, IsFiniteSet(Started), NEW S, S \subseteq Started,
         \A c \in S : call'[c].usage = call[c].usage
  PROVE  SumFunctionOnSet(Usage', S) = TokensOf(S)
<1>1. \A c \in S : Usage'[c] = Usage[c]
  BY DEF Usage, Started
<1>. QED  BY <1>1, TokensNat, SumSame

\* No turn ends, and what those that have ended are charged for is the same.
TurnsStand ==
  \A t \in Turn : /\ PastTurn(t)' <=> PastTurn(t)
                  /\ Closed(t)' <=> Closed(t)
                  /\ PastTurn(t) => /\ turn'[t].metered = turn[t].metered
                                    /\ turn'[t].tallied = turn[t].tallied
                                    /\ turn'[t].plan = turn[t].plan
                                    /\ turn'[t].month = turn[t].month

\* What a counted call used does not change.
Stands(c) == Metering(c) => call'[c].usage = call[c].usage

\* The calls of the turns that ended were counted by one.
LEMMA PastStarted ==
  ASSUME CreditInv
  PROVE  /\ Past \subseteq Started /\ PaidFor \subseteq Past
         /\ \A m : PaidIn(m) \subseteq PaidFor
         /\ \A c \in Past : c \in Call /\ Metering(c) /\ call[c].turn \in Turn
                            /\ PastTurn(call[c].turn)
         /\ \A c \in PaidFor : Closed(call[c].turn)
<1>1. \A t \in Turn : Closed(t) => PastTurn(t)
  BY DEF Closed, PastTurn
<1>. QED  BY <1>1, MeteredStarted DEF Past, PaidFor, PaidIn, Metering

\* While no turn ends, the charges stand as they do to what was used.
LEMMA ChargesStand ==
  ASSUME CreditInv, ChargedOnce, PaidIsCharged, IsFiniteSet(Started),
         UNCHANGED charged, IsFiniteSet(Priced'), TurnsStand, \A c \in Call : Stands(c)
  PROVE  ChargedOnce' /\ PaidIsCharged'
<1> USE DEF TurnsStand, Stands
<1>1. \A t \in Turn : /\ Closed(t) => PastTurn(t)
                      /\ PastTurn(t) => Billed(t)' = Billed(t)
  BY DEF Closed, PastTurn, Billed
<1>2. Past' = Past /\ PaidFor' = PaidFor /\ \A m : PaidIn(m)' = PaidIn(m)
  BY <1>1 DEF Past, PaidFor, PaidIn
<1>3. PastPlans' = PastPlans
  BY DEF PastPlans
<1>4. ASSUME NEW S, S \subseteq Past
      PROVE  TokensOf(S)' = TokensOf(S)
  <2>1. S \subseteq Started /\ \A c \in S : call'[c].usage = call[c].usage
    BY <1>4, PastStarted
  <2>2. SumFunctionOnSet(Usage', S) = TokensOf(S)
    BY <2>1, TokensStand DEF CreditInv
  <2>. QED  BY <2>2 DEF TokensOf, Usage
<1>5. PricesOf(PastPlans)' = PricesOf(PastPlans)
  <2>1. /\ PastPlans \subseteq Priced /\ PastPlans \subseteq Turn
        /\ \A t \in PastPlans : Plans[t] \in Nat /\ Plans'[t] = Plans[t]
    BY DEF PastPlans, Priced, Plans, CreditInv, CreditTyped, TurnState
  <2>2. Sums(Plans, PastPlans)
    BY <2>1, FS_Subset DEF ChargedOnce, Sums
  <2>3. SumFunctionOnSet(Plans, PastPlans) = SumFunctionOnSet(Plans', PastPlans)
    BY <2>1, <2>2, SumSame
  <2>. QED  BY <1>3, <2>3 DEF PricesOf, Plans
<1>6. /\ TokensOf(Past)' = TokensOf(Past) /\ TokensOf(PaidFor)' = TokensOf(PaidFor)
      /\ \A m : TokensOf(PaidIn(m))' = TokensOf(PaidIn(m))
  <2>1. PaidFor \subseteq Past /\ \A m : PaidIn(m) \subseteq Past
    BY PastStarted
  <2>2. /\ \A m : TokensOf(PaidIn(m))' = SumFunctionOnSet([c \in Call |-> call'[c].usage], PaidIn(m))
        /\ TokensOf(PaidFor)' = SumFunctionOnSet([c \in Call |-> call'[c].usage], PaidFor)
        /\ TokensOf(Past)' = SumFunctionOnSet([c \in Call |-> call'[c].usage], Past)
    BY <1>2 DEF TokensOf
  <2>3. \A S : S \subseteq Past =>
          SumFunctionOnSet([c \in Call |-> call'[c].usage], S) = TokensOf(S)
    BY <1>4 DEF TokensOf
  <2>. QED  BY <2>1, <2>2, <2>3
<1>. QED  BY <1>5, <1>6 DEF ChargedOnce, PaidIsCharged

LEMMA MonthsFinite == IsFiniteSet(Months) /\ \A m \in Months : m \in Int
BY SpendAssumption, FS_Interval DEF Months

\* A turn that ends is charged for its calls, which no other turn was charged for.
LEMMA ChargesGrow ==
  ASSUME CreditInv, HoldInv, IsFiniteSet(Started), UNCHANGED month,
         \A c \in Call : call'[c].usage = call[c].usage,
         NEW t \in Turn, ~PastTurn(t), NEW step \in {"closing", "uncharged"},
         NEW mm \in Months \cup {0}, TurnGoesOn(t, step, turn[t].plan, mm),
         NEW n \in Nat, charged' = [charged EXCEPT ![month] = @ + n],
         n = ChargeOf(t) \/ (n = 0 /\ step = "uncharged"),
         step = "closing" => mm = month \/ n = 0
  PROVE  ChargedOnce' /\ PaidIsCharged'
<1> DEFINE B == Billed(t)
           price == turn[t].plan
<1>1. /\ B \subseteq Started /\ \A c \in B : c \in Call /\ call[c].turn = t
      /\ price \in Nat /\ step \in TurnSteps
  BY MeteredStarted DEF CreditInv, CreditTyped, TurnState, TurnSteps
<1>2. /\ turn'[t].step = step /\ turn'[t].month = mm
      /\ \A u \in Turn : Billed(u)' = Billed(u) /\ turn'[u].plan = turn[u].plan
      /\ \A u \in Turn \ {t} : turn'[u] = turn[u]
  BY <1>1, TurnGoes DEF CreditInv, Billed
<1>3. \A u \in Turn : /\ PastTurn(u)' <=> PastTurn(u) \/ u = t
                      /\ Closed(u)' <=> Closed(u) \/ (u = t /\ step = "closing")
                      /\ Closed(u) => PastTurn(u)
  BY <1>2 DEF PastTurn, Closed
<1> DEFINE N == {c \in B : step = "closing"}
           In_(m) == {c \in N : m = mm}
<1>4. /\ Past' = Past \cup B /\ PaidFor' = PaidFor \cup N
      /\ \A m : PaidIn(m)' = PaidIn(m) \cup In_(m)
  <2>1. Past' = Past \cup B
    BY <1>1, <1>2, <1>3 DEF Past
  <2>2. PaidFor' = PaidFor \cup N
    BY <1>1, <1>2, <1>3 DEF PaidFor
  <2>3. \A m : PaidIn(m)' = PaidIn(m) \cup In_(m)
    BY <1>1, <1>2, <1>3 DEF PaidIn
  <2>. QED  BY <2>1, <2>2, <2>3
<1>5. /\ Past \cap B = {} /\ PaidFor \cap N = {} /\ \A m : PaidIn(m) \cap In_(m) = {}
      /\ Past \subseteq Started /\ PaidFor \subseteq Started /\ \A m : PaidIn(m) \subseteq Started
      /\ N \subseteq Started /\ \A m : In_(m) \subseteq Started
  BY <1>1, PastStarted
<1>6. \A S : S \subseteq Started => /\ SumFunctionOnSet(Usage', S) = TokensOf(S)
                                    /\ TokensOf(S) \in Nat
  BY TokensStand, TokensNat DEF CreditInv, Started
<1>7. \A S, X : S \subseteq Started /\ X \subseteq Started /\ S \cap X = {} =>
        /\ TokensOf(S \cup X) = TokensOf(S) + TokensOf(X)
        /\ SumFunctionOnSet(Usage', S \cup X) = TokensOf(S) + TokensOf(X)
  BY <1>6, TokensAdd DEF CreditInv
<1>8. ChargeOf(t) = TokensOf(B) + price
  BY DEF ChargeOf
<1> HIDE DEF B, N, In_
<1>9. /\ TokensOf(Past)' = TokensOf(Past) + TokensOf(B)
      /\ TokensOf(PaidFor)' = TokensOf(PaidFor) + TokensOf(N)
      /\ \A m : TokensOf(PaidIn(m))' = TokensOf(PaidIn(m)) + TokensOf(In_(m))
  <2>1. TokensOf(Past)' = SumFunctionOnSet(Usage', Past \cup B)
    BY <1>4 DEF TokensOf, Usage
  <2>2. TokensOf(PaidFor)' = SumFunctionOnSet(Usage', PaidFor \cup N)
    BY <1>4 DEF TokensOf, Usage
  <2>3. \A m : TokensOf(PaidIn(m))' = SumFunctionOnSet(Usage', PaidIn(m) \cup In_(m))
    BY <1>4 DEF TokensOf, Usage
  <2>. QED  BY <1>1, <1>5, <1>7, <2>1, <2>2, <2>3
<1>10. /\ TokensOf(B) \in Nat /\ TokensOf(N) \in Nat /\ TokensOf(Past) \in Nat
       /\ TokensOf(PaidFor) \in Nat /\ n <= TokensOf(B) + price
       /\ \A m : TokensOf(PaidIn(m)) \in Nat /\ TokensOf(In_(m)) \in Nat
  BY <1>1, <1>5, <1>6, <1>8
<1>11. /\ charged \in [Months -> Nat] /\ month \in Months
       /\ SumFunction(charged) <= TokensOf(Past) + PricesOf(PastPlans)
  BY DEF HoldInv, ChargedOnce, CreditInv, CallsTyped
<1>12. /\ charged' \in [Months -> Nat] /\ SumFunction(charged) \in Nat
       /\ SumFunction(charged') = SumFunction(charged) + n
       /\ \A m \in Months : charged'[m] = IF m = month THEN charged[m] + n ELSE charged[m]
  <2>1. /\ charged \in [Months -> Nat] /\ charged' \in [Months -> Nat] /\ month \in Months
        /\ \A m \in Months : charged'[m] = IF m = month THEN charged[m] + n ELSE charged[m]
    BY <1>11
  <2>2. IsFiniteSet(Months)
    BY MonthsFinite
  <2>3. Grown(charged, charged', Months, month, n)
    BY <2>1, <2>2 DEF Grown
  <2>4. SumFunction(charged) \in Nat /\ SumFunction(charged') = SumFunction(charged) + n
    BY <2>3, SumGrows, Zenon
  <2>. QED  BY <2>1, <2>4
<1>13. /\ IsFiniteSet(Priced') /\ PricesOf(PastPlans) \in Nat
       /\ PricesOf(PastPlans)' = PricesOf(PastPlans) + price
  <2>1. /\ Priced' = Priced /\ IsFiniteSet(Priced)
        /\ PastPlans' = IF price > 0 THEN PastPlans \cup {t} ELSE PastPlans
        /\ t \notin PastPlans /\ PastPlans \subseteq Priced
    BY <1>2, <1>3 DEF HoldInv, ChargedOnce, Priced, PastPlans
  <2>2. /\ \A u \in Turn : Plans[u] = turn[u].plan /\ Plans[u] \in Nat /\ Plans'[u] = Plans[u]
        /\ PastPlans \subseteq Turn /\ Plans[t] = price
    BY <1>2 DEF Plans, PastPlans, CreditInv, CreditTyped, TurnState
  <2>3. IsFiniteSet(PastPlans)
    BY <2>1, FS_Subset
  <2>4. Sums(Plans, PastPlans) /\ SumFunctionOnSet(Plans, PastPlans) \in Nat
    BY <2>2, <2>3, SumNat DEF Sums
  <2>5. PricesOf(PastPlans) = SumFunctionOnSet(Plans, PastPlans)
    BY DEF PricesOf, Plans
  <2>6. /\ Plans' = Plans
        /\ PricesOf(PastPlans)' = SumFunctionOnSet(Plans', PastPlans')
    BY <1>2 DEF PricesOf, Plans
  <2>7. CASE price > 0
    <3>1. Plans[t] \in Int /\ Sums(Plans, PastPlans) /\ t \notin PastPlans
      BY <1>1, <2>1, <2>2, <2>4
    <3>2. SumFunctionOnSet(Plans, PastPlans \cup {t}) = Plans[t] + SumFunctionOnSet(Plans, PastPlans)
      BY <3>1, SumAdd, Zenon
    <3>. QED  BY <1>1, <2>1, <2>2, <2>4, <2>5, <2>6, <2>7, <3>2
  <2>8. CASE ~(price > 0)
    <3>1. price = 0
      BY <1>1, <2>8
    <3>. QED  BY <2>1, <2>4, <2>5, <2>6, <2>8, <3>1
  <2>. QED  BY <2>7, <2>8
<1>14. ChargedOnce'
  <2>1. SumFunction(charged)' <= TokensOf(Past)' + PricesOf(PastPlans)'
    BY <1>1, <1>9, <1>10, <1>11, <1>12, <1>13
  <2>. QED  BY <1>12, <1>13, <2>1 DEF ChargedOnce
<1>15. /\ step = "closing" => n = TokensOf(B) + price /\ N = B
       /\ step # "closing" => N = {}
       /\ \A m : In_(m) = IF m = mm THEN N ELSE {}
  BY <1>8 DEF N, In_
<1>16. TokensOf({}) = 0
  BY SumEmpty DEF TokensOf
<1>17. TokensOf(N) <= n
  BY <1>1, <1>10, <1>15, <1>16
<1>18. TokensOf(PaidFor)' <= SumFunction(charged)'
  <2>1. TokensOf(PaidFor) <= SumFunction(charged)
    BY DEF HoldInv, PaidIsCharged
  <2>. QED  BY <1>9, <1>10, <1>12, <1>17, <2>1
<1>19. ASSUME NEW m \in Months
       PROVE  TokensOf(PaidIn(m))' <= charged'[m]
  <2>1. /\ TokensOf(PaidIn(m)) <= charged[m] /\ charged[m] \in Nat
    BY <1>11 DEF HoldInv, PaidIsCharged
  <2>2. TokensOf(In_(m)) = 0 \/ (TokensOf(In_(m)) <= n /\ m = month)
    BY <1>10, <1>15, <1>16, <1>17
  <2>. QED  BY <1>9, <1>10, <1>12, <2>1, <2>2
<1>. QED  BY <1>14, <1>18, <1>19 DEF PaidIsCharged

-----------------------------------------------------------------------------
(* What a step does to the hold of one call, and to what it may yet use. *)

\* What was said of the call stays true, and it claims no more than it did.
Shrinks(c) ==
  /\ HoldTrue(c)'
  /\ \A m : c \in Taken(m)' => c \in Taken(m) /\ Claim(c)' <= Claim(c)

\* The hold is left alone, and so is what matters of its call.
Steady(c) ==
  /\ creditHold'[c] = creditHold[c]
  /\ Metering(c)' => Metering(c)
  /\ Metering(c) \/ creditHold[c] # NoCreditHold =>
       /\ call'[c].payer = call[c].payer /\ call'[c].usage = call[c].usage
       /\ call[c].step = "done" => call'[c].step = "done"

\* Whether a call is taken, and what it claims, is said by its hold, its use and
\* whether a turn was charged for it.
LEMMA TakenIs ==
  ASSUME NEW c \in Call
  PROVE  /\ \A m : c \in Taken(m) <=>
              /\ creditHold[c].month = m /\ creditHold[c].pushed /\ ~creditHold[c].lapsed
              /\ Counts(c) \/ c \in PaidIn(m)
         /\ \A m : c \in Taken(m)' <=>
              /\ creditHold'[c].month = m /\ creditHold'[c].pushed /\ ~creditHold'[c].lapsed
              /\ Counts(c)' \/ c \in PaidIn(m)'
BY DEF Taken

\* A turn is charged for calls that were charged before, or counted until then.
PaidKnown(c) ==
  \A m : c \in PaidIn(m)' => \/ c \in PaidIn(m)
                             \/ \E t \in Turn : c \in turn[t].metered /\ ~Closed(t)

LEMMA ClaimIs ==
  ASSUME CreditInv, CreditInv', NEW c \in Call
  PROVE  /\ Claim(c) \in Nat /\ Claim(c)' \in Nat
         /\ Claim(c) = IF Counts(c) /\ creditHold[c].status = "reserved" THEN Worst[c]
                       ELSE IF Counts(c) THEN creditHold[c].used ELSE call[c].usage
         /\ Claim(c)' = IF Counts(c)' /\ creditHold'[c].status = "reserved" THEN Worst[c]
                        ELSE IF Counts(c)' THEN creditHold'[c].used ELSE call'[c].usage
         /\ call[c].usage <= Worst[c] /\ call'[c].usage <= Worst[c]
         /\ call[c].usage \in Nat /\ call'[c].usage \in Nat /\ Worst[c] \in Nat
<1>1. /\ call[c] \in Calling /\ call'[c] \in Calling
      /\ creditHold[c] \in CreditHold /\ creditHold'[c] \in CreditHold
      /\ call[c].usage <= Worst[c] /\ call'[c].usage <= Worst[c]
  BY DEF CreditInv, CallsTyped, CreditTyped
<1>2. /\ \A r \in Calling : r.usage \in Nat
      /\ \A h \in CreditHold : h.used \in Nat
  BY DEF Calling, CreditHold
<1>3. Worst[c] \in Nat
  BY WorstNat
<1>. QED  BY <1>1, <1>2, <1>3 DEF Claim, Weight

LEMMA SteadyShrinks ==
  ASSUME CreditInv, CreditInv', NEW c \in Call, HoldTrue(c), Steady(c), PaidKnown(c)
  PROVE  Shrinks(c) /\ Stands(c)
<1>1. ~NoCreditHold.pushed /\ NoCreditHold.status = "none"
  BY DEF NoCreditHold
<1>3. HoldTrue(c)'
  BY <1>1 DEF HoldTrue, Steady
<1>4. Counts(c)' <=> Counts(c)
  BY DEF Counts, Steady
<1>5. ASSUME NEW m, c \in Taken(m)'
      PROVE  c \in Taken(m) /\ Claim(c)' <= Claim(c)
  <2>0. ASSUME c \in PaidIn(m)', creditHold[c].pushed, ~creditHold[c].lapsed
        PROVE  c \in PaidIn(m) \/ Counts(c)
    BY <2>0 DEF PaidKnown, CreditInv, Fits
  <2>1. /\ creditHold[c].pushed /\ creditHold[c] # NoCreditHold
        /\ c \in Taken(m)
    BY <1>1, <1>4, <1>5, <2>0, TakenIs DEF Steady
  <2>2. Claim(c)' = Claim(c)
    BY <1>4, <2>1, ClaimIs DEF Steady
  <2>. QED  BY <2>1, <2>2, ClaimIs
<1>6. Stands(c)
  BY DEF Stands, Steady
<1>. QED  BY <1>3, <1>5, <1>6 DEF Shrinks

\* A step of one call that touches neither holds nor scopes.
LEMMA CallSteady ==
  ASSUME CreditInv, NEW c \in Call, call[c].step # "done", NEW r, call' = [call EXCEPT ![c] = r],
         UNCHANGED creditHold, ScopesStay(c),
         call[c].step # "idle" => r.payer = call[c].payer /\ r.usage = call[c].usage
  PROVE  \A d \in Call : Steady(d)
<1>1. call'[c] = r /\ \A d \in Call \ {c} : call'[d] = call[d]
  BY DEF CreditInv, CallsTyped
<1>2. \A d \in Call : Metering(d)' <=> Metering(d)
  BY TallyTyped DEF Metering, CreditInv
<1>3. call[c].step = "idle" => ~Metering(c) /\ creditHold[c] = NoCreditHold
  BY DEF CreditInv, Fits, Metering
<1>. QED  BY <1>1, <1>2, <1>3 DEF Steady

LEMMA CallGoesSteady ==
  ASSUME CreditInv, NEW c \in Call, call[c].step # "done", NEW step, CallGoes(c, step),
         UNCHANGED creditHold, ScopesStay(c)
  PROVE  \A d \in Call : Steady(d)
<1> DEFINE r == [call[c] EXCEPT !.step = step]
<1>1. call' = [call EXCEPT ![c] = r]
  BY DEF CallGoes, CreditInv, CallsTyped
<1>2. r.payer = call[c].payer /\ r.usage = call[c].usage
  BY DEF CreditInv, CallsTyped, Calling
<1> HIDE DEF r
<1>. QED  BY <1>1, <1>2, CallSteady

\* Most of what a call does leaves every hold as it is.
QuietCall(c) ==
  \/ \E payer \in Payers, t \in Turn \cup {NoTurn} :
       ReserveSpend(c, payer, t) \/ ReserveRefused(c, payer, t) \/ ReserveFails(c, payer, t)
  \/ CreditsExhausted(c) \/ HoldSkipped(c) \/ GiveBack(c)
  \/ NotRun(c) \/ AnswerLost(c) \/ SettleSpend(c) \/ SettleSpendFails(c) \/ SettleCreditsFails(c)
  \/ (HoldFails(c) \/ SettleCredits(c)) /\ UNCHANGED creditHold

LEMMA QuietSteady ==
  ASSUME CreditInv, NEW c \in Call, QuietCall(c)
  PROVE  UNCHANGED charged /\ ScopesStay(c) /\ \A d \in Call : Steady(d)
<1>1. ASSUME NEW payer, NEW t,
             ReserveSpend(c, payer, t) \/ ReserveRefused(c, payer, t) \/ ReserveFails(c, payer, t)
      PROVE  UNCHANGED charged /\ ScopesStay(c) /\ \A d \in Call : Steady(d)
  <2>1. /\ UNCHANGED creditVars /\ ScopesStay(c) /\ call[c].step = "idle"
        /\ \E r : call' = [call EXCEPT ![c] = r]
    BY <1>1 DEF ReserveSpend, ReserveRefused, ReserveFails, MayCall, ScopesStay
  <2>. QED  BY <2>1, CallSteady DEF creditVars
<1>2. ASSUME \/ CreditsExhausted(c) \/ HoldSkipped(c) \/ GiveBack(c) \/ NotRun(c)
             \/ SettleSpend(c) \/ SettleSpendFails(c) \/ SettleCreditsFails(c)
             \/ ((HoldFails(c) \/ SettleCredits(c)) /\ UNCHANGED creditHold)
      PROVE  UNCHANGED charged /\ ScopesStay(c) /\ \A d \in Call : Steady(d)
  <2>1. /\ UNCHANGED creditVars /\ ScopesStay(c) /\ call[c].step # "done"
        /\ \E step : CallGoes(c, step)
    <3>1. CASE SettleCredits(c) /\ UNCHANGED creditHold
      <4>1. UNCHANGED creditVars /\ ScopesStay(c) /\ call[c].step = "booked" /\ CallGoes(c, "done")
        BY <3>1 DEF SettleCredits, settleHold, creditVars, ScopesStay
      <4>. QED  BY <4>1
    <3>4. CASE SettleCreditsFails(c)
      <4>1. UNCHANGED creditVars /\ ScopesStay(c) /\ call[c].step = "booked" /\ CallGoes(c, "done")
        BY <3>4 DEF SettleCreditsFails, ScopesStay
      <4>. QED  BY <4>1
    <3>2. CASE HoldFails(c) /\ UNCHANGED creditHold
      BY <3>2 DEF HoldFails, hold, creditVars, ScopesStay
    <3>3. CASE \/ CreditsExhausted(c) \/ HoldSkipped(c) \/ GiveBack(c) \/ NotRun(c)
               \/ SettleSpend(c) \/ SettleSpendFails(c)
      BY <3>3 DEF CreditsExhausted, HoldSkipped, GiveBack, NotRun, SettleSpend, SettleSpendFails,
         AfterLedger, ScopesStay
    <3>. QED  BY <1>2, <3>1, <3>2, <3>3, <3>4
  <2>. QED  BY <2>1, CallGoesSteady DEF creditVars
<1>3. ASSUME AnswerLost(c)
      PROVE  UNCHANGED charged /\ ScopesStay(c) /\ \A d \in Call : Steady(d)
  <2> DEFINE r == [call[c] EXCEPT !.step = "answered", !.outcome = "unknown"]
  <2>1. /\ UNCHANGED creditVars /\ ScopesStay(c) /\ call[c].step # "done"
        /\ call' = [call EXCEPT ![c] = r]
    BY <1>3 DEF AnswerLost, CreditInv, CallsTyped, ScopesStay
  <2>2. r.payer = call[c].payer /\ r.usage = call[c].usage
    BY DEF CreditInv, CallsTyped, Calling
  <2> HIDE DEF r
  <2>. QED  BY <2>1, <2>2, CallSteady DEF creditVars
<1>. QED  BY <1>1, <1>2, <1>3 DEF QuietCall

\* A call that neither takes a hold nor answers nor settles its hold keeps to it.
LEMMA QuietOr ==
  ASSUME NEW c \in Call, Calls(c)
  PROVE  \/ QuietCall(c) \/ HoldCredits(c) \/ Answered(c)
         \/ ((HoldFails(c) \/ SettleCredits(c)) /\ ~UNCHANGED creditHold)
BY DEF Calls, QuietCall

LEMMA OthersSteady ==
  ASSUME NEW c \in Call,
         \A d \in Call \ {c} : call'[d] = call[d] /\ creditHold'[d] = creditHold[d],
         \A t \in Turn : \A d \in Call \ {c} : d \in turn'[t].metered => d \in turn[t].metered
  PROVE  \A d \in Call \ {c} : Steady(d)
BY DEF Steady, Metering

\* A call answers: what it used is within what its hold counts.
LEMMA AnswerShrinks ==
  ASSUME CreditInv, CreditInv', NEW c \in Call, HoldTrue(c), Answered(c)
  PROVE  Shrinks(c) /\ Stands(c) /\ \A d \in Call \ {c} : Steady(d)
<1>1. PICK u \in 1 .. Worst[c] :
        call' = [call EXCEPT ![c].step = "answered", ![c].outcome = "ran", ![c].usage = u]
  BY DEF Answered
<1>2. /\ call[c].step = "sent" /\ UNCHANGED <<creditHold, month>>
      /\ turn' = Metered(c) /\ \A d \in Call \ {c} : call'[d] = call[d]
  BY <1>1 DEF Answered, creditVars, CreditInv, CallsTyped
<1>3. call'[c].payer = call[c].payer
  BY <1>1 DEF CreditInv, CallsTyped, Calling
<1>4. ~Metering(c)
  BY <1>2 DEF Metering, CreditInv, Fits
<1>5. /\ Metering(c)' => call[c].payer = "customer"
      /\ \A t \in Turn : \A d \in Call \ {c} : d \in turn'[t].metered => d \in turn[t].metered
  BY <1>2, <1>4, MeteredGoes DEF Metering, CreditInv
<1>6. creditHold[c].status # "used"
  BY <1>2 DEF HoldTrue
<1>7. HoldTrue(c)'
  BY <1>2, <1>3, <1>5, <1>6 DEF HoldTrue
<1>8. ASSUME NEW m, c \in Taken(m)'
      PROVE  c \in Taken(m) /\ Claim(c)' <= Claim(c)
  <2>1. creditHold[c].status = "reserved" /\ Counts(c) /\ Counts(c)'
    BY <1>2, <1>8, TakenIs DEF CreditInv, Fits, Counts
  <2>. QED  BY <1>2, <1>8, <2>1, TakenIs, ClaimIs
<1>9. Stands(c)
  BY <1>4 DEF Stands
<1>. QED  BY <1>2, <1>5, <1>7, <1>8, <1>9, OthersSteady DEF Shrinks

\* The hold of one call is replaced.
LEMMA HoldReplaced ==
  ASSUME CreditInv, NEW c \in Call, NEW h, creditHold' = [creditHold EXCEPT ![c] = h],
         ScopesStay(c), NEW step, CallGoes(c, step) \/ UNCHANGED call
  PROVE  /\ creditHold'[c] = h
         /\ call'[c].usage = call[c].usage /\ call'[c].payer = call[c].payer
         /\ CallGoes(c, step) => call'[c].step = step
         /\ Metering(c)' <=> Metering(c)
         /\ \A d \in Call \ {c} : Steady(d)
<1>1. /\ \A d \in Call \ {c} : call'[d] = call[d] /\ creditHold'[d] = creditHold[d]
      /\ creditHold'[c] = h
  BY DEF CallGoes, CreditInv, CallsTyped, CreditTyped
<1>2. /\ call'[c].usage = call[c].usage /\ call'[c].payer = call[c].payer
      /\ CallGoes(c, step) => call'[c].step = step
  BY DEF CallGoes, CreditInv, CallsTyped, Calling
<1>3. \A t \in Turn : turn'[t].metered = turn[t].metered
  BY TallyTyped DEF CreditInv
<1>. QED  BY <1>1, <1>2, <1>3, OthersSteady DEF Metering

\* Its call settles: it counts what the call used, or nothing.
LEMMA SettleShrinks ==
  ASSUME CreditInv, CreditInv', NEW c \in Call, HoldTrue(c), SettleCredits(c),
         ~UNCHANGED creditHold
  PROVE  Shrinks(c) /\ Stands(c) /\ \A d \in Call \ {c} : Steady(d)
<1>1. /\ CallGoes(c, "done") /\ ScopesStay(c)
      /\ settleHold(c, call[c].outcome = "ran", call[c].usage)
  BY DEF SettleCredits, ScopesStay
<1> DEFINE h == creditHold[c]
           spent == [h EXCEPT !.status = "used", !.used = call[c].usage, !.live = TRUE]
           freed == [h EXCEPT !.status = "released"]
<1>2. /\ h.status = "reserved"
      /\ \/ creditHold' = [creditHold EXCEPT ![c] = spent]
         \/ creditHold' = [creditHold EXCEPT ![c] = freed]
  BY <1>1 DEF settleHold
<1>3. h \in CreditHold
  BY DEF CreditInv, CreditTyped
<1>4. /\ spent.status = "used" /\ spent.used = call[c].usage /\ spent.live = TRUE
      /\ spent.month = h.month /\ spent.pushed = h.pushed /\ spent.lapsed = h.lapsed
      /\ freed.status = "released" /\ freed.month = h.month
      /\ freed.pushed = h.pushed /\ freed.lapsed = h.lapsed
  BY <1>3 DEF CreditHold
<1> HIDE DEF spent, freed
<1>5. PICK g : creditHold' = [creditHold EXCEPT ![c] = g] /\ (g = spent \/ g = freed)
  BY <1>2
<1>6. /\ creditHold'[c] = g /\ call'[c].usage = call[c].usage /\ call'[c].payer = call[c].payer
      /\ call'[c].step = "done" /\ (Metering(c)' <=> Metering(c))
      /\ \A d \in Call \ {c} : Steady(d)
  BY <1>1, <1>5, HoldReplaced
<1>7. g.month = h.month /\ g.pushed = h.pushed /\ g.lapsed = h.lapsed
  BY <1>4, <1>5
<1>8. HoldTrue(c)'
  BY <1>1, <1>4, <1>5, <1>6 DEF HoldTrue
<1>9. ASSUME NEW m, c \in Taken(m)'
      PROVE  c \in Taken(m) /\ Claim(c)' <= Claim(c)
  <2>1. Counts(c)
    BY <1>2, <1>6, <1>7, <1>9, TakenIs DEF HoldTrue, Counts
  <2>2. c \in Taken(m) /\ Claim(c) = Worst[c]
    BY <1>2, <1>6, <1>7, <1>9, <2>1, TakenIs, ClaimIs
  <2>3. Claim(c)' = call[c].usage
    BY <1>4, <1>5, <1>6, ClaimIs DEF Counts
  <2>. QED  BY <2>2, <2>3, ClaimIs
<1>10. Stands(c)
  BY <1>6, <1>7 DEF Stands
<1>. QED  BY <1>6, <1>8, <1>9, <1>10 DEF Shrinks

\* A hold expires: it is not counted again.
LEMMA LapseShrinks ==
  ASSUME CreditInv, CreditInv', NEW c \in Call, HoldTrue(c), CreditHoldLapses(c)
  PROVE  Shrinks(c) /\ Stands(c) /\ \A d \in Call \ {c} : Steady(d)
<1> DEFINE h == creditHold[c]
           late == [h EXCEPT !.live = FALSE, !.lapsed = TRUE]
<1>1. /\ creditHold' = [creditHold EXCEPT ![c] = late] /\ UNCHANGED call /\ ScopesStay(c)
  BY DEF CreditHoldLapses, lapse, CreditInv, CreditTyped, ScopesStay
<1>2. h \in CreditHold
  BY DEF CreditInv, CreditTyped
<1>3. late.lapsed = TRUE /\ late.month = h.month /\ late.status = h.status /\ late.used = h.used
  BY <1>2 DEF CreditHold
<1> HIDE DEF late
<1>4. /\ creditHold'[c] = late /\ (Metering(c)' <=> Metering(c))
      /\ \A d \in Call \ {c} : Steady(d)
  BY <1>1, HoldReplaced
<1>5. HoldTrue(c)'
  BY <1>1, <1>3, <1>4 DEF HoldTrue
<1>6. \A m : c \notin Taken(m)'
  BY <1>3, <1>4, TakenIs
<1>7. Stands(c)
  BY <1>1, <1>3, <1>4 DEF Stands
<1>. QED  BY <1>4, <1>5, <1>6, <1>7 DEF Shrinks

\* A hold is taken.
LEMMA HoldTaken ==
  ASSUME CreditInv, NEW c \in Call, call[c].step = "holding", NEW pushed \in BOOLEAN,
         NEW n, hold(c, call[c].turn, n, pushed), UNCHANGED turn,
         NEW step, CallGoes(c, step)
  PROVE  /\ HoldTrue(c)' /\ Stands(c) /\ ~Metering(c)'
         /\ creditHold'[c].month = n /\ creditHold'[c].pushed = pushed
         /\ \A d \in Call \ {c} : Steady(d)
<1> DEFINE h == [NoCreditHold EXCEPT !.status = "reserved", !.month = n,
                   !.turn = call[c].turn, !.pushed = pushed, !.live = TRUE]
<1>1. creditHold' = [creditHold EXCEPT ![c] = h] /\ ScopesStay(c)
  BY DEF hold, ScopesStay
<1>2. h.status = "reserved" /\ h.month = n /\ h.pushed = pushed /\ h.live
  BY DEF NoCreditHold
<1> HIDE DEF h
<1>3. ~Metering(c)
  BY DEF Metering, CreditInv, Fits
<1>4. /\ creditHold'[c] = h /\ (Metering(c)' <=> Metering(c))
      /\ \A d \in Call \ {c} : Steady(d)
  BY <1>1, HoldReplaced
<1>. QED  BY <1>2, <1>3, <1>4 DEF HoldTrue, Stands

\* A hold nobody learns of.
LEMMA HoldFailsShrinks ==
  ASSUME CreditInv, NEW c \in Call, HoldFails(c), ~UNCHANGED creditHold
  PROVE  Shrinks(c) /\ Stands(c) /\ \A d \in Call \ {c} : Steady(d)
<1>1. /\ \E n : hold(c, call[c].turn, n, FALSE)
      /\ CallGoes(c, "refused") /\ call[c].step = "holding" /\ UNCHANGED turn
  BY DEF HoldFails, creditVars
<1>2. /\ HoldTrue(c)' /\ Stands(c) /\ creditHold'[c].pushed = FALSE
      /\ \A d \in Call \ {c} : Steady(d)
  BY <1>1, HoldTaken
<1>3. \A m : c \notin Taken(m)'
  BY <1>2, TakenIs
<1>. QED  BY <1>2, <1>3 DEF Shrinks

\* A turn closes its holds: the scopes go on counting their calls.
LEMMA CloseHoldsShrinks ==
  ASSUME CreditInv, CreditInv', NEW t \in Turn, CloseHolds(t), NEW c \in Call, HoldTrue(c),
         PaidKnown(c)
  PROVE  Shrinks(c) /\ Stands(c)
<1> DEFINE status == IF ChargeOf(t) > 0 THEN "charged" ELSE "released"
           h == creditHold[c]
           shut == [h EXCEPT !.status = status]
<1>1. /\ creditHold'[c] = (IF h.pushed /\ h.turn = t /\ h.status = "used" THEN shut ELSE h)
      /\ turn' = [turn EXCEPT ![t].step = "closed"] /\ UNCHANGED <<call, month>>
  BY DEF CloseHolds, closeHolds
<1>2. h \in CreditHold
  BY DEF CreditInv, CreditTyped
<1>3. /\ shut.status \in {"charged", "released"} /\ shut.month = h.month
      /\ shut.pushed = h.pushed /\ shut.lapsed = h.lapsed
  BY <1>2 DEF CreditHold
<1> HIDE DEF shut, status
<1>4. \A v \in Turn : turn'[v].metered = turn[v].metered
  BY <1>1 DEF CreditInv, CreditTyped, TurnState
<1>5. Metering(c)' <=> Metering(c)
  BY <1>4 DEF Metering
<1>6. CASE creditHold'[c] = h
  <2>1. Steady(c)
    BY <1>1, <1>5, <1>6 DEF Steady
  <2>. QED  BY <2>1, SteadyShrinks
<1>7. CASE creditHold'[c] # h
  <2>1. creditHold'[c] = shut /\ h.pushed /\ h.status = "used"
    BY <1>1, <1>7
  <2>2. HoldTrue(c)'
    BY <1>1, <1>3, <1>5, <2>1 DEF HoldTrue
  <2>3. ASSUME NEW m, c \in Taken(m)'
        PROVE  c \in Taken(m) /\ Claim(c)' <= Claim(c)
    <3>1. Counts(c) /\ h.used = call[c].usage
      BY <1>3, <2>1, <2>3, TakenIs DEF HoldTrue, Counts
    <3>2. c \in Taken(m) /\ Claim(c) = call[c].usage
      BY <1>3, <2>1, <2>3, <3>1, TakenIs, ClaimIs
    <3>3. Claim(c)' = call[c].usage
      BY <1>1, <1>3, <2>1, ClaimIs DEF Counts
    <3>. QED  BY <3>2, <3>3, ClaimIs
  <2>4. Stands(c)
    BY <1>1, <1>3, <2>1 DEF Stands
  <2>. QED  BY <2>2, <2>3, <2>4 DEF Shrinks
<1>. QED  BY <1>6, <1>7

\* A turn ends, or dies with its calls.
LEMMA TurnSteady ==
  ASSUME CreditInv, NEW t \in Turn, Turns(t), ~CloseHolds(t)
  PROVE  \A d \in Call : Steady(d)
<1>1. \A v \in Turn : turn'[v].metered = turn[v].metered
  BY TurnStepGoes, TurnGoes DEF CreditInv, CallsTyped
<1>2. ASSUME TurnDies(t)
      PROVE  \A d \in Call : Steady(d)
  <2> DEFINE dead(c) == [call[c] EXCEPT !.step = "done",
                           !.outcome = IF call[c].step = "sent" THEN "unknown" ELSE @]
  <2>1. /\ \A c \in Call : call'[c] = IF c \in InFlight(t) THEN dead(c) ELSE call[c]
        /\ UNCHANGED creditHold
    BY <1>2 DEF TurnDies, Die, creditVars
  <2>2. \A c \in Call : /\ dead(c).step = "done" /\ dead(c).usage = call[c].usage
                        /\ dead(c).payer = call[c].payer
    BY DEF CreditInv, CallsTyped, Calling
  <2> HIDE DEF dead
  <2>. QED  BY <1>1, <2>1, <2>2 DEF Steady, Metering
<1>3. ASSUME ChargeFails(t) \/ CloseTurn(t) \/ ChargeTurn(t) \/ CloseHoldsFails(t)
      PROVE  \A d \in Call : Steady(d)
  <2>1. UNCHANGED <<call, creditHold>>
    BY <1>3 DEF ChargeFails, CloseTurn, ChargeTurn, CloseHoldsFails, charge, creditVars
  <2>. QED  BY <1>1, <2>1 DEF Steady, Metering
<1>. QED  BY <1>2, <1>3 DEF Turns

\* What no call, hold or turn does: a call dies alone, the ledger's expiry, a new month.
LEMMA OthersLeaveHolds ==
  ASSUME CreditInv,
         \/ \E c \in Call : CallDies(c) \/ Expire(c)
         \/ NewMonth \/ UNCHANGED vars
  PROVE  UNCHANGED <<turn, charged>> /\ \A d \in Call : Steady(d)
<1>2. ASSUME NEW c \in Call, CallDies(c)
      PROVE  UNCHANGED <<turn, charged>> /\ \A d \in Call : Steady(d)
  <2> DEFINE dead(d) == [call[d] EXCEPT !.step = "done",
                           !.outcome = IF call[d].step = "sent" THEN "unknown" ELSE @]
  <2>1. /\ \A d \in Call : call'[d] = IF d = c THEN dead(d) ELSE call[d]
        /\ UNCHANGED <<creditHold, charged, turn>>
    BY <1>2 DEF CallDies, Die, creditVars
  <2>2. \A d \in Call : /\ dead(d).step = "done" /\ dead(d).usage = call[d].usage
                        /\ dead(d).payer = call[d].payer
    BY DEF CreditInv, CallsTyped, Calling
  <2> HIDE DEF dead
  <2>. QED  BY <2>1, <2>2 DEF Steady, Metering
<1>3. ASSUME UNCHANGED <<creditVars, call, turn>>
      PROVE  UNCHANGED <<turn, charged>> /\ \A d \in Call : Steady(d)
  BY <1>3 DEF Steady, Metering, creditVars
<1>4. ASSUME NEW c \in Call, Expire(c)
      PROVE  UNCHANGED <<creditVars, call, turn>>
  BY <1>4 DEF Expire
<1>5. ASSUME NewMonth \/ UNCHANGED vars
      PROVE  UNCHANGED <<creditVars, call, turn>>
  BY <1>5 DEF NewMonth, vars
<1>. QED  BY <1>2, <1>3, <1>4, <1>5

\* A call moves the turns only by being counted, or tallied, in an open one.
LEMMA CallsLeaveTurns ==
  ASSUME CreditInv, NEW c \in Call, Calls(c) \/ CreditHoldLapses(c)
  PROVE  /\ UNCHANGED charged
         /\ \A t \in Turn : /\ turn'[t].step = turn[t].step /\ turn'[t].plan = turn[t].plan
                            /\ turn'[t].month = turn[t].month
                            /\ turn[t].step # "open" => /\ turn'[t].metered = turn[t].metered
                                                        /\ turn'[t].tallied = turn[t].tallied
<1>1. CASE Answered(c)
  <2>1. turn' = Metered(c) /\ UNCHANGED charged /\ call[c].step = "sent"
    BY <1>1 DEF Answered, creditVars
  <2>2. \A t \in Turn : c \notin turn[t].metered
    BY <2>1 DEF CreditInv, Fits
  <2>3. \A t \in Turn : /\ turn[t].metered \subseteq turn'[t].metered
                        /\ turn'[t].metered \subseteq turn[t].metered \cup {c}
                        /\ c \in turn'[t].metered => turn[t].step = "open"
    BY <2>1, <2>2, MeteredGoes DEF CreditInv
  <2>4. \A t \in Turn : /\ turn'[t].step = turn[t].step /\ turn'[t].plan = turn[t].plan
                        /\ turn'[t].month = turn[t].month /\ turn'[t].tallied = turn[t].tallied
    BY <2>1, MeteredGoes DEF CreditInv
  <2>5. ASSUME NEW t \in Turn, turn[t].step # "open"
        PROVE  turn'[t].metered = turn[t].metered
    BY <2>3, <2>5
  <2>. QED  BY <2>1, <2>4, <2>5
<1>2. CASE ~Answered(c)
  <2>1. ScopesStay(c) /\ UNCHANGED charged
    <3>1. CASE QuietCall(c)
      BY <3>1, QuietSteady
    <3>2. CASE SettleCredits(c)
      BY <3>2 DEF SettleCredits, settleHold, ScopesStay
    <3>3. CASE HoldCredits(c) \/ HoldFails(c) \/ CreditHoldLapses(c)
      BY <3>3 DEF HoldCredits, HoldFails, CreditHoldLapses, hold, lapse, creditVars, ScopesStay
    <3>. QED  BY <1>2, <3>1, <3>2, <3>3, QuietOr
  <2>. QED  BY <2>1, TallyTyped DEF CreditInv
<1>. QED  BY <1>1, <1>2

\* A turn that is charged was charged for calls that counted until then.
LEMMA PaidGoes ==
  ASSUME CreditInv, CreditInv', [Next]_vars
  PROVE  \A c : PaidKnown(c)
<1>0. CreditTyped /\ month \in Months
  BY DEF CreditInv, CallsTyped
<1>1. ASSUME \A t \in Turn : /\ turn'[t].step = turn[t].step /\ turn'[t].month = turn[t].month
                             /\ turn[t].step # "open" => /\ turn'[t].metered = turn[t].metered
                                                         /\ turn'[t].tallied = turn[t].tallied
      PROVE  \A m : PaidIn(m)' = PaidIn(m)
  <2>1. \A t \in Turn : /\ Closed(t)' <=> Closed(t)
                        /\ Closed(t) => Billed(t)' = Billed(t)
    BY <1>1 DEF Closed, Billed
  <2>. QED  BY <1>1, <2>1 DEF PaidIn
<1>2. ASSUME NEW c \in Call, Calls(c) \/ CreditHoldLapses(c)
      PROVE  \A m : PaidIn(m)' = PaidIn(m)
  BY <1>1, <1>2, CallsLeaveTurns
<1>3. ASSUME \/ \E c \in Call : CallDies(c) \/ Expire(c)
             \/ NewMonth \/ UNCHANGED vars
      PROVE  \A m : PaidIn(m)' = PaidIn(m)
  BY <1>1, <1>3, OthersLeaveHolds
<1>4. ASSUME NEW t \in Turn, Turns(t), NEW c, NEW m, c \in PaidIn(m)'
      PROVE  c \in PaidIn(m) \/ \E u \in Turn : c \in turn[u].metered /\ ~Closed(u)
  <2>1. PICK step \in TurnSteps, plan \in Nat, mm \in Months \cup {0} :
           TurnGoesOn(t, step, plan, mm) /\ (mm # turn[t].month => turn[t].step = "charging")
    BY <1>0, <1>4, TurnStepGoes
  <2>2. /\ turn'[t].month = mm
        /\ \A u \in Turn : /\ turn'[u].metered = turn[u].metered
                           /\ Billed(u)' = Billed(u)
        /\ \A u \in Turn \ {t} : turn'[u] = turn[u]
    BY <1>0, <2>1, TurnGoes DEF Billed
  <2>3. PICK u \in Turn : c \in Billed(u)' /\ Closed(u)' /\ turn'[u].month = m
    BY <1>4 DEF PaidIn
  <2>4. c \in Billed(u) /\ c \in turn[u].metered /\ c \in Call
    BY <2>2, <2>3, MeteredStarted
  <2>5. CASE Closed(u)
    <3>1. turn[u].month = m
      BY <2>1, <2>2, <2>3, <2>5 DEF Closed
    <3>. QED  BY <2>4, <2>5, <3>1 DEF PaidIn
  <2>. QED  BY <2>4, <2>5
<1>5. ASSUME NEW c, NEW m, c \in PaidIn(m)'
      PROVE  c \in PaidIn(m) \/ \E u \in Turn : c \in turn[u].metered /\ ~Closed(u)
  BY <1>2, <1>3, <1>4, <1>5 DEF Next
<1>. QED  BY <1>5 DEF PaidKnown

\* What a step does to the calls: to all, or to all but the one that takes a hold.
LEMMA CallsShrink ==
  ASSUME CreditInv, CreditInv', HoldInv, [Next]_vars
  PROVE  /\ \A d \in Call : HoldTrue(d)' /\ Stands(d)
         /\ \/ \A d \in Call : Shrinks(d)
            \/ \E c \in Call : HoldCredits(c) /\ \A d \in Call \ {c} : Shrinks(d)
<1>1. \A d \in Call : PaidKnown(d)
  BY PaidGoes
<1>2. \A d \in Call : HoldTrue(d) /\ (Shrinks(d) => HoldTrue(d)')
  BY DEF HoldInv, Shrinks
<1>3. ASSUME NEW d \in Call, Steady(d)
      PROVE  Shrinks(d) /\ Stands(d)
  BY <1>1, <1>2, <1>3, SteadyShrinks
<1>4. ASSUME NEW c \in Call, Calls(c) \/ CreditHoldLapses(c), ~HoldCredits(c)
      PROVE  \A d \in Call : Shrinks(d) /\ Stands(d)
  <2>1. CASE QuietCall(c)
    BY <1>3, <2>1, QuietSteady
  <2>2. CASE Answered(c) \/ CreditHoldLapses(c)
             \/ ((HoldFails(c) \/ SettleCredits(c)) /\ ~UNCHANGED creditHold)
    <3>2. Shrinks(c) /\ Stands(c) /\ \A d \in Call \ {c} : Steady(d)
      BY <1>2, <2>2, AnswerShrinks, LapseShrinks, HoldFailsShrinks, SettleShrinks
    <3>. QED  BY <1>3, <3>2
  <2>. QED  BY <1>4, <2>1, <2>2, QuietOr
<1>5. ASSUME NEW c \in Call, HoldCredits(c)
      PROVE  /\ HoldTrue(c)' /\ \A d \in Call : Stands(d)
             /\ \A d \in Call \ {c} : Shrinks(d)
  <2>1. /\ call[c].step = "holding" /\ \E n : hold(c, call[c].turn, n, TRUE)
        /\ CallGoes(c, "sent") /\ UNCHANGED turn
    BY <1>5 DEF HoldCredits
  <2>2. HoldTrue(c)' /\ Stands(c) /\ \A d \in Call \ {c} : Steady(d)
    BY <2>1, HoldTaken
  <2>. QED  BY <1>3, <2>2
<1>6. ASSUME NEW t \in Turn, Turns(t)
      PROVE  \A d \in Call : Shrinks(d) /\ Stands(d)
  <2>1. CASE CloseHolds(t)
    BY <1>1, <1>2, <2>1, CloseHoldsShrinks
  <2>2. CASE ~CloseHolds(t)
    BY <1>3, <1>6, <2>2, TurnSteady
  <2>. QED  BY <2>1, <2>2
<1>7. ASSUME \/ \E c \in Call : CallDies(c) \/ Expire(c)
             \/ NewMonth \/ UNCHANGED vars
      PROVE  \A d \in Call : Shrinks(d) /\ Stands(d)
  BY <1>3, <1>7, OthersLeaveHolds
<1>8. \/ \A d \in Call : Shrinks(d) /\ Stands(d)
      \/ \E c \in Call : HoldCredits(c)
  BY <1>4, <1>6, <1>7 DEF Next
<1>. QED  BY <1>2, <1>5, <1>8

-----------------------------------------------------------------------------
(* The charges follow the turns. *)

\* At most the turn that ends is given a price.
LEMMA PricedFinite ==
  ASSUME CreditInv, IsFiniteSet(Priced), [Next]_vars
  PROVE  IsFiniteSet(Priced')
<1>0. CreditTyped /\ month \in Months
  BY DEF CreditInv, CallsTyped
<1>1. ASSUME \A t \in Turn : turn'[t].plan = turn[t].plan
      PROVE  IsFiniteSet(Priced')
  <2>1. Priced' = Priced
    BY <1>1 DEF Priced
  <2>. QED  BY <2>1
<1>2. ASSUME NEW t \in Turn, Turns(t)
      PROVE  IsFiniteSet(Priced')
  <2>1. \A u \in Turn \ {t} : turn'[u] = turn[u]
    BY <1>0, <1>2, TurnStepGoes, TurnGoes
  <2>2. Priced' \subseteq Priced \cup {t}
    BY <2>1 DEF Priced
  <2>3. IsFiniteSet(Priced \cup {t})
    BY FS_AddElement
  <2>. QED  BY <2>2, <2>3, FS_Subset
<1>3. ASSUME NEW c \in Call, Calls(c) \/ CreditHoldLapses(c)
      PROVE  IsFiniteSet(Priced')
  BY <1>1, <1>3, CallsLeaveTurns
<1>4. ASSUME \/ \E c \in Call : CallDies(c) \/ Expire(c)
             \/ NewMonth \/ UNCHANGED vars
      PROVE  IsFiniteSet(Priced')
  BY <1>1, <1>4, OthersLeaveHolds
<1>. QED  BY <1>2, <1>3, <1>4 DEF Next

LEMMA ChargesStep ==
  ASSUME CreditInv, CreditInv', HoldInv, IsFiniteSet(Started), [Next]_vars
  PROVE  ChargedOnce' /\ PaidIsCharged'
<1>0. CreditTyped /\ month \in Months
  BY DEF CreditInv, CallsTyped
<1>1. (\A c \in Call : Stands(c)) /\ IsFiniteSet(Priced')
  BY CallsShrink, PricedFinite DEF HoldInv, ChargedOnce
<1>2. ChargedOnce /\ PaidIsCharged /\ charged \in [Months -> Nat]
  BY DEF HoldInv, ChargedOnce
<1>3. ASSUME UNCHANGED charged, TurnsStand
      PROVE  ChargedOnce' /\ PaidIsCharged'
  BY <1>1, <1>2, <1>3, ChargesStand
<1>4. ASSUME UNCHANGED charged,
             \A v \in Turn : /\ turn'[v].step = turn[v].step /\ turn'[v].plan = turn[v].plan
                             /\ turn'[v].month = turn[v].month
                             /\ turn[v].step # "open" => /\ turn'[v].metered = turn[v].metered
                                                         /\ turn'[v].tallied = turn[v].tallied
      PROVE  ChargedOnce' /\ PaidIsCharged'
  <2>1. TurnsStand
    BY <1>4 DEF TurnsStand, PastTurn, Closed
  <2>. QED  BY <1>3, <1>4, <2>1
<1>5. ASSUME NEW t \in Turn, Turns(t)
      PROVE  ChargedOnce' /\ PaidIsCharged'
  <2>0. PICK step \in TurnSteps, plan \in Nat, mm \in Months \cup {0} :
          /\ TurnGoesOn(t, step, plan, mm)
          /\ plan # turn[t].plan => turn[t].step = "open" /\ step # "open"
          /\ mm # turn[t].month => turn[t].step = "charging"
    BY <1>0, <1>5, TurnStepGoes
  <2>1. /\ turn'[t].step = step /\ turn'[t].plan = plan /\ turn'[t].month = mm
        /\ \A v \in Turn : /\ turn'[v].metered = turn[v].metered
                           /\ turn'[v].tallied = turn[v].tallied
        /\ \A v \in Turn \ {t} : turn'[v] = turn[v]
    BY <1>0, <2>0, TurnGoes
  <2>2. ASSUME UNCHANGED charged, PastTurn(t) <=> PastTurn(t)', Closed(t) <=> Closed(t)'
        PROVE  ChargedOnce' /\ PaidIsCharged'
    <3>1. PastTurn(t) => plan = turn[t].plan /\ mm = turn[t].month
      BY <2>0 DEF PastTurn
    <3>2. TurnsStand
      <4>1. \A v \in Turn \ {t} : (PastTurn(v)' <=> PastTurn(v)) /\ (Closed(v)' <=> Closed(v))
        BY <2>1 DEF PastTurn, Closed
      <4>. QED  BY <2>1, <2>2, <3>1, <4>1 DEF TurnsStand
    <3>. QED  BY <1>3, <2>2, <3>2
  <2>3. ASSUME UNCHANGED month, \A c \in Call : call'[c].usage = call[c].usage,
               turn[t].step \in {"open", "charging"}, step \in {"closing", "uncharged"},
               plan = turn[t].plan,
               NEW n \in Nat, charged' = [charged EXCEPT ![month] = @ + n],
               n = ChargeOf(t) \/ (n = 0 /\ step = "uncharged"),
               step = "closing" => mm = month \/ n = 0
        PROVE  ChargedOnce' /\ PaidIsCharged'
    <3>1. ~PastTurn(t)
      BY <2>3 DEF PastTurn
    <3>. QED  BY <2>0, <2>3, <3>1, ChargesGrow
  <2>4. TokensOf(Billed(t)) \in Nat /\ ChargeOf(t) \in Nat /\ turn[t].plan \in Nat
    <3>1. Billed(t) \subseteq Started
      BY MeteredStarted
    <3>2. TokensOf(Billed(t)) \in Nat
      BY <3>1, TokensNat DEF CreditInv
    <3>. QED  BY <1>0, <3>2 DEF ChargeOf, CreditTyped, TurnState
  <2>5. UNCHANGED charged => charged' = [charged EXCEPT ![month] = @ + 0]
    BY <1>2
  <2>6. CASE CloseTurn(t)
    <3>1. UNCHANGED <<charged, month, call>> /\ turn[t].step = "open"
      BY <2>6 DEF CloseTurn, creditVars
    <3>2. turn[t].plan = 0
      BY <2>4, <3>1 DEF CreditInv, TallyFits
    <3>3. /\ step = "charging" \/ step = "closing"
          /\ step = "closing" => ~(TokensOf(Billed(t)) + plan > 0)
      <4>1. PICK p \in {0} \cup PlanPrice :
              turn' = [turn EXCEPT ![t].plan = p,
                ![t].step = IF TokensOf(Billed(t)) + p > 0 THEN "charging" ELSE "closing"]
        BY <2>6 DEF CloseTurn
      <4>2. /\ turn'[t].plan = p
            /\ turn'[t].step = IF TokensOf(Billed(t)) + p > 0 THEN "charging" ELSE "closing"
        BY <1>0, <4>1 DEF CreditTyped, TurnState
      <4>. QED  BY <2>1, <4>2
    <3>4. CASE step = "charging"
      <4>1. (PastTurn(t) <=> PastTurn(t)') /\ (Closed(t) <=> Closed(t)')
        BY <2>1, <3>1, <3>4 DEF PastTurn, Closed
      <4>. QED  BY <2>2, <3>1, <4>1
    <3>5. CASE step = "closing"
      <4>1. plan = 0 /\ TokensOf(Billed(t)) = 0 /\ ChargeOf(t) = 0
        BY <2>4, <3>2, <3>3, <3>5 DEF ChargeOf
      <4>. QED  BY <2>3, <2>5, <3>1, <3>2, <3>5, <4>1
    <3>. QED  BY <3>3, <3>4, <3>5
  <2>7. CASE ChargeTurn(t)
    <3>1. /\ turn[t].step = "charging" /\ UNCHANGED <<month, call>>
          /\ charged' = [charged EXCEPT ![month] = @ + ChargeOf(t)]
          /\ turn' = [turn EXCEPT ![t].step = "closing", ![t].month = month]
      BY <2>7 DEF ChargeTurn, charge
    <3>2. turn'[t].step = "closing" /\ turn'[t].month = month
      BY <1>0, <3>1 DEF CreditTyped, TurnState
    <3>3. step = "closing" /\ mm = month /\ plan = turn[t].plan
      BY <2>0, <2>1, <3>1, <3>2
    <3>. QED  BY <2>3, <2>4, <3>1, <3>3
  <2>8. CASE ChargeFails(t)
    <3>1. /\ turn[t].step = "charging" /\ UNCHANGED <<month, call>>
          /\ turn' = [turn EXCEPT ![t].step = "uncharged"]
          /\ \/ charged' = [charged EXCEPT ![month] = @ + ChargeOf(t)]
             \/ UNCHANGED charged
      BY <2>8 DEF ChargeFails, charge, creditVars
    <3>2. turn'[t].step = "uncharged"
      BY <1>0, <3>1 DEF CreditTyped, TurnState
    <3>3. step = "uncharged" /\ plan = turn[t].plan
      BY <2>0, <2>1, <3>1, <3>2
    <3>. QED  BY <2>3, <2>4, <2>5, <3>1, <3>3
  <2>9. CASE CloseHolds(t) \/ CloseHoldsFails(t)
    <3>1. /\ turn[t].step = "closing" /\ UNCHANGED charged
          /\ turn' = [turn EXCEPT ![t].step = "closed"]
      BY <2>9 DEF CloseHolds, CloseHoldsFails, closeHolds, creditVars
    <3>2. turn'[t].step = "closed"
      BY <1>0, <3>1 DEF CreditTyped, TurnState
    <3>3. (PastTurn(t) <=> PastTurn(t)') /\ (Closed(t) <=> Closed(t)')
      BY <3>1, <3>2 DEF PastTurn, Closed
    <3>. QED  BY <2>2, <3>1, <3>3
  <2>10. CASE TurnDies(t)
    <3> DEFINE dead(d) == [call[d] EXCEPT !.step = "done",
                             !.outcome = IF call[d].step = "sent" THEN "unknown" ELSE @]
               end == IF turn[t].step \in {"open", "charging"} THEN "uncharged"
                       ELSE IF turn[t].step = "closing" THEN "closed" ELSE turn[t].step
    <3>1. /\ UNCHANGED <<charged, month>>
          /\ \A d \in Call : call'[d] = IF d \in InFlight(t) THEN dead(d) ELSE call[d]
      BY <2>10 DEF TurnDies, Die, creditVars
    <3>2. turn' = [turn EXCEPT ![t].step = end]
      BY <2>10 DEF TurnDies
    <3>3. \A d \in Call : dead(d).usage = call[d].usage
      BY DEF CreditInv, CallsTyped, Calling
    <3>4. \A d \in Call : call'[d].usage = call[d].usage
      BY <3>1, <3>3
    <3> HIDE DEF dead
    <3>5. turn'[t].step = end /\ turn'[t].plan = turn[t].plan
      BY <1>0, <3>2 DEF CreditTyped, TurnState
    <3>6. step = end /\ plan = turn[t].plan
      BY <2>1, <3>5
    <3>7. CASE turn[t].step \in {"open", "charging"}
      BY <2>3, <2>5, <3>1, <3>4, <3>6, <3>7
    <3>8. CASE turn[t].step \notin {"open", "charging"}
      <4>1. (PastTurn(t) <=> PastTurn(t)') /\ (Closed(t) <=> Closed(t)')
        BY <3>5, <3>8 DEF PastTurn, Closed
      <4>. QED  BY <2>2, <3>1, <4>1
    <3>. QED  BY <3>7, <3>8
  <2>. QED  BY <1>5, <2>6, <2>7, <2>8, <2>9, <2>10 DEF Turns
<1>6. ASSUME NEW c \in Call, Calls(c) \/ CreditHoldLapses(c)
      PROVE  ChargedOnce' /\ PaidIsCharged'
  BY <1>4, <1>6, CallsLeaveTurns
<1>7. ASSUME \/ \E c \in Call : CallDies(c) \/ Expire(c)
             \/ NewMonth \/ UNCHANGED vars
      PROVE  ChargedOnce' /\ PaidIsCharged'
  <2>1. UNCHANGED <<turn, charged>>
    BY <1>7, OthersLeaveHolds
  <2>. QED  BY <1>4, <2>1
<1>. QED  BY <1>5, <1>6, <1>7 DEF Next

-----------------------------------------------------------------------------
(* The account goes over its credits by one call. *)

LEMMA MoreCredits ==
  ASSUME NEW x \in Int, NEW y \in Int, x <= y
  PROVE  /\ creditsFromTokens(x) \in Int /\ creditsFromTokens(y) \in Int
         /\ creditsFromTokens(x) <= creditsFromTokens(y)
<1> DEFINE d == TokensPerCredit
           a == x + d - 1
           b == y + d - 1
<1>1. d \in Nat \ {0}
  BY CreditAssumption
<1>2. a \in Int /\ b \in Int /\ a <= b
  BY <1>1
<1> HIDE DEF a, b, d
<1>3. a \div d \in Int /\ b \div d \in Int /\ a \div d <= b \div d
  BY <1>1, <1>2
<1>. QED  BY <1>3 DEF creditsFromTokens, a, b, d

ClaimOf == [c \in Call |-> Claim(c)]

LEMMA ClaimsNat ==
  ASSUME CreditInv, CreditInv', IsFiniteSet(Started), IsFiniteSet(Started')
  PROVE  /\ \A c \in Call : /\ ClaimOf[c] = Claim(c) /\ ClaimOf[c] \in Nat
                            /\ ClaimOf'[c] = Claim(c)' /\ ClaimOf'[c] \in Nat
         /\ \A m : /\ IsFiniteSet(Taken(m)) /\ Taken(m) \subseteq Call
                   /\ IsFiniteSet(Taken(m)') /\ Taken(m)' \subseteq Call
<1>1. \A c \in Call : Claim(c) \in Nat /\ Claim(c)' \in Nat
  BY ClaimIs
<1>2. ~NoCreditHold.pushed
  BY DEF NoCreditHold
<1>3. \A m : Taken(m) \subseteq Started /\ Taken(m)' \subseteq Started'
  BY <1>2 DEF Taken, Started, CreditInv, Fits
<1>. QED  BY <1>1, <1>3, FS_Subset DEF ClaimOf, Started

\* Whoever claims no more than it did can be left out of what was below the cap.
LEMMA FewerClaims ==
  ASSUME CreditInv, CreditInv', IsFiniteSet(Started), IsFiniteSet(Started'), NEW m,
         NEW last, \A d \in Taken(m)' \ {last} : Shrinks(d),
         NEW T, IsFiniteSet(T), T \subseteq Call, Taken(m) \ {last} \subseteq T
  PROVE  /\ SumFunctionOnSet(ClaimOf', Taken(m)' \ {last}) <= SumFunctionOnSet(ClaimOf, T)
         /\ SumFunctionOnSet(ClaimOf', Taken(m)' \ {last}) \in Nat
         /\ SumFunctionOnSet(ClaimOf, T) \in Nat
<1> DEFINE S == Taken(m)' \ {last}
<1>1. S \in SUBSET T /\ \A c \in S : c \in Call /\ Claim(c)' <= Claim(c)
  BY ClaimsNat DEF Shrinks
<1>2. /\ \A c \in S : ClaimOf'[c] \in Nat /\ ClaimOf'[c] <= ClaimOf[c]
      /\ \A c \in T : ClaimOf[c] \in Nat
  BY <1>1, ClaimsNat
<1> HIDE DEF S
<1>3. SumFunctionOnSet(ClaimOf', S) <= SumFunctionOnSet(ClaimOf, T)
  BY <1>1, <1>2, SumWithin
<1>4. IsFiniteSet(S)
  BY <1>1, FS_Subset
<1>5. SumFunctionOnSet(ClaimOf', S) \in Nat /\ SumFunctionOnSet(ClaimOf, T) \in Nat
  BY <1>2, <1>4, SumNat
<1>. QED  BY <1>3, <1>5 DEF S

\* What the calls of a month claim is charged or held.
LEMMA ClaimsAreHeld ==
  ASSUME CreditInv, HoldInv, IsFiniteSet(Started), NEW m \in Months
  PROVE  /\ SumFunctionOnSet(ClaimOf, Taken(m)) <= charged[m] + Held(m)
         /\ SumFunctionOnSet(ClaimOf, Taken(m)) \in Nat
         /\ charged[m] + Held(m) \in Nat
<1> DEFINE H == {c \in Call : Counts(c) /\ creditHold[c].month = m}
           P == PaidIn(m)
           A == {c \in Taken(m) : Counts(c)}
           B == {c \in Taken(m) : ~Counts(c)}
           W == [c \in Call |-> Weight(c)]
<1>1. H \subseteq Started /\ P \subseteq Started
  <2>1. NoCreditHold.status = "none"
    BY DEF NoCreditHold
  <2>2. P \subseteq Started
    BY PastStarted
  <2>. QED  BY <2>1, <2>2 DEF Started, CreditInv, Fits, Counts
<1>2. A \subseteq H /\ B \subseteq P /\ A \cup B = Taken(m) /\ A \cap B = {}
  BY DEF Taken
<1>3. \A c \in Call : W[c] \in Nat /\ Usage[c] \in Nat
  <2>1. \A c \in Call : creditHold[c].used \in Nat /\ Worst[c] \in Nat
    BY WorstNat DEF CreditInv, CreditTyped, CreditHold
  <2>. QED  BY <2>1, UsageNat DEF CreditInv, Weight
<1>4. /\ \A c \in A : ClaimOf[c] = W[c]
      /\ \A c \in B : ClaimOf[c] = Usage[c]
      /\ A \subseteq Call /\ B \subseteq Call /\ H \subseteq Call /\ P \subseteq Call
  BY DEF ClaimOf, Claim, Usage, Taken, PaidIn
<1>5. Held(m) = SumFunctionOnSet(W, H) /\ TokensOf(P) = SumFunctionOnSet(Usage, P)
  BY DEF Held, TokensOf, Usage
<1> HIDE DEF H, P, A, B, W
<1>6. IsFiniteSet(H) /\ IsFiniteSet(P) /\ IsFiniteSet(A) /\ IsFiniteSet(B)
  BY <1>1, <1>2, FS_Subset
<1>7. Sums(ClaimOf, A) /\ Sums(ClaimOf, B) /\ Sums(W, A) /\ Sums(Usage, B)
  BY <1>3, <1>4, <1>6 DEF Sums
<1>8. SumFunctionOnSet(ClaimOf, Taken(m)) =
        SumFunctionOnSet(ClaimOf, A) + SumFunctionOnSet(ClaimOf, B)
  BY <1>2, <1>7, SumUnion
<1>9. SumFunctionOnSet(ClaimOf, A) = SumFunctionOnSet(W, A)
  BY <1>4, <1>7, SumSame
<1>10. SumFunctionOnSet(ClaimOf, B) = SumFunctionOnSet(Usage, B)
  BY <1>4, <1>7, SumSame
<1>11. /\ SumFunctionOnSet(W, A) <= SumFunctionOnSet(W, H)
       /\ SumFunctionOnSet(W, A) \in Nat /\ SumFunctionOnSet(W, H) \in Nat
  <2>1. A \in SUBSET H /\ \A c \in H : W[c] \in Nat
    BY <1>2, <1>3, <1>4
  <2>. QED  BY <1>6, <2>1, SumSubset
<1>12. /\ SumFunctionOnSet(Usage, B) <= SumFunctionOnSet(Usage, P)
       /\ SumFunctionOnSet(Usage, B) \in Nat /\ SumFunctionOnSet(Usage, P) \in Nat
  <2>1. B \in SUBSET P /\ \A c \in P : Usage[c] \in Nat
    BY <1>2, <1>3, <1>4
  <2>. QED  BY <1>6, <2>1, SumSubset
<1>13. SumFunctionOnSet(Usage, P) <= charged[m] /\ charged[m] \in Nat
  BY <1>5 DEF HoldInv, ChargedOnce, PaidIsCharged, P
<1>. QED  BY <1>5, <1>8, <1>9, <1>10, <1>11, <1>12, <1>13

LEMMA CapStep ==
  ASSUME CreditInv, CreditInv', HoldInv, IsFiniteSet(Started), IsFiniteSet(Started'), [Next]_vars
  PROVE  CapKept'
<1>1. \A m : /\ Claims(Taken(m)) = SumFunctionOnSet(ClaimOf, Taken(m))
             /\ \A last : Claims(Taken(m) \ {last}) = SumFunctionOnSet(ClaimOf, Taken(m) \ {last})
             /\ \A last : Claims(Taken(m) \ {last})' =
                            SumFunctionOnSet(ClaimOf', Taken(m)' \ {last})
  BY DEF Claims, ClaimOf
<1>2. Cap \in Nat
  BY CreditAssumption
<1>3. ASSUME NEW m \in Months, Taken(m)' # {},
             NEW last \in Call, \A d \in Taken(m)' \ {last} : Shrinks(d),
             NEW T, IsFiniteSet(T), T \subseteq Call, Taken(m) \ {last} \subseteq T,
             creditsFromTokens(SumFunctionOnSet(ClaimOf, T)) < Cap
      PROVE  creditsFromTokens(Claims(Taken(m) \ {last})') < Cap
  <2> DEFINE new == SumFunctionOnSet(ClaimOf', Taken(m)' \ {last})
             old == SumFunctionOnSet(ClaimOf, T)
  <2>1. new <= old /\ new \in Nat /\ old \in Nat
    BY <1>3, FewerClaims
  <2> HIDE DEF new, old
  <2>2. /\ creditsFromTokens(new) \in Int /\ creditsFromTokens(old) \in Int
        /\ creditsFromTokens(new) <= creditsFromTokens(old)
    BY <2>1, MoreCredits
  <2>3. creditsFromTokens(new) < Cap
    BY <1>2, <1>3, <2>2 DEF old
  <2>. QED  BY <1>1, <2>3 DEF new
<1>4. ASSUME NEW m \in Months, Taken(m)' # {}, \A d \in Call : Shrinks(d)
      PROVE  \E last \in Call : creditsFromTokens(Claims(Taken(m) \ {last})') < Cap
  <2>1. Taken(m) # {}
    BY <1>4, ClaimsNat DEF Shrinks
  <2>2. PICK last \in Call : creditsFromTokens(Claims(Taken(m) \ {last})) < Cap
    BY <2>1 DEF HoldInv, CapKept
  <2> DEFINE T == Taken(m) \ {last}
  <2>3. IsFiniteSet(T) /\ T \subseteq Call /\ Taken(m) \ {last} \subseteq T
    BY ClaimsNat, FS_Subset
  <2>4. creditsFromTokens(SumFunctionOnSet(ClaimOf, T)) < Cap
    BY <1>1, <2>2
  <2> HIDE DEF T
  <2>5. \A d \in Taken(m)' \ {last} : Shrinks(d)
    BY <1>4, ClaimsNat
  <2>6. creditsFromTokens(Claims(Taken(m) \ {last})') < Cap
    BY <1>3, <1>4, <2>3, <2>4, <2>5
  <2>. QED  BY <2>6
<1>5. ASSUME NEW m \in Months, Taken(m)' # {}, NEW c \in Call, HoldCredits(c),
             \A d \in Call \ {c} : Shrinks(d)
      PROVE  \E last \in Call : creditsFromTokens(Claims(Taken(m) \ {last})') < Cap
  <2>1. PICK n \in Months : ~Exhausted(n) /\ hold(c, call[c].turn, n, TRUE)
    BY <1>5 DEF HoldCredits, MonthRead
  <2>2. creditHold'[c].month = n
    BY <1>5, <2>1, HoldTaken DEF HoldCredits
  <2>3. IsFiniteSet(Taken(m)) /\ Taken(m) \subseteq Call
    BY ClaimsNat
  <2>4. CASE m = n
    <3> DEFINE now == SumFunctionOnSet(ClaimOf, Taken(m))
               all == charged[m] + Held(m)
    <3>1. now <= all /\ now \in Nat /\ all \in Nat
      BY ClaimsAreHeld
    <3>2. ~(creditsFromTokens(all) >= Cap)
      BY <2>1, <2>4 DEF Exhausted
    <3> HIDE DEF now, all
    <3>3. /\ creditsFromTokens(now) \in Int /\ creditsFromTokens(all) \in Int
          /\ creditsFromTokens(now) <= creditsFromTokens(all)
      BY <3>1, MoreCredits
    <3>4. creditsFromTokens(SumFunctionOnSet(ClaimOf, Taken(m))) < Cap
      BY <1>2, <3>2, <3>3 DEF now
    <3>5. \A d \in Taken(m)' \ {c} : Shrinks(d)
      BY <1>5, ClaimsNat
    <3>. QED  BY <1>3, <1>5, <2>3, <3>4, <3>5
  <2>5. CASE m # n
    <3>1. c \notin Taken(m)'
      BY <2>2, <2>5, TakenIs
    <3>2. Taken(m) # {}
      BY <1>5, <3>1, ClaimsNat DEF Shrinks
    <3>3. PICK last \in Call : creditsFromTokens(Claims(Taken(m) \ {last})) < Cap
      BY <3>2 DEF HoldInv, CapKept
    <3> DEFINE T == Taken(m) \ {last}
    <3>4. IsFiniteSet(T) /\ T \subseteq Call /\ Taken(m) \ {last} \subseteq T
      BY <2>3, FS_Subset
    <3>5. creditsFromTokens(SumFunctionOnSet(ClaimOf, T)) < Cap
      BY <1>1, <3>3
    <3>6. \A d \in Taken(m)' \ {last} : Shrinks(d)
      BY <1>5, <3>1, ClaimsNat
    <3> HIDE DEF T
    <3>7. creditsFromTokens(Claims(Taken(m) \ {last})') < Cap
      BY <1>3, <1>5, <3>4, <3>5, <3>6
    <3>. QED  BY <3>7
  <2>. QED  BY <2>4, <2>5
<1>6. ASSUME NEW m \in Months, Taken(m)' # {}
      PROVE  \E last \in Call : creditsFromTokens(Claims(Taken(m) \ {last})') < Cap
  BY <1>4, <1>5, <1>6, CallsShrink
<1>. QED  BY <1>6 DEF CapKept, creditsFromTokens

LEMMA MoneyStep ==
  ASSUME MoneyInv, [Next]_vars
  PROVE  MoneyInv'
<1>1. SpendInv' /\ BookInv' /\ CreditInv'
  BY LimitsStep, BookStep, CreditStep DEF MoneyInv
<1>2. IsFiniteSet(Started) /\ IsFiniteSet(Started')
  BY <1>1 DEF MoneyInv, BookInv
<1>3. ChargedOnce' /\ PaidIsCharged'
  BY <1>1, <1>2, ChargesStep DEF MoneyInv
<1>4. CapKept'
  BY <1>1, <1>2, CapStep DEF MoneyInv
<1>5. \A c \in Call : HoldTrue(c)'
  BY <1>1, CallsShrink DEF MoneyInv
<1>. QED  BY <1>1, <1>3, <1>4, <1>5 DEF MoneyInv, HoldInv

LEMMA MoneyStarts ==
  ASSUME Init
  PROVE  MoneyInv
<1>1. SpendInv /\ BookInv /\ CreditInv
  BY LimitsInit, BookStarts, CreditStarts
<1>2. /\ \A c \in Call : creditHold[c] = NoCreditHold
      /\ \A t \in Turn : /\ turn[t].step = "open" /\ turn[t].metered = {}
                         /\ turn[t].tallied = {} /\ turn[t].plan = 0
      /\ charged = [m \in Months |-> 0] /\ month = 1
  BY DEF Init, CreditInit, NewTurn
<1>3. ~NoCreditHold.pushed /\ NoCreditHold.month = 0 /\ NoCreditHold.status = "none"
  BY DEF NoCreditHold
<1>4. /\ Past = {} /\ PaidFor = {} /\ PastPlans = {} /\ Priced = {}
      /\ \A m : PaidIn(m) = {} /\ Taken(m) = {}
  <2>1. \A t \in Turn : ~PastTurn(t) /\ ~Closed(t)
    BY <1>2 DEF PastTurn, Closed
  <2>2. \A m : PaidIn(m) = {}
    BY <2>1 DEF PaidIn
  <2>. QED  BY <1>2, <1>3, <2>1, <2>2 DEF Past, PaidFor, PastPlans, Priced, Taken, Counts
<1>5. TokensOf({}) = 0 /\ PricesOf({}) = 0
  BY SumEmpty DEF TokensOf, PricesOf
<1>6. ChargedOnce
  <2>1. charged \in [Months -> Nat] /\ DOMAIN charged = Months /\ \A m \in Months : charged[m] = 0
    BY <1>2
  <2>2. SumFunction(charged) = SumFunctionOnSet(charged, Months)
    BY <2>1 DEF SumFunction
  <2>3. SumFunctionOnSet(charged, Months) = 0
    BY <2>1, MonthsFinite, SumZero
  <2>. QED  BY <1>4, <1>5, <2>1, <2>2, <2>3, FS_EmptySet DEF ChargedOnce
<1>7. PaidIsCharged
  <2>1. charged \in [Months -> Nat] /\ DOMAIN charged = Months /\ \A m \in Months : charged[m] = 0
    BY <1>2
  <2>2. SumFunction(charged) = 0
    BY <2>1, MonthsFinite, SumZero DEF SumFunction
  <2>. QED  BY <1>4, <1>5, <2>1, <2>2 DEF PaidIsCharged
<1>8. CapKept
  BY <1>4 DEF CapKept
<1>9. \A c \in Call : HoldTrue(c)
  <2> SUFFICES ASSUME NEW c \in Call
               PROVE  HoldTrue(c)
    OBVIOUS
  <2>1. ~Metering(c)
    BY <1>2 DEF Metering
  <2>2. creditHold[c].status = "none"
    BY <1>2, <1>3
  <2>. QED  BY <2>1, <2>2 DEF HoldTrue
<1>. QED  BY <1>1, <1>6, <1>7, <1>8, <1>9 DEF MoneyInv, HoldInv

\* The whole inductive invariant, for any calls, prices, limits, cap, turns and
\* faults: the ledger within its limits and balanced, every hold true to its call,
\* no call charged twice, and no month over its cap but by the last call that held.
THEOREM MoneyInvariant == Spec => []MoneyInv
<1>1. Init => MoneyInv
  BY MoneyStarts
<1>2. MoneyInv /\ [Next]_vars => MoneyInv'
  BY MoneyStep
<1>. QED  BY <1>1, <1>2, PTL DEF Spec

\* What a customer is charged never exceeds what the calls it pays for used that
\* answered, and the prices of the plans it had built: no call is charged twice,
\* with its turn or with another, none of the platform's, none whose answer was
\* lost, and no plan twice.
THEOREM AnswersAreCharged == Spec => []ChargedForAnswers
<1> DEFINE Ours == {c \in Call : call[c].payer = "customer" /\ call[c].outcome = "ran"}
<1>1. ASSUME MoneyInv
      PROVE  ChargedForAnswers
  <2>1. Past \subseteq Ours
    <3>1. ASSUME NEW c \in Call, NEW t \in Turn, c \in Billed(t)
          PROVE  c \in turn[t].metered
      BY <1>1, <3>1 DEF MoneyInv, CreditInv, TallyFits, Billed
    <3>2. ASSUME NEW c \in Call, NEW t \in Turn, c \in turn[t].metered
          PROVE  c \in Ours
      BY <1>1, <3>2 DEF MoneyInv, HoldInv, HoldTrue, Metering, CreditInv, Fits
    <3>. QED  BY <3>1, <3>2 DEF Past
  <2>2. Ours \subseteq Started
    BY <1>1 DEF MoneyInv, BookInv, Agree, Started
  <2>3. /\ IsFiniteSet(Ours) /\ TokensOf(Ours) = SumFunctionOnSet(Usage, Ours)
        /\ TokensOf(Past) = SumFunctionOnSet(Usage, Past)
        /\ \A c \in Ours : Usage[c] \in Nat
    <3>1. CallsTyped /\ IsFiniteSet(Started)
      BY <1>1 DEF MoneyInv, BookInv, CreditInv
    <3>2. Past \subseteq Started
      BY <2>1, <2>2
    <3> HIDE DEF Ours
    <3>3. \A c \in Ours : Usage[c] \in Nat
      BY <2>2, <3>1, UsageNat DEF Started
    <3>. QED  BY <2>2, <3>1, <3>2, <3>3, TokensNat
  <2>4. /\ SumFunction(charged) <= TokensOf(Past) + PricesOf(PastPlans)
        /\ charged \in [Months -> Nat]
    BY <1>1 DEF MoneyInv, HoldInv, ChargedOnce
  <2>7. /\ PricesOf(PastPlans) <= SumFunctionOnSet(Plans, Priced)
        /\ PricesOf(PastPlans) \in Nat /\ SumFunctionOnSet(Plans, Priced) \in Nat
    <3>1. PastPlans \in SUBSET Priced /\ IsFiniteSet(Priced) /\ \A t \in Priced : Plans[t] \in Nat
      BY <1>1 DEF MoneyInv, HoldInv, ChargedOnce, PastPlans, Priced, Plans, CreditInv, CreditTyped,
         TurnState
    <3>2. PricesOf(PastPlans) = SumFunctionOnSet(Plans, PastPlans)
      BY DEF PricesOf, Plans
    <3>. QED  BY <3>1, <3>2, SumSubset
  <2>5. SumFunction(charged) \in Nat
    <3>1. DOMAIN charged = Months /\ \A m \in Months : charged[m] \in Nat
      BY <2>4
    <3>2. SumFunction(charged) = SumFunctionOnSet(charged, Months)
      BY <3>1 DEF SumFunction
    <3>. QED  BY <3>1, <3>2, MonthsFinite, SumNat
  <2>6. SumFunction(charged) <= TokensOf(Ours) + SumFunctionOnSet(Plans, Priced)
    <3> HIDE DEF Ours
    <3>1. /\ SumFunctionOnSet(Usage, Past) <= SumFunctionOnSet(Usage, Ours)
          /\ SumFunctionOnSet(Usage, Past) \in Nat /\ SumFunctionOnSet(Usage, Ours) \in Nat
      BY <2>1, <2>3, SumSubset
    <3>. QED  BY <2>3, <2>4, <2>5, <2>7, <3>1
  <2>. QED  BY <2>6 DEF ChargedForAnswers, Plans, Priced
<1>2. MoneyInv => ChargedForAnswers
  BY <1>1
<1>. QED  BY <1>2, MoneyInvariant, PTL

\* What the calls that took credits of a month have used is below the cap but for
\* one of them: "an account goes over its credits by at most one call".
LEMMA CountedIsTaken ==
  ASSUME CreditInv, HoldInv, IsFiniteSet(Started), NEW m \in Months,
         NEW S, S \subseteq Taken(m)
  PROVE  S = {} \/ \E last \in S : creditsFromTokens(TokensOf(S \ {last})) < Cap
<1> SUFFICES ASSUME S # {}
             PROVE  \E last \in S : creditsFromTokens(TokensOf(S \ {last})) < Cap
  OBVIOUS
<1>1. PICK last \in Call : creditsFromTokens(Claims(Taken(m) \ {last})) < Cap
  BY DEF HoldInv, CapKept
<1> DEFINE T == Taken(m) \ {last}
<1>2. PICK x \in S : S \ {x} \subseteq T
  <2>1. PICK y \in S : TRUE
    OBVIOUS
  <2>2. IF last \in S THEN S \ {last} \subseteq T ELSE S \ {y} \subseteq T
    OBVIOUS
  <2>. QED  BY <2>1, <2>2
<1> DEFINE R == S \ {x}
<1>3. T \subseteq Call /\ T \subseteq Started
  <2>1. ~NoCreditHold.pushed
    BY DEF NoCreditHold
  <2>. QED  BY <2>1 DEF Taken, Started, CreditInv, Fits
<1>4. \A c \in Call : /\ ClaimOf[c] = Claim(c) /\ Usage[c] = call[c].usage
                      /\ Claim(c) \in Nat /\ call[c].usage \in Nat /\ call[c].usage <= Worst[c]
                      /\ HoldTrue(c) => call[c].usage <= Claim(c)
  <2> SUFFICES ASSUME NEW c \in Call
               PROVE  /\ Claim(c) \in Nat /\ call[c].usage \in Nat /\ call[c].usage <= Worst[c]
                      /\ HoldTrue(c) => call[c].usage <= Claim(c)
    BY DEF ClaimOf, Usage
  <2>1. /\ call[c] \in Calling /\ call[c].usage <= Worst[c] /\ creditHold[c] \in CreditHold
    BY DEF CreditInv, CallsTyped, CreditTyped
  <2>2. /\ \A r \in Calling : r.usage \in Nat
        /\ \A h \in CreditHold : h.used \in Nat
    BY DEF Calling, CreditHold
  <2>3. Worst[c] \in Nat
    BY WorstNat
  <2>4. HoldTrue(c) /\ creditHold[c].status = "used" => creditHold[c].used = call[c].usage
    BY DEF HoldTrue
  <2>5. Claim(c) \in {Worst[c], creditHold[c].used, call[c].usage}
    BY DEF Claim, Weight
  <2>6. Claim(c) = Worst[c] \/ Claim(c) = call[c].usage \/ creditHold[c].status = "used"
    BY DEF Claim, Weight, Counts
  <2>7. creditHold[c].status = "used" => Claim(c) \in {creditHold[c].used, call[c].usage}
    BY DEF Claim, Weight
  <2>. QED  BY <2>1, <2>2, <2>3, <2>4, <2>5, <2>6, <2>7
<1>5. /\ Claims(T) = SumFunctionOnSet(ClaimOf, T)
      /\ TokensOf(R) = SumFunctionOnSet(Usage, R)
  BY DEF Claims, ClaimOf, TokensOf, Usage
<1>6. R \in SUBSET T /\ R \subseteq Call
  BY <1>2, <1>3
<1> HIDE DEF T, R
<1>7. IsFiniteSet(T) /\ IsFiniteSet(R)
  BY <1>3, <1>6, FS_Subset
<1>8. /\ \A c \in R : Usage[c] \in Nat /\ Usage[c] <= ClaimOf[c]
      /\ \A c \in T : ClaimOf[c] \in Nat
  BY <1>3, <1>4, <1>6 DEF HoldInv
<1>9. SumFunctionOnSet(Usage, R) <= SumFunctionOnSet(ClaimOf, T)
  BY <1>6, <1>7, <1>8, SumWithin
<1>10. SumFunctionOnSet(Usage, R) \in Nat /\ SumFunctionOnSet(ClaimOf, T) \in Nat
  BY <1>7, <1>8, SumNat
<1>11. creditsFromTokens(Claims(T)) < Cap
  BY <1>1 DEF T
<1>12. creditsFromTokens(TokensOf(R)) < Cap
  <2> DEFINE new == TokensOf(R)
             old == Claims(T)
  <2>1. new \in Int /\ old \in Int /\ new <= old
    BY <1>5, <1>9, <1>10
  <2> HIDE DEF new, old
  <2>2. /\ creditsFromTokens(new) \in Int /\ creditsFromTokens(old) \in Int
        /\ creditsFromTokens(new) <= creditsFromTokens(old)
    BY <2>1, MoreCredits
  <2>3. creditsFromTokens(old) < Cap /\ Cap \in Int
    BY <1>11, CreditAssumption DEF old
  <2>4. creditsFromTokens(new) < Cap
    BY <2>2, <2>3
  <2>. QED  BY <2>4 DEF new
<1>. QED  BY <1>12 DEF R

\* An account goes over its credits by at most one call, for any cap, any number
\* of calls and turns at once, and any prices: a call holds its worst case under
\* the account's lock, in the month it read before, and what it used counts until
\* its turn is charged. The price of a plan, the calls without a hold and those a
\* chat is not charged for are beside the cap.
THEOREM OneCallOver == Spec => []OverByOneCall
<1> DEFINE counted(m) == {c \in Unpaid \cup PaidIn(m) :
                            /\ creditHold[c].month = m
                            /\ creditHold[c].pushed /\ ~creditHold[c].lapsed}
<1>1. ASSUME MoneyInv, NEW m \in Months
      PROVE  \/ counted(m) = {}
             \/ \E last \in counted(m) : creditsFromTokens(TokensOf(counted(m) \ {last})) < Cap
  <2>1. CreditInv /\ HoldInv /\ IsFiniteSet(Started)
    BY <1>1 DEF MoneyInv, BookInv
  <2>2. \A c \in Unpaid : Counts(c)
    BY <2>1 DEF Unpaid, CreditInv, Fits
  <2>3. counted(m) \subseteq Taken(m)
    BY <2>2 DEF Taken, Unpaid, PaidIn
  <2> HIDE DEF counted
  <2>. QED  BY <2>1, <2>3, CountedIsTaken
<1>2. MoneyInv => OverByOneCall
  BY <1>1, Zenon DEF OverByOneCall
<1>. QED  BY <1>2, MoneyInvariant, PTL

\* What a held call used counts from its answer, as a hold until its turn is
\* charged and in the charged totals from then on, for any calls, turns, credits
\* and faults, and whether or not the hold expired meanwhile: "charge first, then
\* close". Left out are the calls that outlive their turn, those whose hold
\* expired and whose turn is not charged yet, and those of a chat that its brain
\* does not report.
THEOREM UseCounted == Spec => []UseIsCounted
<1> DEFINE H == {c \in Call : Counts(c)}
           W == [c \in Call |-> Weight(c)]
           L == Unpaid \ PaidFor
<1>1. ASSUME MoneyInv
      PROVE  UseIsCounted
  <2>1. CreditInv /\ HoldInv /\ CallsTyped /\ IsFiniteSet(Started)
    BY <1>1 DEF MoneyInv, BookInv, CreditInv
  <2>2. L \in SUBSET H
    BY <2>1 DEF Unpaid, CreditInv, Fits
  <2>3. H \subseteq Started
    <3>1. NoCreditHold.status = "none"
      BY DEF NoCreditHold
    <3>. QED  BY <2>1, <3>1 DEF Started, CreditInv, Fits, Counts
  <2>4. IsFiniteSet(H) /\ PaidFor \subseteq Started
    BY <2>1, <2>3, FS_Subset, PastStarted
  <2>5. ASSUME NEW c \in H
        PROVE  Usage[c] \in Nat /\ W[c] \in Nat /\ Usage[c] <= W[c]
    <3>1. /\ Usage[c] = call[c].usage /\ Usage[c] \in Nat /\ call[c].usage <= Worst[c]
      BY <2>1, UsageNat DEF CallsTyped
    <3>2. /\ Worst[c] \in Nat /\ creditHold[c].used \in Nat
      BY <2>1, WorstNat DEF CreditInv, CreditTyped, CreditHold
    <3>3. creditHold[c].status = "used" => creditHold[c].used = call[c].usage
      BY <2>1 DEF HoldInv, HoldTrue
    <3>. QED  BY <3>1, <3>2, <3>3 DEF Counts, Weight
  <2> HIDE DEF H, W, L
  <2>6. SumFunctionOnSet(Usage, L) <= SumFunctionOnSet(W, H)
    BY <2>2, <2>4, <2>5, SumWithin
  <2>7. /\ TokensOf(L) = SumFunctionOnSet(Usage, L) /\ TokensOf(L) \in Nat
        /\ TokensOf(PaidFor) \in Nat
    BY <2>1, <2>2, <2>3, <2>4, TokensNat
  <2>8. TokensOf(PaidFor \cup L) = TokensOf(PaidFor) + TokensOf(L)
    <3>1. PaidFor \cap L = {} /\ L \subseteq Started
      BY <2>2, <2>3 DEF L
    <3>. QED  BY <2>1, <2>4, <3>1, TokensAdd
  <2>9. PaidFor \cup Unpaid = PaidFor \cup L
    BY DEF L
  <2>10. TokensOf(PaidFor) <= SumFunction(charged) /\ charged \in [Months -> Nat]
    BY <2>1 DEF HoldInv, PaidIsCharged, ChargedOnce
  <2>11. SumFunction(charged) \in Nat /\ SumFunctionOnSet(W, H) \in Nat
    <3>1. DOMAIN charged = Months /\ \A m \in Months : charged[m] \in Nat
      BY <2>10
    <3>2. SumFunction(charged) = SumFunctionOnSet(charged, Months)
      BY <3>1 DEF SumFunction
    <3>. QED  BY <2>4, <2>5, <3>1, <3>2, MonthsFinite, SumNat
  <2>12. TokensOf(PaidFor \cup Unpaid) <= SumFunction(charged) + SumFunctionOnSet(W, H)
    BY <2>6, <2>7, <2>8, <2>9, <2>10, <2>11
  <2>. QED  BY <2>12 DEF UseIsCounted, H, W
<1>2. MoneyInv => UseIsCounted
  BY <1>1
<1>. QED  BY <1>2, MoneyInvariant, PTL

\* Every variable keeps to its type: the ledger, the holds, what is charged, the
\* calls with their use within their worst case, the turns, the month, the faults.
THEOREM MoneyTypes == Spec => []TypeOK
<1>1. MoneyInv /\ faults \in 0 .. MaxFaults => TypeOK
  BY DEF MoneyInv, SpendInv, CreditInv, CreditTyped, CallsTyped, HoldInv, ChargedOnce, TypeOK,
     CreditTypeOK
<1>2. Init => faults \in 0 .. MaxFaults
  BY CallsAssumption DEF Init
<1>3. faults \in 0 .. MaxFaults /\ [Next]_vars => (faults \in 0 .. MaxFaults)'
  <2>1. ASSUME NEW c \in Call, Calls(c) \/ CallDies(c) \/ Expire(c) \/ CreditHoldLapses(c)
        PROVE  Fault \/ NoFault
    BY <2>1 DEF Calls, ReserveSpend, ReserveRefused, ReserveFails, HoldCredits, CreditsExhausted,
       HoldFails, HoldSkipped, GiveBack, Answered, NotRun, AnswerLost, SettleSpend,
       SettleSpendFails, SettleCredits, SettleCreditsFails, CallDies, Die, Expire, CreditHoldLapses
  <2>2. ASSUME NEW t \in Turn, Turns(t)
        PROVE  Fault \/ NoFault
    BY <2>2 DEF Turns, CloseTurn, ChargeTurn, ChargeFails, CloseHolds, CloseHoldsFails, TurnDies,
       Die
  <2>3. ASSUME NewMonth \/ UNCHANGED vars
        PROVE  Fault \/ NoFault
    BY <2>3 DEF NewMonth, vars, NoFault
  <2>4. [Next]_vars => Fault \/ NoFault
    BY <2>1, <2>2, <2>3 DEF Next
  <2>. QED  BY <2>4, CallsAssumption DEF Fault, NoFault
<1>. QED  BY <1>1, <1>2, <1>3, MoneyInvariant, PTL DEF Spec
===============================================================================
