---------------------------- MODULE QuotaDocument ----------------------------
(***************************************************************************)
(* The quota document of one subscriber (internal/quota): the counters     *)
(* stored as one JSON value in the quota table, and what every operation   *)
(* of the quota manager makes of it.  Nothing here has state: the ledger   *)
(* and the store apply these operators to the documents they hold.         *)
(*                                                                         *)
(* Amounts are integers in the smallest unit the decimals of an instance   *)
(* need.  A reservation of amount 0 is no reservation: the code never      *)
(* stores one and deletes a reservation it has used up.                    *)
(***************************************************************************)
EXTENDS Loops, FiniteSets

CONSTANTS
  NumCounters,  \* counters the subscriber can be given, by falling priority
  NumRefs,      \* reservation ids (grant ids) the engine can draw
  Monetary,     \* the counters whose unit type is MONETARY
  Repays,       \* the counters provisioned with CanRepayLoan
  Initial,      \* [Counter -> initial balance]
  ExpiryAt,     \* [Counter -> expiry time]; beyond the last tick: never
  LoanTerms,    \* [Counter -> the LoanInfo of the provisioning event]
  Tariff,       \* [Ref -> what the engine passes with the reservation]
  Validity      \* lifetime of a reservation

Counter == 1..NumCounters

Ref == 1..NumRefs

\* given: LoanInfo is present; percent: ClawbackPercentage in hundredths.
LoanInfo ==
  [given : BOOLEAN, fee : Nat, minimum : Nat, percent : 0..100]

\* money: the unit type asked for is MONETARY; matches: the counters whose
\* selection keys match the rate key; num/den: the multiplier;
\* taxed: the price with tax; oob: AllowOOBCharging.
TariffTerms ==
  [money : BOOLEAN, matches : SUBSET Counter, num : Nat \ {0},
   den : Nat \ {0}, price : Nat \ {0}, taxed : Nat \ {0}, oob : BOOLEAN]

ASSUME SizeAssumption == NumCounters \in Nat /\ NumRefs \in Nat

ASSUME CounterAssumption ==
  /\ Monetary \subseteq Counter
  /\ Repays \subseteq Counter
  /\ Initial \in [Counter -> Nat]
  /\ ExpiryAt \in [Counter -> Nat]
  /\ LoanTerms \in [Counter -> LoanInfo]

\* An exact value of every unit in the multiplied and in the plain domain.
ASSUME TariffAssumption ==
  /\ Tariff \in [Ref -> TariffTerms]
  /\ \A r \in Ref : Tariff[r].taxed % Tariff[r].den = 0

ASSUME ValidityAssumption == Validity \in Nat

\* One unit of use is one unit of a service counter, and at most one monetary
\* counter can be asked to pay.
Plain(r) ==
  /\ Tariff[r].num = Tariff[r].den
  /\ Cardinality(Tariff[r].matches \cap Monetary) <= 1

Reservation == [amount : Nat, until : Nat]

NoReservation == [amount |-> 0, until |-> 0]

\* position: the index in the slice of counters, counted from 1; 0 when the
\* counter is not on the quota.  loan and fee: LoanBalance and TransactFee.
CounterState ==
  [position : Nat, balance : Nat, reserved : [Ref -> Reservation],
   loan : Nat, fee : Nat]

Document == [Counter -> CounterState]

Unreserved == [r \in Ref |-> NoReservation]

Absent ==
  [position |-> 0, balance |-> 0, reserved |-> Unreserved,
   loan |-> 0, fee |-> 0]

EmptyDocument == [c \in Counter |-> Absent]

Live(state) == state.position > 0

Reserved(state) == Total([r \in Ref |-> state.reserved[r].amount], NumRefs)

\* Mutant: reservations of others are not deducted.
AvailableGross(state) == state.balance

Available(state) == state.balance - Reserved(state)

-----------------------------------------------------------------------------
\* Units of use in units of the counter, and back; both cut off the fraction.
Up(r, units) == (Tariff[r].num * units) \div Tariff[r].den

Down(r, units) == (Tariff[r].den * units) \div Tariff[r].num

\* What units of use cost, tax and multiplier included.
Cost(r, units) == (Tariff[r].taxed \div Tariff[r].den) * Tariff[r].num * units

\* The counters a reservation may draw on.  The expiry is not looked at.
Matching(doc, r, money) ==
  {c \in Tariff[r].matches : Live(doc[c]) /\ (c \in Monetary <=> money)}

Hold(state, r, amount, t) ==
  IF amount > 0
    THEN [state EXCEPT !.reserved[r] = [amount |-> amount, until |-> t + Validity]]
    ELSE state

\* What counter c gives towards units that are still wanted.
ServiceTake(doc, r, c, wanted) ==
  IF c \in Matching(doc, r, FALSE) /\ wanted > 0
    THEN Least(Available(doc[c]), Up(r, wanted))
    ELSE 0

\* Units granted after each counter, in the order of priority.
ServiceGranted(doc, r, units) ==
  Loop(NumCounters, 0,
       [c \in Counter |->
          [granted \in Int |-> granted + ServiceTake(doc, r, c, units - granted)]])

ReserveService(doc, r, units, t) ==
  LET granted == ServiceGranted(doc, r, units)
  IN  [doc     |-> [c \in Counter |->
                      Hold(doc[c], r, ServiceTake(doc, r, c, units - granted[c - 1]), t)],
       granted |-> granted[NumCounters]]

\* How many units the matching monetary counters can pay, priced without the
\* multiplier.
Affordable(doc, r) ==
  Total([c \in Counter |->
           IF c \in Matching(doc, r, TRUE) THEN Available(doc[c]) ELSE 0],
        NumCounters) \div Tariff[r].taxed

\* What counter c gives towards a value that is still to be reserved.
ValueTake(doc, r, c, value) ==
  IF c \in Matching(doc, r, TRUE) /\ value > 0
    THEN Greatest(Least(Available(doc[c]), value), 0)
    ELSE 0

\* Value still to be reserved after each counter.
ValueWanted(doc, r, units) ==
  Loop(NumCounters, Cost(r, units),
       [c \in Counter |-> [value \in Int |-> value - ValueTake(doc, r, c, value)]])

ReserveMonetary(doc, r, units, t) ==
  LET granted == Least(Affordable(doc, r), units)
      wanted  == ValueWanted(doc, r, granted)
  IN  [doc     |-> [c \in Counter |->
                      Hold(doc[c], r, ValueTake(doc, r, c, wanted[c - 1]), t)],
       granted |-> granted]

\* A request for money draws on the monetary counters; a request for service
\* units goes to them only out of bundle, for what the service counters lack.
ReserveQuota(doc, r, units, t) ==
  LET service == ReserveService(doc, r, units, t)
      extra   == ReserveMonetary(service.doc, r, units - service.granted, t)
  IN  IF Tariff[r].money
        THEN ReserveMonetary(doc, r, units, t)
      ELSE IF Tariff[r].oob /\ service.granted < units
        THEN [doc |-> extra.doc, granted |-> service.granted + extra.granted]
        ELSE service

-----------------------------------------------------------------------------
\* The counters that hold a reservation under r.
Holding(doc, r, money) ==
  {c \in Counter : doc[c].reserved[r].amount > 0 /\ (c \in Monetary <=> money)}

\* Account an amount to a counter; the rest of the reservation stays unless
\* it is dropped or nothing is left of it.
Spend(state, r, amount, drop) ==
  LET held == state.reserved[r]
  IN  [state EXCEPT
         !.balance = Greatest(@ - amount, 0),
         !.reserved[r] = IF drop \/ held.amount = amount
                           THEN NoReservation
                           ELSE [held EXCEPT !.amount = held.amount - amount]]

\* Mutant: more is accounted than the counter has reserved.
ServiceAccountUncapped(doc, r, c, units) ==
  IF c \in Holding(doc, r, FALSE) THEN Up(r, units) ELSE 0

ServiceAccount(doc, r, c, units) ==
  IF c \in Holding(doc, r, FALSE)
    THEN Least(doc[c].reserved[r].amount, Up(r, units))
    ELSE 0

\* Units of use not yet accounted after each counter.
ServiceUnspent(doc, r, units) ==
  Loop(NumCounters, units,
       [c \in Counter |-> [left \in Nat |->
          IF c \in Holding(doc, r, FALSE)
            THEN Down(r, Up(r, left) - ServiceAccount(doc, r, c, left))
            ELSE left]])

DebitService(doc, r, units, reclaim) ==
  LET left    == ServiceUnspent(doc, r, units)
      account == [c \in Counter |-> ServiceAccount(doc, r, c, left[c - 1])]
  IN  [doc   |-> [c \in Counter |->
                    IF c \in Holding(doc, r, FALSE)
                      THEN Spend(doc[c], r, account[c], reclaim)
                      ELSE doc[c]],
       spent |-> account,
       left  |-> left[NumCounters]]

ValueAccount(doc, r, c, value) ==
  IF c \in Holding(doc, r, TRUE)
    THEN Least(doc[c].reserved[r].amount, Greatest(value, 0))
    ELSE 0

ValueUnspent(doc, r, units) ==
  Loop(NumCounters, Cost(r, units),
       [c \in Counter |-> [value \in Int |-> value - ValueAccount(doc, r, c, value)]])

\* A counter reached when everything is paid loses its reservation, reclaim
\* or not.  What is left unpaid is turned into units at the price without tax.
DebitMonetary(doc, r, units, reclaim) ==
  LET left    == ValueUnspent(doc, r, units)
      account == [c \in Counter |-> ValueAccount(doc, r, c, left[c - 1])]
  IN  [doc   |-> [c \in Counter |->
                    IF c \in Holding(doc, r, TRUE)
                      THEN Spend(doc[c], r, account[c], reclaim \/ left[c - 1] <= 0)
                      ELSE doc[c]],
       spent |-> account,
       left  |-> IF Holding(doc, r, TRUE) = {}
                   THEN units
                   ELSE (left[NumCounters] * Tariff[r].den)
                          \div (Tariff[r].num * Tariff[r].price)]

\* unaccounted is what the response reports as UnaccountedUnits.
Debit(doc, r, units, reclaim) ==
  LET service == IF Tariff[r].money
                   THEN [doc |-> doc, spent |-> [c \in Counter |-> 0], left |-> units]
                   ELSE DebitService(doc, r, units, reclaim)
      money   == DebitMonetary(service.doc, r, service.left, reclaim)
  IN  IF service.left > 0
        THEN [doc         |-> money.doc,
              spent       |-> [c \in Counter |-> service.spent[c] + money.spent[c]],
              unaccounted |-> money.left]
        ELSE [doc         |-> service.doc,
              spent       |-> service.spent,
              unaccounted |-> service.left]

Release(doc, r) ==
  [c \in Counter |-> [doc[c] EXCEPT !.reserved[r] = NoReservation]]

-----------------------------------------------------------------------------
\* A percentage of a value, in full units: the fraction the code would keep is
\* rounded up, so that a share of something is never nothing.
PercentOf(value, percent) == (value * percent + 99) \div 100

\* Mutant: the loan is repaid before the fee.
ClawbackLoanFirst(state, terms, value) ==
  LET due  == IF state.loan <= terms.minimum
                THEN Least(state.loan, value)
              ELSE IF terms.percent = 0
                THEN Least(terms.minimum, value)
                ELSE PercentOf(value, terms.percent)
      loan == Least(due, state.loan)
  IN  [fee |-> Least(due - loan, state.fee), loan |-> loan]

\* What a loan takes from an incoming value: the fee first, then the loan.
Clawback(state, terms, value) ==
  LET due  == IF state.loan <= terms.minimum
                THEN Least(state.loan, value)
              ELSE IF terms.percent = 0
                THEN Least(terms.minimum, value)
                ELSE PercentOf(value, terms.percent)
      fee  == Least(due, state.fee)
  IN  [fee |-> fee, loan |-> Least(due - fee, state.loan)]

InDebt(doc) == {c \in Counter : doc[c].loan > 0}

\* What the loan of counter c takes when value is left to pay loans with.
Claw(doc, c, value) ==
  IF value > 0 THEN Clawback(doc[c], LoanTerms[c], value) ELSE [fee |-> 0, loan |-> 0]

\* Value left after the loans at the first positions of the slice.
LoanValue(doc, value) ==
  Loop(NumCounters, value,
       [p \in Counter |-> [left \in 0..value |->
          IF \E c \in InDebt(doc) : doc[c].position = p
            THEN LET c == CHOOSE d \in InDebt(doc) : doc[d].position = p
                 IN  left - Claw(doc, c, left).fee - Claw(doc, c, left).loan
            ELSE left]])

Size(doc) ==
  Total([c \in Counter |-> IF Live(doc[c]) THEN 1 ELSE 0], NumCounters)

NewCounter(doc, c) ==
  [position |-> 1 + Size(doc),
   balance  |-> Initial[c],
   reserved |-> Unreserved,
   loan     |-> IF LoanTerms[c].given THEN Initial[c] ELSE 0,
   fee      |-> IF LoanTerms[c].given THEN LoanTerms[c].fee ELSE 0]

\* Append counter c; when it repays loans, the loans of the others take their
\* share from its balance, oldest first.
AddCounter(doc, c) ==
  LET repays == c \in Repays /\ ~LoanTerms[c].given
      left   == LoanValue(doc, Initial[c])
      paid   == [d \in Counter |->
                   IF repays /\ d \in InDebt(doc)
                     THEN Claw(doc, d, left[doc[d].position - 1])
                     ELSE [fee |-> 0, loan |-> 0]]
  IN  [doc    |-> [d \in Counter |->
                     IF d = c
                       THEN [NewCounter(doc, c) EXCEPT
                               !.balance = IF repays THEN Greatest(left[NumCounters], 0)
                                                     ELSE @]
                       ELSE [doc[d] EXCEPT !.loan = @ - paid[d].loan,
                                           !.fee  = @ - paid[d].fee]],
       repaid |-> IF repays THEN Initial[c] - left[NumCounters] ELSE 0]

-----------------------------------------------------------------------------
\* Mutant: a reservation is pruned one tick before it ends.
PrunedEarly(state, t) ==
  [state EXCEPT
     !.reserved = [r \in Ref |-> IF @[r].until > t + 1 THEN @[r] ELSE NoReservation]]

\* RemoveExpiredEntries: prune reservations, then keep, write off or remove.
Pruned(state, t) ==
  [state EXCEPT
     !.reserved = [r \in Ref |-> IF @[r].until > t THEN @[r] ELSE NoReservation]]

Held(state) == \E r \in Ref : state.reserved[r].amount > 0

\* Mutant: an expired counter goes although units of it are reserved.
KeptUnheld(c, state, t) ==
  /\ Live(state)
  /\ IF ExpiryAt[c] > t
       THEN state.balance # 0 \/ state.loan # 0
       ELSE state.loan > 0

\* Mutant: a counter that is used up goes although a loan is owed on it.
KeptUnspent(c, state, t) ==
  /\ Live(state)
  /\ IF ExpiryAt[c] > t
       THEN state.balance # 0
       ELSE Held(state) \/ state.loan > 0

Kept(c, state, t) ==
  /\ Live(state)
  /\ IF ExpiryAt[c] > t
       THEN state.balance # 0 \/ state.loan # 0
       ELSE Held(state) \/ state.loan > 0

WrittenOff(c, state, t) ==
  IF Live(state) /\ ExpiryAt[c] <= t /\ ~Held(state) THEN state.balance ELSE 0

\* Mutant: the counters that stay are collected from the end of the slice.
PlaceFromEnd(doc, kept, c) ==
  Total([d \in Counter |->
           IF d \in kept /\ doc[d].position >= doc[c].position THEN 1 ELSE 0],
        NumCounters)

\* The index of counter c among the counters that stay, in the order they had.
Place(doc, kept, c) ==
  Total([d \in Counter |->
           IF d \in kept /\ doc[d].position <= doc[c].position THEN 1 ELSE 0],
        NumCounters)

\* Mutant: the counters that stay are written back with their old reservations.
ExpireUnpruned(doc, t) ==
  LET pruned == Tabulated([c \in Counter |-> Pruned(doc[c], t)])
      kept   == {c \in Counter : Kept(c, pruned[c], t)}
      table  == [c \in Counter |->
                   IF c \in kept
                     THEN [doc[c] EXCEPT
                             !.position = Place(doc, kept, c),
                             !.balance  = @ - WrittenOff(c, pruned[c], t)]
                     ELSE Absent]
  IN  [doc     |-> Tabulated(table),
       expired |-> [c \in Counter |-> WrittenOff(c, pruned[c], t)]]

Expire(doc, t) ==
  LET pruned == Tabulated([c \in Counter |-> Pruned(doc[c], t)])
      kept   == {c \in Counter : Kept(c, pruned[c], t)}
      table  == [c \in Counter |->
                   IF c \in kept
                     THEN [pruned[c] EXCEPT
                             !.position = Place(doc, kept, c),
                             !.balance  = @ - WrittenOff(c, pruned[c], t)]
                     ELSE Absent]
  IN  [doc     |-> Tabulated(table),
       expired |-> [c \in Counter |-> WrittenOff(c, pruned[c], t)]]

-----------------------------------------------------------------------------
\* Journal amounts an operation publishes while it runs, and those of the two
\* expiry passes, published after the save.
Early == [provisioned : Nat, spent : Nat, repaid : Nat]

NoEntry == [provisioned |-> 0, spent |-> 0, repaid |-> 0]

NoEntries == [c \in Counter |-> NoEntry]

\* What the journal of a counter adds up to.
Totals == [provisioned : Nat, spent : Nat, repaid : Nat, expired : Nat]

EmptyJournal ==
  [c \in Counter |-> [provisioned |-> 0, spent |-> 0, repaid |-> 0, expired |-> 0]]

PostEarly(journal, early) ==
  [c \in Counter |->
     [provisioned |-> journal[c].provisioned + early[c].provisioned,
      spent       |-> journal[c].spent + early[c].spent,
      repaid      |-> journal[c].repaid + early[c].repaid,
      expired     |-> journal[c].expired]]

PostLate(journal, late) ==
  [c \in Counter |-> [journal[c] EXCEPT !.expired = @ + late[c]]]

\* What was provisioned on a counter is what was debited, repaid to loans or
\* written off, plus the balance that is left.
Balanced(doc, journal) ==
  \A c \in Counter :
    journal[c].provisioned =
      doc[c].balance + journal[c].spent + journal[c].repaid + journal[c].expired

\* executeWithQuota around an operation that turned fresh into doc: the
\* document to save, the journal entries and the answer to the caller.
\* CheckForUsageNotifications finds nothing to do: no code gives a counter
\* the thresholds it looks for.
Call(fresh, doc, early, answer, t) ==
  LET final == Expire(Tabulated(doc), t)
  IN  [doc    |-> final.doc,
       early  |-> early,
       late   |-> [c \in Counter |-> fresh.expired[c] + final.expired[c]],
       answer |-> answer]

ReserveCall(doc, r, units, t) ==
  LET fresh == Expire(doc, t)
      done  == ReserveQuota(fresh.doc, r, units, t)
  IN  Call(fresh, done.doc, NoEntries, done.granted, t)

DebitCall(doc, r, units, reclaim, t) ==
  LET fresh == Expire(doc, t)
      done  == Debit(fresh.doc, r, units, reclaim)
  IN  Call(fresh, done.doc,
           [c \in Counter |-> [NoEntry EXCEPT !.spent = done.spent[c]]],
           done.unaccounted, t)

ReleaseCall(doc, r, t) ==
  LET fresh == Expire(doc, t)
  IN  Call(fresh, Release(fresh.doc, r), NoEntries, 0, t)

\* A counter that is on the quota already is left alone.
ProvisionCall(doc, c, t) ==
  LET fresh == Expire(doc, t)
      done  == AddCounter(fresh.doc, c)
  IN  IF Live(fresh.doc[c])
        THEN Call(fresh, fresh.doc, NoEntries, 0, t)
        ELSE Call(fresh, done.doc,
                  [NoEntries EXCEPT ![c] = [NoEntry EXCEPT !.provisioned = Initial[c],
                                                           !.repaid = done.repaid]],
                  0, t)

ExpireCall(doc, t) ==
  LET fresh == Expire(doc, t)
  IN  Call(fresh, fresh.doc, NoEntries, 0, t)

==============================================================================
