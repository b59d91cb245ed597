------------------------- MODULE QuotaDocumentProofs -------------------------
(***************************************************************************)
(* What every operation of the quota manager does to a sound document:     *)
(* it leaves a sound document and moves balance only into the amounts it   *)
(* journals.  Then what a reservation is worth: the units a call answers   *)
(* are backed by what it reserves, no call on other reservations changes   *)
(* that, and a use within them is paid.                                    *)
(***************************************************************************)
EXTENDS QuotaDocument, LoopsProofs, FiniteSetTheorems

\* A counter that is well formed, covers what is reserved on it, has a place
\* in the slice, and neither holds nor owes anything when it has none.
Sound ==
  {s \in CounterState :
     /\ Reserved(s) <= s.balance
     /\ s.position <= NumCounters
     /\ ~Live(s) => s.balance = 0 /\ s.loan = 0}

SoundDocument == [Counter -> Sound]

\* Tabulating changes no function.
LEMMA TabulatedFact == ASSUME NEW f PROVE Tabulated(f) = f
BY DEF Tabulated

\* minInt64 returns one of its arguments, and no larger one.
LEMMA LeastFact ==
  ASSUME NEW a \in Int, NEW b \in Int
  PROVE  Least(a, b) \in Int /\ Least(a, b) <= a /\ Least(a, b) <= b
           /\ (Least(a, b) = a \/ Least(a, b) = b)
BY DEF Least

\* The maximum of two is one of them, and no smaller one.
LEMMA GreatestFact ==
  ASSUME NEW a \in Int, NEW b \in Int
  PROVE  Greatest(a, b) \in Int /\ Greatest(a, b) >= a /\ Greatest(a, b) >= b
           /\ (Greatest(a, b) = a \/ Greatest(a, b) = b)
BY DEF Greatest

\* Dividing by a positive number, as the conversions of units do, stays whole.
LEMMA DivFact ==
  ASSUME NEW a \in Int, NEW b \in Nat \ {0}
  PROVE  a \div b \in Int /\ (a \in Nat => a \div b \in Nat)
OBVIOUS

\* Products of whole numbers are whole, of naturals natural.
LEMMA MulFact ==
  ASSUME NEW a \in Int, NEW b \in Int
  PROVE  a * b \in Int /\ (a \in Nat /\ b \in Nat => a * b \in Nat)
OBVIOUS

\* What TariffAssumption says of the tariff of one reservation.
LEMMA TermsFact ==
  ASSUME NEW r \in Ref
  PROVE  Tariff[r] \in TariffTerms /\ Tariff[r].num \in Nat \ {0} /\ Tariff[r].den \in Nat \ {0} /\ Tariff[r].price \in Nat \ {0} /\ Tariff[r].taxed \in Nat \ {0}
BY TariffAssumption DEF TariffTerms

\* Units converted with the multiplier, either way, are whole.
LEMMA UpDown ==
  ASSUME NEW r \in Ref, NEW units \in Int
  PROVE  /\ Up(r, units) \in Int /\ Down(r, units) \in Int
         /\ units \in Nat => Up(r, units) \in Nat /\ Down(r, units) \in Nat
<1>1. PICK num \in Nat \ {0}, den \in Nat \ {0} : num = Tariff[r].num /\ den = Tariff[r].den
  BY TermsFact
<1>2. /\ num * units \in Int /\ den * units \in Int
      /\ units \in Nat => num * units \in Nat /\ den * units \in Nat
  BY MulFact
<1>3. /\ (num * units) \div den \in Int
      /\ (den * units) \div num \in Int
  BY <1>2, DivFact
<1>4. units \in Nat => (num * units) \div den \in Nat /\ (den * units) \div num \in Nat
  BY <1>2, DivFact
<1> QED BY <1>1, <1>3, <1>4 DEF Up, Down

\* The cost of whole units is a whole amount of money.
LEMMA CostInt ==
  ASSUME NEW r \in Ref, NEW units \in Int
  PROVE  Cost(r, units) \in Int
<1>1. Tariff[r].num \in Nat \ {0} /\ Tariff[r].den \in Nat \ {0} /\ Tariff[r].taxed \in Nat \ {0}
  BY TermsFact
<1> QED BY <1>1, MulFact, DivFact DEF Cost

\* The fields of a counter and their ranges.
LEMMA StateFields ==
  ASSUME NEW s \in CounterState
  PROVE  /\ s.position \in Nat /\ s.balance \in Nat /\ s.loan \in Nat /\ s.fee \in Nat
         /\ s.reserved \in [Ref -> Reservation]
         /\ \A r \in Ref : s.reserved[r].amount \in Nat /\ s.reserved[r].until \in Nat
BY DEF CounterState, Reservation

\* What is reserved on a counter is a natural number, and no single
\* reservation exceeds it.
LEMMA ReservedNat ==
  ASSUME NEW s \in CounterState
  PROVE  /\ Reserved(s) \in Nat
         /\ \A r \in Ref : s.reserved[r].amount <= Reserved(s)
<1> DEFINE f == [r \in Ref |-> s.reserved[r].amount]
<1>1. f \in [1..NumRefs -> Nat]
  BY StateFields DEF Ref
<1>2. Reserved(s) = Total(f, NumRefs)
  BY DEF Reserved
<1>3. Total(f, NumRefs) \in Nat /\ \A r \in 1..NumRefs : f[r] <= Total(f, NumRefs)
  <2> HIDE DEF f
  <2> QED BY <1>1, SizeAssumption, TotalNat
<1> QED BY <1>2, <1>3 DEF Ref

\* Replacing one reservation changes what is reserved by the difference.
LEMMA ReservedUpdate ==
  ASSUME NEW s \in CounterState, NEW u \in CounterState, NEW r \in Ref,
         \A q \in Ref : q # r => u.reserved[q] = s.reserved[q]
  PROVE  Reserved(u) = Reserved(s) - s.reserved[r].amount + u.reserved[r].amount
<1> DEFINE f == [q \in Ref |-> s.reserved[q].amount]
           g == [q \in Ref |-> u.reserved[q].amount]
<1>1. f \in [1..NumRefs -> Int] /\ g \in [1..NumRefs -> Int]
  BY StateFields DEF Ref
<1>2. \A q \in 1..NumRefs : q # r => g[q] = f[q]
  BY DEF Ref
<1>3. r \in 1..NumRefs
  BY DEF Ref
<1>4. Total(g, NumRefs) = Total(f, NumRefs) - f[r] + g[r]
  <2> HIDE DEF f, g
  <2> QED BY <1>1, <1>2, <1>3, SizeAssumption, TotalUpdate
<1>5. f[r] = s.reserved[r].amount /\ g[r] = u.reserved[r].amount
  OBVIOUS
<1>6. Reserved(s) = Total(f, NumRefs) /\ Reserved(u) = Total(g, NumRefs)
  BY DEF Reserved
<1> HIDE DEF f, g
<1> QED BY <1>4, <1>5, <1>6

\* Smaller reservations, smaller sum.
LEMMA ReservedMono ==
  ASSUME NEW s \in CounterState, NEW u \in CounterState,
         \A q \in Ref : u.reserved[q].amount <= s.reserved[q].amount
  PROVE  Reserved(u) <= Reserved(s)
<1> DEFINE f == [q \in Ref |-> s.reserved[q].amount]
           g == [q \in Ref |-> u.reserved[q].amount]
<1>1. f \in [1..NumRefs -> Int] /\ g \in [1..NumRefs -> Int]
  BY StateFields DEF Ref
<1>2. \A q \in 1..NumRefs : g[q] <= f[q]
  BY DEF Ref
<1>3. Total(g, NumRefs) <= Total(f, NumRefs)
  <2> HIDE DEF f, g
  <2> QED BY <1>1, <1>2, SizeAssumption, TotalMono
<1> QED BY <1>3 DEF Reserved

\* A counter without reservations has nothing reserved.
LEMMA ReservedZero ==
  ASSUME NEW s \in CounterState, \A q \in Ref : s.reserved[q].amount = 0
  PROVE  Reserved(s) = 0
<1> DEFINE f == [q \in Ref |-> s.reserved[q].amount]
<1>1. f \in [1..NumRefs -> Int]
  BY StateFields DEF Ref
<1>2. \A q \in 1..NumRefs : f[q] = 0
  BY DEF Ref
<1>3. Total(f, NumRefs) = 0
  <2> HIDE DEF f
  <2> QED BY <1>1, <1>2, SizeAssumption, TotalZero
<1> QED BY <1>3 DEF Reserved

\* The empty document is sound.
LEMMA EmptySound == EmptyDocument \in SoundDocument
<1>1. Unreserved \in [Ref -> Reservation] /\ \A q \in Ref : Unreserved[q].amount = 0
  BY DEF Unreserved, NoReservation, Reservation
<1>2. /\ Absent \in CounterState /\ Absent.reserved = Unreserved
      /\ Absent.position = 0 /\ Absent.balance = 0 /\ Absent.loan = 0
  BY <1>1 DEF Absent, CounterState
<1>3. Reserved(Absent) = 0
  BY <1>1, <1>2, ReservedZero
<1>4. Absent \in Sound
  BY <1>2, <1>3, SizeAssumption DEF Sound
<1> QED BY <1>4 DEF EmptyDocument, SoundDocument

-----------------------------------------------------------------------------
\* What each step on one counter preserves.
LEMMA HoldSound ==
  ASSUME NEW s \in Sound, NEW r \in Ref, NEW amount \in Int, NEW t \in Nat,
         amount > 0 => amount <= Available(s)
  PROVE  /\ Hold(s, r, amount, t) \in Sound
         /\ Hold(s, r, amount, t).balance = s.balance
<1>1. s \in CounterState /\ Reserved(s) <= s.balance /\ s.position <= NumCounters
      /\ (~Live(s) => s.balance = 0 /\ s.loan = 0)
  BY DEF Sound
<1>2. CASE amount <= 0
  BY <1>2 DEF Hold
<1>3. CASE amount > 0
  <2> DEFINE u == [s EXCEPT !.reserved[r] = [amount |-> amount, until |-> t + Validity]]
  <2>1. Hold(s, r, amount, t) = u
    BY <1>3 DEF Hold
  <2>2. [amount |-> amount, until |-> t + Validity] \in Reservation
    BY <1>3, ValidityAssumption DEF Reservation
  <2>3. u \in CounterState
    BY <1>1, <2>2 DEF CounterState
  <2>4. /\ u.reserved[r].amount = amount /\ u.balance = s.balance /\ u.position = s.position
        /\ u.loan = s.loan
        /\ \A q \in Ref : q # r => u.reserved[q] = s.reserved[q]
    BY <1>1 DEF CounterState
  <2> HIDE DEF u
  <2>5. Reserved(u) = Reserved(s) - s.reserved[r].amount + amount
    BY <1>1, <2>3, <2>4, ReservedUpdate
  <2>6. PICK R \in Nat, a \in Nat, b \in Nat :
          R = Reserved(s) /\ a = s.reserved[r].amount /\ b = s.balance
    BY <1>1, ReservedNat, StateFields
  <2>7. amount <= b - R
    BY <1>3, <2>6 DEF Available
  <2>8. R - a + amount <= b
    BY <2>7
  <2>9. Reserved(u) <= u.balance
    BY <2>4, <2>5, <2>6, <2>8
  <2> QED BY <1>1, <2>1, <2>3, <2>4, <2>9 DEF Sound, Live
<1> QED BY <1>2, <1>3

\* Accounting no more than is held keeps a counter covered, and the balance
\* falls by exactly what was accounted: the clamp of DebitBalance never bites.
LEMMA SpendSound ==
  ASSUME NEW s \in Sound, NEW r \in Ref, NEW amount \in Nat, NEW drop \in BOOLEAN,
         amount <= s.reserved[r].amount
  PROVE  /\ Spend(s, r, amount, drop) \in Sound
         /\ s.balance = Spend(s, r, amount, drop).balance + amount
<1>1. s \in CounterState /\ Reserved(s) <= s.balance /\ s.position <= NumCounters
      /\ (~Live(s) => s.balance = 0 /\ s.loan = 0)
  BY DEF Sound
<1> DEFINE u == Spend(s, r, amount, drop)
<1>2. PICK R \in Nat, a \in Nat, b \in Nat :
        R = Reserved(s) /\ a = s.reserved[r].amount /\ b = s.balance
  BY <1>1, ReservedNat, StateFields
<1>3. a <= R /\ R <= b /\ amount <= a
  BY <1>1, <1>2, ReservedNat
<1>4. Greatest(b - amount, 0) = b - amount /\ b - amount \in Nat
  BY <1>3 DEF Greatest
<1>5. u.balance = b - amount /\ u.position = s.position /\ u.loan = s.loan
  BY <1>1, <1>2, <1>4 DEF Spend, CounterState
<1>6. \A q \in Ref : q # r => u.reserved[q] = s.reserved[q]
  BY <1>1 DEF Spend, CounterState
<1>7. u.reserved[r] = IF drop \/ a = amount
                        THEN NoReservation
                        ELSE [s.reserved[r] EXCEPT !.amount = a - amount]
  BY <1>1, <1>2 DEF Spend, CounterState
<1>8. u.reserved[r] \in Reservation /\ u.reserved[r].amount <= a - amount
  <2>1. NoReservation \in Reservation /\ NoReservation.amount = 0
    BY DEF NoReservation, Reservation
  <2>2. s.reserved[r] \in Reservation
    BY <1>1 DEF CounterState
  <2>3. a - amount \in Nat
    BY <1>3
  <2>4. [s.reserved[r] EXCEPT !.amount = a - amount] \in Reservation
    BY <2>2, <2>3 DEF Reservation
  <2>5. [s.reserved[r] EXCEPT !.amount = a - amount].amount = a - amount
    BY <2>2 DEF Reservation
  <2> QED BY <1>7, <2>1, <2>3, <2>4, <2>5
<1>9. u \in CounterState
  BY <1>1, <1>2, <1>4, <1>7, <1>8 DEF Spend, CounterState
<1>10. PICK d \in Nat : d = u.reserved[r].amount
  BY <1>9, StateFields
<1> HIDE DEF u
<1>11. Reserved(u) = R - a + d
  BY <1>1, <1>2, <1>6, <1>9, <1>10, ReservedUpdate
<1>12. d <= a - amount
  BY <1>8, <1>10
<1>13. R - a + d <= b - amount
  BY <1>3, <1>12
<1>14. Reserved(u) <= u.balance
  BY <1>5, <1>11, <1>13
<1>15. b = (b - amount) + amount
  OBVIOUS
<1>16. ~Live(u) => u.balance = 0 /\ u.loan = 0
  <2>1. ~Live(u) => b = 0 /\ u.loan = 0
    BY <1>1, <1>2, <1>5 DEF Live
  <2>2. b = 0 => b - amount = 0
    BY <1>3
  <2> QED BY <2>1, <2>2, <1>5
<1>17. u \in Sound
  BY <1>1, <1>5, <1>9, <1>14, <1>16 DEF Sound
<1> QED BY <1>2, <1>5, <1>15, <1>17 DEF u

\* Dropping reservations that ran out keeps a counter covered.
LEMMA PrunedSound ==
  ASSUME NEW s \in Sound, NEW t \in Nat
  PROVE  Pruned(s, t) \in Sound /\ Pruned(s, t).balance = s.balance
<1>1. s \in CounterState /\ Reserved(s) <= s.balance /\ s.position <= NumCounters
      /\ (~Live(s) => s.balance = 0 /\ s.loan = 0)
  BY DEF Sound
<1> DEFINE u == Pruned(s, t)
<1>2. NoReservation \in Reservation /\ NoReservation.amount = 0
  BY DEF NoReservation, Reservation
<1>3. u \in CounterState /\ u.balance = s.balance /\ u.position = s.position
      /\ u.loan = s.loan
  BY <1>1, <1>2 DEF Pruned, CounterState
<1>4. ASSUME NEW q \in Ref PROVE u.reserved[q].amount <= s.reserved[q].amount
  <2>1. u.reserved[q] = s.reserved[q] \/ u.reserved[q] = NoReservation
    BY <1>1 DEF Pruned, CounterState
  <2> QED BY <1>1, <1>2, <2>1, StateFields
<1> HIDE DEF u
<1>5. Reserved(u) <= Reserved(s)
  BY <1>1, <1>3, <1>4, ReservedMono
<1>6. Reserved(u) \in Nat /\ Reserved(s) \in Nat /\ s.balance \in Nat
  BY <1>1, <1>3, ReservedNat, StateFields
<1>7. Reserved(u) <= u.balance
  BY <1>1, <1>3, <1>5, <1>6
<1> QED BY <1>1, <1>3, <1>7 DEF Sound, Live, u

\* Releasing a reservation keeps a counter covered.
LEMMA ReleasedSound ==
  ASSUME NEW s \in Sound, NEW r \in Ref
  PROVE  /\ [s EXCEPT !.reserved[r] = NoReservation] \in Sound
         /\ [s EXCEPT !.reserved[r] = NoReservation].balance = s.balance
<1>1. s \in CounterState /\ Reserved(s) <= s.balance /\ s.position <= NumCounters
      /\ (~Live(s) => s.balance = 0 /\ s.loan = 0)
  BY DEF Sound
<1> DEFINE u == [s EXCEPT !.reserved[r] = NoReservation]
<1>2. NoReservation \in Reservation /\ NoReservation.amount = 0
  BY DEF NoReservation, Reservation
<1>3. u \in CounterState /\ u.balance = s.balance /\ u.position = s.position
      /\ u.loan = s.loan
  BY <1>1, <1>2 DEF CounterState
<1>4. ASSUME NEW q \in Ref PROVE u.reserved[q].amount <= s.reserved[q].amount
  <2>1. u.reserved[q] = s.reserved[q] \/ u.reserved[q] = NoReservation
    BY <1>1 DEF CounterState
  <2> QED BY <1>1, <1>2, <2>1, StateFields
<1> HIDE DEF u
<1>5. Reserved(u) <= Reserved(s)
  BY <1>1, <1>3, <1>4, ReservedMono
<1>6. Reserved(u) \in Nat /\ Reserved(s) \in Nat /\ s.balance \in Nat
  BY <1>1, <1>3, ReservedNat, StateFields
<1>7. Reserved(u) <= u.balance
  BY <1>1, <1>3, <1>5, <1>6
<1> QED BY <1>1, <1>3, <1>7 DEF Sound, Live, u

-----------------------------------------------------------------------------
\* A loop over the counters.
LEMMA CounterLoop ==
  ASSUME NEW X, NEW first \in X, NEW body \in [Counter -> [X -> X]]
  PROVE  /\ Loop(NumCounters, first, body) \in [0..NumCounters -> X]
         /\ Loop(NumCounters, first, body)[0] = first
         /\ \A c \in Counter :
              Loop(NumCounters, first, body)[c]
                = body[c][Loop(NumCounters, first, body)[c - 1]]
<1>1. NumCounters \in Nat /\ body \in [1..NumCounters -> [X -> X]]
  BY SizeAssumption DEF Counter
<1>2. Loop(NumCounters, first, body) \in [0..NumCounters -> X]
  BY <1>1, LoopRule
<1>3. Loop(NumCounters, first, body)[0] = first
  BY <1>1, LoopRule
<1>4. \A c \in 1..NumCounters :
        Loop(NumCounters, first, body)[c] = body[c][Loop(NumCounters, first, body)[c - 1]]
  BY <1>1, LoopRule
<1> QED BY <1>2, <1>3, <1>4 DEF Counter

\* The value a loop over the counters brings to a counter is whole.
LEMMA BeforeInt ==
  ASSUME NEW at \in [0..NumCounters -> Int], NEW c \in Counter
  PROVE  at[c - 1] \in Int /\ at[c] \in Int
BY SizeAssumption DEF Counter

\* The value a loop over the counters ends with is whole.
LEMMA LastInt ==
  ASSUME NEW at \in [0..NumCounters -> Int]
  PROVE  at[NumCounters] \in Int
BY SizeAssumption

\* AvailableValue of a covered counter is never negative.
LEMMA AvailableInt ==
  ASSUME NEW s \in Sound
  PROVE  Available(s) \in Nat
<1>1. Reserved(s) \in Nat /\ s.balance \in Nat /\ Reserved(s) <= s.balance
  BY ReservedNat, StateFields DEF Sound
<1> QED BY <1>1 DEF Available

\* A counter gives a service reservation no more than is available on it.
LEMMA ServiceTakeFact ==
  ASSUME NEW doc \in SoundDocument, NEW r \in Ref, NEW c \in Counter, NEW wanted \in Int
  PROVE  /\ ServiceTake(doc, r, c, wanted) \in Int
         /\ ServiceTake(doc, r, c, wanted) <= Available(doc[c])
<1>1. PICK a \in Nat : a = Available(doc[c])
  BY AvailableInt DEF SoundDocument
<1>2. PICK b \in Int : b = Up(r, wanted)
  BY UpDown
<1>3. Least(a, b) \in Int /\ Least(a, b) <= a
  BY LeastFact
<1>4. ServiceTake(doc, r, c, wanted) \in {Least(a, b), 0}
  BY <1>1, <1>2 DEF ServiceTake
<1> QED BY <1>1, <1>3, <1>4

\* The units granted by the loop of reserveServiceUnits are whole.
LEMMA ServiceGrantedInt ==
  ASSUME NEW doc \in SoundDocument, NEW r \in Ref, NEW units \in Int
  PROVE  ServiceGranted(doc, r, units) \in [0..NumCounters -> Int]
<1> DEFINE body == [c \in Counter |->
          [granted \in Int |-> granted + ServiceTake(doc, r, c, units - granted)]]
<1>1. body \in [Counter -> [Int -> Int]]
  <2>1. ASSUME NEW c \in Counter, NEW granted \in Int
        PROVE  granted + ServiceTake(doc, r, c, units - granted) \in Int
    <3>1. units - granted \in Int
      OBVIOUS
    <3>2. PICK a \in Int : a = ServiceTake(doc, r, c, units - granted)
      BY <3>1, ServiceTakeFact
    <3> QED BY <3>2
  <2> QED BY <2>1
<1>2. ServiceGranted(doc, r, units) = Loop(NumCounters, 0, body)
  BY DEF ServiceGranted
<1> DEFINE X == Int
<1>3. 0 \in X /\ body \in [Counter -> [X -> X]]
  BY <1>1
<1> HIDE DEF body, X
<1>4. Loop(NumCounters, 0, body) \in [0..NumCounters -> X]
  BY <1>3, CounterLoop
<1> QED BY <1>2, <1>4 DEF X

\* A reservation on service counters reserves nothing a counter does not have.
LEMMA ReserveServiceSound ==
  ASSUME NEW doc \in SoundDocument, NEW r \in Ref, NEW units \in Int, NEW t \in Nat
  PROVE  /\ ReserveService(doc, r, units, t).doc \in SoundDocument
         /\ ReserveService(doc, r, units, t).granted \in Int
         /\ \A c \in Counter :
              ReserveService(doc, r, units, t).doc[c].balance = doc[c].balance
<1> DEFINE at == ServiceGranted(doc, r, units)
           take(c) == ServiceTake(doc, r, c, units - at[c - 1])
<1>1. at \in [0..NumCounters -> Int]
  BY ServiceGrantedInt
<1>2. at[NumCounters] \in Int
  <2> HIDE DEF at
  <2> QED BY <1>1, LastInt
<1>3. ASSUME NEW c \in Counter
      PROVE  /\ Hold(doc[c], r, take(c), t) \in Sound
             /\ Hold(doc[c], r, take(c), t).balance = doc[c].balance
  <2> HIDE DEF at
  <2>1. PICK b \in Int : b = at[c - 1]
    BY <1>1, BeforeInt
  <2>2. take(c) \in Int /\ take(c) <= Available(doc[c])
    <3>1. units - b \in Int
      OBVIOUS
    <3>2. take(c) = ServiceTake(doc, r, c, units - b)
      BY <2>1
    <3> QED BY <3>1, <3>2, ServiceTakeFact
  <2>3. doc[c] \in Sound
    BY DEF SoundDocument
  <2> HIDE DEF take
  <2> QED BY <2>2, <2>3, HoldSound
<1>4. /\ ReserveService(doc, r, units, t).doc = [c \in Counter |-> Hold(doc[c], r, take(c), t)]
      /\ ReserveService(doc, r, units, t).granted = at[NumCounters]
  BY DEF ReserveService
<1> HIDE DEF at, take
<1> QED BY <1>2, <1>3, <1>4 DEF SoundDocument

\* A counter gives a monetary reservation no more than is available on it.
LEMMA ValueTakeFact ==
  ASSUME NEW doc \in SoundDocument, NEW r \in Ref, NEW c \in Counter, NEW value \in Int
  PROVE  /\ ValueTake(doc, r, c, value) \in Int
         /\ ValueTake(doc, r, c, value) <= Available(doc[c])
<1>1. PICK a \in Nat : a = Available(doc[c])
  BY AvailableInt DEF SoundDocument
<1>2. PICK b \in Int : b = Least(a, value) /\ b <= a
  BY LeastFact
<1>3. Greatest(b, 0) \in Int /\ Greatest(b, 0) <= a
  BY <1>2 DEF Greatest
<1>4. ValueTake(doc, r, c, value) \in {Greatest(b, 0), 0}
  BY <1>1, <1>2 DEF ValueTake
<1> QED BY <1>1, <1>3, <1>4

\* The value the loop of reserveMonetaryUnits carries is whole.
LEMMA ValueWantedInt ==
  ASSUME NEW doc \in SoundDocument, NEW r \in Ref, NEW units \in Int
  PROVE  ValueWanted(doc, r, units) \in [0..NumCounters -> Int]
<1> DEFINE body == [c \in Counter |->
          [value \in Int |-> value - ValueTake(doc, r, c, value)]]
<1>1. body \in [Counter -> [Int -> Int]]
  <2>1. ASSUME NEW c \in Counter, NEW value \in Int
        PROVE  value - ValueTake(doc, r, c, value) \in Int
    <3>1. PICK a \in Int : a = ValueTake(doc, r, c, value)
      BY ValueTakeFact
    <3> QED BY <3>1
  <2> QED BY <2>1
<1>2. ValueWanted(doc, r, units) = Loop(NumCounters, Cost(r, units), body)
  BY DEF ValueWanted
<1>3. Cost(r, units) \in Int
  BY CostInt
<1> DEFINE X == Int
           first == Cost(r, units)
<1>4. first \in X /\ body \in [Counter -> [X -> X]]
  BY <1>1, <1>3
<1> HIDE DEF body, first, X
<1>5. Loop(NumCounters, first, body) \in [0..NumCounters -> X]
  BY <1>4, CounterLoop
<1> QED BY <1>2, <1>5 DEF first, X

\* The number of units the monetary counters can pay is whole.
LEMMA AffordableInt ==
  ASSUME NEW doc \in SoundDocument, NEW r \in Ref
  PROVE  Affordable(doc, r) \in Int
<1> DEFINE f == [c \in Counter |->
           IF c \in Matching(doc, r, TRUE) THEN Available(doc[c]) ELSE 0]
<1>1. \A c \in Counter : Available(doc[c]) \in Nat
  BY AvailableInt DEF SoundDocument
<1>2. f \in [1..NumCounters -> Nat]
  BY <1>1 DEF Counter
<1>3. Total(f, NumCounters) \in Nat
  <2> HIDE DEF f
  <2> QED BY <1>2, SizeAssumption, TotalNat
<1>4. Tariff[r].taxed \in Nat \ {0}
  BY TermsFact
<1>5. Affordable(doc, r) = Total(f, NumCounters) \div Tariff[r].taxed
  BY DEF Affordable
<1> HIDE DEF f
<1> QED BY <1>3, <1>4, <1>5, DivFact

\* A reservation on monetary counters reserves nothing a counter does not have.
LEMMA ReserveMonetarySound ==
  ASSUME NEW doc \in SoundDocument, NEW r \in Ref, NEW units \in Int, NEW t \in Nat
  PROVE  /\ ReserveMonetary(doc, r, units, t).doc \in SoundDocument
         /\ ReserveMonetary(doc, r, units, t).granted \in Int
         /\ \A c \in Counter :
              ReserveMonetary(doc, r, units, t).doc[c].balance = doc[c].balance
<1> DEFINE granted == Least(Affordable(doc, r), units)
           at == ValueWanted(doc, r, granted)
           take(c) == ValueTake(doc, r, c, at[c - 1])
<1>1. granted \in Int
  BY AffordableInt, LeastFact
<1>2. at \in [0..NumCounters -> Int]
  <2> HIDE DEF granted
  <2> QED BY <1>1, ValueWantedInt
<1>3. ASSUME NEW c \in Counter
      PROVE  /\ Hold(doc[c], r, take(c), t) \in Sound
             /\ Hold(doc[c], r, take(c), t).balance = doc[c].balance
  <2> HIDE DEF at
  <2>1. at[c - 1] \in Int
    BY <1>2, BeforeInt
  <2>2. take(c) \in Int /\ take(c) <= Available(doc[c])
    BY <2>1, ValueTakeFact
  <2>3. doc[c] \in Sound
    BY DEF SoundDocument
  <2> HIDE DEF take
  <2> QED BY <2>2, <2>3, HoldSound
<1>4. /\ ReserveMonetary(doc, r, units, t).doc = [c \in Counter |-> Hold(doc[c], r, take(c), t)]
      /\ ReserveMonetary(doc, r, units, t).granted = granted
  BY DEF ReserveMonetary
<1> HIDE DEF granted, at, take
<1> QED BY <1>1, <1>3, <1>4 DEF SoundDocument

\* ReserveQuota keeps every counter covered and moves no balance, in each of
\* its three ways: money, service units, service units with out-of-bundle money.
LEMMA ReserveQuotaSound ==
  ASSUME NEW doc \in SoundDocument, NEW r \in Ref, NEW units \in Nat, NEW t \in Nat
  PROVE  /\ ReserveQuota(doc, r, units, t).doc \in SoundDocument
         /\ ReserveQuota(doc, r, units, t).granted \in Int
         /\ \A c \in Counter :
              ReserveQuota(doc, r, units, t).doc[c].balance = doc[c].balance
<1> DEFINE service == ReserveService(doc, r, units, t)
           extra   == ReserveMonetary(service.doc, r, units - service.granted, t)
           money   == ReserveMonetary(doc, r, units, t)
<1>1. /\ service.doc \in SoundDocument /\ service.granted \in Int
      /\ \A c \in Counter : service.doc[c].balance = doc[c].balance
  BY ReserveServiceSound
<1>2. /\ money.doc \in SoundDocument /\ money.granted \in Int
      /\ \A c \in Counter : money.doc[c].balance = doc[c].balance
  BY ReserveMonetarySound
<1>3. /\ extra.doc \in SoundDocument /\ extra.granted \in Int
      /\ \A c \in Counter : extra.doc[c].balance = doc[c].balance
  <2> HIDE DEF service
  <2>1. units - service.granted \in Int
    <3>1. PICK a \in Int : a = service.granted
      BY <1>1
    <3> QED BY <3>1
  <2>2. /\ extra.doc \in SoundDocument /\ extra.granted \in Int
        /\ \A c \in Counter : extra.doc[c].balance = service.doc[c].balance
    BY <1>1, <2>1, ReserveMonetarySound
  <2> QED BY <1>1, <2>2
<1>4. \/ ReserveQuota(doc, r, units, t) = money
      \/ ReserveQuota(doc, r, units, t) = service
      \/ ReserveQuota(doc, r, units, t) = [doc |-> extra.doc, granted |-> service.granted + extra.granted]
  BY DEF ReserveQuota
<1> HIDE DEF service, extra, money
<1>5. service.granted + extra.granted \in Int
  <2>1. PICK a \in Int, b \in Int : a = service.granted /\ b = extra.granted
    BY <1>1, <1>3
  <2> QED BY <2>1
<1> QED BY <1>1, <1>2, <1>3, <1>4, <1>5

-----------------------------------------------------------------------------
\* debitServiceReservations accounts no more to a counter than it has reserved.
LEMMA ServiceAccountFact ==
  ASSUME NEW doc \in SoundDocument, NEW r \in Ref, NEW c \in Counter, NEW units \in Nat
  PROVE  /\ ServiceAccount(doc, r, c, units) \in Nat
         /\ ServiceAccount(doc, r, c, units) <= doc[c].reserved[r].amount
         /\ ServiceAccount(doc, r, c, units) <= Up(r, units)
<1>1. PICK a \in Nat : a = doc[c].reserved[r].amount
  BY StateFields DEF SoundDocument, Sound
<1>2. PICK b \in Nat : b = Up(r, units)
  BY UpDown
<1>3. Least(a, b) \in Nat /\ Least(a, b) <= a /\ Least(a, b) <= b
  BY DEF Least
<1>4. ServiceAccount(doc, r, c, units) \in {Least(a, b), 0}
  BY <1>1, <1>2 DEF ServiceAccount
<1> QED BY <1>1, <1>2, <1>3, <1>4

\* The units not yet accounted stay a natural number through the loop.
LEMMA ServiceUnspentNat ==
  ASSUME NEW doc \in SoundDocument, NEW r \in Ref, NEW units \in Nat
  PROVE  ServiceUnspent(doc, r, units) \in [0..NumCounters -> Nat]
<1> DEFINE rest(c, left) ==
             IF c \in Holding(doc, r, FALSE)
               THEN Down(r, Up(r, left) - ServiceAccount(doc, r, c, left))
               ELSE left
           body == [c \in Counter |-> [left \in Nat |-> rest(c, left)]]
<1>1. ASSUME NEW c \in Counter, NEW left \in Nat PROVE rest(c, left) \in Nat
  <2>1. PICK a \in Nat, b \in Nat :
          a = ServiceAccount(doc, r, c, left) /\ b = Up(r, left) /\ a <= b
    BY ServiceAccountFact, UpDown
  <2>2. b - a \in Nat
    BY <2>1
  <2>3. Down(r, b - a) \in Nat
    BY <2>2, UpDown
  <2> QED BY <2>1, <2>3
<1>2. body \in [Counter -> [Nat -> Nat]]
  <2> HIDE DEF rest
  <2> QED BY <1>1
<1>3. ServiceUnspent(doc, r, units) = Loop(NumCounters, units, body)
  BY DEF ServiceUnspent
<1> DEFINE X == Nat
           first == units
<1>4. first \in X /\ body \in [Counter -> [X -> X]]
  BY <1>2
<1> HIDE DEF body, first, X
<1>5. Loop(NumCounters, first, body) \in [0..NumCounters -> X]
  BY <1>4, CounterLoop
<1> QED BY <1>3, <1>5 DEF first, X

\* The value a loop over the counters brings to a counter is natural.
LEMMA BeforeNat ==
  ASSUME NEW at \in [0..NumCounters -> Nat], NEW c \in Counter
  PROVE  at[c - 1] \in Nat
BY SizeAssumption DEF Counter

\* The value a loop over the counters ends with is natural.
LEMMA LastNat ==
  ASSUME NEW at \in [0..NumCounters -> Nat]
  PROVE  at[NumCounters] \in Nat
BY SizeAssumption

\* A debit takes from a counter no more than is reserved on it.
LEMMA DebitServiceSound ==
  ASSUME NEW doc \in SoundDocument, NEW r \in Ref, NEW units \in Nat,
         NEW reclaim \in BOOLEAN
  PROVE  LET done == DebitService(doc, r, units, reclaim)
         IN  /\ done.doc \in SoundDocument
             /\ done.spent \in [Counter -> Nat]
             /\ done.left \in Nat
             /\ \A c \in Counter : doc[c].balance = done.doc[c].balance + done.spent[c]
<1> DEFINE at == ServiceUnspent(doc, r, units)
           account(c) == ServiceAccount(doc, r, c, at[c - 1])
           next(c) == IF c \in Holding(doc, r, FALSE)
                        THEN Spend(doc[c], r, account(c), reclaim)
                        ELSE doc[c]
           done == DebitService(doc, r, units, reclaim)
<1>1. at \in [0..NumCounters -> Nat]
  BY ServiceUnspentNat
<1>2. at[NumCounters] \in Nat
  <2> HIDE DEF at
  <2> QED BY <1>1, LastNat
<1>3. ASSUME NEW c \in Counter
      PROVE  /\ next(c) \in Sound
             /\ account(c) \in Nat
             /\ doc[c].balance = next(c).balance + account(c)
  <2>1. PICK b \in Nat : b = at[c - 1]
    <3> HIDE DEF at
    <3> QED BY <1>1, BeforeNat
  <2>2. PICK a \in Nat : a = account(c) /\ a <= doc[c].reserved[r].amount
    <3> HIDE DEF at
    <3>1. account(c) = ServiceAccount(doc, r, c, b)
      BY <2>1
    <3> HIDE DEF account
    <3> QED BY <3>1, ServiceAccountFact
  <2>3. doc[c] \in Sound /\ doc[c].balance \in Nat
    BY StateFields DEF SoundDocument, Sound
  <2>4. CASE c \in Holding(doc, r, FALSE)
    <3>1. next(c) = Spend(doc[c], r, a, reclaim)
      BY <2>2, <2>4
    <3> HIDE DEF next, account
    <3> QED BY <2>2, <2>3, <3>1, SpendSound
  <2>5. CASE c \notin Holding(doc, r, FALSE)
    <3>1. next(c) = doc[c] /\ account(c) = 0
      BY <2>5 DEF ServiceAccount
    <3> HIDE DEF next, account
    <3> QED BY <2>3, <3>1
  <2> QED BY <2>4, <2>5
<1>4. /\ done.doc = [c \in Counter |-> next(c)]
      /\ done.spent = [c \in Counter |-> account(c)]
      /\ done.left = at[NumCounters]
  BY DEF DebitService
<1> HIDE DEF at, account, next, done
<1>5. done.doc \in SoundDocument
  BY <1>3, <1>4 DEF SoundDocument
<1>6. done.spent \in [Counter -> Nat]
  BY <1>3, <1>4
<1>7. \A c \in Counter : doc[c].balance = done.doc[c].balance + done.spent[c]
  BY <1>3, <1>4
<1>8. done.left \in Nat
  BY <1>2, <1>4
<1> QED BY <1>5, <1>6, <1>7, <1>8 DEF done

\* debitMonetaryReservations accounts no more to a counter than it has reserved.
LEMMA ValueAccountFact ==
  ASSUME NEW doc \in SoundDocument, NEW r \in Ref, NEW c \in Counter, NEW value \in Int
  PROVE  /\ ValueAccount(doc, r, c, value) \in Nat
         /\ ValueAccount(doc, r, c, value) <= doc[c].reserved[r].amount
<1>1. PICK a \in Nat : a = doc[c].reserved[r].amount
  BY StateFields DEF SoundDocument, Sound
<1>2. PICK b \in Nat : b = Greatest(value, 0)
  BY DEF Greatest
<1>3. Least(a, b) \in Nat /\ Least(a, b) <= a
  BY DEF Least
<1>4. ValueAccount(doc, r, c, value) \in {Least(a, b), 0}
  BY <1>1, <1>2 DEF ValueAccount
<1> QED BY <1>1, <1>3, <1>4

\* The value the loop of debitMonetaryReservations carries is whole.
LEMMA ValueUnspentInt ==
  ASSUME NEW doc \in SoundDocument, NEW r \in Ref, NEW units \in Int
  PROVE  ValueUnspent(doc, r, units) \in [0..NumCounters -> Int]
<1> DEFINE body == [c \in Counter |->
          [value \in Int |-> value - ValueAccount(doc, r, c, value)]]
<1>1. body \in [Counter -> [Int -> Int]]
  <2>1. ASSUME NEW c \in Counter, NEW value \in Int
        PROVE  value - ValueAccount(doc, r, c, value) \in Int
    <3>1. PICK a \in Nat : a = ValueAccount(doc, r, c, value)
      BY ValueAccountFact
    <3> QED BY <3>1
  <2> QED BY <2>1
<1>2. ValueUnspent(doc, r, units) = Loop(NumCounters, Cost(r, units), body)
  BY DEF ValueUnspent
<1>3. Cost(r, units) \in Int
  BY CostInt
<1> DEFINE X == Int
           first == Cost(r, units)
<1>4. first \in X /\ body \in [Counter -> [X -> X]]
  BY <1>1, <1>3
<1> HIDE DEF body, first, X
<1>5. Loop(NumCounters, first, body) \in [0..NumCounters -> X]
  BY <1>4, CounterLoop
<1> QED BY <1>2, <1>5 DEF first, X

\* The same as DebitServiceSound for the monetary counters.
LEMMA DebitMonetarySound ==
  ASSUME NEW doc \in SoundDocument, NEW r \in Ref, NEW units \in Nat,
         NEW reclaim \in BOOLEAN
  PROVE  LET done == DebitMonetary(doc, r, units, reclaim)
         IN  /\ done.doc \in SoundDocument
             /\ done.spent \in [Counter -> Nat]
             /\ done.left \in Int
             /\ \A c \in Counter : doc[c].balance = done.doc[c].balance + done.spent[c]
<1> DEFINE at == ValueUnspent(doc, r, units)
           account(c) == ValueAccount(doc, r, c, at[c - 1])
           drop(c) == reclaim \/ at[c - 1] <= 0
           next(c) == IF c \in Holding(doc, r, TRUE)
                        THEN Spend(doc[c], r, account(c), drop(c))
                        ELSE doc[c]
           done == DebitMonetary(doc, r, units, reclaim)
<1>1. at \in [0..NumCounters -> Int]
  BY ValueUnspentInt
<1>3. ASSUME NEW c \in Counter
      PROVE  /\ next(c) \in Sound
             /\ account(c) \in Nat
             /\ doc[c].balance = next(c).balance + account(c)
  <2>1. PICK b \in Int : b = at[c - 1]
    <3> HIDE DEF at
    <3> QED BY <1>1, BeforeInt
  <2>2. PICK a \in Nat : a = account(c) /\ a <= doc[c].reserved[r].amount
    <3> HIDE DEF at
    <3>1. account(c) = ValueAccount(doc, r, c, b)
      BY <2>1
    <3> HIDE DEF account
    <3> QED BY <3>1, ValueAccountFact
  <2>3. doc[c] \in Sound /\ doc[c].balance \in Nat
    BY StateFields DEF SoundDocument, Sound
  <2>4. CASE c \in Holding(doc, r, TRUE)
    <3>1. next(c) = Spend(doc[c], r, a, drop(c))
      BY <2>2, <2>4
    <3>2. drop(c) \in BOOLEAN
      OBVIOUS
    <3> HIDE DEF next, account, drop
    <3> QED BY <2>2, <2>3, <3>1, <3>2, SpendSound
  <2>5. CASE c \notin Holding(doc, r, TRUE)
    <3>1. next(c) = doc[c] /\ account(c) = 0
      BY <2>5 DEF ValueAccount
    <3> HIDE DEF next, account
    <3> QED BY <2>3, <3>1
  <2> QED BY <2>4, <2>5
<1>4. /\ done.doc = [c \in Counter |-> next(c)]
      /\ done.spent = [c \in Counter |-> account(c)]
  BY DEF DebitMonetary
<1>8. done.left \in Int
  <2>1. PICK b \in Int : b = at[NumCounters]
    <3> HIDE DEF at
    <3> QED BY <1>1, LastInt
  <2>2. PICK n \in Nat, m \in Nat, p \in Nat :
          /\ n = Tariff[r].num /\ m = Tariff[r].den /\ p = Tariff[r].price
          /\ n > 0 /\ p > 0
    BY TermsFact
  <2>3. b * m \in Int /\ n * p \in Nat \ {0}
    <3>1. b * m \in Int /\ n * p \in Nat
      BY MulFact
    <3>2. n * p # 0
      BY <2>2
    <3> QED BY <3>1, <3>2
  <2>4. (b * m) \div (n * p) \in Int
    BY <2>3, DivFact
  <2>5. done.left = units \/ done.left = (b * m) \div (n * p)
    BY <2>1, <2>2 DEF DebitMonetary
  <2> HIDE DEF done
  <2> QED BY <2>4, <2>5
<1> HIDE DEF at, account, drop, next, done
<1>5. done.doc \in SoundDocument
  BY <1>3, <1>4 DEF SoundDocument
<1>6. done.spent \in [Counter -> Nat]
  BY <1>3, <1>4
<1>7. \A c \in Counter : doc[c].balance = done.doc[c].balance + done.spent[c]
  BY <1>3, <1>4
<1> QED BY <1>5, <1>6, <1>7, <1>8 DEF done

\* Debit keeps every counter covered, and every balance falls by exactly what
\* the journal says was spent on it.
LEMMA DebitSound ==
  ASSUME NEW doc \in SoundDocument, NEW r \in Ref, NEW units \in Nat,
         NEW reclaim \in BOOLEAN
  PROVE  LET done == Debit(doc, r, units, reclaim)
         IN  /\ done.doc \in SoundDocument
             /\ done.spent \in [Counter -> Nat]
             /\ done.unaccounted \in Int
             /\ \A c \in Counter : doc[c].balance = done.doc[c].balance + done.spent[c]
<1> DEFINE service == IF Tariff[r].money
                        THEN [doc |-> doc, spent |-> [c \in Counter |-> 0], left |-> units]
                        ELSE DebitService(doc, r, units, reclaim)
           money == DebitMonetary(service.doc, r, service.left, reclaim)
           done == Debit(doc, r, units, reclaim)
<1>1. \A c \in Counter : doc[c].balance \in Nat
  BY StateFields DEF SoundDocument, Sound
<1>2. /\ service.doc \in SoundDocument
      /\ service.spent \in [Counter -> Nat]
      /\ service.left \in Nat
      /\ \A c \in Counter : doc[c].balance = service.doc[c].balance + service.spent[c]
  <2>1. CASE Tariff[r].money
    BY <1>1, <2>1
  <2>2. CASE ~Tariff[r].money
    BY <2>2, DebitServiceSound
  <2> QED BY <2>1, <2>2
<1>3. /\ money.doc \in SoundDocument
      /\ money.spent \in [Counter -> Nat] /\ money.left \in Int
      /\ \A c \in Counter : service.doc[c].balance = money.doc[c].balance + money.spent[c]
  <2> HIDE DEF service
  <2> QED BY <1>2, DebitMonetarySound
<1>4. CASE ~(service.left > 0)
  <2>1. /\ done.doc = service.doc /\ done.spent = service.spent
        /\ done.unaccounted = service.left
    BY <1>4 DEF Debit
  <2> HIDE DEF done, service
  <2> QED BY <1>2, <2>1 DEF done
<1>5. CASE service.left > 0
  <2>1. /\ done.doc = money.doc
        /\ done.spent = [c \in Counter |-> service.spent[c] + money.spent[c]]
        /\ done.unaccounted = money.left
    BY <1>5 DEF Debit
  <2> HIDE DEF done, service, money
  <2>2. ASSUME NEW c \in Counter
        PROVE  /\ done.spent[c] \in Nat
               /\ doc[c].balance = done.doc[c].balance + done.spent[c]
    <3>1. PICK x \in Nat, y \in Nat : x = service.spent[c] /\ y = money.spent[c]
      BY <1>2, <1>3
    <3>2. PICK a \in Nat, b \in Nat, d \in Nat :
            a = doc[c].balance /\ b = service.doc[c].balance /\ d = money.doc[c].balance
      BY <1>1, <1>2, <1>3, StateFields DEF SoundDocument, Sound
    <3>3. a = b + x /\ b = d + y
      BY <1>2, <1>3, <3>1, <3>2
    <3>4. a = d + (x + y) /\ x + y \in Nat
      BY <3>3
    <3>5. done.spent[c] = x + y /\ done.doc[c].balance = d
      BY <2>1, <3>1, <3>2
    <3> QED BY <3>2, <3>4, <3>5
  <2>3. done.spent \in [Counter -> Nat]
    BY <2>1, <2>2
  <2>4. done.doc \in SoundDocument /\ done.unaccounted \in Int
    BY <1>3, <2>1
  <2> QED BY <2>2, <2>3, <2>4 DEF done
<1> QED BY <1>4, <1>5

\* Release keeps every counter covered and moves no balance.
LEMMA ReleaseSound ==
  ASSUME NEW doc \in SoundDocument, NEW r \in Ref
  PROVE  /\ Release(doc, r) \in SoundDocument
         /\ \A c \in Counter : Release(doc, r)[c].balance = doc[c].balance
<1> DEFINE next(c) == [doc[c] EXCEPT !.reserved[r] = NoReservation]
<1>1. ASSUME NEW c \in Counter
      PROVE  next(c) \in Sound /\ next(c).balance = doc[c].balance
  <2>1. doc[c] \in Sound
    BY DEF SoundDocument
  <2> QED BY <2>1, ReleasedSound
<1>2. Release(doc, r) = [c \in Counter |-> next(c)]
  BY DEF Release
<1> HIDE DEF next
<1> QED BY <1>1, <1>2 DEF SoundDocument

-----------------------------------------------------------------------------
\* n ones add up to n.
LEMMA TotalOnes ==
  ASSUME NEW n \in Nat
  PROVE  Total([k \in 1..n |-> 1], n) = n
<1> DEFINE f == [k \in 1..n |-> 1]
<1>1. f \in [1..n -> Int]
  OBVIOUS
<1>2. PICK p \in [0..n -> Int] :
        /\ p[0] = 0
        /\ \A k \in 1..n : p[k] = p[k - 1] + f[k]
        /\ Total(f, n) = p[n]
  <2> HIDE DEF f
  <2> QED BY <1>1, PartialSums
<1> DEFINE S == {k \in 0..n : p[k] = k}
<1>3. 0 \in S
  BY <1>2
<1>4. \A k \in 1..n : k - 1 \in S => k \in S
  BY <1>2
<1>5. \A k \in 0..n : k \in S
  <2> HIDE DEF S
  <2> QED BY <1>3, <1>4, UpTo
<1> QED BY <1>2, <1>5

\* How many counters are in a set: a position in the slice.
LEMMA CountFact ==
  ASSUME NEW C \in SUBSET Counter
  PROVE  LET count == Total([c \in Counter |-> IF c \in C THEN 1 ELSE 0], NumCounters)
         IN  /\ count \in 0..NumCounters
             /\ C # {} => count > 0
             /\ C # Counter => count < NumCounters
<1> DEFINE f == [c \in Counter |-> IF c \in C THEN 1 ELSE 0]
           ones == [k \in 1..NumCounters |-> 1]
<1>1. /\ f \in [1..NumCounters -> Nat] /\ f \in [1..NumCounters -> Int]
      /\ ones \in [1..NumCounters -> Int]
      /\ \A k \in 1..NumCounters : f[k] <= ones[k]
  BY DEF Counter
<1>2. /\ Total(f, NumCounters) \in Nat
      /\ \A k \in 1..NumCounters : f[k] <= Total(f, NumCounters)
  <2> HIDE DEF f
  <2> QED BY <1>1, SizeAssumption, TotalNat
<1>3. Total(f, NumCounters) <= Total(ones, NumCounters)
  <2> HIDE DEF f, ones
  <2> QED BY <1>1, SizeAssumption, TotalMono
<1>4. Total(ones, NumCounters) = NumCounters
  BY SizeAssumption, TotalOnes
<1>5. PICK count \in Nat : count = Total(f, NumCounters)
  BY <1>2
<1>6. count <= NumCounters
  BY <1>3, <1>4, <1>5
<1>7. ASSUME C # {} PROVE count > 0
  <2>1. PICK c \in C : TRUE
    BY <1>7
  <2>2. f[c] = 1 /\ c \in 1..NumCounters
    BY DEF Counter
  <2> HIDE DEF f
  <2>3. 1 <= count
    BY <1>2, <1>5, <2>2
  <2> QED BY <2>3
<1>8. ASSUME C # Counter PROVE count < NumCounters
  <2>1. PICK c \in Counter : c \notin C
    BY <1>8
  <2> DEFINE g == [k \in 1..NumCounters |-> IF k = c THEN 1 ELSE f[k]]
  <2>2. /\ g \in [1..NumCounters -> Int]
        /\ \A k \in 1..NumCounters : k # c => g[k] = f[k]
        /\ \A k \in 1..NumCounters : g[k] <= ones[k]
        /\ c \in 1..NumCounters /\ f[c] = 0 /\ g[c] = 1
    BY <1>1, <2>1 DEF Counter
  <2> HIDE DEF f, g, ones
  <2>3. Total(g, NumCounters) = Total(f, NumCounters) - f[c] + g[c]
    BY <1>1, <2>2, SizeAssumption, TotalUpdate
  <2>4. Total(g, NumCounters) = count + 1
    BY <1>5, <2>2, <2>3
  <2>5. Total(g, NumCounters) <= NumCounters
    BY <1>1, <1>4, <2>2, SizeAssumption, TotalMono
  <2> QED BY <2>4, <2>5, SizeAssumption
<1> HIDE DEF f
<1> QED BY <1>5, <1>6, <1>7, <1>8, SizeAssumption DEF f

-----------------------------------------------------------------------------
\* What CounterAssumption says of the loan of one counter.
LEMMA TermsOfLoan ==
  ASSUME NEW c \in Counter
  PROVE  /\ LoanTerms[c].fee \in Nat /\ LoanTerms[c].minimum \in Nat
         /\ LoanTerms[c].percent \in 0..100
         /\ Initial[c] \in Nat
BY CounterAssumption DEF LoanInfo

\* A percentage takes no more than there is, and some of what there is.
LEMMA PercentFact ==
  ASSUME NEW value \in Nat, NEW percent \in 0..100
  PROVE  /\ PercentOf(value, percent) \in 0..value
         /\ value > 0 /\ percent > 0 => PercentOf(value, percent) > 0
<1>1. value * percent \in Nat
  OBVIOUS
<1>2. value * percent <= value * 100
  <2>1. 100 - percent \in Nat
    OBVIOUS
  <2>2. value * (100 - percent) \in Nat
    BY <2>1
  <2>3. value * (100 - percent) = value * 100 - value * percent
    OBVIOUS
  <2> QED BY <1>1, <2>2, <2>3
<1>3. value > 0 /\ percent > 0 => value * percent > 0
  OBVIOUS
<1>4. PICK m \in Nat : m = value * percent /\ m <= value * 100
  BY <1>1, <1>2
<1>5. (m + 99) \div 100 \in 0..value /\ (m > 0 => (m + 99) \div 100 > 0)
  BY <1>4
<1>6. PercentOf(value, percent) = (m + 99) \div 100
  BY <1>4 DEF PercentOf
<1> QED BY <1>3, <1>4, <1>5, <1>6

\* A loan takes no more than there is and no more than it is owed.
LEMMA ClawFact ==
  ASSUME NEW doc \in SoundDocument, NEW c \in Counter, NEW value \in Nat
  PROVE  /\ Claw(doc, c, value).fee \in Nat /\ Claw(doc, c, value).loan \in Nat
         /\ Claw(doc, c, value).fee <= doc[c].fee
         /\ Claw(doc, c, value).loan <= doc[c].loan
         /\ Claw(doc, c, value).fee + Claw(doc, c, value).loan <= value
<1>1. PICK fee \in Nat, loan \in Nat : fee = doc[c].fee /\ loan = doc[c].loan
  BY StateFields DEF SoundDocument, Sound
<1>2. PICK minimum \in Nat, percent \in 0..100 :
        minimum = LoanTerms[c].minimum /\ percent = LoanTerms[c].percent
  BY TermsOfLoan
<1> DEFINE due == IF loan <= minimum THEN Least(loan, value)
                  ELSE IF percent = 0 THEN Least(minimum, value)
                  ELSE PercentOf(value, percent)
           paid == Least(due, fee)
           back == Least(due - paid, loan)
<1>3. due \in 0..value
  <2>1. Least(loan, value) \in 0..value /\ Least(minimum, value) \in 0..value
    BY DEF Least
  <2>2. PercentOf(value, percent) \in 0..value
    BY PercentFact
  <2> QED BY <2>1, <2>2
<1> HIDE DEF due
<1>4. paid \in Nat /\ paid <= fee /\ paid <= due
  BY <1>3 DEF Least
<1> HIDE DEF paid
<1>5. back \in Nat /\ back <= loan /\ paid + back <= value
  BY <1>3, <1>4 DEF Least
<1> HIDE DEF back
<1>6. CASE value > 0
  <2>1. Claw(doc, c, value) = [fee |-> paid, loan |-> back]
    BY <1>1, <1>2, <1>6 DEF Claw, Clawback, due, paid, back
  <2> QED BY <1>1, <1>4, <1>5, <2>1
<1>7. CASE value = 0
  <2>1. Claw(doc, c, value) = [fee |-> 0, loan |-> 0]
    BY <1>7 DEF Claw
  <2> QED BY <1>1, <1>7, <2>1
<1> QED BY <1>6, <1>7

\* What is left after the loans is a part of what came in.
LEMMA LoanValueFact ==
  ASSUME NEW doc \in SoundDocument, NEW value \in Nat
  PROVE  LoanValue(doc, value) \in [0..NumCounters -> 0..value]
<1> DEFINE at(p) == CHOOSE d \in InDebt(doc) : doc[d].position = p
           rest(p, left) ==
             IF \E c \in InDebt(doc) : doc[c].position = p
               THEN left - Claw(doc, at(p), left).fee - Claw(doc, at(p), left).loan
               ELSE left
           body == [p \in Counter |-> [left \in 0..value |-> rest(p, left)]]
<1>1. ASSUME NEW p \in Counter, NEW left \in 0..value PROVE rest(p, left) \in 0..value
  <2>1. CASE \E c \in InDebt(doc) : doc[c].position = p
    <3>1. at(p) \in Counter
      BY <2>1 DEF InDebt
    <3>2. PICK x \in Nat, y \in Nat :
            /\ x = Claw(doc, at(p), left).fee /\ y = Claw(doc, at(p), left).loan
            /\ x + y <= left
      <4> HIDE DEF at
      <4> QED BY <3>1, ClawFact
    <3>3. rest(p, left) = left - x - y
      BY <2>1, <3>2
    <3> HIDE DEF rest
    <3> QED BY <3>2, <3>3
  <2>2. CASE ~ \E c \in InDebt(doc) : doc[c].position = p
    BY <2>2
  <2> QED BY <2>1, <2>2
<1>2. body \in [Counter -> [0..value -> 0..value]]
  <2> HIDE DEF rest
  <2> QED BY <1>1
<1>3. LoanValue(doc, value) = Loop(NumCounters, value, body)
  BY DEF LoanValue
<1> DEFINE X == 0..value
           first == value
<1>4. first \in X /\ body \in [Counter -> [X -> X]]
  BY <1>2
<1> HIDE DEF body, first, X
<1>5. Loop(NumCounters, first, body) \in [0..NumCounters -> X]
  BY <1>4, CounterLoop
<1> QED BY <1>3, <1>5 DEF first, X

\* A counter just provisioned is covered and comes last in the slice.
LEMMA NewCounterSound ==
  ASSUME NEW doc \in SoundDocument, NEW c \in Counter, ~Live(doc[c]),
         NEW balance \in Nat
  PROVE  [NewCounter(doc, c) EXCEPT !.balance = balance] \in Sound
<1> DEFINE C == {d \in Counter : Live(doc[d])}
           size == Total([d \in Counter |-> IF d \in C THEN 1 ELSE 0], NumCounters)
           u == [NewCounter(doc, c) EXCEPT !.balance = balance]
<1>1. size \in Nat /\ size < NumCounters
  <2>1. C \in SUBSET Counter /\ C # Counter
    OBVIOUS
  <2> HIDE DEF C
  <2> QED BY <2>1, CountFact
<1>2. Size(doc) = size
  <2>1. [d \in Counter |-> IF Live(doc[d]) THEN 1 ELSE 0]
          = [d \in Counter |-> IF d \in C THEN 1 ELSE 0]
    OBVIOUS
  <2> QED BY <2>1 DEF Size
<1> HIDE DEF size
<1>3. Unreserved \in [Ref -> Reservation] /\ \A q \in Ref : Unreserved[q].amount = 0
  BY DEF Unreserved, NoReservation, Reservation
<1>4. Initial[c] \in Nat /\ LoanTerms[c].fee \in Nat
  BY TermsOfLoan
<1>5. /\ u \in CounterState /\ u.position = 1 + size /\ u.balance = balance
      /\ u.reserved = Unreserved
  BY <1>1, <1>2, <1>3, <1>4 DEF NewCounter, CounterState
<1> HIDE DEF u
<1>6. Reserved(u) = 0
  BY <1>3, <1>5, ReservedZero
<1>7. u.position <= NumCounters /\ Live(u)
  BY <1>1, <1>5, SizeAssumption DEF Live
<1>8. Reserved(u) <= u.balance
  BY <1>5, <1>6
<1> QED BY <1>5, <1>7, <1>8 DEF Sound, u

\* Paying down the loan of a counter leaves its balance covered.
LEMMA RepaidSound ==
  ASSUME NEW s \in Sound, NEW loan \in Nat, NEW fee \in Nat,
         loan <= s.loan, fee <= s.fee
  PROVE  /\ [s EXCEPT !.loan = @ - loan, !.fee = @ - fee] \in Sound
         /\ [s EXCEPT !.loan = @ - loan, !.fee = @ - fee].balance = s.balance
<1> DEFINE u == [s EXCEPT !.loan = @ - loan, !.fee = @ - fee]
<1>1. s \in CounterState /\ Reserved(s) <= s.balance /\ s.position <= NumCounters
      /\ (~Live(s) => s.balance = 0 /\ s.loan = 0)
  BY DEF Sound
<1>2. s.loan - loan \in Nat /\ s.fee - fee \in Nat
  <2>1. PICK a \in Nat, b \in Nat : a = s.loan /\ b = s.fee
    BY <1>1, StateFields
  <2> QED BY <2>1
<1>3. u = [s EXCEPT !.loan = s.loan - loan, !.fee = s.fee - fee]
  OBVIOUS
<1>4. /\ u \in CounterState /\ u.position = s.position /\ u.balance = s.balance
      /\ u.reserved = s.reserved /\ u.loan = s.loan - loan
  BY <1>1, <1>2, <1>3 DEF CounterState
<1>5. Reserved(u) = Reserved(s)
  BY <1>4 DEF Reserved
<1>6. s.loan = 0 => u.loan = 0
  <2>1. PICK a \in Nat : a = s.loan
    BY <1>1, StateFields
  <2> QED BY <1>4, <2>1
<1> HIDE DEF u
<1> QED BY <1>1, <1>4, <1>5, <1>6 DEF Sound, Live, u

\* What a repaying counter brings is its balance and what the loans took.
LEMMA AddCounterSound ==
  ASSUME NEW doc \in SoundDocument, NEW c \in Counter, ~Live(doc[c])
  PROVE  LET done == AddCounter(doc, c)
         IN  /\ done.doc \in SoundDocument
             /\ done.repaid \in Nat
             /\ Initial[c] = done.doc[c].balance + done.repaid
             /\ \A d \in Counter : d # c => done.doc[d].balance = doc[d].balance
<1> DEFINE repays == c \in Repays /\ ~LoanTerms[c].given
           left == LoanValue(doc, Initial[c])
           none == [fee |-> 0, loan |-> 0]
           paid(d) == IF repays /\ d \in InDebt(doc)
                        THEN Claw(doc, d, left[doc[d].position - 1])
                        ELSE none
           next(d) == [doc[d] EXCEPT !.loan = @ - paid(d).loan, !.fee = @ - paid(d).fee]
           balance == IF repays THEN Greatest(left[NumCounters], 0) ELSE Initial[c]
           new == [NewCounter(doc, c) EXCEPT !.balance = balance]
           done == AddCounter(doc, c)
<1>1. PICK initial \in Nat : initial = Initial[c]
  BY TermsOfLoan
<1>2. left \in [0..NumCounters -> 0..initial]
  BY <1>1, LoanValueFact
<1>3. PICK last \in 0..initial : last = left[NumCounters]
  <2> HIDE DEF left
  <2> QED BY <1>2, SizeAssumption
<1>4. ASSUME NEW d \in Counter
      PROVE  next(d) \in Sound /\ next(d).balance = doc[d].balance
  <2>1. PICK p \in Nat, loan \in Nat, fee \in Nat :
          p = doc[d].position /\ loan = doc[d].loan /\ fee = doc[d].fee
    BY StateFields DEF SoundDocument, Sound
  <2>2. paid(d).loan \in Nat /\ paid(d).fee \in Nat /\ paid(d).loan <= loan /\ paid(d).fee <= fee
    <3>1. CASE repays /\ d \in InDebt(doc)
      <4>1. p > 0 /\ p <= NumCounters
        BY <2>1, <3>1 DEF InDebt, SoundDocument, Sound, Live
      <4>2. p - 1 \in 0..NumCounters
        BY <4>1, SizeAssumption
      <4>3. left[p - 1] \in Nat
        <5> HIDE DEF left
        <5> QED BY <1>2, <4>2
      <4>4. paid(d) = Claw(doc, d, left[p - 1])
        BY <2>1, <3>1
      <4> HIDE DEF paid, left
      <4> QED BY <2>1, <4>3, <4>4, ClawFact
    <3>2. CASE ~(repays /\ d \in InDebt(doc))
      <4>1. paid(d) = none
        BY <3>2
      <4> HIDE DEF paid
      <4> QED BY <4>1
    <3> QED BY <3>1, <3>2
  <2>3. doc[d] \in Sound
    BY DEF SoundDocument
  <2> HIDE DEF paid
  <2> QED BY <2>1, <2>2, <2>3, RepaidSound
<1>5. balance \in Nat
  BY <1>1, <1>3 DEF Greatest
<1>6. new \in Sound /\ new.balance = balance
  <2> HIDE DEF balance
  <2>1. new \in Sound
    BY <1>5, NewCounterSound
  <2>2. new.balance = balance
    BY DEF NewCounter
  <2> QED BY <2>1, <2>2
<1>7. /\ done.doc = [d \in Counter |-> IF d = c THEN new ELSE next(d)]
      /\ done.repaid = IF repays THEN Initial[c] - left[NumCounters] ELSE 0
  <2>1. [NewCounter(doc, c) EXCEPT !.balance = IF repays THEN Greatest(left[NumCounters], 0) ELSE @]
          = new
    BY DEF NewCounter
  <2>2. \A d \in Counter :
          [e \in Counter |-> IF repays /\ e \in InDebt(doc)
                               THEN Claw(doc, e, left[doc[e].position - 1])
                               ELSE none][d] = paid(d)
    OBVIOUS
  <2> HIDE DEF new, left
  <2> QED BY <2>1, <2>2 DEF AddCounter, left
<1>8. Initial[c] = balance + done.repaid /\ done.repaid \in Nat
  <2>1. CASE repays
    <3>1. balance = last
      BY <1>3, <2>1 DEF Greatest
    <3>2. done.repaid = initial - last
      BY <1>1, <1>3, <1>7, <2>1
    <3> HIDE DEF done, balance
    <3> QED BY <1>1, <3>1, <3>2
  <2>2. CASE ~repays
    <3>1. balance = initial /\ done.repaid = 0
      BY <1>1, <1>7, <2>2
    <3> HIDE DEF done, balance
    <3> QED BY <1>1, <3>1
  <2> QED BY <2>1, <2>2
<1> HIDE DEF done, next, new, balance
<1>9. done.doc \in SoundDocument
  BY <1>4, <1>6, <1>7 DEF SoundDocument
<1>10. done.doc[c].balance = balance
  BY <1>6, <1>7
<1>11. \A d \in Counter : d # c => done.doc[d].balance = doc[d].balance
  BY <1>4, <1>7
<1> QED BY <1>8, <1>9, <1>10, <1>11 DEF done

-----------------------------------------------------------------------------
\* Expiry writes off what it removes, and nothing that is reserved.
LEMMA ExpireSound ==
  ASSUME NEW doc \in SoundDocument, NEW t \in Nat
  PROVE  LET done == Expire(doc, t)
         IN  /\ done.doc \in SoundDocument
             /\ done.expired \in [Counter -> Nat]
             /\ \A c \in Counter : doc[c].balance = done.doc[c].balance + done.expired[c]
<1> DEFINE pruned(c) == Pruned(doc[c], t)
           kept == {c \in Counter : Kept(c, pruned(c), t)}
           C(c) == {d \in Counter : d \in kept /\ doc[d].position <= doc[c].position}
           index(c) == Total([d \in Counter |-> IF d \in C(c) THEN 1 ELSE 0], NumCounters)
           off(c) == WrittenOff(c, pruned(c), t)
           next(c) == IF c \in kept
                        THEN [pruned(c) EXCEPT !.position = index(c), !.balance = @ - off(c)]
                        ELSE Absent
           done == Expire(doc, t)
<1>1. ASSUME NEW c \in Counter
      PROVE  pruned(c) \in Sound /\ pruned(c).balance = doc[c].balance
  BY PrunedSound DEF SoundDocument
<1>2. ASSUME NEW c \in Counter
      PROVE  index(c) \in 0..NumCounters /\ (c \in kept => index(c) > 0)
  <2>1. C(c) \in SUBSET Counter
    OBVIOUS
  <2>2. c \in kept => C(c) # {}
    <3>1. doc[c].position \in Nat
      BY StateFields DEF SoundDocument, Sound
    <3> HIDE DEF kept
    <3> QED BY <3>1
  <2> HIDE DEF C
  <2> QED BY <2>1, <2>2, CountFact
<1>3. ASSUME NEW c \in Counter
      PROVE  /\ off(c) \in Nat
             /\ off(c) = pruned(c).balance \/ off(c) = 0
             /\ off(c) # 0 => ~Held(pruned(c))
  <2>1. pruned(c).balance \in Nat
    BY <1>1, StateFields DEF Sound
  <2> HIDE DEF pruned
  <2> QED BY <2>1 DEF WrittenOff
<1>4. ASSUME NEW c \in Counter, c \in kept
      PROVE  next(c) \in Sound /\ pruned(c).balance = next(c).balance + off(c)
  <2> DEFINE s == pruned(c)
             u == [s EXCEPT !.position = index(c), !.balance = @ - off(c)]
  <2>1. PICK i \in Nat, o \in Nat, b \in Nat, R \in Nat :
          /\ i = index(c) /\ o = off(c) /\ b = s.balance /\ R = Reserved(s)
          /\ i > 0 /\ i <= NumCounters /\ (o = b \/ o = 0) /\ R <= b
          /\ o # 0 => ~Held(s)
    <3>1. s \in CounterState /\ Reserved(s) <= s.balance
      BY <1>1 DEF Sound
    <3>2. s.balance \in Nat /\ Reserved(s) \in Nat
      BY <3>1, StateFields, ReservedNat
    <3>3. index(c) \in Nat /\ index(c) > 0 /\ index(c) <= NumCounters
      BY <1>2, <1>4, SizeAssumption
    <3> HIDE DEF pruned, index, off, s
    <3> QED BY <1>3, <3>1, <3>2, <3>3 DEF s
  <2>2. s \in CounterState
    BY <1>1 DEF Sound
  <2>3. /\ u \in CounterState /\ u.position = i /\ u.balance = b - o
        /\ u.reserved = s.reserved
    <3>1. b - o \in Nat
      BY <2>1
    <3>2. u = [s EXCEPT !.position = i, !.balance = b - o]
      BY <2>1
    <3> HIDE DEF s, u
    <3> QED BY <2>2, <3>1, <3>2 DEF CounterState
  <2>4. Reserved(u) = R
    BY <2>1, <2>3 DEF Reserved
  <2>5. o # 0 => R = 0
    <3>1. ASSUME o # 0 PROVE \A q \in Ref : s.reserved[q].amount = 0
      <4>1. ~Held(s)
        BY <2>1, <3>1
      <4> HIDE DEF s
      <4>2. \A q \in Ref : s.reserved[q].amount \in Nat
        BY <2>2, StateFields
      <4> QED BY <4>1, <4>2 DEF Held
    <3> HIDE DEF s
    <3> QED BY <2>1, <2>2, <3>1, ReservedZero
  <2>6. R <= b - o
    BY <2>1, <2>5
  <2>7. Live(u) /\ u.position <= NumCounters
    BY <2>1, <2>3 DEF Live
  <2>8. next(c) = u
    BY <1>4
  <2>9. u \in Sound
    <3> HIDE DEF u, s
    <3> QED BY <2>3, <2>4, <2>6, <2>7 DEF Sound
  <2>10. b = (b - o) + o
    BY <2>1
  <2> HIDE DEF next, u, off
  <2> QED BY <2>1, <2>3, <2>8, <2>9, <2>10
<1>5. ASSUME NEW c \in Counter, c \notin kept
      PROVE  next(c) \in Sound /\ pruned(c).balance = next(c).balance + off(c)
  <2>1. Absent \in Sound /\ Absent.balance = 0
    <3>1. Unreserved \in [Ref -> Reservation] /\ \A q \in Ref : Unreserved[q].amount = 0
      BY DEF Unreserved, NoReservation, Reservation
    <3>2. /\ Absent \in CounterState /\ Absent.reserved = Unreserved
          /\ Absent.position = 0 /\ Absent.balance = 0 /\ Absent.loan = 0
      BY <3>1 DEF Absent, CounterState
    <3>3. Reserved(Absent) = 0
      BY <3>1, <3>2, ReservedZero
    <3> QED BY <3>2, <3>3, SizeAssumption DEF Sound
  <2>2. next(c) = Absent
    BY <1>5
  <2>3. pruned(c) \in Sound /\ pruned(c).balance \in Nat /\ pruned(c).loan \in Nat
    BY <1>1, StateFields DEF Sound
  <2>4. off(c) = pruned(c).balance
    <3>1. ~Kept(c, pruned(c), t)
      BY <1>5
    <3> HIDE DEF pruned
    <3>2. CASE ~Live(pruned(c))
      BY <2>3, <3>2 DEF Sound, WrittenOff
    <3>3. CASE Live(pruned(c)) /\ ExpiryAt[c] > t
      BY <3>1, <3>3 DEF Kept, WrittenOff
    <3>4. CASE Live(pruned(c)) /\ ~(ExpiryAt[c] > t)
      <4>1. ~Held(pruned(c))
        BY <3>1, <3>4 DEF Kept
      <4>2. ExpiryAt[c] \in Nat
        BY CounterAssumption
      <4>3. ExpiryAt[c] <= t
        BY <3>4, <4>2
      <4> QED BY <3>4, <4>1, <4>3 DEF WrittenOff
    <3> QED BY <3>2, <3>3, <3>4
  <2> HIDE DEF next, off, pruned
  <2> QED BY <2>1, <2>2, <2>3, <2>4
<1>6. /\ done.doc = [c \in Counter |-> next(c)]
      /\ done.expired = [c \in Counter |-> off(c)]
  <2> DEFINE P == Tabulated([c \in Counter |-> Pruned(doc[c], t)])
             K == {c \in Counter : Kept(c, P[c], t)}
             count(c) == [d \in Counter |->
                            IF d \in K /\ doc[d].position <= doc[c].position
                              THEN 1 ELSE 0]
             table == [c \in Counter |->
                         IF c \in K
                           THEN [P[c] EXCEPT
                                   !.position = Place(doc, K, c),
                                   !.balance  = @ - WrittenOff(c, P[c], t)]
                           ELSE Absent]
  <2>1. done = [doc     |-> Tabulated(table),
                expired |-> [c \in Counter |-> WrittenOff(c, P[c], t)]]
    BY DEF Expire
  <2>2. P = [c \in Counter |-> pruned(c)]
    BY TabulatedFact
  <2>3. ASSUME NEW c \in Counter PROVE P[c] = pruned(c)
    <3> HIDE DEF P, pruned
    <3> QED BY <2>2
  <2>4. K = kept
    <3> HIDE DEF P, pruned
    <3> QED BY <2>3
  <2>5. ASSUME NEW c \in Counter PROVE Place(doc, K, c) = index(c)
    <3>1. count(c) = [d \in Counter |-> IF d \in C(c) THEN 1 ELSE 0]
      <4> HIDE DEF K, kept
      <4> QED BY <2>4
    <3>2. Place(doc, K, c) = Total(count(c), NumCounters)
      BY DEF Place
    <3> HIDE DEF count, C, K
    <3> QED BY <3>1, <3>2
  <2>6. ASSUME NEW c \in Counter PROVE table[c] = next(c)
    <3> HIDE DEF P, K, kept, index, pruned
    <3> QED BY <2>3, <2>4, <2>5
  <2>7. Tabulated(table) = table /\ table = [c \in Counter |-> table[c]]
    BY TabulatedFact
  <2>8. [c \in Counter |-> WrittenOff(c, P[c], t)] = [c \in Counter |-> off(c)]
    <3> HIDE DEF P, pruned
    <3> QED BY <2>3
  <2> HIDE DEF table, next, done, P, off
  <2> QED BY <2>1, <2>6, <2>7, <2>8
<1> HIDE DEF pruned, kept, index, off, next, done
<1>7. done.doc \in SoundDocument
  BY <1>4, <1>5, <1>6 DEF SoundDocument
<1>8. done.expired \in [Counter -> Nat]
  BY <1>3, <1>6
<1>9. ASSUME NEW c \in Counter
      PROVE  doc[c].balance = done.doc[c].balance + done.expired[c]
  BY <1>1, <1>4, <1>5, <1>6
<1> QED BY <1>7, <1>8, <1>9 DEF done

-----------------------------------------------------------------------------
\* A call leaves a sound document and journals where the balance went.
Accounts(doc, call) ==
  /\ call.doc \in SoundDocument
  /\ call.early \in [Counter -> Early]
  /\ call.late \in [Counter -> Nat]
  /\ \A c \in Counter :
       doc[c].balance + call.early[c].provisioned
         = call.doc[c].balance + call.early[c].spent + call.early[c].repaid + call.late[c]

\* Balances of a sound document are natural numbers.
LEMMA BalanceNat ==
  ASSUME NEW doc \in SoundDocument, NEW c \in Counter
  PROVE  doc[c].balance \in Nat
BY StateFields DEF SoundDocument, Sound

\* The two expiry passes around an operation add only write-offs.
LEMMA CallAccounts ==
  ASSUME NEW doc \in SoundDocument, NEW t \in Nat,
         NEW mid \in SoundDocument, NEW early \in [Counter -> Early], NEW answer,
         \A c \in Counter :
           Expire(doc, t).doc[c].balance + early[c].provisioned
             = mid[c].balance + early[c].spent + early[c].repaid
  PROVE  Accounts(doc, Call(Expire(doc, t), mid, early, answer, t))
<1> DEFINE fresh == Expire(doc, t)
           final == Expire(mid, t)
           call == Call(fresh, mid, early, answer, t)
<1>1. /\ fresh.doc \in SoundDocument /\ fresh.expired \in [Counter -> Nat]
      /\ \A c \in Counter : doc[c].balance = fresh.doc[c].balance + fresh.expired[c]
  BY ExpireSound
<1>2. /\ final.doc \in SoundDocument /\ final.expired \in [Counter -> Nat]
      /\ \A c \in Counter : mid[c].balance = final.doc[c].balance + final.expired[c]
  BY ExpireSound
<1>3. /\ call.doc = final.doc /\ call.early = early
      /\ call.late = [c \in Counter |-> fresh.expired[c] + final.expired[c]]
  BY TabulatedFact DEF Call
<1>4. \A c \in Counter : fresh.doc[c].balance + early[c].provisioned
                           = mid[c].balance + early[c].spent + early[c].repaid
  OBVIOUS
<1> HIDE DEF fresh, final, call
<1>5. ASSUME NEW c \in Counter
      PROVE  /\ call.late[c] \in Nat
             /\ doc[c].balance + call.early[c].provisioned
                  = call.doc[c].balance + call.early[c].spent + call.early[c].repaid
                      + call.late[c]
  <2>1. PICK p \in Nat, s \in Nat, r \in Nat :
          p = early[c].provisioned /\ s = early[c].spent /\ r = early[c].repaid
    BY DEF Early
  <2>2. PICK e \in Nat, f \in Nat : e = fresh.expired[c] /\ f = final.expired[c]
    BY <1>1, <1>2
  <2>3. PICK b0 \in Nat, b1 \in Nat, b2 \in Nat, b3 \in Nat :
          /\ b0 = doc[c].balance /\ b1 = fresh.doc[c].balance
          /\ b2 = mid[c].balance /\ b3 = final.doc[c].balance
    BY <1>1, <1>2, BalanceNat
  <2>4. b0 = b1 + e /\ b1 + p = b2 + s + r /\ b2 = b3 + f
    BY <1>1, <1>2, <1>4, <2>1, <2>2, <2>3
  <2>5. b0 + p = b3 + s + r + (e + f) /\ e + f \in Nat
    BY <2>4
  <2>6. call.late[c] = e + f
    BY <1>3, <2>2
  <2> QED BY <1>3, <2>1, <2>3, <2>5, <2>6
<1>6. call.late \in [Counter -> Nat]
  BY <1>3, <1>5
<1>7. call.doc \in SoundDocument /\ call.early \in [Counter -> Early]
  BY <1>2, <1>3
<1> QED BY <1>5, <1>6, <1>7 DEF Accounts, call, fresh

\* An operation without journal entries posts nothing.
LEMMA NoEntriesFact ==
  /\ NoEntries \in [Counter -> Early]
  /\ \A c \in Counter : /\ NoEntries[c].provisioned = 0 /\ NoEntries[c].spent = 0
                         /\ NoEntries[c].repaid = 0
BY DEF NoEntries, NoEntry, Early

\* A call whose operation moves no balance.
LEMMA StillAccounts ==
  ASSUME NEW doc \in SoundDocument, NEW t \in Nat, NEW mid \in SoundDocument, NEW answer,
         \A c \in Counter : mid[c].balance = Expire(doc, t).doc[c].balance
  PROVE  Accounts(doc, Call(Expire(doc, t), mid, NoEntries, answer, t))
<1>1. ASSUME NEW c \in Counter
      PROVE  Expire(doc, t).doc[c].balance + NoEntries[c].provisioned
               = mid[c].balance + NoEntries[c].spent + NoEntries[c].repaid
  <2>1. PICK b \in Nat : b = mid[c].balance
    BY BalanceNat
  <2>2. b + 0 = b + 0 + 0
    OBVIOUS
  <2> QED BY <2>1, <2>2, NoEntriesFact
<1> QED BY <1>1, CallAccounts, NoEntriesFact

\* A call of ReserveQuota accounts for every balance it moves.
LEMMA ReserveAccounts ==
  ASSUME NEW doc \in SoundDocument, NEW r \in Ref, NEW units \in Nat, NEW t \in Nat
  PROVE  Accounts(doc, ReserveCall(doc, r, units, t))
<1> DEFINE fresh == Expire(doc, t)
           done == ReserveQuota(fresh.doc, r, units, t)
<1>1. fresh.doc \in SoundDocument
  BY ExpireSound
<1>2. /\ done.doc \in SoundDocument
      /\ \A c \in Counter : done.doc[c].balance = fresh.doc[c].balance
  <2> HIDE DEF fresh
  <2> QED BY <1>1, ReserveQuotaSound
<1>3. ReserveCall(doc, r, units, t) = Call(Expire(doc, t), done.doc, NoEntries, done.granted, t)
  BY DEF ReserveCall
<1> HIDE DEF done
<1> QED BY <1>2, <1>3, StillAccounts

\* A call of Debit accounts for every balance it moves.
LEMMA DebitAccounts ==
  ASSUME NEW doc \in SoundDocument, NEW r \in Ref, NEW units \in Nat,
         NEW reclaim \in BOOLEAN, NEW t \in Nat
  PROVE  Accounts(doc, DebitCall(doc, r, units, reclaim, t))
<1> DEFINE fresh == Expire(doc, t)
           done == Debit(fresh.doc, r, units, reclaim)
           early == [c \in Counter |-> [NoEntry EXCEPT !.spent = done.spent[c]]]
<1>1. fresh.doc \in SoundDocument
  BY ExpireSound
<1>2. /\ done.doc \in SoundDocument /\ done.spent \in [Counter -> Nat]
      /\ \A c \in Counter : fresh.doc[c].balance = done.doc[c].balance + done.spent[c]
  <2> HIDE DEF fresh
  <2> QED BY <1>1, DebitSound
<1>3. DebitCall(doc, r, units, reclaim, t)
        = Call(Expire(doc, t), done.doc, early, done.unaccounted, t)
  BY DEF DebitCall
<1>4. ASSUME NEW c \in Counter
      PROVE  /\ early[c] \in Early
             /\ fresh.doc[c].balance + early[c].provisioned
                  = done.doc[c].balance + early[c].spent + early[c].repaid
  <2> HIDE DEF done, fresh
  <2>1. PICK s \in Nat, b \in Nat : s = done.spent[c] /\ b = done.doc[c].balance
    BY <1>2, BalanceNat
  <2>2. early[c] = [provisioned |-> 0, spent |-> s, repaid |-> 0]
    BY <2>1 DEF NoEntry
  <2>3. fresh.doc[c].balance = b + s
    BY <1>2, <2>1
  <2>4. (b + s) + 0 = b + s + 0
    OBVIOUS
  <2> HIDE DEF early
  <2> QED BY <2>1, <2>2, <2>3, <2>4 DEF Early
<1>5. early \in [Counter -> Early]
  <2>1. early = [c \in Counter |-> early[c]]
    OBVIOUS
  <2> HIDE DEF early
  <2> QED BY <1>4, <2>1
<1> HIDE DEF done, early
<1> QED BY <1>2, <1>3, <1>4, <1>5, CallAccounts

\* A call of Release accounts for every balance it moves.
LEMMA ReleaseAccounts ==
  ASSUME NEW doc \in SoundDocument, NEW r \in Ref, NEW t \in Nat
  PROVE  Accounts(doc, ReleaseCall(doc, r, t))
<1> DEFINE fresh == Expire(doc, t)
           mid == Release(fresh.doc, r)
<1>1. fresh.doc \in SoundDocument
  BY ExpireSound
<1>2. mid \in SoundDocument /\ \A c \in Counter : mid[c].balance = fresh.doc[c].balance
  <2> HIDE DEF fresh
  <2> QED BY <1>1, ReleaseSound
<1>3. ReleaseCall(doc, r, t) = Call(Expire(doc, t), mid, NoEntries, 0, t)
  BY DEF ReleaseCall
<1> HIDE DEF mid
<1> QED BY <1>2, <1>3, StillAccounts

\* A visit of the housekeeping job accounts for every balance it moves.
LEMMA ExpireAccounts ==
  ASSUME NEW doc \in SoundDocument, NEW t \in Nat
  PROVE  Accounts(doc, ExpireCall(doc, t))
<1>1. Expire(doc, t).doc \in SoundDocument
  BY ExpireSound
<1>2. ExpireCall(doc, t) = Call(Expire(doc, t), Expire(doc, t).doc, NoEntries, 0, t)
  BY DEF ExpireCall
<1> QED BY <1>1, <1>2, StillAccounts

\* A provisioning event, first or redelivered, accounts for every balance it
\* moves: what the new counter lost to loans is journaled as repaid.
LEMMA ProvisionAccounts ==
  ASSUME NEW doc \in SoundDocument, NEW c \in Counter, NEW t \in Nat
  PROVE  Accounts(doc, ProvisionCall(doc, c, t))
<1> DEFINE fresh == Expire(doc, t)
           done == AddCounter(fresh.doc, c)
           entry == [NoEntry EXCEPT !.provisioned = Initial[c], !.repaid = done.repaid]
           early == [NoEntries EXCEPT ![c] = entry]
<1>1. fresh.doc \in SoundDocument
  BY ExpireSound
<1>2. CASE Live(fresh.doc[c])
  <2>1. ProvisionCall(doc, c, t) = Call(Expire(doc, t), fresh.doc, NoEntries, 0, t)
    BY <1>2 DEF ProvisionCall
  <2> QED BY <1>1, <2>1, StillAccounts
<1>3. CASE ~Live(fresh.doc[c])
  <2>1. /\ done.doc \in SoundDocument /\ done.repaid \in Nat
        /\ Initial[c] = done.doc[c].balance + done.repaid
        /\ \A d \in Counter : d # c => done.doc[d].balance = fresh.doc[d].balance
    <3> HIDE DEF fresh
    <3> QED BY <1>1, <1>3, AddCounterSound
  <2>2. ProvisionCall(doc, c, t) = Call(Expire(doc, t), done.doc, early, 0, t)
    BY <1>3 DEF ProvisionCall
  <2>3. fresh.doc[c].balance = 0
    BY <1>1, <1>3 DEF SoundDocument, Sound
  <2>4. PICK i \in Nat, k \in Nat, b \in Nat :
          i = Initial[c] /\ k = done.repaid /\ b = done.doc[c].balance /\ i = b + k
    <3> HIDE DEF done
    <3> QED BY <2>1, TermsOfLoan, BalanceNat
  <2>5. entry = [provisioned |-> i, spent |-> 0, repaid |-> k]
    <3>1. entry = [NoEntry EXCEPT !.provisioned = i, !.repaid = k]
      BY <2>4
    <3> HIDE DEF entry
    <3> QED BY <3>1 DEF NoEntry
  <2>6. /\ early[c] = entry
        /\ \A d \in Counter : d # c => early[d] = NoEntries[d]
    <3> HIDE DEF entry
    <3> QED BY NoEntriesFact
  <2>7. early \in [Counter -> Early]
    <3>1. entry \in Early
      <4> HIDE DEF entry
      <4> QED BY <2>5 DEF Early
    <3> HIDE DEF entry
    <3> QED BY <3>1, NoEntriesFact
  <2>8. ASSUME NEW d \in Counter
        PROVE  fresh.doc[d].balance + early[d].provisioned
                 = done.doc[d].balance + early[d].spent + early[d].repaid
    <3>1. CASE d = c
      <4> HIDE DEF early, entry, done, fresh
      <4>1. 0 + i = b + 0 + k
        BY <2>4
      <4> QED BY <2>3, <2>4, <2>5, <2>6, <3>1, <4>1
    <3>2. CASE d # c
      <4> HIDE DEF early, entry, done, fresh
      <4>1. PICK x \in Nat : x = fresh.doc[d].balance
        BY <1>1, BalanceNat
      <4>2. x + 0 = x + 0 + 0
        OBVIOUS
      <4>3. done.doc[d].balance = x
        BY <2>1, <3>2, <4>1
      <4>4. early[d].provisioned = 0 /\ early[d].spent = 0 /\ early[d].repaid = 0
        BY <2>6, <3>2, NoEntriesFact
      <4> QED BY <4>1, <4>2, <4>3, <4>4
    <3> QED BY <3>1, <3>2
  <2> HIDE DEF early, done
  <2> QED BY <2>1, <2>2, <2>7, <2>8, CallAccounts
<1> QED BY <1>2, <1>3

\* Posting a call that accounts for the balance keeps the books balanced.
LEMMA PostBalanced ==
  ASSUME NEW doc \in SoundDocument, NEW journal \in [Counter -> Totals],
         Balanced(doc, journal), NEW call, Accounts(doc, call)
  PROVE  /\ PostLate(PostEarly(journal, call.early), call.late) \in [Counter -> Totals]
         /\ Balanced(call.doc, PostLate(PostEarly(journal, call.early), call.late))
<1> DEFINE posted == PostLate(PostEarly(journal, call.early), call.late)
<1>1. /\ \A c \in Counter :
           posted[c] = [provisioned |-> journal[c].provisioned + call.early[c].provisioned,
                        spent       |-> journal[c].spent + call.early[c].spent,
                        repaid      |-> journal[c].repaid + call.early[c].repaid,
                        expired     |-> journal[c].expired + call.late[c]]
      /\ posted = [c \in Counter |-> posted[c]]
  BY DEF PostLate, PostEarly
<1>2. call.doc \in SoundDocument
  BY DEF Accounts
<1> HIDE DEF posted
<1>3. ASSUME NEW c \in Counter
      PROVE  /\ posted[c] \in Totals
             /\ posted[c].provisioned
                  = call.doc[c].balance + posted[c].spent + posted[c].repaid + posted[c].expired
  <2>1. PICK p \in Nat, s \in Nat, r \in Nat, x \in Nat :
          /\ p = journal[c].provisioned /\ s = journal[c].spent
          /\ r = journal[c].repaid /\ x = journal[c].expired
    BY DEF Totals
  <2>2. PICK dp \in Nat, ds \in Nat, dr \in Nat, dx \in Nat :
          /\ dp = call.early[c].provisioned /\ ds = call.early[c].spent
          /\ dr = call.early[c].repaid /\ dx = call.late[c]
    BY DEF Accounts, Early
  <2>3. PICK b \in Nat, d \in Nat : b = doc[c].balance /\ d = call.doc[c].balance
    BY <1>2, BalanceNat
  <2>4. p = b + s + r + x
    BY <2>1, <2>3 DEF Balanced
  <2>5. b + dp = d + ds + dr + dx
    BY <2>2, <2>3 DEF Accounts
  <2>6. p + dp = d + (s + ds) + (r + dr) + (x + dx)
    BY <2>4, <2>5
  <2>7. posted[c] = [provisioned |-> p + dp, spent |-> s + ds,
                     repaid |-> r + dr, expired |-> x + dx]
    BY <1>1, <2>1, <2>2
  <2> QED BY <2>3, <2>6, <2>7 DEF Totals
<1>4. posted \in [Counter -> Totals]
  BY <1>1, <1>3
<1> QED BY <1>3, <1>4 DEF Balanced, posted

-----------------------------------------------------------------------------
\* The counters of a sound document are counter states.
LEMMA CounterStates ==
  ASSUME NEW doc \in SoundDocument
  PROVE  \A c \in Counter : doc[c] \in CounterState
BY DEF SoundDocument, Sound

\* What an expiry pass keeps of each counter, and nothing of the others.
LEMMA ExpireEach ==
  ASSUME NEW doc \in SoundDocument, NEW t \in Nat
  PROVE  LET kept == {c \in Counter : Kept(c, Pruned(doc[c], t), t)}
             new  == Expire(doc, t).doc
         IN  \A c \in Counter :
               /\ c \in kept =>
                    /\ new[c].position = Place(doc, kept, c)
                    /\ new[c].balance = doc[c].balance - WrittenOff(c, Pruned(doc[c], t), t)
                    /\ new[c].reserved = Pruned(doc[c], t).reserved
                    /\ new[c].loan = doc[c].loan /\ new[c].fee = doc[c].fee
               /\ c \notin kept => new[c] = Absent
<1> DEFINE kept == {c \in Counter : Kept(c, Pruned(doc[c], t), t)}
           P == Tabulated([c \in Counter |-> Pruned(doc[c], t)])
           K == {c \in Counter : Kept(c, P[c], t)}
           table == [c \in Counter |->
                       IF c \in K
                         THEN [P[c] EXCEPT !.position = Place(doc, K, c),
                                           !.balance  = @ - WrittenOff(c, P[c], t)]
                         ELSE Absent]
           new == Expire(doc, t).doc
<1>1. new = Tabulated(table)
  BY DEF Expire
<1>2. \A c \in Counter : P[c] = Pruned(doc[c], t)
  BY TabulatedFact
<1>3. K = kept
  <2> HIDE DEF P
  <2> QED BY <1>2
<1>4. new = table
  <2> HIDE DEF table
  <2> QED BY <1>1, TabulatedFact
<1>5. ASSUME NEW c \in Counter
      PROVE  /\ c \in kept =>
                  /\ new[c].position = Place(doc, kept, c)
                  /\ new[c].balance = doc[c].balance - WrittenOff(c, Pruned(doc[c], t), t)
                  /\ new[c].reserved = Pruned(doc[c], t).reserved
                  /\ new[c].loan = doc[c].loan /\ new[c].fee = doc[c].fee
             /\ c \notin kept => new[c] = Absent
  <2> DEFINE s == Pruned(doc[c], t)
  <2>1. /\ s \in CounterState /\ s.balance = doc[c].balance
        /\ s.loan = doc[c].loan /\ s.fee = doc[c].fee
    <3>1. s \in Sound /\ s.balance = doc[c].balance
      BY PrunedSound DEF SoundDocument
    <3>2. s.loan = doc[c].loan /\ s.fee = doc[c].fee
      BY CounterStates DEF Pruned, CounterState
    <3> QED BY <3>1, <3>2 DEF Sound
  <2>2. c \notin kept => new[c] = Absent
    <3> HIDE DEF P, K, kept
    <3> QED BY <1>3, <1>4
  <2>3. ASSUME c \in kept
        PROVE  new[c] = [s EXCEPT !.position = Place(doc, kept, c),
                                  !.balance  = s.balance - WrittenOff(c, s, t)]
    <3>1. new[c] = [P[c] EXCEPT !.position = Place(doc, K, c),
                                !.balance  = @ - WrittenOff(c, P[c], t)]
      <4> HIDE DEF P, K, kept, new
      <4> QED BY <1>3, <1>4, <2>3
    <3> HIDE DEF P, K, kept, new, s
    <3> QED BY <1>2, <1>3, <3>1 DEF s
  <2> HIDE DEF P, K, kept, new, s
  <2>4. ASSUME NEW x, NEW y
        PROVE  LET u == [s EXCEPT !.position = x, !.balance = y]
               IN  /\ u.position = x /\ u.balance = y /\ u.reserved = s.reserved
                   /\ u.loan = s.loan /\ u.fee = s.fee
    BY <2>1 DEF CounterState
  <2>5. ASSUME c \in kept
        PROVE  /\ new[c].position = Place(doc, kept, c)
               /\ new[c].balance = s.balance - WrittenOff(c, s, t)
               /\ new[c].reserved = s.reserved
               /\ new[c].loan = s.loan /\ new[c].fee = s.fee
    <3> DEFINE x == Place(doc, kept, c)
               y == s.balance - WrittenOff(c, s, t)
    <3>1. new[c] = [s EXCEPT !.position = x, !.balance = y]
      BY <2>3, <2>5
    <3> HIDE DEF x, y
    <3> QED BY <2>4, <3>1 DEF x, y
  <2> QED BY <2>1, <2>2, <2>5 DEF s
<1> QED BY <1>5 DEF kept, new

\* What a new counter c pays towards the loan of counter d.
Share(doc, c, d) ==
  IF c \in Repays /\ ~LoanTerms[c].given /\ d \in InDebt(doc)
    THEN Claw(doc, d, LoanValue(doc, Initial[c])[doc[d].position - 1])
    ELSE [fee |-> 0, loan |-> 0]

\* A loan that takes anything has taken the whole of its fee first.
LEMMA ClawFeeFirst ==
  ASSUME NEW doc \in SoundDocument, NEW c \in Counter, NEW value \in Nat,
         Claw(doc, c, value).loan > 0
  PROVE  Claw(doc, c, value).fee = doc[c].fee
<1>1. PICK fee \in Nat, loan \in Nat : fee = doc[c].fee /\ loan = doc[c].loan
  BY StateFields DEF SoundDocument, Sound
<1>2. PICK minimum \in Nat, percent \in 0..100 :
        minimum = LoanTerms[c].minimum /\ percent = LoanTerms[c].percent
  BY TermsOfLoan
<1> DEFINE due == IF loan <= minimum THEN Least(loan, value)
                  ELSE IF percent = 0 THEN Least(minimum, value)
                  ELSE PercentOf(value, percent)
           paid == Least(due, fee)
           back == Least(due - paid, loan)
<1>3. due \in Nat
  <2>1. Least(loan, value) \in Nat /\ Least(minimum, value) \in Nat
    BY DEF Least
  <2>2. PercentOf(value, percent) \in 0..value
    BY PercentFact, Zenon
  <2> QED BY <2>1, <2>2
<1>4. value > 0
  BY DEF Claw
<1>5. Claw(doc, c, value) = [fee |-> paid, loan |-> back]
  BY <1>1, <1>2, <1>4 DEF Claw, Clawback
<1> HIDE DEF due
<1>6. back > 0
  <2> HIDE DEF back, paid
  <2> QED BY <1>5
<1>7. paid = fee
  BY <1>3, <1>6 DEF Least
<1> HIDE DEF paid, back
<1> QED BY <1>1, <1>5, <1>7

\* The value left before each position of the slice.
LEMMA LeftNat ==
  ASSUME NEW doc \in SoundDocument, NEW value \in Nat, NEW d \in InDebt(doc)
  PROVE  /\ LoanValue(doc, value)[doc[d].position - 1] \in Nat
         /\ doc[d].position \in Counter /\ d \in Counter /\ Live(doc[d])
<1>1. PICK p \in Nat, loan \in Nat : p = doc[d].position /\ loan = doc[d].loan /\ loan > 0
  BY StateFields DEF SoundDocument, Sound, InDebt
<1>2. p > 0 /\ p <= NumCounters
  BY <1>1 DEF InDebt, SoundDocument, Sound, Live
<1>3. p - 1 \in 0..NumCounters /\ p \in Counter
  BY <1>2, SizeAssumption DEF Counter
<1>4. LoanValue(doc, value) \in [0..NumCounters -> 0..value]
  BY LoanValueFact
<1> QED BY <1>1, <1>2, <1>3, <1>4 DEF InDebt, Live

\* A share is no more than what is owed, and the fee is paid first.
LEMMA ShareFact ==
  ASSUME NEW doc \in SoundDocument, NEW c \in Counter, NEW d \in Counter
  PROVE  /\ Share(doc, c, d).fee \in Nat /\ Share(doc, c, d).loan \in Nat
         /\ Share(doc, c, d).fee <= doc[d].fee /\ Share(doc, c, d).loan <= doc[d].loan
         /\ Share(doc, c, d).loan > 0 => Share(doc, c, d).fee = doc[d].fee
<1> DEFINE v == LoanValue(doc, Initial[c])[doc[d].position - 1]
<1>1. CASE c \in Repays /\ ~LoanTerms[c].given /\ d \in InDebt(doc)
  <2>1. Share(doc, c, d) = Claw(doc, d, v)
    BY <1>1 DEF Share
  <2>2. v \in Nat
    BY <1>1, LeftNat, TermsOfLoan
  <2> HIDE DEF v
  <2> QED BY <2>1, <2>2, ClawFact, ClawFeeFirst
<1>2. CASE ~(c \in Repays /\ ~LoanTerms[c].given /\ d \in InDebt(doc))
  <2>1. Share(doc, c, d) = [fee |-> 0, loan |-> 0]
    BY <1>2 DEF Share
  <2>2. doc[d].fee \in Nat /\ doc[d].loan \in Nat
    BY StateFields DEF SoundDocument, Sound
  <2> QED BY <2>1, <2>2
<1> QED BY <1>1, <1>2

\* What an appended counter looks like, and what it leaves of the loans.
LEMMA AddCounterEach ==
  ASSUME NEW doc \in SoundDocument, NEW c \in Counter
  PROVE  LET done == AddCounter(doc, c)
         IN  /\ done.doc[c].position = 1 + Size(doc)
             /\ done.doc[c].loan = IF LoanTerms[c].given THEN Initial[c] ELSE 0
             /\ done.doc[c].fee = IF LoanTerms[c].given THEN LoanTerms[c].fee ELSE 0
             /\ done.doc[c].reserved = Unreserved
             /\ \A d \in Counter : d # c =>
                  /\ done.doc[d].position = doc[d].position
                  /\ done.doc[d].loan = doc[d].loan - Share(doc, c, d).loan
                  /\ done.doc[d].fee = doc[d].fee - Share(doc, c, d).fee
                  /\ done.doc[d].reserved = doc[d].reserved
             /\ done.repaid = IF c \in Repays /\ ~LoanTerms[c].given
                                THEN Initial[c] - LoanValue(doc, Initial[c])[NumCounters]
                                ELSE 0
<1> DEFINE repays == c \in Repays /\ ~LoanTerms[c].given
           left == LoanValue(doc, Initial[c])
           paid == [d \in Counter |->
                      IF repays /\ d \in InDebt(doc)
                        THEN Claw(doc, d, left[doc[d].position - 1])
                        ELSE [fee |-> 0, loan |-> 0]]
           balance == IF repays THEN Greatest(left[NumCounters], 0) ELSE Initial[c]
           new == [NewCounter(doc, c) EXCEPT !.balance = balance]
           done == AddCounter(doc, c)
<1>1. /\ done.doc = [d \in Counter |->
                       IF d = c THEN new
                                ELSE [doc[d] EXCEPT !.loan = @ - paid[d].loan,
                                                    !.fee  = @ - paid[d].fee]]
      /\ done.repaid = IF repays THEN Initial[c] - left[NumCounters] ELSE 0
  <2>1. [NewCounter(doc, c) EXCEPT !.balance = IF repays THEN Greatest(left[NumCounters], 0) ELSE @]
          = new
    BY DEF NewCounter
  <2> HIDE DEF new, left
  <2> QED BY <2>1 DEF AddCounter, left
<1>2. \A d \in Counter : paid[d] = Share(doc, c, d)
  BY DEF Share
<1>3. /\ new.position = 1 + Size(doc)
      /\ new.loan = IF LoanTerms[c].given THEN Initial[c] ELSE 0
      /\ new.fee = IF LoanTerms[c].given THEN LoanTerms[c].fee ELSE 0
      /\ new.reserved = Unreserved
  <2> HIDE DEF balance
  <2> QED BY DEF NewCounter
<1> HIDE DEF new, paid, done
<1>4. ASSUME NEW d \in Counter, d # c
      PROVE  /\ done.doc[d].position = doc[d].position
             /\ done.doc[d].loan = doc[d].loan - Share(doc, c, d).loan
             /\ done.doc[d].fee = doc[d].fee - Share(doc, c, d).fee
             /\ done.doc[d].reserved = doc[d].reserved
  <2>1. doc[d] \in CounterState
    BY CounterStates
  <2>2. done.doc[d] = [doc[d] EXCEPT !.loan = @ - paid[d].loan, !.fee  = @ - paid[d].fee]
    BY <1>1, <1>4
  <2>3. done.doc[d] = [doc[d] EXCEPT !.loan = doc[d].loan - Share(doc, c, d).loan,
                                     !.fee  = doc[d].fee - Share(doc, c, d).fee]
    BY <1>2, <2>2
  <2> QED BY <2>1, <2>3 DEF CounterState
<1> QED BY <1>1, <1>3, <1>4 DEF done

-----------------------------------------------------------------------------
\* What the engine hands out for a reservation: units, and how long they last.
Promise == [units : Nat, until : Nat]

\* The monetary counters that can be asked to pay use under r.
Paying(r) == Tariff[r].matches \intersect Monetary

\* What a counter has reserved under r.
Amount(doc, r, c) == doc[c].reserved[r].amount

\* What the service counters have reserved under r.  Use of a monetary tariff
\* is not taken from them.
ServiceAmounts(doc, r) ==
  [c \in Counter |-> IF c \in Monetary THEN 0 ELSE Amount(doc, r, c)]

Bundle(doc, r) ==
  IF Tariff[r].money THEN 0 ELSE Total(ServiceAmounts(doc, r), NumCounters)

\* The paying counter has the price of x units reserved under r.
Priced(doc, r, x) ==
  \A c \in Monetary :
    Amount(doc, r, c) = IF c \in Paying(r) THEN Tariff[r].taxed * x ELSE 0

\* The reservations under r are worth the units of a grant and last as long:
\* the bundle and the x units that the paying counter has the price of.
Backed(doc, r, grant) ==
  /\ \A c \in Counter :
       Amount(doc, r, c) > 0 => doc[c].reserved[r].until >= grant.until
  /\ \E x \in Nat :
       /\ grant.units <= Bundle(doc, r) + x
       /\ x > 0 => Paying(r) # {}
       /\ Priced(doc, r, x)

\* Nothing is reserved under r.
Unheld(doc, r) == \A c \in Counter : Amount(doc, r, c) = 0

\* The reservations under r are the same.
SameHold(doc, new, r) ==
  \A c \in Counter :
    /\ Amount(new, r, c) = Amount(doc, r, c)
    /\ Amount(doc, r, c) > 0 => new[c].reserved[r].until = doc[c].reserved[r].until

\* Documents with the same reservations back the same grants.
LEMMA SameBacked ==
  ASSUME NEW doc, NEW new, NEW r \in Ref, SameHold(doc, new, r)
  PROVE  /\ \A grant : Backed(doc, r, grant) => Backed(new, r, grant)
         /\ Unheld(doc, r) => Unheld(new, r)
<1>1. \A c \in Monetary : c \in Counter
  BY CounterAssumption
<1>2. \A c \in Counter : Amount(new, r, c) = Amount(doc, r, c)
  BY DEF SameHold
<1>3. Bundle(new, r) = Bundle(doc, r)
  <2>1. ServiceAmounts(new, r) = ServiceAmounts(doc, r)
    BY <1>2 DEF ServiceAmounts
  <2> QED BY <2>1 DEF Bundle
<1>4. ASSUME NEW grant, Backed(doc, r, grant) PROVE Backed(new, r, grant)
  <2>1. \A c \in Counter : Amount(new, r, c) > 0 => new[c].reserved[r].until >= grant.until
    BY <1>4 DEF Backed, Priced, SameHold
  <2>2. PICK x \in Nat :
          /\ grant.units <= Bundle(doc, r) + x
          /\ x > 0 => Paying(r) # {}
          /\ \A c \in Monetary :
               Amount(doc, r, c) = IF c \in Paying(r) THEN Tariff[r].taxed * x ELSE 0
    BY <1>4 DEF Backed, Priced
  <2>3. \A c \in Monetary :
          Amount(new, r, c) = IF c \in Paying(r) THEN Tariff[r].taxed * x ELSE 0
    BY <1>1, <1>2, <2>2
  <2> QED BY <1>3, <2>1, <2>2, <2>3 DEF Backed, Priced
<1> QED BY <1>2, <1>4 DEF Unheld

\* An expiry pass drops nothing that is reserved beyond its time, and adds
\* nothing: a counter goes only with no reservation on it.
LEMMA ExpireReservation ==
  ASSUME NEW doc \in SoundDocument, NEW t \in Nat, NEW c \in Counter, NEW r \in Ref
  PROVE  LET old == doc[c].reserved[r]
             new == Expire(doc, t).doc[c].reserved[r]
         IN  /\ new.amount = 0 \/ new = old
             /\ old.amount > 0 /\ old.until > t => new = old
<1> DEFINE s == Pruned(doc[c], t)
           old == doc[c].reserved[r]
           new == Expire(doc, t).doc[c].reserved[r]
<1>1. s \in Sound /\ s \in CounterState /\ doc[c] \in CounterState
  BY PrunedSound DEF SoundDocument, Sound
<1>2. s.reserved[r] = IF old.until > t THEN old ELSE NoReservation
  BY <1>1 DEF Pruned, CounterState
<1>3. NoReservation.amount = 0
  BY DEF NoReservation
<1>4. CASE Kept(c, s, t)
  <2>1. new = s.reserved[r]
    BY <1>4, ExpireEach
  <2> HIDE DEF s, new
  <2> QED BY <1>2, <1>3, <2>1 DEF new
<1>5. CASE ~Kept(c, s, t)
  <2>1. Expire(doc, t).doc[c] = Absent
    BY <1>5, ExpireEach
  <2>2. new = NoReservation
    BY <2>1 DEF Absent, Unreserved
  <2>3. ASSUME old.amount > 0, old.until > t PROVE FALSE
    <3>1. s.reserved[r].amount > 0
      <4> HIDE DEF s
      <4> QED BY <1>2, <2>3
    <3>2. Held(s)
      BY <3>1 DEF Held
    <3> HIDE DEF s
    <3>3. PICK R \in Nat, b \in Nat, a \in Nat :
            R = Reserved(s) /\ b = s.balance /\ a = s.reserved[r].amount
      BY <1>1, ReservedNat, StateFields
    <3>4. R <= b /\ a <= R /\ a > 0
      BY <1>1, <3>1, <3>3, ReservedNat DEF Sound
    <3>5. s.balance # 0
      BY <3>3, <3>4
    <3>6. Live(s)
      BY <1>1, <3>5 DEF Sound
    <3> QED BY <1>5, <3>2, <3>5, <3>6 DEF Kept
  <2> HIDE DEF s, new, old
  <2> QED BY <1>3, <2>2, <2>3 DEF new, old
<1> QED BY <1>4, <1>5

\* A grant that is valid stays backed over an expiry pass.
LEMMA ExpireBacked ==
  ASSUME NEW doc \in SoundDocument, NEW t \in Nat, NEW r \in Ref
  PROVE  /\ \A grant \in Promise : grant.until > t /\ Backed(doc, r, grant)
                                   => Backed(Expire(doc, t).doc, r, grant)
         /\ Unheld(doc, r) => Unheld(Expire(doc, t).doc, r)
<1> DEFINE new == Expire(doc, t).doc
<1>1. ASSUME NEW c \in Counter
      PROVE  /\ Amount(new, r, c) = 0 \/ new[c].reserved[r] = doc[c].reserved[r]
             /\ Amount(doc, r, c) > 0 /\ doc[c].reserved[r].until > t
                  => new[c].reserved[r] = doc[c].reserved[r]
             /\ Amount(doc, r, c) \in Nat /\ doc[c].reserved[r].until \in Nat
  BY ExpireReservation, StateFields DEF Amount, SoundDocument, Sound
<1> HIDE DEF new
<1>2. ASSUME NEW grant \in Promise, grant.until > t, Backed(doc, r, grant)
      PROVE  Backed(new, r, grant)
  <2>1. ASSUME NEW c \in Counter, Amount(doc, r, c) > 0
        PROVE  doc[c].reserved[r].until > t
    <3>1. doc[c].reserved[r].until >= grant.until
      BY <1>2, <2>1 DEF Backed, Priced
    <3>2. PICK u \in Nat, g \in Nat : u = doc[c].reserved[r].until /\ g = grant.until
      BY <1>1 DEF Promise
    <3> QED BY <1>2, <3>1, <3>2
  <2>2. SameHold(doc, new, r)
    <3> SUFFICES ASSUME NEW c \in Counter
                 PROVE  /\ Amount(new, r, c) = Amount(doc, r, c)
                        /\ Amount(doc, r, c) > 0 =>
                             new[c].reserved[r].until = doc[c].reserved[r].until
      BY DEF SameHold
    <3>1. CASE Amount(doc, r, c) > 0
      BY <1>1, <2>1, <3>1 DEF Amount
    <3>2. CASE ~(Amount(doc, r, c) > 0)
      <4>1. Amount(doc, r, c) = 0
        BY <1>1, <3>2
      <4> QED BY <1>1, <3>2, <4>1 DEF Amount
    <3> QED BY <3>1, <3>2
  <2> QED BY <1>2, <2>2, SameBacked
<1>3. Unheld(doc, r) => Unheld(new, r)
  BY <1>1 DEF Unheld, Amount
<1> QED BY <1>2, <1>3 DEF new

-----------------------------------------------------------------------------
\* What is done under one id leaves the reservations under all others.
LEMMA StateKeepsOthers ==
  ASSUME NEW s \in CounterState, NEW r \in Ref, NEW q \in Ref, q # r
  PROVE  /\ \A amount, t : Hold(s, r, amount, t).reserved[q] = s.reserved[q]
         /\ \A amount, drop : Spend(s, r, amount, drop).reserved[q] = s.reserved[q]
         /\ [s EXCEPT !.reserved[r] = NoReservation].reserved[q] = s.reserved[q]
BY DEF Hold, Spend, CounterState

\* A reservation of another grant.
LEMMA ReserveOthers ==
  ASSUME NEW doc \in SoundDocument, NEW r \in Ref, NEW units \in Nat, NEW t \in Nat,
         NEW q \in Ref, q # r
  PROVE  SameHold(doc, ReserveQuota(doc, r, units, t).doc, q)
<1>1. ASSUME NEW any \in SoundDocument, NEW n
      PROVE  /\ SameHold(any, ReserveService(any, r, n, t).doc, q)
             /\ SameHold(any, ReserveMonetary(any, r, n, t).doc, q)
  <2>1. \A c \in Counter : any[c] \in CounterState
    BY CounterStates
  <2> QED BY <2>1, StateKeepsOthers DEF ReserveService, ReserveMonetary, SameHold, Amount
<1> DEFINE service == ReserveService(doc, r, units, t)
           extra   == ReserveMonetary(service.doc, r, units - service.granted, t)
           money   == ReserveMonetary(doc, r, units, t)
<1>2. service.doc \in SoundDocument
  BY ReserveServiceSound
<1>3. SameHold(doc, service.doc, q) /\ SameHold(doc, money.doc, q)
  BY <1>1
<1>4. SameHold(service.doc, extra.doc, q)
  <2> HIDE DEF service
  <2> QED BY <1>1, <1>2
<1>5. \/ ReserveQuota(doc, r, units, t) = money
      \/ ReserveQuota(doc, r, units, t) = service
      \/ ReserveQuota(doc, r, units, t) = [doc |-> extra.doc, granted |-> service.granted + extra.granted]
  BY DEF ReserveQuota
<1> HIDE DEF service, extra, money
<1> QED BY <1>3, <1>4, <1>5 DEF SameHold

\* A debit of another grant.
LEMMA DebitOthers ==
  ASSUME NEW doc \in SoundDocument, NEW r \in Ref, NEW units \in Nat, NEW reclaim \in BOOLEAN,
         NEW q \in Ref, q # r
  PROVE  SameHold(doc, Debit(doc, r, units, reclaim).doc, q)
<1>1. ASSUME NEW any \in SoundDocument, NEW n
      PROVE  /\ SameHold(any, DebitService(any, r, n, reclaim).doc, q)
             /\ SameHold(any, DebitMonetary(any, r, n, reclaim).doc, q)
  <2>1. \A c \in Counter : any[c] \in CounterState
    BY CounterStates
  <2>2. SameHold(any, DebitService(any, r, n, reclaim).doc, q)
    <3> DEFINE done == DebitService(any, r, n, reclaim).doc
    <3>1. \A c \in Counter : done[c] = any[c] \/ \E a : done[c] = Spend(any[c], r, a, reclaim)
      BY DEF DebitService
    <3> HIDE DEF done
    <3>2. SameHold(any, done, q)
      BY <2>1, <3>1, StateKeepsOthers DEF SameHold, Amount
    <3> QED BY <3>2 DEF done
  <2>3. SameHold(any, DebitMonetary(any, r, n, reclaim).doc, q)
    <3> DEFINE done == DebitMonetary(any, r, n, reclaim).doc
               left == ValueUnspent(any, r, n)
    <3>1. \A c \in Counter : \/ done[c] = any[c]
                             \/ \E a : done[c] = Spend(any[c], r, a, reclaim \/ left[c - 1] <= 0)
      BY DEF DebitMonetary
    <3> HIDE DEF done, left
    <3>2. ASSUME NEW c \in Counter PROVE done[c].reserved[q] = any[c].reserved[q]
      <4>1. CASE done[c] = any[c]
        BY <4>1
      <4>2. CASE \E a : done[c] = Spend(any[c], r, a, reclaim \/ left[c - 1] <= 0)
        BY <2>1, <4>2 DEF Spend, CounterState
      <4> QED BY <3>1, <4>1, <4>2
    <3>3. SameHold(any, done, q)
      BY <3>2 DEF SameHold, Amount
    <3> QED BY <3>3 DEF done
  <2> QED BY <2>2, <2>3
<1> DEFINE service == IF Tariff[r].money
                        THEN [doc |-> doc, spent |-> [c \in Counter |-> 0], left |-> units]
                        ELSE DebitService(doc, r, units, reclaim)
           money == DebitMonetary(service.doc, r, service.left, reclaim)
<1>2. service.doc \in SoundDocument
  BY DebitServiceSound
<1>3. SameHold(doc, service.doc, q)
  BY <1>1 DEF SameHold
<1>4. SameHold(service.doc, money.doc, q)
  <2> HIDE DEF service
  <2> QED BY <1>1, <1>2
<1>5. Debit(doc, r, units, reclaim).doc = money.doc \/ Debit(doc, r, units, reclaim).doc = service.doc
  BY DEF Debit
<1> HIDE DEF service, money
<1> QED BY <1>3, <1>4, <1>5 DEF SameHold

\* A release of another grant.
LEMMA ReleaseOthers ==
  ASSUME NEW doc \in SoundDocument, NEW r \in Ref, NEW q \in Ref, q # r
  PROVE  SameHold(doc, Release(doc, r), q)
BY CounterStates, StateKeepsOthers DEF Release, SameHold, Amount

\* A counter that is appended: one that is not on the quota has no reservations.
LEMMA AddCounterHolds ==
  ASSUME NEW doc \in SoundDocument, NEW c \in Counter, ~Live(doc[c]), NEW q \in Ref
  PROVE  SameHold(doc, AddCounter(doc, c).doc, q)
<1> DEFINE new == AddCounter(doc, c).doc
<1>1. new[c].reserved = Unreserved /\ \A d \in Counter : d # c => new[d].reserved = doc[d].reserved
  BY AddCounterEach
<1>2. doc[c].reserved[q].amount = 0
  <2>1. PICK R \in Nat, a \in Nat : R = Reserved(doc[c]) /\ a = doc[c].reserved[q].amount
    BY CounterStates, ReservedNat, StateFields
  <2>2. R <= 0
    BY <2>1 DEF SoundDocument, Sound
  <2>3. a <= R
    BY <2>1, CounterStates, ReservedNat
  <2> QED BY <2>1, <2>2, <2>3
<1>3. Unreserved[q].amount = 0
  BY DEF Unreserved, NoReservation
<1> HIDE DEF new
<1>4. SameHold(doc, new, q)
  BY <1>1, <1>2, <1>3 DEF SameHold, Amount
<1> QED BY <1>4 DEF new

-----------------------------------------------------------------------------
\* What a loop adds at every element is in all what it ends with, less what it
\* began with.
LEMMA Telescope ==
  ASSUME NEW n \in Nat, NEW f \in [1..n -> Int], NEW g \in [0..n -> Int],
         \A k \in 1..n : g[k] = g[k - 1] + f[k]
  PROVE  Total(f, n) = g[n] - g[0]
<1>1. PICK p \in [0..n -> Int] :
        p[0] = 0 /\ (\A k \in 1..n : p[k] = p[k - 1] + f[k]) /\ Total(f, n) = p[n]
  BY PartialSums
<1> DEFINE S == {k \in 0..n : p[k] = g[k] - g[0]}
<1>2. 0 \in S
  <2>1. PICK a \in Int : a = g[0]
    OBVIOUS
  <2> QED BY <1>1, <2>1
<1>3. ASSUME NEW k \in 1..n, k - 1 \in S PROVE k \in S
  <2>1. k \in 0..n /\ k - 1 \in 0..n
    OBVIOUS
  <2>2. PICK a \in Int, b \in Int, x \in Int, y \in Int :
          a = p[k - 1] /\ b = g[k - 1] /\ x = f[k] /\ y = g[0] /\ a = b - y
    BY <1>3, <2>1
  <2>3. p[k] = a + x /\ g[k] = b + x
    BY <1>1, <2>2
  <2> QED BY <2>1, <2>2, <2>3
<1>4. \A k \in 0..n : k \in S
  <2> HIDE DEF S
  <2> QED BY <1>2, <1>3, UpTo
<1> QED BY <1>1, <1>4

\* The same for what it takes away.
LEMMA TelescopeDown ==
  ASSUME NEW n \in Nat, NEW f \in [1..n -> Int], NEW g \in [0..n -> Int],
         \A k \in 1..n : g[k] = g[k - 1] - f[k]
  PROVE  Total(f, n) = g[0] - g[n]
<1> DEFINE h == [k \in 0..n |-> g[0] - g[k]]
<1>1. h \in [0..n -> Int]
  OBVIOUS
<1>2. ASSUME NEW k \in 1..n PROVE h[k] = h[k - 1] + f[k]
  <2>1. k \in 0..n /\ k - 1 \in 0..n
    OBVIOUS
  <2>2. PICK a \in Int, b \in Int, x \in Int : a = g[0] /\ b = g[k - 1] /\ x = f[k]
    BY <2>1
  <2>3. g[k] = b - x
    BY <1>2, <2>2
  <2> QED BY <2>1, <2>2, <2>3
<1>3. h[0] = 0 /\ h[n] = g[0] - g[n]
  OBVIOUS
<1> HIDE DEF h
<1>4. Total(f, n) = h[n] - h[0]
  BY <1>1, <1>2, Telescope
<1>5. PICK a \in Int, b \in Int : a = g[0] /\ b = g[n]
  OBVIOUS
<1> QED BY <1>3, <1>4, <1>5

\* The sum of a function that is zero but at one place.
LEMMA TotalOne ==
  ASSUME NEW n \in Nat, NEW f \in [1..n -> Int], NEW p \in 1..n,
         \A k \in 1..n : k # p => f[k] = 0
  PROVE  Total(f, n) = f[p]
<1> DEFINE z == [k \in 1..n |-> 0]
<1>1. z \in [1..n -> Int] /\ \A k \in 1..n : z[k] = 0
  OBVIOUS
<1> HIDE DEF z
<1>2. Total(z, n) = 0
  BY <1>1, TotalZero
<1>3. Total(f, n) = Total(z, n) - z[p] + f[p]
  BY <1>1, TotalUpdate
<1>4. PICK a \in Int : a = f[p]
  OBVIOUS
<1> QED BY <1>1, <1>2, <1>3, <1>4

-----------------------------------------------------------------------------
\* Dividing what was multiplied, and multiplying what was divided.
LEMMA DivTimes ==
  ASSUME NEW a \in Int, NEW b \in Nat \ {0}
  PROVE  (b * a) \div b = a
<1>1. PICK q \in Int, m \in Int : m = b * a /\ q = m \div b
  BY MulFact, DivFact
<1>2. b * q <= m /\ m < b * q + b
  BY <1>1
<1>3. b * q <= b * a /\ b * a < b * q + b
  BY <1>1, <1>2
<1>4. CASE q < a
  <2>1. PICK e \in Nat : a = q + 1 + e
    <3>1. a - q - 1 \in Nat
      BY <1>4
    <3> QED BY <3>1
  <2>2. b * a = b * q + b + b * e /\ b * e \in Nat /\ b * q \in Int
    BY <2>1
  <2> QED BY <1>3, <2>2
<1>5. CASE q > a
  <2>1. PICK e \in Nat : q = a + 1 + e
    <3>1. q - a - 1 \in Nat
      BY <1>5
    <3> QED BY <3>1
  <2>2. b * q = b * a + b + b * e /\ b * e \in Nat /\ b * a \in Int
    BY <2>1
  <2> QED BY <1>3, <2>2
<1> QED BY <1>1, <1>4, <1>5

LEMMA TimesDiv ==
  ASSUME NEW a \in Nat, NEW b \in Nat \ {0}
  PROVE  /\ b * (a \div b) <= a
         /\ a % b = 0 => (a \div b) * b = a
OBVIOUS

LEMMA TimesMono ==
  ASSUME NEW a \in Nat, NEW b \in Nat, NEW k \in Nat
  PROVE  /\ k * a \in Nat /\ k * b \in Nat
         /\ a <= b => k * a <= k * b /\ k * b - k * a = k * (b - a)
         /\ k > 0 /\ a > 0 => k * a > 0
         /\ k > 0 /\ k * a = k * b => a = b
<1>1. k * a \in Nat /\ k * b \in Nat
  BY MulFact
<1>2. ASSUME a <= b PROVE k * a <= k * b /\ k * b - k * a = k * (b - a)
  <2>1. PICK e \in Nat : b = a + e
    <3>1. b - a \in Nat
      BY <1>2
    <3> QED BY <3>1
  <2>2. k * b = k * a + k * e /\ k * e \in Nat
    BY <2>1
  <2>3. b - a = e
    BY <2>1
  <2> QED BY <1>1, <2>2, <2>3
<1>3. ASSUME k > 0, a > 0 PROVE k * a > 0
  BY <1>3
<1>4. ASSUME k > 0, k * a = k * b PROVE a = b
  <2>1. k \in Nat \ {0}
    BY <1>4
  <2>2. (k * a) \div k = a /\ (k * b) \div k = b
    BY <2>1, DivTimes
  <2> QED BY <1>4, <2>2
<1> QED BY <1>1, <1>2, <1>3, <1>4

\* Under a plain tariff a unit is a unit, its cost is the price with tax, and
\* no two counters pay.
LEMMA PlainFact ==
  ASSUME NEW r \in Ref, Plain(r)
  PROVE  /\ \A u \in Int : Up(r, u) = u /\ Down(r, u) = u
         /\ \A u \in Int : Cost(r, u) = Tariff[r].taxed * u
         /\ \A c, d \in Paying(r) : c = d
<1>1. PICK n \in Nat \ {0} : n = Tariff[r].num /\ n = Tariff[r].den
  BY TermsFact DEF Plain
<1>2. ASSUME NEW u \in Int PROVE Up(r, u) = u /\ Down(r, u) = u
  BY <1>1, DivTimes DEF Up, Down
<1>3. ASSUME NEW u \in Int PROVE Cost(r, u) = Tariff[r].taxed * u
  <2>1. PICK taxed \in Nat \ {0} : taxed = Tariff[r].taxed /\ taxed % n = 0
    BY <1>1, TermsFact, TariffAssumption
  <2>2. (taxed \div n) * n = taxed
    BY <2>1, TimesDiv
  <2> QED BY <1>1, <2>1, <2>2 DEF Cost
<1>4. ASSUME NEW c \in Paying(r), NEW d \in Paying(r), c # d PROVE FALSE
  <2>1. Paying(r) \subseteq 1..NumCounters /\ IsFiniteSet(1..NumCounters)
    <3>1. Paying(r) \subseteq Counter
      BY CounterAssumption DEF Paying
    <3>2. IsFiniteSet(1..NumCounters)
      BY SizeAssumption, FS_Interval
    <3> QED BY <3>1, <3>2 DEF Counter
  <2>2. IsFiniteSet(Paying(r)) /\ {c, d} \subseteq Paying(r)
    BY <2>1, FS_Subset
  <2>3. Cardinality({c, d}) <= Cardinality(Paying(r)) /\ Cardinality(Paying(r)) \in Nat
    BY <2>2, FS_Subset, FS_CardinalityType
  <2>4. Cardinality({c, d}) = 2
    <3>1. IsFiniteSet({c}) /\ Cardinality({c}) = 1
      BY FS_Singleton
    <3>2. Cardinality({c} \union {d}) = Cardinality({c}) + 1
      BY <1>4, <3>1, FS_AddElement
    <3>3. {c} \union {d} = {c, d}
      OBVIOUS
    <3> QED BY <3>1, <3>2, <3>3
  <2>5. Cardinality(Paying(r)) <= 1
    BY DEF Plain, Paying
  <2> QED BY <2>3, <2>4, <2>5
<1> QED BY <1>2, <1>3, <1>4

-----------------------------------------------------------------------------
\* The reservation of one counter after a reservation under a free id.
LEMMA HoldFact ==
  ASSUME NEW s \in CounterState, NEW r \in Ref, NEW amount \in Nat, NEW t \in Nat
  PROVE  /\ amount > 0 => Hold(s, r, amount, t).reserved[r]
                            = [amount |-> amount, until |-> t + Validity]
         /\ amount = 0 => Hold(s, r, amount, t).reserved[r] = s.reserved[r]
BY DEF Hold, CounterState

\* The loop of reserveServiceUnits, counter by counter.
LEMMA ServiceGrantedEach ==
  ASSUME NEW doc \in SoundDocument, NEW r \in Ref, NEW units \in Int
  PROVE  LET at == ServiceGranted(doc, r, units)
         IN  /\ at[0] = 0
             /\ \A c \in Counter :
                  at[c] = at[c - 1] + ServiceTake(doc, r, c, units - at[c - 1])
<1> DEFINE more(c, l) == l + ServiceTake(doc, r, c, units - l)
           body == [c \in Counter |-> [had \in Int |-> more(c, had)]]
           at == ServiceGranted(doc, r, units)
<1>1. ASSUME NEW c \in Counter, NEW l \in Int PROVE more(c, l) \in Int
  <2>1. units - l \in Int
    OBVIOUS
  <2>2. PICK a \in Int : a = ServiceTake(doc, r, c, units - l)
    BY <2>1, ServiceTakeFact
  <2> QED BY <2>2
<1>2. at = Loop(NumCounters, 0, body)
  BY DEF ServiceGranted
<1> DEFINE X == Int
<1>3. 0 \in X /\ body \in [Counter -> [X -> X]]
  <2> HIDE DEF more
  <2> QED BY <1>1
<1>4. at \in [0..NumCounters -> Int]
  BY ServiceGrantedInt
<1> HIDE DEF body, X, at, more
<1>5. at[0] = 0 /\ \A c \in Counter : at[c] = body[c][at[c - 1]]
  BY <1>2, <1>3, CounterLoop
<1>6. ASSUME NEW c \in Counter PROVE at[c] = more(c, at[c - 1])
  <2>1. at[c - 1] \in Int
    BY <1>4, BeforeInt
  <2> QED BY <1>5, <2>1 DEF body
<1> QED BY <1>5, <1>6 DEF more, at

\* A service reservation under a free id reserves on the service counters what
\* it grants, and nothing on the others.
LEMMA ServiceWorth ==
  ASSUME NEW doc \in SoundDocument, NEW r \in Ref, NEW units \in Int, NEW t \in Nat
  PROVE  LET done == ReserveService(doc, r, units, t)
         IN  /\ done.granted \in Nat
             /\ Unheld(doc, r) =>
                  /\ done.granted = Total(ServiceAmounts(done.doc, r), NumCounters)
                  /\ \A c \in Counter :
                       Amount(done.doc, r, c) > 0 => done.doc[c].reserved[r].until = t + Validity
                  /\ \A c \in Monetary : Amount(done.doc, r, c) = 0
<1> DEFINE at == ServiceGranted(doc, r, units)
           take(c) == ServiceTake(doc, r, c, units - at[c - 1])
           takes == [c \in Counter |-> take(c)]
           done == ReserveService(doc, r, units, t)
<1>1. at \in [0..NumCounters -> Int]
  BY ServiceGrantedInt
<1>2. ASSUME NEW c \in Counter
      PROVE  /\ take(c) \in Nat
             /\ c \in Monetary => take(c) = 0
  <2>1. PICK l \in Int : l = units - at[c - 1]
    <3> HIDE DEF at
    <3>1. at[c - 1] \in Int
      BY <1>1, BeforeInt
    <3> QED BY <3>1
  <2> HIDE DEF at
  <2>2. PICK a \in Nat : a = Available(doc[c])
    BY AvailableInt DEF SoundDocument
  <2>3. l > 0 => Up(r, l) \in Nat
    BY UpDown
  <2>4. l > 0 => Least(a, Up(r, l)) \in Nat
    BY <2>3 DEF Least
  <2>5. ServiceTake(doc, r, c, l) \in Nat
    BY <2>2, <2>4 DEF ServiceTake
  <2>6. c \in Monetary => ServiceTake(doc, r, c, l) = 0
    BY DEF ServiceTake, Matching
  <2> QED BY <2>1, <2>5, <2>6
<1>3. at[0] = 0 /\ \A c \in Counter : at[c] = at[c - 1] + take(c)
  BY ServiceGrantedEach
<1>4. /\ done.granted = at[NumCounters]
      /\ done.doc = [c \in Counter |-> Hold(doc[c], r, take(c), t)]
  BY DEF ReserveService
<1> HIDE DEF at, take, done
<1>5. takes \in [1..NumCounters -> Nat] /\ takes \in [1..NumCounters -> Int]
  BY <1>2 DEF Counter
<1>6. \A k \in 1..NumCounters : at[k] = at[k - 1] + takes[k]
  BY <1>3 DEF Counter
<1>7. done.granted = Total(takes, NumCounters) /\ done.granted \in Nat
  <2> HIDE DEF takes
  <2>1. Total(takes, NumCounters) = at[NumCounters] - at[0]
    BY <1>1, <1>5, <1>6, SizeAssumption, Telescope
  <2>2. PICK b \in Int : b = at[NumCounters]
    BY <1>1, LastInt
  <2>3. Total(takes, NumCounters) \in Nat
    BY <1>5, SizeAssumption, TotalNat
  <2> QED BY <1>3, <1>4, <2>1, <2>2, <2>3
<1>8. ASSUME Unheld(doc, r)
      PROVE  /\ done.granted = Total(ServiceAmounts(done.doc, r), NumCounters)
             /\ \A c \in Counter :
                  Amount(done.doc, r, c) > 0 => done.doc[c].reserved[r].until = t + Validity
             /\ \A c \in Monetary : Amount(done.doc, r, c) = 0
  <2>1. ASSUME NEW c \in Counter
        PROVE  /\ Amount(done.doc, r, c) = take(c)
               /\ take(c) > 0 => done.doc[c].reserved[r].until = t + Validity
    <3>1. doc[c] \in CounterState /\ doc[c].reserved[r].amount = 0
      BY <1>8, CounterStates DEF Unheld, Amount
    <3>2. done.doc[c] = Hold(doc[c], r, take(c), t)
      BY <1>4
    <3>3. PICK a \in Nat : a = take(c)
      BY <1>2
    <3>4. done.doc[c] = Hold(doc[c], r, a, t)
      BY <3>2, <3>3
    <3>5. /\ a > 0 => done.doc[c].reserved[r] = [amount |-> a, until |-> t + Validity]
          /\ a = 0 => done.doc[c].reserved[r] = doc[c].reserved[r]
      BY <3>1, <3>4, HoldFact
    <3>6. CASE a > 0
      BY <3>3, <3>5, <3>6 DEF Amount
    <3>7. CASE a = 0
      BY <3>1, <3>3, <3>5, <3>7 DEF Amount
    <3> QED BY <3>6, <3>7
  <2>2. ServiceAmounts(done.doc, r) = takes
    BY <1>2, <2>1 DEF ServiceAmounts
  <2>3. \A c \in Monetary : c \in Counter
    BY CounterAssumption
  <2> QED BY <1>2, <1>7, <2>1, <2>2, <2>3
<1> QED BY <1>7, <1>8 DEF done

\* The loop of reserveMonetaryUnits, counter by counter.
LEMMA ValueWantedEach ==
  ASSUME NEW doc \in SoundDocument, NEW r \in Ref, NEW units \in Int
  PROVE  LET at == ValueWanted(doc, r, units)
         IN  /\ at[0] = Cost(r, units)
             /\ \A c \in Counter : at[c] = at[c - 1] - ValueTake(doc, r, c, at[c - 1])
<1> DEFINE rest(c, l) == l - ValueTake(doc, r, c, l)
           body == [c \in Counter |-> [value \in Int |-> rest(c, value)]]
           at == ValueWanted(doc, r, units)
           first == Cost(r, units)
           X == Int
<1>1. ASSUME NEW c \in Counter, NEW l \in Int PROVE rest(c, l) \in Int
  <2>1. PICK a \in Int : a = ValueTake(doc, r, c, l)
    BY ValueTakeFact
  <2> QED BY <2>1
<1>2. at = Loop(NumCounters, first, body)
  BY DEF ValueWanted
<1>3. first \in X /\ body \in [Counter -> [X -> X]]
  <2> HIDE DEF rest
  <2> QED BY <1>1, CostInt
<1>4. at \in [0..NumCounters -> Int]
  BY ValueWantedInt
<1> HIDE DEF body, X, at, rest, first
<1>5. at[0] = first /\ \A c \in Counter : at[c] = body[c][at[c - 1]]
  BY <1>2, <1>3, CounterLoop
<1>6. ASSUME NEW c \in Counter PROVE at[c] = rest(c, at[c - 1])
  <2>1. at[c - 1] \in Int
    BY <1>4, BeforeInt
  <2> QED BY <1>5, <2>1 DEF body
<1> QED BY <1>5, <1>6 DEF rest, at, first

\* The loop of debitMonetaryUnits, counter by counter.
LEMMA ValueUnspentEach ==
  ASSUME NEW doc \in SoundDocument, NEW r \in Ref, NEW units \in Int
  PROVE  LET at == ValueUnspent(doc, r, units)
         IN  /\ at[0] = Cost(r, units)
             /\ \A c \in Counter : at[c] = at[c - 1] - ValueAccount(doc, r, c, at[c - 1])
<1> DEFINE rest(c, l) == l - ValueAccount(doc, r, c, l)
           body == [c \in Counter |-> [value \in Int |-> rest(c, value)]]
           at == ValueUnspent(doc, r, units)
           first == Cost(r, units)
           X == Int
<1>1. ASSUME NEW c \in Counter, NEW l \in Int PROVE rest(c, l) \in Int
  <2>1. PICK a \in Int : a = ValueAccount(doc, r, c, l)
    BY ValueAccountFact
  <2> QED BY <2>1
<1>2. at = Loop(NumCounters, first, body)
  BY DEF ValueUnspent
<1>3. first \in X /\ body \in [Counter -> [X -> X]]
  <2> HIDE DEF rest
  <2> QED BY <1>1, CostInt
<1>4. at \in [0..NumCounters -> Int]
  BY ValueUnspentInt
<1> HIDE DEF body, X, at, rest, first
<1>5. at[0] = first /\ \A c \in Counter : at[c] = body[c][at[c - 1]]
  BY <1>2, <1>3, CounterLoop
<1>6. ASSUME NEW c \in Counter PROVE at[c] = rest(c, at[c - 1])
  <2>1. at[c - 1] \in Int
    BY <1>4, BeforeInt
  <2> QED BY <1>5, <2>1 DEF body
<1> QED BY <1>5, <1>6 DEF rest, at, first

\* A loop that only the element at p changes brings its first value to p, and
\* every later element what p leaves.
LEMMA OneCounterLoop ==
  ASSUME NEW at \in [0..NumCounters -> Int], NEW p \in Counter,
         \A c \in Counter : c # p => at[c] = at[c - 1]
  PROVE  /\ at[p - 1] = at[0]
         /\ \A c \in Counter : c < p => at[c - 1] = at[0]
         /\ \A c \in Counter : c > p => at[c - 1] = at[p]
         /\ at[NumCounters] = at[p]
<1> DEFINE S == {k \in 0..NumCounters : at[k] = IF k < p THEN at[0] ELSE at[p]}
<1>1. p \in Nat /\ p > 0 /\ p <= NumCounters
  BY SizeAssumption DEF Counter
<1>2. 0 \in S
  BY <1>1, SizeAssumption
<1>3. ASSUME NEW k \in 1..NumCounters, k - 1 \in S PROVE k \in S
  <2>1. k \in Counter /\ k \in 0..NumCounters
    BY SizeAssumption DEF Counter
  <2>2. CASE k = p
    BY <1>1, <2>1, <2>2
  <2>3. CASE k # p
    <3>1. at[k] = at[k - 1]
      BY <2>1, <2>3
    <3>2. k < p <=> k - 1 < p
      BY <1>1, <2>1, <2>3, SizeAssumption
    <3> QED BY <1>3, <2>1, <3>1, <3>2
  <2> QED BY <2>2, <2>3
<1>4. \A k \in 0..NumCounters : k \in S
  <2> HIDE DEF S
  <2> QED BY <1>2, <1>3, SizeAssumption, UpTo
<1>5. \A k \in 0..NumCounters : at[k] = IF k < p THEN at[0] ELSE at[p]
  BY <1>4
<1>6. \A c \in Counter : c - 1 \in 0..NumCounters /\ c \in Nat
  BY SizeAssumption DEF Counter
<1>7. NumCounters \in 0..NumCounters /\ NumCounters \in Nat
  BY SizeAssumption
<1> QED BY <1>1, <1>5, <1>6, <1>7

\* What no counter can pay is nothing, and one counter alone pays what it has.
LEMMA AffordableFact ==
  ASSUME NEW doc \in SoundDocument, NEW r \in Ref
  PROVE  /\ Affordable(doc, r) \in Nat
         /\ Matching(doc, r, TRUE) = {} => Affordable(doc, r) = 0
         /\ \A p \in Counter : Matching(doc, r, TRUE) = {p} =>
              Affordable(doc, r) = Available(doc[p]) \div Tariff[r].taxed
<1> DEFINE M == Matching(doc, r, TRUE)
           share(c) == IF c \in M THEN Available(doc[c]) ELSE 0
           f == [c \in Counter |-> share(c)]
<1>1. f \in [1..NumCounters -> Nat] /\ f \in [1..NumCounters -> Int]
  <2>1. \A c \in Counter : Available(doc[c]) \in Nat
    BY AvailableInt DEF SoundDocument
  <2>2. \A c \in Counter : share(c) \in Nat /\ share(c) \in Int
    <3> HIDE DEF M
    <3> QED BY <2>1
  <2> HIDE DEF share
  <2> QED BY <2>2 DEF Counter
<1>2. Affordable(doc, r) = Total(f, NumCounters) \div Tariff[r].taxed
  BY DEF Affordable
<1>3. Tariff[r].taxed \in Nat \ {0}
  BY TermsFact
<1>4. ASSUME M = {} PROVE Total(f, NumCounters) = 0
  <2>1. \A c \in 1..NumCounters : f[c] = 0
    BY <1>4 DEF Counter
  <2> HIDE DEF f
  <2> QED BY <1>1, <2>1, SizeAssumption, TotalZero
<1>5. ASSUME NEW p \in Counter, M = {p} PROVE Total(f, NumCounters) = Available(doc[p])
  <2>1. /\ \A c \in 1..NumCounters : c # p => f[c] = 0
        /\ f[p] = Available(doc[p]) /\ p \in 1..NumCounters
    BY <1>5 DEF Counter
  <2> HIDE DEF f
  <2> QED BY <1>1, <2>1, SizeAssumption, TotalOne
<1> HIDE DEF f, M
<1>6. Total(f, NumCounters) \in Nat
  BY <1>1, SizeAssumption, TotalNat
<1>7. PICK price \in Nat \ {0}, n \in Nat : price = Tariff[r].taxed /\ n = Total(f, NumCounters)
  BY <1>3, <1>6
<1>8. 0 \div price = 0 /\ n \div price \in Nat
  BY DivFact
<1>9. Affordable(doc, r) \in Nat
  BY <1>2, <1>7, <1>8
<1>10. M = {} => Affordable(doc, r) = 0
  BY <1>2, <1>4, <1>7, <1>8
<1>11. \A p \in Counter : M = {p} => Affordable(doc, r) = Available(doc[p]) \div Tariff[r].taxed
  BY <1>2, <1>5
<1> QED BY <1>9, <1>10, <1>11 DEF M

\* A monetary reservation under an id without one reserves, on the one counter
\* that can pay, the price of what it grants.
LEMMA MonetaryWorth ==
  ASSUME NEW doc \in SoundDocument, NEW r \in Ref, NEW units \in Nat, NEW t \in Nat
  PROVE  LET done == ReserveMonetary(doc, r, units, t)
         IN  /\ done.granted \in Nat
             /\ \A c \in Counter \ Monetary : done.doc[c].reserved[r] = doc[c].reserved[r]
             /\ Plain(r) /\ (\A c \in Monetary : Amount(doc, r, c) = 0) =>
                  /\ done.granted > 0 => Paying(r) # {}
                  /\ \A c \in Monetary :
                       /\ Amount(done.doc, r, c)
                            = IF c \in Paying(r) THEN Tariff[r].taxed * done.granted ELSE 0
                       /\ Amount(done.doc, r, c) > 0 =>
                            done.doc[c].reserved[r].until = t + Validity
<1> DEFINE n == Least(Affordable(doc, r), units)
           at == ValueWanted(doc, r, n)
           take(c) == ValueTake(doc, r, c, at[c - 1])
           done == ReserveMonetary(doc, r, units, t)
           M == Matching(doc, r, TRUE)
<1>1. n \in Nat
  BY AffordableFact DEF Least
<1>2. done.granted = n /\ done.doc = [c \in Counter |-> Hold(doc[c], r, take(c), t)]
  BY DEF ReserveMonetary
<1>3. at \in [0..NumCounters -> Int]
  <2> HIDE DEF n
  <2> QED BY <1>1, ValueWantedInt
<1>4. at[0] = Cost(r, n) /\ \A c \in Counter : at[c] = at[c - 1] - take(c)
  <2> HIDE DEF n
  <2> QED BY <1>1, ValueWantedEach
<1>5. ASSUME NEW c \in Counter, c \notin M
      PROVE  /\ take(c) = 0 /\ done.doc[c].reserved[r] = doc[c].reserved[r]
             /\ at[c] = at[c - 1]
  <2>1. take(c) = 0
    BY <1>5 DEF ValueTake
  <2>2. done.doc[c] = doc[c]
    <3> HIDE DEF take, done
    <3> QED BY <1>2, <2>1 DEF Hold
  <2>3. at[c - 1] \in Int
    <3> HIDE DEF at
    <3> QED BY <1>3, BeforeInt
  <2> HIDE DEF at, take
  <2>4. PICK l \in Int : l = at[c - 1]
    BY <2>3
  <2>5. at[c] = at[c - 1]
    BY <1>4, <2>1, <2>4
  <2> QED BY <2>1, <2>2, <2>5
<1>6. ASSUME NEW c \in M PROVE c \in Counter /\ c \in Paying(r) /\ c \in Monetary
  <2>1. c \in Tariff[r].matches /\ c \in Monetary
    BY DEF Matching
  <2> QED BY <2>1, CounterAssumption DEF Paying
<1> HIDE DEF done
<1>7. \A c \in Counter \ Monetary : done.doc[c].reserved[r] = doc[c].reserved[r]
  BY <1>5, <1>6
<1>8. ASSUME Plain(r), \A c \in Monetary : Amount(doc, r, c) = 0
      PROVE  /\ n > 0 => Paying(r) # {}
             /\ \A c \in Monetary :
                  /\ Amount(done.doc, r, c)
                       = IF c \in Paying(r) THEN Tariff[r].taxed * n ELSE 0
                  /\ Amount(done.doc, r, c) > 0 =>
                       done.doc[c].reserved[r].until = t + Validity
  <2>1. \A c \in Monetary : c \in Counter
    BY CounterAssumption
  <2>2. PICK price \in Nat \ {0} : price = Tariff[r].taxed
    BY TermsFact
  <2>3. Cost(r, n) = price * n /\ price * n \in Nat
    <3> HIDE DEF n
    <3> QED BY <1>1, <1>8, <2>2, PlainFact, TimesMono
  <2>4. CASE M = {}
    <3>1. n = 0
      <4>1. Affordable(doc, r) = 0
        BY <2>4, AffordableFact
      <4> QED BY <4>1 DEF Least
    <3>2. Tariff[r].taxed * n = 0
      <4> HIDE DEF n
      <4> QED BY <2>2, <3>1
    <3> HIDE DEF n, at, M
    <3>3. \A c \in Monetary : done.doc[c].reserved[r] = doc[c].reserved[r]
      BY <1>5, <2>1, <2>4
    <3> QED BY <1>8, <3>1, <3>2, <3>3 DEF Amount
  <2>5. CASE M # {}
    <3>1. PICK p \in M : TRUE
      BY <2>5
    <3>2. p \in Counter /\ p \in Paying(r) /\ p \in Monetary /\ M = {p}
          /\ \A c \in Paying(r) : c = p
      <4> HIDE DEF M
      <4>1. p \in Counter /\ p \in Paying(r) /\ p \in Monetary
        BY <1>6, <3>1
      <4>2. \A c \in Paying(r) : c = p
        BY <1>8, <4>1, PlainFact
      <4>3. M = {p}
        BY <1>6, <3>1, <4>2
      <4> QED BY <4>1, <4>2, <4>3
    <3>3. PICK a \in Nat : a = Available(doc[p])
      BY <3>2, AvailableInt DEF SoundDocument
    <3>4. price * n <= a
      <4>1. Affordable(doc, r) = a \div price
        BY <2>2, <3>2, <3>3, AffordableFact
      <4>2. PICK q \in Nat : q = a \div price
        BY <2>2, DivFact
      <4>3. n <= q
        BY <4>1, <4>2, AffordableFact DEF Least
      <4>4. price * q <= a
        BY <2>2, <4>2, TimesDiv
      <4> HIDE DEF n
      <4>5. price * n <= price * q /\ price * q \in Nat
        BY <1>1, <4>3, TimesMono
      <4> QED BY <2>3, <4>4, <4>5
    <3>5. \A c \in Counter : c # p => at[c] = at[c - 1]
      BY <1>5, <3>2
    <3>6. at[p - 1] = price * n
      <4> HIDE DEF at, n
      <4> QED BY <1>3, <1>4, <2>3, <3>2, <3>5, OneCounterLoop
    <3>7. take(p) = price * n
      <4> HIDE DEF at, n
      <4>1. PICK v \in Nat : v = price * n
        BY <2>3
      <4>2. Greatest(Least(a, v), 0) = v
        BY <3>4, <4>1 DEF Greatest, Least
      <4>3. ValueTake(doc, r, p, v) = v
        <5>1. CASE v > 0
          BY <3>1, <3>3, <4>2, <5>1 DEF ValueTake
        <5>2. CASE v = 0
          BY <5>2 DEF ValueTake
        <5> QED BY <5>1, <5>2
      <4> QED BY <3>6, <4>1, <4>3
    <3>8. done.doc[p] = Hold(doc[p], r, price * n, t)
      <4> HIDE DEF take, n
      <4> QED BY <1>2, <3>2, <3>7
    <3>9. /\ Amount(done.doc, r, p) = price * n
          /\ Amount(done.doc, r, p) > 0 => done.doc[p].reserved[r].until = t + Validity
      <4> HIDE DEF n
      <4>1. PICK v \in Nat : v = price * n
        BY <2>3
      <4>2. doc[p] \in CounterState /\ doc[p].reserved[r].amount = 0
        BY <1>8, <3>2, CounterStates DEF Amount
      <4>3. /\ v > 0 => done.doc[p].reserved[r] = [amount |-> v, until |-> t + Validity]
            /\ v = 0 => done.doc[p].reserved[r] = doc[p].reserved[r]
        BY <3>8, <4>1, <4>2, HoldFact
      <4>4. CASE v > 0
        BY <4>1, <4>3, <4>4 DEF Amount
      <4>5. CASE v = 0
        BY <4>1, <4>2, <4>3, <4>5 DEF Amount
      <4> QED BY <4>4, <4>5
    <3> HIDE DEF n, at, M
    <3>10. \A c \in Monetary : c # p => Amount(done.doc, r, c) = 0 /\ c \notin Paying(r)
      <4> SUFFICES ASSUME NEW c \in Monetary, c # p
                   PROVE  Amount(done.doc, r, c) = 0 /\ c \notin Paying(r)
        OBVIOUS
      <4>1. c \in Counter /\ c \notin M
        BY <2>1, <3>2
      <4>2. done.doc[c].reserved[r] = doc[c].reserved[r]
        BY <1>5, <4>1
      <4> QED BY <1>8, <3>2, <4>2 DEF Amount
    <3> QED BY <2>2, <3>2, <3>9, <3>10
  <2> QED BY <2>4, <2>5
<1> HIDE DEF n
<1> QED BY <1>1, <1>2, <1>7, <1>8 DEF done

\* What a reservation grants, it backs.
LEMMA ReserveBacked ==
  ASSUME NEW doc \in SoundDocument, NEW r \in Ref, NEW units \in Nat, NEW t \in Nat
  PROVE  LET done == ReserveQuota(doc, r, units, t)
         IN  /\ done.granted \in Nat
             /\ Plain(r) /\ Unheld(doc, r) =>
                  Backed(done.doc, r, [units |-> done.granted, until |-> t + Validity])
<1> DEFINE service == ReserveService(doc, r, units, t)
           rest    == units - service.granted
           extra   == ReserveMonetary(service.doc, r, rest, t)
           money   == ReserveMonetary(doc, r, units, t)
           done    == ReserveQuota(doc, r, units, t)
           until   == t + Validity
<1>1. /\ service.doc \in SoundDocument /\ service.granted \in Nat
      /\ Unheld(doc, r) =>
           /\ service.granted = Total(ServiceAmounts(service.doc, r), NumCounters)
           /\ \A c \in Counter :
                Amount(service.doc, r, c) > 0 => service.doc[c].reserved[r].until = until
           /\ \A c \in Monetary : Amount(service.doc, r, c) = 0
  BY ReserveServiceSound, ServiceWorth
<1>2. \A c \in Monetary : c \in Counter
  BY CounterAssumption
<1>3. t + Validity \in Nat
  BY ValidityAssumption
<1>4. 0 * 0 = 0 /\ Tariff[r].taxed * 0 = 0
  BY TermsFact
<1>5. CASE Tariff[r].money
  <2>1. done = money
    BY <1>5 DEF ReserveQuota
  <2>2. /\ money.granted \in Nat
        /\ \A c \in Counter \ Monetary : money.doc[c].reserved[r] = doc[c].reserved[r]
        /\ Plain(r) /\ (\A c \in Monetary : Amount(doc, r, c) = 0) =>
             /\ money.granted > 0 => Paying(r) # {}
             /\ \A c \in Monetary :
                  /\ Amount(money.doc, r, c)
                       = IF c \in Paying(r) THEN Tariff[r].taxed * money.granted ELSE 0
                  /\ Amount(money.doc, r, c) > 0 => money.doc[c].reserved[r].until = until
    BY MonetaryWorth
  <2> HIDE DEF money
  <2>3. ASSUME Plain(r), Unheld(doc, r)
        PROVE  Backed(money.doc, r, [units |-> money.granted, until |-> until])
    <3>1. \A c \in Counter : Amount(money.doc, r, c) > 0 => money.doc[c].reserved[r].until >= until
      <4> SUFFICES ASSUME NEW c \in Counter, Amount(money.doc, r, c) > 0
                   PROVE  money.doc[c].reserved[r].until >= until
        OBVIOUS
      <4>1. c \in Monetary
        BY <2>2, <2>3 DEF Unheld, Amount
      <4>2. money.doc[c].reserved[r].until = until
        BY <1>2, <2>2, <2>3, <4>1 DEF Unheld
      <4> QED BY <1>3, <4>2
    <3>2. Bundle(money.doc, r) = 0
      BY <1>5 DEF Bundle
    <3>3. money.granted <= 0 + money.granted
      BY <2>2
    <3> QED BY <1>2, <2>2, <2>3, <3>1, <3>2, <3>3 DEF Backed, Priced, Unheld
  <2> QED BY <2>1, <2>2, <2>3
<1>6. CASE ~Tariff[r].money /\ Tariff[r].oob /\ service.granted < units
  <2>1. done = [doc |-> extra.doc, granted |-> service.granted + extra.granted]
    BY <1>6 DEF ReserveQuota
  <2>2. rest \in Nat
    <3> HIDE DEF service
    <3> QED BY <1>1, <1>6
  <2>3. /\ extra.granted \in Nat
        /\ \A c \in Counter \ Monetary : extra.doc[c].reserved[r] = service.doc[c].reserved[r]
        /\ Plain(r) /\ (\A c \in Monetary : Amount(service.doc, r, c) = 0) =>
             /\ extra.granted > 0 => Paying(r) # {}
             /\ \A c \in Monetary :
                  /\ Amount(extra.doc, r, c)
                       = IF c \in Paying(r) THEN Tariff[r].taxed * extra.granted ELSE 0
                  /\ Amount(extra.doc, r, c) > 0 => extra.doc[c].reserved[r].until = until
    <3>1. ASSUME NEW any \in SoundDocument, NEW n \in Nat
          PROVE  LET new == ReserveMonetary(any, r, n, t)
                 IN  /\ new.granted \in Nat
                     /\ \A c \in Counter \ Monetary : new.doc[c].reserved[r] = any[c].reserved[r]
                     /\ Plain(r) /\ (\A c \in Monetary : Amount(any, r, c) = 0) =>
                          /\ new.granted > 0 => Paying(r) # {}
                          /\ \A c \in Monetary :
                               /\ Amount(new.doc, r, c)
                                    = IF c \in Paying(r) THEN Tariff[r].taxed * new.granted ELSE 0
                               /\ Amount(new.doc, r, c) > 0 => new.doc[c].reserved[r].until = until
      BY MonetaryWorth
    <3> HIDE DEF service, rest, until
    <3> QED BY <1>1, <2>2, <3>1 DEF extra
  <2> HIDE DEF service, extra, rest
  <2>4. ASSUME Plain(r), Unheld(doc, r)
        PROVE  Backed(extra.doc, r, [units |-> service.granted + extra.granted, until |-> until])
    <3>1. \A c \in Counter : Amount(extra.doc, r, c) > 0 => extra.doc[c].reserved[r].until >= until
      <4> SUFFICES ASSUME NEW c \in Counter, Amount(extra.doc, r, c) > 0
                   PROVE  extra.doc[c].reserved[r].until >= until
        OBVIOUS
      <4>1. extra.doc[c].reserved[r].until = until
        <5>1. CASE c \in Monetary
          BY <1>1, <2>3, <2>4, <5>1
        <5>2. CASE c \notin Monetary
          BY <1>1, <2>3, <2>4, <5>2 DEF Amount
        <5> QED BY <5>1, <5>2
      <4> QED BY <1>3, <4>1
    <3>2. Bundle(extra.doc, r) = service.granted
      <4>1. ServiceAmounts(extra.doc, r) = ServiceAmounts(service.doc, r)
        BY <2>3 DEF ServiceAmounts, Amount
      <4> QED BY <1>1, <1>6, <2>4, <4>1 DEF Bundle
    <3>3. service.granted + extra.granted <= service.granted + extra.granted
      BY <1>1, <2>3
    <3> QED BY <1>1, <2>3, <2>4, <3>1, <3>2, <3>3 DEF Backed, Priced
  <2>5. service.granted + extra.granted \in Nat
    BY <1>1, <2>3
  <2> HIDE DEF done
  <2> QED BY <2>1, <2>4, <2>5 DEF done
<1>7. CASE ~Tariff[r].money /\ ~(Tariff[r].oob /\ service.granted < units)
  <2>1. done = service
    BY <1>7 DEF ReserveQuota
  <2> HIDE DEF service
  <2>2. ASSUME Plain(r), Unheld(doc, r)
        PROVE  Backed(service.doc, r, [units |-> service.granted, until |-> until])
    <3>1. \A c \in Counter : Amount(service.doc, r, c) > 0 => service.doc[c].reserved[r].until >= until
      BY <1>1, <1>3, <2>2
    <3>2. Bundle(service.doc, r) = service.granted
      BY <1>1, <1>7, <2>2 DEF Bundle
    <3>3. service.granted <= service.granted + 0
      BY <1>1
    <3>4. \A c \in Monetary :
            Amount(service.doc, r, c) = IF c \in Paying(r) THEN Tariff[r].taxed * 0 ELSE 0
      BY <1>1, <1>4, <2>2
    <3>5. \E x \in Nat :
            /\ service.granted <= Bundle(service.doc, r) + x
            /\ x > 0 => Paying(r) # {}
            /\ \A c \in Monetary :
                 Amount(service.doc, r, c) = IF c \in Paying(r) THEN Tariff[r].taxed * x ELSE 0
      <4> WITNESS 0 \in Nat
      <4> QED BY <3>2, <3>3, <3>4
    <3> QED BY <3>1, <3>5 DEF Backed, Priced
  <2> QED BY <1>1, <2>1, <2>2
<1> QED BY <1>5, <1>6, <1>7

-----------------------------------------------------------------------------
\* What accounting an amount that is reserved leaves of the reservation.
LEMMA SpendFact ==
  ASSUME NEW s \in CounterState, NEW r \in Ref, NEW amount \in Nat,
         amount <= s.reserved[r].amount
  PROVE  LET new == Spend(s, r, amount, FALSE).reserved[r]
         IN  /\ new.amount = s.reserved[r].amount - amount
             /\ new.amount > 0 => s.reserved[r].amount > 0 /\ new.until = s.reserved[r].until
<1> DEFINE held == s.reserved[r]
           new == Spend(s, r, amount, FALSE).reserved[r]
<1>1. held \in Reservation
  BY StateFields
<1>2. new = IF held.amount = amount
              THEN NoReservation
              ELSE [held EXCEPT !.amount = held.amount - amount]
  BY DEF Spend, CounterState
<1> HIDE DEF held, new
<1>3. PICK h \in Nat : h = held.amount
  BY <1>1 DEF Reservation
<1>4. h >= amount
  BY <1>3 DEF held
<1>5. CASE h = amount
  <2>1. new.amount = 0 /\ h - amount = 0
    BY <1>2, <1>3, <1>5 DEF NoReservation
  <2>2. new.amount = held.amount - amount /\ ~(new.amount > 0)
    BY <1>3, <2>1
  <2> QED BY <2>2 DEF held, new
<1>6. CASE h # amount
  <2>1. new = [held EXCEPT !.amount = h - amount]
    BY <1>2, <1>3, <1>6
  <2>2. new.amount = h - amount /\ new.until = held.until /\ h > 0
    BY <1>1, <1>4, <1>6, <2>1 DEF Reservation
  <2> QED BY <1>3, <2>2 DEF held, new
<1> QED BY <1>5, <1>6

\* The loop of debitServiceUnits, counter by counter, under a plain tariff: a
\* counter gives what it has reserved or what is left to account.
LEMMA ServiceUnspentEach ==
  ASSUME NEW doc \in SoundDocument, NEW r \in Ref, Plain(r), NEW units \in Nat
  PROVE  LET at == ServiceUnspent(doc, r, units)
         IN  /\ at[0] = units
             /\ \A c \in Counter :
                  /\ ServiceAccount(doc, r, c, at[c - 1])
                       = Least(ServiceAmounts(doc, r)[c], at[c - 1])
                  /\ at[c] = at[c - 1] - ServiceAccount(doc, r, c, at[c - 1])
<1> DEFINE rest(c, l) == IF c \in Holding(doc, r, FALSE)
                           THEN Down(r, Up(r, l) - ServiceAccount(doc, r, c, l))
                           ELSE l
           body == [c \in Counter |-> [left \in Nat |-> rest(c, left)]]
           at == ServiceUnspent(doc, r, units)
           first == units
           X == Nat
<1>1. ASSUME NEW c \in Counter, NEW l \in Nat
      PROVE  /\ ServiceAccount(doc, r, c, l) = Least(ServiceAmounts(doc, r)[c], l)
             /\ rest(c, l) = l - ServiceAccount(doc, r, c, l)
             /\ rest(c, l) \in Nat
  <2>1. PICK h \in Nat : h = doc[c].reserved[r].amount
    BY CounterStates, StateFields
  <2>2. ServiceAmounts(doc, r)[c] = IF c \in Monetary THEN 0 ELSE h
    BY <2>1 DEF ServiceAmounts, Amount
  <2>3. c \in Holding(doc, r, FALSE) <=> h > 0 /\ c \notin Monetary
    BY <2>1 DEF Holding
  <2>4. PICK a \in Nat : a = ServiceAccount(doc, r, c, l) /\ a <= Up(r, l)
    BY ServiceAccountFact
  <2>5. Up(r, l) = l
    BY PlainFact
  <2>6. ServiceAccount(doc, r, c, l) = IF h > 0 /\ c \notin Monetary THEN Least(h, l) ELSE 0
    BY <2>1, <2>3, <2>5 DEF ServiceAccount
  <2>7. ServiceAccount(doc, r, c, l) = Least(ServiceAmounts(doc, r)[c], l)
    BY <2>2, <2>6 DEF Least
  <2>8. l - a \in Nat
    BY <2>4, <2>5
  <2>9. Down(r, l - a) = l - a
    BY PlainFact
  <2>10. c \notin Holding(doc, r, FALSE) => a = 0
    BY <2>3, <2>4, <2>6
  <2>11. rest(c, l) = l - a
    <3>1. CASE c \in Holding(doc, r, FALSE)
      BY <2>4, <2>5, <2>9, <3>1
    <3>2. CASE c \notin Holding(doc, r, FALSE)
      <4>1. l - a = l
        BY <2>10, <3>2
      <4> QED BY <3>2, <4>1
    <3> QED BY <3>1, <3>2
  <2> HIDE DEF rest
  <2> QED BY <2>4, <2>7, <2>8, <2>11
<1>2. at = Loop(NumCounters, first, body)
  BY DEF ServiceUnspent
<1>3. first \in X /\ body \in [Counter -> [X -> X]]
  <2> HIDE DEF rest
  <2> QED BY <1>1
<1>4. at \in [0..NumCounters -> Nat]
  BY ServiceUnspentNat
<1> HIDE DEF body, X, at, rest, first
<1>5. at[0] = first /\ \A c \in Counter : at[c] = body[c][at[c - 1]]
  BY <1>2, <1>3, CounterLoop
<1>6. ASSUME NEW c \in Counter
      PROVE  /\ ServiceAccount(doc, r, c, at[c - 1]) = Least(ServiceAmounts(doc, r)[c], at[c - 1])
             /\ at[c] = at[c - 1] - ServiceAccount(doc, r, c, at[c - 1])
  <2>1. at[c - 1] \in Nat
    BY <1>4, BeforeNat
  <2>2. at[c] = rest(c, at[c - 1])
    BY <1>5, <2>1 DEF body
  <2> QED BY <1>1, <2>1, <2>2
<1> QED BY <1>5, <1>6 DEF at, first

\* A debit takes from the service counters what it accounts, and goes on to
\* the others only when nothing is left on these.
LEMMA DebitServiceWorth ==
  ASSUME NEW doc \in SoundDocument, NEW r \in Ref, Plain(r), NEW units \in Nat
  PROVE  LET done == DebitService(doc, r, units, FALSE)
             bundle == Total(ServiceAmounts(doc, r), NumCounters)
         IN  /\ done.left \in Nat /\ bundle \in Nat
             /\ done.left > 0 => units = bundle + done.left
             /\ Total(ServiceAmounts(done.doc, r), NumCounters) = bundle - (units - done.left)
             /\ \A c \in Monetary : done.doc[c].reserved[r] = doc[c].reserved[r]
             /\ \A c \in Counter : Amount(done.doc, r, c) > 0 =>
                  /\ Amount(doc, r, c) > 0
                  /\ done.doc[c].reserved[r].until = doc[c].reserved[r].until
<1> DEFINE at == ServiceUnspent(doc, r, units)
           account(c) == ServiceAccount(doc, r, c, at[c - 1])
           accounts == [c \in Counter |-> account(c)]
           done == DebitService(doc, r, units, FALSE)
           amounts == ServiceAmounts(doc, r)
           after == ServiceAmounts(done.doc, r)
<1>1. at \in [0..NumCounters -> Nat] /\ at \in [0..NumCounters -> Int]
  BY ServiceUnspentNat
<1>2. at[0] = units /\ \A c \in Counter : account(c) = Least(amounts[c], at[c - 1])
                                          /\ at[c] = at[c - 1] - account(c)
  BY ServiceUnspentEach
<1>3. /\ done.left = at[NumCounters]
      /\ \A c \in Counter : done.doc[c] = IF c \in Holding(doc, r, FALSE)
                                            THEN Spend(doc[c], r, account(c), FALSE)
                                            ELSE doc[c]
  BY DEF DebitService
<1>4. ASSUME NEW c \in Counter
      PROVE  account(c) \in Nat /\ account(c) <= Amount(doc, r, c)
             /\ (c \notin Holding(doc, r, FALSE) => account(c) = 0)
  <2>1. at[c - 1] \in Nat
    <3> HIDE DEF at
    <3> QED BY <1>1, BeforeNat
  <2> HIDE DEF at
  <2> QED BY <2>1, ServiceAccountFact DEF Amount, ServiceAccount
<1>5. ASSUME NEW c \in Counter
      PROVE  Amount(doc, r, c) \in Nat
  BY CounterStates, StateFields DEF Amount
<1> HIDE DEF at, account, done
<1>6. ASSUME NEW c \in Counter
      PROVE  /\ Amount(done.doc, r, c) = Amount(doc, r, c) - account(c)
             /\ Amount(done.doc, r, c) > 0 =>
                  /\ Amount(doc, r, c) > 0
                  /\ done.doc[c].reserved[r].until = doc[c].reserved[r].until
             /\ c \in Monetary => done.doc[c].reserved[r] = doc[c].reserved[r]
                                   /\ account(c) = 0
  <2>1. PICK a \in Nat : a = account(c)
    BY <1>4
  <2>2. CASE c \in Holding(doc, r, FALSE)
    <3>1. done.doc[c] = Spend(doc[c], r, a, FALSE) /\ c \notin Monetary
      BY <1>3, <2>1, <2>2 DEF Holding
    <3>2. doc[c] \in CounterState /\ a <= doc[c].reserved[r].amount
      BY <1>4, <2>1, CounterStates DEF Amount
    <3>3. /\ done.doc[c].reserved[r].amount = doc[c].reserved[r].amount - a
          /\ done.doc[c].reserved[r].amount > 0 =>
               /\ doc[c].reserved[r].amount > 0
               /\ done.doc[c].reserved[r].until = doc[c].reserved[r].until
      <4>1. LET new == Spend(doc[c], r, a, FALSE).reserved[r]
            IN  /\ new.amount = doc[c].reserved[r].amount - a
                /\ new.amount > 0 => /\ doc[c].reserved[r].amount > 0
                                     /\ new.until = doc[c].reserved[r].until
        BY <3>2, SpendFact
      <4> QED BY <3>1, <4>1
    <3> QED BY <2>1, <3>1, <3>3 DEF Amount
  <2>3. CASE c \notin Holding(doc, r, FALSE)
    <3>1. done.doc[c] = doc[c] /\ account(c) = 0
      BY <1>3, <1>4, <2>3
    <3>2. Amount(done.doc, r, c) = Amount(doc, r, c)
      BY <3>1 DEF Amount
    <3>3. Amount(doc, r, c) - 0 = Amount(doc, r, c)
      BY <1>5
    <3> QED BY <3>1, <3>2, <3>3
  <2> QED BY <2>2, <2>3
<1>7. \A c \in Monetary : c \in Counter
  BY CounterAssumption
<1>8. /\ amounts \in [1..NumCounters -> Nat] /\ amounts \in [1..NumCounters -> Int]
      /\ accounts \in [1..NumCounters -> Nat] /\ accounts \in [1..NumCounters -> Int]
      /\ \A k \in 1..NumCounters : accounts[k] = account(k)
  <2>1. \A c \in Counter : account(c) \in Nat /\ Amount(doc, r, c) \in Nat
    BY <1>4, <1>5
  <2>2. accounts \in [Counter -> Nat] /\ \A c \in Counter : accounts[c] = account(c)
    BY <2>1
  <2>3. amounts \in [Counter -> Nat]
    BY <2>1 DEF ServiceAmounts
  <2> HIDE DEF accounts, amounts
  <2>4. accounts \in [Counter -> Int] /\ amounts \in [Counter -> Int]
    BY <2>2, <2>3
  <2> QED BY <2>2, <2>3, <2>4 DEF Counter
<1>9. ASSUME NEW k \in 1..NumCounters PROVE after[k] = amounts[k] - accounts[k] /\ after[k] \in Int
  <2>1. k \in Counter
    BY DEF Counter
  <2>2. PICK h \in Nat, a \in Nat : h = Amount(doc, r, k) /\ a = account(k)
    BY <1>4, <1>5, <2>1
  <2>3. accounts[k] = a
    BY <1>8, <2>2
  <2>4. amounts[k] = IF k \in Monetary THEN 0 ELSE h
    BY <2>1, <2>2 DEF ServiceAmounts
  <2>5. after[k] = IF k \in Monetary THEN 0 ELSE h - a
    BY <1>6, <2>1, <2>2 DEF ServiceAmounts
  <2>6. k \in Monetary => a = 0
    BY <1>6, <2>1, <2>2
  <2> HIDE DEF amounts, accounts, after
  <2> QED BY <2>3, <2>4, <2>5, <2>6
<1>10. after \in [1..NumCounters -> Int]
  <2>1. after = [k \in 1..NumCounters |-> after[k]]
    BY DEF ServiceAmounts, Counter
  <2> HIDE DEF after
  <2> QED BY <1>9, <2>1
<1> HIDE DEF amounts, accounts, after
<1>11. Total(accounts, NumCounters) = units - done.left
  <2>1. \A k \in 1..NumCounters : at[k] = at[k - 1] - accounts[k]
    BY <1>2, <1>8 DEF Counter
  <2>2. NumCounters \in Nat /\ accounts \in [1..NumCounters -> Int]
    BY <1>8, SizeAssumption
  <2>3. Total(accounts, NumCounters) = at[0] - at[NumCounters]
    BY <1>1, <2>1, <2>2, TelescopeDown
  <2> QED BY <1>2, <1>3, <2>3
<1>12. Total(after, NumCounters) = Total(amounts, NumCounters) - Total(accounts, NumCounters)
  BY <1>8, <1>9, <1>10, SizeAssumption, TotalMinus
<1>13. done.left \in Nat /\ Total(amounts, NumCounters) \in Nat
  BY <1>1, <1>3, <1>8, LastNat, SizeAssumption, TotalNat
<1>14. ASSUME done.left > 0 PROVE Total(amounts, NumCounters) = Total(accounts, NumCounters)
  <2> DEFINE S == {k \in 0..NumCounters : at[k] > 0 => \A j \in 1..k : accounts[j] = amounts[j]}
  <2>1. 0 \in S
    BY SizeAssumption
  <2>2. ASSUME NEW k \in 1..NumCounters, k - 1 \in S PROVE k \in S
    <3> SUFFICES ASSUME at[k] > 0, NEW j \in 1..k PROVE accounts[j] = amounts[j]
      BY SizeAssumption
    <3>1. k \in Counter /\ k - 1 \in 0..NumCounters
      BY SizeAssumption DEF Counter
    <3>2. PICK l \in Nat, a \in Nat, h \in Nat :
            l = at[k - 1] /\ a = account(k) /\ h = amounts[k] /\ accounts[k] = a
      BY <1>1, <1>8, <3>1
    <3>3. a = Least(h, l) /\ l - a > 0
      BY <1>2, <3>1, <3>2
    <3>4. a = h /\ l > 0
      BY <3>3 DEF Least
    <3>5. CASE j = k
      BY <3>2, <3>4, <3>5
    <3>6. CASE j # k
      <4>1. j \in 1..(k - 1)
        BY <3>6
      <4> QED BY <2>2, <3>2, <3>4, <4>1
    <3> QED BY <3>5, <3>6
  <2>3. \A k \in 0..NumCounters : k \in S
    <3> HIDE DEF S
    <3> QED BY <2>1, <2>2, SizeAssumption, UpTo
  <2>4. \A j \in 1..NumCounters : accounts[j] = amounts[j]
    BY <1>3, <1>14, <2>3, SizeAssumption
  <2>5. accounts = amounts
    <3> HIDE DEF S
    <3>1. accounts \in [1..NumCounters -> Nat] /\ amounts \in [1..NumCounters -> Nat]
      BY <1>8
    <3>2. /\ accounts = [k \in 1..NumCounters |-> accounts[k]]
          /\ amounts = [k \in 1..NumCounters |-> amounts[k]]
      BY <3>1
    <3> QED BY <2>4, <3>2, Zenon
  <2> QED BY <2>5
<1>15. /\ Total(after, NumCounters) = Total(amounts, NumCounters) - (units - done.left)
       /\ done.left > 0 => units = Total(amounts, NumCounters) + done.left
  BY <1>11, <1>12, <1>13, <1>14
<1> QED BY <1>6, <1>7, <1>13, <1>15 DEF done, amounts, after

\* The one counter that pays has the price of x units reserved: it pays any
\* number of units up to x and keeps the price of the others.
LEMMA DebitMonetaryWorth ==
  ASSUME NEW doc \in SoundDocument, NEW r \in Ref, Plain(r),
         NEW x \in Nat, NEW units \in 1..x, Paying(r) # {}, Priced(doc, r, x)
  PROVE  LET done == DebitMonetary(doc, r, units, FALSE)
         IN  /\ done.left = 0
             /\ Priced(done.doc, r, x - units)
             /\ \A c \in Counter \ Monetary : done.doc[c].reserved[r] = doc[c].reserved[r]
             /\ \A c \in Counter : Amount(done.doc, r, c) > 0 =>
                  /\ Amount(doc, r, c) > 0
                  /\ done.doc[c].reserved[r].until = doc[c].reserved[r].until
<1> DEFINE at == ValueUnspent(doc, r, units)
           account(c) == ValueAccount(doc, r, c, at[c - 1])
           done == DebitMonetary(doc, r, units, FALSE)
           H == Holding(doc, r, TRUE)
<1>1. at \in [0..NumCounters -> Int]
  BY ValueUnspentInt
<1>2. at[0] = Cost(r, units) /\ \A c \in Counter : at[c] = at[c - 1] - account(c)
  BY ValueUnspentEach
<1>3. /\ \A c \in Counter : done.doc[c] = IF c \in H
                                            THEN Spend(doc[c], r, account(c), FALSE \/ at[c - 1] <= 0)
                                            ELSE doc[c]
      /\ H # {} => done.left = (at[NumCounters] * Tariff[r].den)
                                 \div (Tariff[r].num * Tariff[r].price)
  BY DEF DebitMonetary
<1>4. PICK price \in Nat \ {0} : price = Tariff[r].taxed
  BY TermsFact
<1>5. \A c \in Monetary : c \in Counter
  BY CounterAssumption
<1>6. PICK p \in Paying(r) : TRUE
  OBVIOUS
<1>7. p \in Monetary /\ p \in Counter /\ \A c \in Paying(r) : c = p
  BY <1>5, PlainFact DEF Paying
<1>8. PICK paid \in Nat, all \in Nat, over \in Nat :
        /\ paid = price * units /\ all = price * x /\ over = price * (x - units)
        /\ paid <= all /\ over = all - paid /\ paid > 0
  <2>1. units \in Nat /\ units <= x /\ units > 0 /\ x - units \in Nat
    OBVIOUS
  <2>2. /\ price * units \in Nat /\ price * x \in Nat /\ price * (x - units) \in Nat
        /\ price * units <= price * x /\ price * x - price * units = price * (x - units)
        /\ price * units > 0
    BY <2>1, TimesMono
  <2> QED BY <2>2
<1>9. Amount(doc, r, p) = all
  BY <1>4, <1>7, <1>8 DEF Priced
<1>10. \A c \in Monetary : c # p => Amount(doc, r, c) = 0
  BY <1>7 DEF Priced
<1>11. H = {p}
  <2>1. p \in H
    BY <1>7, <1>8, <1>9 DEF Holding, Amount
  <2>2. ASSUME NEW c \in H PROVE c = p
    <3>1. c \in Counter /\ c \in Monetary /\ Amount(doc, r, c) > 0
      BY DEF Holding, Amount
    <3> QED BY <1>10, <3>1
  <2> HIDE DEF H
  <2> QED BY <2>1, <2>2
<1>12. \A c \in Counter : c # p => account(c) = 0 /\ done.doc[c] = doc[c]
  BY <1>3, <1>11 DEF ValueAccount
<1> HIDE DEF at, done, H
<1>13. \A c \in Counter : c # p => at[c] = at[c - 1]
  <2> SUFFICES ASSUME NEW c \in Counter, c # p PROVE at[c] = at[c - 1]
    OBVIOUS
  <2>1. PICK l \in Int : l = at[c - 1]
    BY <1>1, BeforeInt
  <2> HIDE DEF account
  <2> QED BY <1>2, <1>12, <2>1
<1>14. at[0] = paid
  BY <1>2, <1>4, <1>8, PlainFact
<1>15. at[p - 1] = paid /\ at[NumCounters] = at[p]
  BY <1>1, <1>7, <1>13, <1>14, OneCounterLoop
<1>16. account(p) = paid
  <2>1. doc[p].reserved[r].amount = all
    BY <1>9 DEF Amount
  <2>2. Least(all, Greatest(paid, 0)) = paid
    BY <1>8 DEF Least, Greatest
  <2>3. ValueAccount(doc, r, p, paid) = paid
    BY <1>11, <2>1, <2>2 DEF ValueAccount, H
  <2> QED BY <1>15, <2>3
<1>17. at[NumCounters] = 0
  <2> HIDE DEF account
  <2> QED BY <1>2, <1>7, <1>15, <1>16
<1>18. done.left = 0
  <2>1. PICK n \in Nat \ {0}, d \in Nat \ {0}, q \in Nat \ {0} :
          n = Tariff[r].num /\ d = Tariff[r].den /\ q = Tariff[r].price
    BY TermsFact
  <2>2. done.left = (0 * d) \div (n * q)
    BY <1>3, <1>11, <1>17, <2>1
  <2>3. PICK m \in Nat \ {0} : m = n * q
    <3>1. n * q > 0 /\ n * q \in Nat
      BY TimesMono
    <3> QED BY <3>1
  <2>4. 0 * d = 0 /\ 0 \div m = 0
    OBVIOUS
  <2> QED BY <2>2, <2>3, <2>4
<1>19. /\ Amount(done.doc, r, p) = over
       /\ Amount(done.doc, r, p) > 0 =>
            /\ Amount(doc, r, p) > 0
            /\ done.doc[p].reserved[r].until = doc[p].reserved[r].until
  <2>1. (FALSE \/ at[p - 1] <= 0) = FALSE
    BY <1>8, <1>15
  <2>2. done.doc[p] = Spend(doc[p], r, paid, FALSE)
    <3> HIDE DEF account
    <3> QED BY <1>3, <1>7, <1>11, <1>16, <2>1
  <2>3. doc[p] \in CounterState /\ paid <= doc[p].reserved[r].amount
    BY <1>7, <1>8, <1>9, CounterStates DEF Amount
  <2>4. LET new == Spend(doc[p], r, paid, FALSE).reserved[r]
        IN  /\ new.amount = doc[p].reserved[r].amount - paid
            /\ new.amount > 0 => /\ doc[p].reserved[r].amount > 0
                                 /\ new.until = doc[p].reserved[r].until
    BY <2>3, SpendFact
  <2> QED BY <1>8, <1>9, <2>2, <2>4 DEF Amount
<1>20. \A c \in Counter : c # p => Amount(done.doc, r, c) = Amount(doc, r, c)
                                   /\ done.doc[c].reserved[r] = doc[c].reserved[r]
  BY <1>12 DEF Amount
<1>21. Priced(done.doc, r, x - units)
  BY <1>4, <1>5, <1>7, <1>8, <1>10, <1>19, <1>20 DEF Priced
<1>22. \A c \in Counter \ Monetary : done.doc[c].reserved[r] = doc[c].reserved[r]
  BY <1>7, <1>20
<1>23. \A c \in Counter : Amount(done.doc, r, c) > 0 =>
         /\ Amount(doc, r, c) > 0
         /\ done.doc[c].reserved[r].until = doc[c].reserved[r].until
  BY <1>19, <1>20
<1> QED BY <1>18, <1>21, <1>22, <1>23 DEF done

\* A use within the grant is paid, and what is left of the grant stays backed.
LEMMA DebitBacked ==
  ASSUME NEW doc \in SoundDocument, NEW r \in Ref, Plain(r),
         NEW grant \in Promise, Backed(doc, r, grant), NEW units \in 1..grant.units
  PROVE  LET done == Debit(doc, r, units, FALSE)
         IN  /\ done.unaccounted = 0
             /\ Backed(done.doc, r, [grant EXCEPT !.units = @ - units])
<1> DEFINE done == Debit(doc, r, units, FALSE)
           service == DebitService(doc, r, units, FALSE)
           bundle == Total(ServiceAmounts(doc, r), NumCounters)
           rest == [grant EXCEPT !.units = @ - units]
<1>1. PICK g \in Nat : g = grant.units
  BY DEF Promise
<1>2. units \in Nat /\ units > 0 /\ units <= g
  BY <1>1
<1>3. rest.units = g - units /\ rest.until = grant.until /\ grant.until \in Nat
  BY <1>1 DEF Promise
<1>4. PICK x \in Nat :
        /\ grant.units <= Bundle(doc, r) + x
        /\ x > 0 => Paying(r) # {}
        /\ Priced(doc, r, x)
  BY DEF Backed
<1>5. \A c \in Counter : Amount(doc, r, c) > 0 => doc[c].reserved[r].until >= grant.until
  BY DEF Backed
<1>7. CASE Tariff[r].money
  <2> DEFINE money == DebitMonetary(doc, r, units, FALSE)
  <2>1. done.unaccounted = money.left /\ done.doc = money.doc
    BY <1>2, <1>7 DEF Debit
  <2>2. \A any : Bundle(any, r) = 0
    BY <1>7 DEF Bundle
  <2>3. units \in 1..x
    BY <1>1, <1>2, <1>4, <2>2
  <2>4. /\ money.left = 0
        /\ Priced(money.doc, r, x - units)
        /\ \A c \in Counter : Amount(money.doc, r, c) > 0 =>
             /\ Amount(doc, r, c) > 0
             /\ money.doc[c].reserved[r].until = doc[c].reserved[r].until
    <3>1. Paying(r) # {}
      BY <1>4, <2>3
    <3> QED BY <1>4, <2>3, <3>1, DebitMonetaryWorth
  <2> HIDE DEF money, done, rest
  <2>5. Backed(money.doc, r, rest)
    <3>1. \A c \in Counter :
            Amount(money.doc, r, c) > 0 => money.doc[c].reserved[r].until >= rest.until
      BY <1>3, <1>5, <2>4
    <3>2. x - units \in Nat /\ (x - units > 0 => Paying(r) # {})
      BY <1>2, <1>4, <2>3
    <3>3. rest.units <= Bundle(money.doc, r) + (x - units)
      BY <1>1, <1>2, <1>3, <1>4, <2>2
    <3> QED BY <2>4, <3>1, <3>2, <3>3 DEF Backed
  <2> QED BY <2>1, <2>4, <2>5 DEF done, rest
<1>8. CASE ~Tariff[r].money
  <2> DEFINE money == DebitMonetary(service.doc, r, service.left, FALSE)
  <2>1. /\ service.left > 0 => done.unaccounted = money.left /\ done.doc = money.doc
        /\ ~(service.left > 0) => done.unaccounted = service.left /\ done.doc = service.doc
    BY <1>8 DEF Debit
  <2>2. service.doc \in SoundDocument
    BY <1>2, DebitServiceSound
  <2>3. /\ service.left \in Nat /\ bundle \in Nat
        /\ service.left > 0 => units = bundle + service.left
        /\ Total(ServiceAmounts(service.doc, r), NumCounters) = bundle - (units - service.left)
        /\ \A c \in Monetary : service.doc[c].reserved[r] = doc[c].reserved[r]
        /\ \A c \in Counter : Amount(service.doc, r, c) > 0 =>
             /\ Amount(doc, r, c) > 0
             /\ service.doc[c].reserved[r].until = doc[c].reserved[r].until
    BY <1>2, DebitServiceWorth
  <2>4. Bundle(doc, r) = bundle
    BY <1>8 DEF Bundle
  <2>5. Priced(service.doc, r, x)
    BY <1>4, <2>3 DEF Amount, Priced
  <2> HIDE DEF service, done, rest, bundle
  <2>6. PICK s \in Nat, b \in Nat : s = service.left /\ b = bundle
    BY <2>3
  <2>7. Bundle(service.doc, r) = b - (units - s)
    BY <1>8, <2>3, <2>6 DEF Bundle
  <2>8. g <= b + x
    BY <1>1, <1>4, <2>4, <2>6
  <2>9. ASSUME s = 0 PROVE done.unaccounted = 0 /\ Backed(done.doc, r, rest)
    <3>1. done.unaccounted = 0 /\ done.doc = service.doc
      BY <2>1, <2>6, <2>9
    <3>2. rest.units <= Bundle(service.doc, r) + x
      BY <1>2, <1>3, <2>7, <2>8, <2>9
    <3>3. \A c \in Counter :
            Amount(service.doc, r, c) > 0 => service.doc[c].reserved[r].until >= rest.until
      BY <1>3, <1>5, <2>3
    <3>4. Backed(service.doc, r, rest)
      BY <1>4, <2>5, <3>2, <3>3 DEF Backed
    <3> QED BY <3>1, <3>4
  <2>10. ASSUME s > 0 PROVE done.unaccounted = 0 /\ Backed(done.doc, r, rest)
    <3>1. units = b + s /\ s \in 1..x
      BY <1>2, <2>3, <2>6, <2>8, <2>10
    <3>2. money = DebitMonetary(service.doc, r, s, FALSE)
      BY <2>6
    <3> HIDE DEF money
    <3>3. /\ money.left = 0
          /\ Priced(money.doc, r, x - s)
          /\ \A c \in Counter \ Monetary : money.doc[c].reserved[r] = service.doc[c].reserved[r]
          /\ \A c \in Counter : Amount(money.doc, r, c) > 0 =>
               /\ Amount(service.doc, r, c) > 0
               /\ money.doc[c].reserved[r].until = service.doc[c].reserved[r].until
      <4>1. LET new == DebitMonetary(service.doc, r, s, FALSE)
            IN  /\ new.left = 0
                /\ Priced(new.doc, r, x - s)
                /\ \A c \in Counter \ Monetary : new.doc[c].reserved[r] = service.doc[c].reserved[r]
                /\ \A c \in Counter : Amount(new.doc, r, c) > 0 =>
                     /\ Amount(service.doc, r, c) > 0
                     /\ new.doc[c].reserved[r].until = service.doc[c].reserved[r].until
        <5>1. Paying(r) # {}
          BY <1>4, <3>1
        <5> QED BY <2>2, <2>5, <3>1, <5>1, DebitMonetaryWorth
      <4> QED BY <3>2, <4>1
    <3>4. done.unaccounted = 0 /\ done.doc = money.doc
      BY <2>1, <2>6, <2>10, <3>3
    <3>5. Bundle(money.doc, r) = 0
      <4>1. ServiceAmounts(money.doc, r) = ServiceAmounts(service.doc, r)
        BY <3>3 DEF ServiceAmounts, Amount
      <4>2. Bundle(money.doc, r) = Bundle(service.doc, r)
        BY <4>1 DEF Bundle
      <4> QED BY <1>2, <2>7, <3>1, <4>2
    <3>6. \A c \in Counter :
            Amount(money.doc, r, c) > 0 => money.doc[c].reserved[r].until >= rest.until
      BY <1>3, <1>5, <2>3, <3>3
    <3>7. x - s \in Nat /\ (x - s > 0 => Paying(r) # {})
      BY <1>4, <2>10, <3>1
    <3>8. rest.units <= Bundle(money.doc, r) + (x - s)
      BY <1>2, <1>3, <2>8, <3>1, <3>5
    <3>9. Backed(money.doc, r, rest)
      BY <3>3, <3>6, <3>7, <3>8 DEF Backed
    <3> QED BY <3>4, <3>9
  <2>11. done.unaccounted = 0 /\ Backed(done.doc, r, rest)
    BY <2>9, <2>10
  <2> QED BY <2>11 DEF done, rest
<1> QED BY <1>7, <1>8

-----------------------------------------------------------------------------
\* The pass at the end of a call keeps what its operation left of a grant that
\* is still valid.
LEMMA CallBacked ==
  ASSUME NEW fresh, NEW mid \in SoundDocument, NEW early, NEW answer, NEW t \in Nat,
         NEW r \in Ref
  PROVE  LET done == Call(fresh, mid, early, answer, t)
         IN  /\ done.answer = answer
             /\ \A grant \in Promise : grant.until > t /\ Backed(mid, r, grant)
                                       => Backed(done.doc, r, grant)
             /\ Unheld(mid, r) => Unheld(done.doc, r)
<1>1. Call(fresh, mid, early, answer, t).doc = Expire(mid, t).doc
      /\ Call(fresh, mid, early, answer, t).answer = answer
  BY TabulatedFact DEF Call
<1> QED BY <1>1, ExpireBacked

\* What a grant has to survive in a call on the quota.
KeepsGrant(doc, new, r, t) ==
  /\ \A grant \in Promise : grant.until > t /\ Backed(doc, r, grant) => Backed(new, r, grant)
  /\ Unheld(doc, r) => Unheld(new, r)

\* A call that leaves the reservations under an id alone keeps its grant.
LEMMA CallKeeps ==
  ASSUME NEW doc \in SoundDocument, NEW mid \in SoundDocument, NEW early, NEW answer,
         NEW t \in Nat, NEW r \in Ref, SameHold(Expire(doc, t).doc, mid, r)
  PROVE  KeepsGrant(doc, Call(Expire(doc, t), mid, early, answer, t).doc, r, t)
<1> DEFINE fresh == Expire(doc, t)
           new == Call(Expire(doc, t), mid, early, answer, t).doc
<1>1. /\ \A grant \in Promise : grant.until > t /\ Backed(doc, r, grant) => Backed(fresh.doc, r, grant)
      /\ Unheld(doc, r) => Unheld(fresh.doc, r)
  BY ExpireBacked
<1>2. /\ \A grant : Backed(fresh.doc, r, grant) => Backed(mid, r, grant)
      /\ Unheld(fresh.doc, r) => Unheld(mid, r)
  BY SameBacked
<1>3. /\ \A grant \in Promise : grant.until > t /\ Backed(mid, r, grant) => Backed(new, r, grant)
      /\ Unheld(mid, r) => Unheld(new, r)
  BY CallBacked
<1> HIDE DEF fresh, new
<1>4. KeepsGrant(doc, new, r, t)
  BY <1>1, <1>2, <1>3 DEF KeepsGrant
<1> QED BY <1>4 DEF new

\* Every call keeps the grants of other ids.
LEMMA CallsKeepOthers ==
  ASSUME NEW doc \in SoundDocument, NEW t \in Nat, NEW q \in Ref
  PROVE  /\ \A r \in Ref, units \in Nat :
              q # r => KeepsGrant(doc, ReserveCall(doc, r, units, t).doc, q, t)
         /\ \A r \in Ref, units \in Nat, reclaim \in BOOLEAN :
              q # r => KeepsGrant(doc, DebitCall(doc, r, units, reclaim, t).doc, q, t)
         /\ \A r \in Ref : q # r => KeepsGrant(doc, ReleaseCall(doc, r, t).doc, q, t)
         /\ \A c \in Counter : KeepsGrant(doc, ProvisionCall(doc, c, t).doc, q, t)
         /\ KeepsGrant(doc, ExpireCall(doc, t).doc, q, t)
<1> DEFINE fresh == Expire(doc, t)
<1>1. fresh.doc \in SoundDocument
  BY ExpireSound
<1>2. ASSUME NEW r \in Ref, NEW units \in Nat, q # r
      PROVE  KeepsGrant(doc, ReserveCall(doc, r, units, t).doc, q, t)
  <2> DEFINE done == ReserveQuota(fresh.doc, r, units, t)
  <2>1. done.doc \in SoundDocument /\ SameHold(fresh.doc, done.doc, q)
    <3> HIDE DEF fresh
    <3> QED BY <1>1, <1>2, ReserveQuotaSound, ReserveOthers
  <2>2. ReserveCall(doc, r, units, t) = Call(fresh, done.doc, NoEntries, done.granted, t)
    BY DEF ReserveCall
  <2> HIDE DEF done
  <2> QED BY <2>1, <2>2, CallKeeps
<1>3. ASSUME NEW r \in Ref, NEW units \in Nat, NEW reclaim \in BOOLEAN, q # r
      PROVE  KeepsGrant(doc, DebitCall(doc, r, units, reclaim, t).doc, q, t)
  <2> DEFINE done == Debit(fresh.doc, r, units, reclaim)
             early == [c \in Counter |-> [NoEntry EXCEPT !.spent = done.spent[c]]]
  <2>1. done.doc \in SoundDocument /\ SameHold(fresh.doc, done.doc, q)
    <3> HIDE DEF fresh
    <3> QED BY <1>1, <1>3, DebitSound, DebitOthers
  <2>2. DebitCall(doc, r, units, reclaim, t) = Call(fresh, done.doc, early, done.unaccounted, t)
    BY DEF DebitCall
  <2> HIDE DEF done, early
  <2> QED BY <2>1, <2>2, CallKeeps
<1>4. ASSUME NEW r \in Ref, q # r
      PROVE  KeepsGrant(doc, ReleaseCall(doc, r, t).doc, q, t)
  <2> DEFINE done == Release(fresh.doc, r)
  <2>1. done \in SoundDocument /\ SameHold(fresh.doc, done, q)
    <3> HIDE DEF fresh
    <3> QED BY <1>1, <1>4, ReleaseSound, ReleaseOthers
  <2>2. ReleaseCall(doc, r, t) = Call(fresh, done, NoEntries, 0, t)
    BY DEF ReleaseCall
  <2> HIDE DEF done
  <2> QED BY <2>1, <2>2, CallKeeps
<1>5. SameHold(fresh.doc, fresh.doc, q)
  BY DEF SameHold
<1>6. KeepsGrant(doc, Call(fresh, fresh.doc, NoEntries, 0, t).doc, q, t)
  <2> DEFINE mid == fresh.doc
  <2>1. mid \in SoundDocument /\ SameHold(Expire(doc, t).doc, mid, q)
    BY <1>1, <1>5
  <2> HIDE DEF mid
  <2>2. KeepsGrant(doc, Call(Expire(doc, t), mid, NoEntries, 0, t).doc, q, t)
    BY <2>1, CallKeeps
  <2> QED BY <2>2 DEF mid
<1>7. ASSUME NEW c \in Counter
      PROVE  KeepsGrant(doc, ProvisionCall(doc, c, t).doc, q, t)
  <2> DEFINE done == AddCounter(fresh.doc, c)
             early == [NoEntries EXCEPT ![c] = [NoEntry EXCEPT !.provisioned = Initial[c],
                                                               !.repaid = done.repaid]]
  <2>1. CASE Live(fresh.doc[c])
    BY <1>6, <2>1 DEF ProvisionCall
  <2>2. CASE ~Live(fresh.doc[c])
    <3>1. done.doc \in SoundDocument /\ SameHold(fresh.doc, done.doc, q)
      <4> HIDE DEF fresh
      <4> QED BY <1>1, <2>2, AddCounterSound, AddCounterHolds
    <3>2. ProvisionCall(doc, c, t) = Call(fresh, done.doc, early, 0, t)
      BY <2>2 DEF ProvisionCall
    <3> HIDE DEF done, early
    <3> QED BY <3>1, <3>2, CallKeeps
  <2> QED BY <2>1, <2>2
<1>8. KeepsGrant(doc, ExpireCall(doc, t).doc, q, t)
  BY <1>6 DEF ExpireCall
<1> HIDE DEF fresh
<1> QED BY <1>2, <1>3, <1>4, <1>7, <1>8

\* What a reservation under a free id answers, it backs.
LEMMA ReserveCallBacked ==
  ASSUME NEW doc \in SoundDocument, NEW r \in Ref, NEW units \in Nat, NEW t \in Nat
  PROVE  LET done == ReserveCall(doc, r, units, t)
             grant == [units |-> done.answer, until |-> t + Validity]
         IN  /\ grant \in Promise
             /\ Plain(r) /\ Unheld(doc, r) /\ t + Validity > t => Backed(done.doc, r, grant)
<1> DEFINE fresh == Expire(doc, t)
           done == ReserveQuota(fresh.doc, r, units, t)
           call == ReserveCall(doc, r, units, t)
           grant == [units |-> done.granted, until |-> t + Validity]
<1>1. fresh.doc \in SoundDocument /\ (Unheld(doc, r) => Unheld(fresh.doc, r))
  BY ExpireSound, ExpireBacked
<1>2. call = Call(fresh, done.doc, NoEntries, done.granted, t)
  BY DEF ReserveCall
<1> HIDE DEF fresh
<1>3. done.doc \in SoundDocument
  BY <1>1, ReserveQuotaSound
<1>4. done.granted \in Nat /\ (Plain(r) /\ Unheld(fresh.doc, r) => Backed(done.doc, r, grant))
  BY <1>1, ReserveBacked
<1>5. grant \in Promise /\ grant.until = t + Validity
  BY <1>4, ValidityAssumption DEF Promise
<1> HIDE DEF done, call, grant
<1>6. call.answer = done.granted
      /\ (grant.until > t /\ Backed(done.doc, r, grant) => Backed(call.doc, r, grant))
  <2> DEFINE mid == done.doc
             early == NoEntries
             answer == done.granted
  <2>1. mid \in SoundDocument /\ call = Call(fresh, mid, early, answer, t)
    BY <1>2, <1>3
  <2> HIDE DEF mid, early, answer
  <2>2. call.answer = answer
        /\ (grant.until > t /\ Backed(mid, r, grant) => Backed(call.doc, r, grant))
    BY <1>5, <2>1, CallBacked
  <2> QED BY <2>2 DEF mid, answer
<1>7. grant = [units |-> call.answer, until |-> t + Validity]
  BY <1>6 DEF grant
<1>8. Plain(r) /\ Unheld(doc, r) /\ t + Validity > t => Backed(call.doc, r, grant)
  BY <1>1, <1>4, <1>5, <1>6
<1> QED BY <1>5, <1>7, <1>8 DEF call

\* A use within a valid grant is paid, and what is left of the grant backed.
LEMMA DebitCallBacked ==
  ASSUME NEW doc \in SoundDocument, NEW r \in Ref, Plain(r), NEW t \in Nat,
         NEW grant \in Promise, grant.until > t, Backed(doc, r, grant),
         NEW units \in 1..grant.units
  PROVE  LET done == DebitCall(doc, r, units, FALSE, t)
         IN  /\ done.answer = 0
             /\ Backed(done.doc, r, [grant EXCEPT !.units = @ - units])
<1> DEFINE fresh == Expire(doc, t)
           done == Debit(fresh.doc, r, units, FALSE)
           early == [c \in Counter |-> [NoEntry EXCEPT !.spent = done.spent[c]]]
           call == DebitCall(doc, r, units, FALSE, t)
           rest == [grant EXCEPT !.units = @ - units]
<1>1. fresh.doc \in SoundDocument /\ Backed(fresh.doc, r, grant)
  BY ExpireSound, ExpireBacked
<1>2. call = Call(fresh, done.doc, early, done.unaccounted, t)
  BY DEF DebitCall
<1>3. units \in Nat /\ units <= grant.units /\ grant.units \in Nat
  BY DEF Promise
<1>4. rest \in Promise /\ rest.until = grant.until
  BY <1>3 DEF Promise
<1> HIDE DEF fresh
<1>5. done.doc \in SoundDocument
  BY <1>1, <1>3, DebitSound
<1>6. done.unaccounted = 0 /\ Backed(done.doc, r, rest)
  BY <1>1, DebitBacked
<1> HIDE DEF done, call, early, rest
<1>7. call.answer = done.unaccounted
      /\ (rest.until > t /\ Backed(done.doc, r, rest) => Backed(call.doc, r, rest))
  <2> DEFINE mid == done.doc
             answer == done.unaccounted
  <2>1. mid \in SoundDocument /\ call = Call(fresh, mid, early, answer, t)
    BY <1>2, <1>5
  <2> HIDE DEF mid, answer
  <2>2. call.answer = answer
        /\ (rest.until > t /\ Backed(mid, r, rest) => Backed(call.doc, r, rest))
    BY <1>4, <2>1, CallBacked
  <2> QED BY <2>2 DEF mid, answer
<1>8. call.answer = 0 /\ Backed(call.doc, r, rest)
  BY <1>4, <1>6, <1>7
<1> QED BY <1>8 DEF call, rest

=============================================================================
