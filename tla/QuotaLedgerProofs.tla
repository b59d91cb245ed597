-------------------------- MODULE QuotaLedgerProofs --------------------------
(***************************************************************************)
(* The safety of the quota ledger for every number of counters and grants, *)
(* every tariff and every order of calls.  The three properties are one    *)
(* invariant: a debit is not clamped because what is reserved is covered,  *)
(* and the journal balances because no debit is clamped and no counter     *)
(* leaves with a balance.  The loans have an invariant of their own, which *)
(* needs the first and says that every counter has its place in the slice. *)
(* Use within a grant is paid by one more, which ties the book of the      *)
(* engine to the book of the manager: as long as a grant is valid, the     *)
(* reservations under its id are worth what is left of it.                 *)
(***************************************************************************)
EXTENDS QuotaGrants, QuotaDocumentProofs

\* The inductive invariant.  It adds to the three properties that a counter
\* which is not on the quota holds and owes nothing, and that every position
\* is one of the slice (both in Sound).
IInv ==
  /\ quota \in SoundDocument
  /\ now \in 0..MaxTime
  /\ journal \in [Counter -> Totals]
  /\ drawn \in SUBSET Ref
  /\ deliveries \in [Counter -> 0..MaxDeliveries]
  /\ Balanced(quota, journal)

\* The empty quota satisfies the inductive invariant.
LEMMA InitIInv == Init => IInv
<1> SUFFICES ASSUME Init PROVE IInv
  OBVIOUS
<1>1. quota \in SoundDocument /\ \A c \in Counter : quota[c].balance = 0
  BY EmptySound DEF Init, EmptyDocument, Absent
<1>2. /\ journal \in [Counter -> Totals]
      /\ \A c \in Counter : journal[c] = [provisioned |-> 0, spent |-> 0, repaid |-> 0, expired |-> 0]
  BY DEF Init, EmptyJournal, Totals
<1>3. Balanced(quota, journal)
  BY <1>1, <1>2 DEF Balanced
<1>4. now \in 0..MaxTime /\ drawn \in SUBSET Ref /\ deliveries \in [Counter -> 0..MaxDeliveries]
  BY BoundAssumption DEF Init
<1> QED BY <1>1, <1>2, <1>3, <1>4 DEF IInv

\* Applying a call that accounts for the balance keeps the books balanced.
LEMMA ApplyBalanced ==
  ASSUME quota \in SoundDocument, journal \in [Counter -> Totals],
         Balanced(quota, journal),
         NEW call, Accounts(quota, call), Apply(call)
  PROVE  /\ quota' \in SoundDocument
         /\ journal' \in [Counter -> Totals]
         /\ Balanced(quota, journal)'
BY PostBalanced DEF Apply, Accounts, Balanced

\* Every call, and every tick of the clock, preserves the inductive invariant.
LEMMA NextIInv == IInv /\ [Next]_vars => IInv'
<1> SUFFICES ASSUME IInv, [Next]_vars PROVE IInv'
  OBVIOUS
<1>1. /\ quota \in SoundDocument /\ journal \in [Counter -> Totals]
      /\ Balanced(quota, journal) /\ now \in 0..MaxTime /\ drawn \in SUBSET Ref
      /\ deliveries \in [Counter -> 0..MaxDeliveries]
  BY DEF IInv
<1>2. \A t \in Recent : t \in Nat
  BY <1>1, BoundAssumption DEF Recent
<1>3. \A units \in 0..MaxUnits : units \in Nat
  BY BoundAssumption
<1>4. ASSUME NEW r \in Ref, NEW units \in 0..MaxUnits, NEW t \in Recent, Reserve(r, units, t)
      PROVE  IInv'
  <2>1. Accounts(quota, ReserveCall(quota, r, units, t))
    BY <1>1, <1>2, <1>3, ReserveAccounts
  <2>2. quota' \in SoundDocument /\ journal' \in [Counter -> Totals] /\ Balanced(quota, journal)'
    BY <1>1, <1>4, <2>1, ApplyBalanced DEF Reserve
  <2> QED BY <1>1, <1>4, <2>2 DEF Reserve, IInv
<1>5. ASSUME NEW r \in Ref, NEW units \in 1..MaxUnits, NEW reclaim \in BOOLEAN,
             NEW t \in Recent, DebitUnits(r, units, reclaim, t)
      PROVE  IInv'
  <2>1. Accounts(quota, DebitCall(quota, r, units, reclaim, t))
    <3>1. units \in Nat
      BY BoundAssumption
    <3> QED BY <1>1, <1>2, <3>1, DebitAccounts
  <2>2. quota' \in SoundDocument /\ journal' \in [Counter -> Totals] /\ Balanced(quota, journal)'
    BY <1>1, <1>5, <2>1, ApplyBalanced DEF DebitUnits
  <2> QED BY <1>1, <1>5, <2>2 DEF DebitUnits, IInv
<1>6. ASSUME NEW r \in Ref, NEW t \in Recent, ReleaseUnits(r, t)
      PROVE  IInv'
  <2>1. Accounts(quota, ReleaseCall(quota, r, t))
    BY <1>1, <1>2, ReleaseAccounts
  <2>2. quota' \in SoundDocument /\ journal' \in [Counter -> Totals] /\ Balanced(quota, journal)'
    BY <1>1, <1>6, <2>1, ApplyBalanced DEF ReleaseUnits
  <2> QED BY <1>1, <1>6, <2>2 DEF ReleaseUnits, IInv
<1>7. ASSUME NEW c \in Counter, NEW t \in Recent, Provision(c, t)
      PROVE  IInv'
  <2>1. Accounts(quota, ProvisionCall(quota, c, t))
    BY <1>1, <1>2, ProvisionAccounts
  <2>2. quota' \in SoundDocument /\ journal' \in [Counter -> Totals] /\ Balanced(quota, journal)'
    BY <1>1, <1>7, <2>1, ApplyBalanced DEF Provision
  <2>3. deliveries' \in [Counter -> 0..MaxDeliveries]
    <3>1. PICK n \in 0..MaxDeliveries : n = deliveries[c] /\ n < MaxDeliveries
      BY <1>1, <1>7 DEF Provision
    <3>2. n + 1 \in 0..MaxDeliveries
      BY <3>1, BoundAssumption
    <3>3. deliveries' = [deliveries EXCEPT ![c] = n + 1]
      BY <1>7, <3>1 DEF Provision
    <3> QED BY <1>1, <3>2, <3>3
  <2> QED BY <1>1, <1>7, <2>2, <2>3 DEF Provision, IInv
<1>8. ASSUME NEW t \in Recent, ProcessExpired(t)
      PROVE  IInv'
  <2>1. Accounts(quota, ExpireCall(quota, t))
    BY <1>1, <1>2, ExpireAccounts
  <2>2. quota' \in SoundDocument /\ journal' \in [Counter -> Totals] /\ Balanced(quota, journal)'
    BY <1>1, <1>8, <2>1, ApplyBalanced DEF ProcessExpired
  <2> QED BY <1>1, <1>8, <2>2 DEF ProcessExpired, IInv
<1>9. ASSUME Tick PROVE IInv'
  <2>1. now' \in 0..MaxTime
    BY <1>1, <1>9, BoundAssumption DEF Tick
  <2> QED BY <1>1, <1>9, <2>1 DEF Tick, IInv, Balanced
<1>10. ASSUME UNCHANGED vars PROVE IInv'
  BY <1>1, <1>10 DEF vars, IInv, Balanced
<1> QED BY <1>4, <1>5, <1>6, <1>7, <1>8, <1>9, <1>10 DEF Next

\* The inductive invariant implies the three properties.
LEMMA IInvImplies == IInv => TypeOK /\ NoOverReservation /\ JournalBalances
<1> SUFFICES ASSUME IInv PROVE TypeOK /\ NoOverReservation /\ JournalBalances
  OBVIOUS
<1>1. \A c \in Counter : quota[c] \in CounterState /\ Reserved(quota[c]) <= quota[c].balance
  BY DEF IInv, SoundDocument, Sound
<1>2. quota \in Document
  BY <1>1 DEF IInv, SoundDocument, Document
<1> QED BY <1>1, <1>2 DEF IInv, TypeOK, NoOverReservation, JournalBalances

\* Every call leaves the document, the journal and the counters of the bounded
\* environment well formed: no balance, loan or fee falls below zero.
THEOREM TypeCorrect == Spec => []TypeOK
<1>1. IInv => TypeOK
  BY IInvImplies
<1> QED BY <1>1, InitIInv, NextIInv, PTL DEF Spec

\* No counter ever has more reserved than it holds.
THEOREM ReservationsCovered == Spec => []NoOverReservation
<1>1. IInv => NoOverReservation
  BY IInvImplies
<1> QED BY <1>1, InitIInv, NextIInv, PTL DEF Spec

\* The quota journal accounts for every unit provisioned on every counter.
THEOREM JournalAccounts == Spec => []JournalBalances
<1>1. IInv => JournalBalances
  BY IInvImplies
<1> QED BY <1>1, InitIInv, NextIInv, PTL DEF Spec

-----------------------------------------------------------------------------
\* Nothing is owed less or more, and every counter has its place.
SameDebts(doc, new) ==
  \A c \in Counter : /\ new[c].loan = doc[c].loan /\ new[c].fee = doc[c].fee
                     /\ new[c].position = doc[c].position

\* A reservation on one counter and its release touch no loan.
LEMMA StateKeepsDebt ==
  ASSUME NEW s \in CounterState, NEW r \in Ref
  PROVE  /\ \A amount, t : /\ Hold(s, r, amount, t).loan = s.loan
                           /\ Hold(s, r, amount, t).fee = s.fee
                           /\ Hold(s, r, amount, t).position = s.position
         /\ LET u == [s EXCEPT !.reserved[r] = NoReservation]
            IN  u.loan = s.loan /\ u.fee = s.fee /\ u.position = s.position
BY DEF Hold, CounterState

\* A reservation touches no loan and no place.
LEMMA ReserveKeepsDebts ==
  ASSUME NEW doc \in SoundDocument, NEW r \in Ref, NEW units \in Nat, NEW t \in Nat
  PROVE  SameDebts(doc, ReserveQuota(doc, r, units, t).doc)
<1>1. ASSUME NEW any \in SoundDocument, NEW n
      PROVE  /\ SameDebts(any, ReserveService(any, r, n, t).doc)
             /\ SameDebts(any, ReserveMonetary(any, r, n, t).doc)
  <2>1. \A c \in Counter : any[c] \in CounterState
    BY CounterStates
  <2>2. SameDebts(any, ReserveService(any, r, n, t).doc)
    BY <2>1, StateKeepsDebt DEF ReserveService, SameDebts
  <2>3. SameDebts(any, ReserveMonetary(any, r, n, t).doc)
    BY <2>1, StateKeepsDebt DEF ReserveMonetary, SameDebts
  <2> QED BY <2>2, <2>3
<1> DEFINE service == ReserveService(doc, r, units, t)
           extra   == ReserveMonetary(service.doc, r, units - service.granted, t)
           money   == ReserveMonetary(doc, r, units, t)
<1>2. service.doc \in SoundDocument
  BY ReserveServiceSound
<1>3. SameDebts(doc, service.doc) /\ SameDebts(doc, money.doc)
  BY <1>1
<1>4. SameDebts(service.doc, extra.doc)
  <2> HIDE DEF service
  <2> QED BY <1>1, <1>2
<1>5. \/ ReserveQuota(doc, r, units, t) = money
      \/ ReserveQuota(doc, r, units, t) = service
      \/ ReserveQuota(doc, r, units, t) = [doc |-> extra.doc, granted |-> service.granted + extra.granted]
  BY DEF ReserveQuota
<1> HIDE DEF service, extra, money
<1> QED BY <1>3, <1>4, <1>5 DEF SameDebts

\* Nor does a debit.
LEMMA DebitKeepsDebts ==
  ASSUME NEW doc \in SoundDocument, NEW r \in Ref, NEW units \in Nat, NEW reclaim \in BOOLEAN
  PROVE  SameDebts(doc, Debit(doc, r, units, reclaim).doc)
<1>1. ASSUME NEW any \in SoundDocument, NEW n
      PROVE  /\ SameDebts(any, DebitService(any, r, n, reclaim).doc)
             /\ SameDebts(any, DebitMonetary(any, r, n, reclaim).doc)
  <2>1. \A c \in Counter : any[c] \in CounterState
    BY CounterStates
  <2>2. SameDebts(any, DebitService(any, r, n, reclaim).doc)
    <3> DEFINE at == ServiceUnspent(any, r, n)
               account == [c \in Counter |-> ServiceAccount(any, r, c, at[c - 1])]
               done == DebitService(any, r, n, reclaim)
    <3>1. done.doc = [c \in Counter |-> IF c \in Holding(any, r, FALSE)
                                          THEN Spend(any[c], r, account[c], reclaim)
                                          ELSE any[c]]
      BY DEF DebitService
    <3> HIDE DEF account, done
    <3>2. SameDebts(any, done.doc)
      BY <2>1, <3>1 DEF SameDebts, Spend, CounterState
    <3> QED BY <3>2 DEF done
  <2>3. SameDebts(any, DebitMonetary(any, r, n, reclaim).doc)
    <3> DEFINE at == ValueUnspent(any, r, n)
               account == [c \in Counter |-> ValueAccount(any, r, c, at[c - 1])]
               done == DebitMonetary(any, r, n, reclaim)
    <3>1. done.doc = [c \in Counter |-> IF c \in Holding(any, r, TRUE)
                                          THEN Spend(any[c], r, account[c],
                                                     reclaim \/ at[c - 1] <= 0)
                                          ELSE any[c]]
      BY DEF DebitMonetary
    <3> HIDE DEF account, done, at
    <3>2. SameDebts(any, done.doc)
      BY <2>1, <3>1 DEF SameDebts, Spend, CounterState
    <3> QED BY <3>2 DEF done
  <2> QED BY <2>2, <2>3
<1> DEFINE service == IF Tariff[r].money
                        THEN [doc |-> doc, spent |-> [c \in Counter |-> 0], left |-> units]
                        ELSE DebitService(doc, r, units, reclaim)
           money == DebitMonetary(service.doc, r, service.left, reclaim)
<1>2. service.doc \in SoundDocument
  BY DebitServiceSound
<1>3. SameDebts(doc, service.doc)
  BY <1>1 DEF SameDebts
<1>4. SameDebts(service.doc, money.doc)
  <2> HIDE DEF service
  <2> QED BY <1>1, <1>2
<1>5. Debit(doc, r, units, reclaim).doc = money.doc \/ Debit(doc, r, units, reclaim).doc = service.doc
  BY DEF Debit
<1> HIDE DEF service, money
<1> QED BY <1>3, <1>4, <1>5 DEF SameDebts

\* Nor does a release.
LEMMA ReleaseKeepsDebts ==
  ASSUME NEW doc \in SoundDocument, NEW r \in Ref
  PROVE  SameDebts(doc, Release(doc, r))
<1>1. \A c \in Counter : doc[c] \in CounterState
  BY CounterStates
<1> QED BY <1>1, StateKeepsDebt DEF Release, SameDebts

-----------------------------------------------------------------------------
\* The counters of the slice have places of their own, without gaps beyond.
Placed(doc) ==
  /\ \A c \in Counter : doc[c].position <= Size(doc)
  /\ \A c, d \in Counter :
       Live(doc[c]) /\ doc[c].position = doc[d].position => c = d

\* How many counters are in a set.
Count(C) == Total([c \in Counter |-> IF c \in C THEN 1 ELSE 0], NumCounters)

\* A counter more counts one more, and a part counts no more than the whole.
LEMMA CountMore ==
  ASSUME NEW C \in SUBSET Counter, NEW D \in SUBSET Counter, C \subseteq D
  PROVE  /\ Count(C) \in Nat /\ Count(D) \in Nat /\ Count(C) <= Count(D)
         /\ C # D => Count(C) < Count(D)
         /\ \A c \in Counter : c \notin C /\ D = C \union {c} => Count(D) = Count(C) + 1
<1> DEFINE f == [c \in Counter |-> IF c \in C THEN 1 ELSE 0]
           g == [c \in Counter |-> IF c \in D THEN 1 ELSE 0]
<1>1. /\ f \in [1..NumCounters -> Int] /\ g \in [1..NumCounters -> Int]
      /\ f \in [1..NumCounters -> Nat] /\ g \in [1..NumCounters -> Nat]
      /\ \A c \in 1..NumCounters : f[c] <= g[c]
  BY DEF Counter
<1>2. Count(C) = Total(f, NumCounters) /\ Count(D) = Total(g, NumCounters)
  BY DEF Count
<1>3. /\ Total(f, NumCounters) \in Nat /\ Total(g, NumCounters) \in Nat
      /\ Total(f, NumCounters) <= Total(g, NumCounters)
  <2> HIDE DEF f, g
  <2> QED BY <1>1, SizeAssumption, TotalNat, TotalMono
<1>4. ASSUME NEW c \in Counter, c \notin C, c \in D
      PROVE  /\ Total(f, NumCounters) + 1 <= Total(g, NumCounters)
             /\ D = C \union {c} => Total(g, NumCounters) = Total(f, NumCounters) + 1
  <2> DEFINE h == [k \in Counter |-> IF k = c THEN 1 ELSE f[k]]
  <2>1. /\ h \in [1..NumCounters -> Int] /\ c \in 1..NumCounters /\ f[c] = 0 /\ h[c] = 1
        /\ \A k \in 1..NumCounters : k # c => h[k] = f[k]
        /\ \A k \in 1..NumCounters : h[k] <= g[k]
    BY <1>4 DEF Counter
  <2>2. D = C \union {c} => h = g
    BY <1>4
  <2> HIDE DEF f, g, h
  <2>3. Total(h, NumCounters) = Total(f, NumCounters) - f[c] + h[c]
    BY <1>1, <2>1, SizeAssumption, TotalUpdate
  <2>4. Total(h, NumCounters) <= Total(g, NumCounters)
    BY <1>1, <2>1, SizeAssumption, TotalMono
  <2> QED BY <1>3, <2>1, <2>2, <2>3, <2>4
<1> HIDE DEF f, g
<1>5. C # D => \E c \in Counter : c \notin C /\ c \in D
  OBVIOUS
<1> QED BY <1>2, <1>3, <1>4, <1>5

\* An expiry pass keeps the places apart and the order of those that stay.
LEMMA ExpirePlaced ==
  ASSUME NEW doc \in SoundDocument, Placed(doc), NEW t \in Nat
  PROVE  /\ Placed(Expire(doc, t).doc)
         /\ \A c, d \in Counter :
              /\ Live(Expire(doc, t).doc[c]) /\ Live(Expire(doc, t).doc[d])
              /\ doc[c].position < doc[d].position
              => Expire(doc, t).doc[c].position < Expire(doc, t).doc[d].position
<1> DEFINE kept == {c \in Counter : Kept(c, Pruned(doc[c], t), t)}
           new  == Expire(doc, t).doc
           upto(c) == {d \in Counter : d \in kept /\ doc[d].position <= doc[c].position}
<1>1. new \in SoundDocument
  BY ExpireSound
<1>2. ASSUME NEW c \in Counter
      PROVE  /\ c \in kept => new[c].position = Count(upto(c))
             /\ c \notin kept => new[c].position = 0
  <2>1. Place(doc, kept, c) = Count(upto(c))
    <3>1. [d \in Counter |-> IF d \in kept /\ doc[d].position <= doc[c].position THEN 1 ELSE 0]
            = [d \in Counter |-> IF d \in upto(c) THEN 1 ELSE 0]
      <4> HIDE DEF kept
      <4> QED OBVIOUS
    <3> HIDE DEF kept, upto
    <3> QED BY <3>1 DEF Place, Count
  <2>2. Absent.position = 0
    BY DEF Absent
  <2> QED BY <2>1, <2>2, ExpireEach
<1>3. \A c \in Counter : doc[c].position \in Nat
  BY StateFields DEF SoundDocument, Sound
<1>4. /\ kept \in SUBSET Counter
      /\ \A c \in Counter : upto(c) \in SUBSET Counter /\ upto(c) \subseteq kept
      /\ \A c \in kept : c \in upto(c) /\ Live(doc[c])
  <2>1. \A c \in kept : Live(doc[c])
    <3>1. \A c \in Counter : Live(Pruned(doc[c], t)) <=> Live(doc[c])
      BY CounterStates DEF Live, Pruned, CounterState
    <3> QED BY <3>1 DEF Kept
  <2> HIDE DEF kept
  <2>2. kept \in SUBSET Counter
    BY DEF kept
  <2> QED BY <1>3, <2>1, <2>2
<1> HIDE DEF kept, new
<1>5. \A c \in Counter : Live(new[c]) <=> c \in kept
  <2> HIDE DEF upto
  <2> SUFFICES ASSUME NEW c \in Counter, c \in kept PROVE Count(upto(c)) > 0
    BY <1>2 DEF Live
  <2>1. {} \subseteq upto(c) /\ {} # upto(c)
    BY <1>4
  <2>2. Count({}) \in Nat /\ Count(upto(c)) \in Nat /\ Count({}) < Count(upto(c))
    BY <1>4, <2>1, CountMore
  <2> QED BY <2>2
<1>6. Size(new) = Count(kept)
  <2>1. [c \in Counter |-> IF Live(new[c]) THEN 1 ELSE 0]
          = [c \in Counter |-> IF c \in kept THEN 1 ELSE 0]
    BY <1>5
  <2> QED BY <2>1 DEF Size, Count
<1>7. \A c \in Counter : new[c].position <= Size(new)
  <2> SUFFICES ASSUME NEW c \in Counter PROVE new[c].position <= Count(kept)
    BY <1>6
  <2> HIDE DEF upto
  <2>1. Count(kept) \in Nat /\ Count(upto(c)) <= Count(kept)
    BY <1>4, CountMore
  <2> QED BY <1>2, <2>1
<1>8. ASSUME NEW c \in kept, NEW d \in kept, doc[c].position < doc[d].position
      PROVE  new[c].position < new[d].position
  <2>1. c \in Counter /\ d \in Counter
    BY <1>4
  <2>2. upto(c) \subseteq upto(d) /\ d \in upto(d) /\ d \notin upto(c)
    BY <1>3, <1>4, <1>8, <2>1
  <2> HIDE DEF upto
  <2>3. Count(upto(c)) < Count(upto(d))
    BY <1>4, <2>1, <2>2, CountMore
  <2> QED BY <1>2, <2>1, <2>3
<1>9. ASSUME NEW c \in Counter, NEW d \in Counter, Live(new[c]),
             new[c].position = new[d].position
      PROVE  c = d
  <2>1. Live(new[d])
    BY <1>9 DEF Live
  <2>2. c \in kept /\ d \in kept
    BY <1>5, <1>9, <2>1
  <2>3. new[c].position \in Nat
    BY <1>1, StateFields DEF SoundDocument, Sound
  <2>4. ~(doc[c].position < doc[d].position) /\ ~(doc[d].position < doc[c].position)
    BY <1>8, <1>9, <2>2, <2>3
  <2>5. doc[c].position = doc[d].position
    BY <1>3, <2>4
  <2> QED BY <1>4, <2>2, <2>5 DEF Placed
<1> QED BY <1>5, <1>7, <1>8, <1>9 DEF Placed, new

-----------------------------------------------------------------------------
\* What the loans leave at one position of the slice is what they left before
\* it, less the share of the one counter that stands there.
LEMMA LoanValueEach ==
  ASSUME NEW doc \in SoundDocument, Placed(doc), NEW value \in Nat
  PROVE  LET left == LoanValue(doc, value)
         IN  /\ left[0] = value
             /\ \A d \in InDebt(doc) :
                  left[doc[d].position] = left[doc[d].position - 1]
                                            - Claw(doc, d, left[doc[d].position - 1]).fee
                                            - Claw(doc, d, left[doc[d].position - 1]).loan
             /\ \A p \in Counter : (\A d \in InDebt(doc) : doc[d].position # p)
                                      => left[p] = left[p - 1]
<1> DEFINE at(p) == CHOOSE d \in InDebt(doc) : doc[d].position = p
           rest(p, l) ==
             IF \E c \in InDebt(doc) : doc[c].position = p
               THEN l - Claw(doc, at(p), l).fee - Claw(doc, at(p), l).loan
               ELSE l
           body == [p \in Counter |-> [l \in 0..value |-> rest(p, l)]]
           left == LoanValue(doc, value)
<1>1. ASSUME NEW p \in Counter, NEW l \in 0..value PROVE rest(p, l) \in 0..value
  <2>1. CASE \E c \in InDebt(doc) : doc[c].position = p
    <3>1. at(p) \in Counter
      BY <2>1 DEF InDebt
    <3>2. PICK x \in Nat, y \in Nat :
            /\ x = Claw(doc, at(p), l).fee /\ y = Claw(doc, at(p), l).loan
            /\ x + y <= l
      <4> HIDE DEF at
      <4> QED BY <3>1, ClawFact
    <3>3. rest(p, l) = l - x - y
      BY <2>1, <3>2
    <3> HIDE DEF rest
    <3> QED BY <3>2, <3>3
  <2>2. CASE ~ \E c \in InDebt(doc) : doc[c].position = p
    BY <2>2
  <2> QED BY <2>1, <2>2
<1>2. left = Loop(NumCounters, value, body)
  BY DEF LoanValue
<1> DEFINE X == 0..value
           first == value
<1>3. first \in X /\ body \in [Counter -> [X -> X]]
  <2> HIDE DEF rest
  <2> QED BY <1>1
<1> HIDE DEF body, X, first, left, rest, at
<1>4. /\ left \in [0..NumCounters -> X] /\ left[0] = first
      /\ \A p \in Counter : left[p] = body[p][left[p - 1]]
  <2>1. left = Loop(NumCounters, first, body)
    BY <1>2 DEF first
  <2> QED BY <1>3, <2>1, CounterLoop
<1> USE DEF body, X, first, left, rest, at
<1>5. \A p \in Counter : left[p - 1] \in 0..value
  <2> HIDE DEF body, left
  <2>1. \A p \in Counter : p - 1 \in 0..NumCounters
    BY SizeAssumption DEF Counter
  <2> QED BY <1>4, <2>1
<1>6. \A p \in Counter : left[p] = rest(p, left[p - 1])
  <2> HIDE DEF rest, left
  <2> QED BY <1>4, <1>5
<1>7. ASSUME NEW d \in InDebt(doc)
      PROVE  left[doc[d].position] = left[doc[d].position - 1]
                                       - Claw(doc, d, left[doc[d].position - 1]).fee
                                       - Claw(doc, d, left[doc[d].position - 1]).loan
  <2>1. PICK p \in Counter : p = doc[d].position
    BY LeftNat
  <2>2. at(p) = d
    <3>1. \A e \in InDebt(doc) : doc[e].position = p => e = d
      BY <2>1, LeftNat DEF Placed
    <3> QED BY <2>1, <3>1
  <2>3. rest(p, left[p - 1]) = left[p - 1] - Claw(doc, d, left[p - 1]).fee
                                           - Claw(doc, d, left[p - 1]).loan
    <3> HIDE DEF at, left
    <3> QED BY <2>1, <2>2
  <2> HIDE DEF rest, left
  <2> QED BY <1>6, <2>1, <2>3
<1>8. ASSUME NEW p \in Counter, \A d \in InDebt(doc) : doc[d].position # p
      PROVE  left[p] = left[p - 1]
  <2>1. rest(p, left[p - 1]) = left[p - 1]
    BY <1>8
  <2> HIDE DEF rest, left
  <2> QED BY <1>6, <2>1
<1> HIDE DEF left
<1> QED BY <1>4, <1>7, <1>8 DEF left

\* The shares of the loans add up to what they take from the new balance.
LEMMA SharesAddUp ==
  ASSUME NEW doc \in SoundDocument, Placed(doc), NEW c \in Repays, ~LoanTerms[c].given
  PROVE  Total([d \in Counter |-> Share(doc, c, d).fee + Share(doc, c, d).loan], NumCounters)
           = Initial[c] - LoanValue(doc, Initial[c])[NumCounters]
<1> DEFINE value == Initial[c]
           left == LoanValue(doc, value)
           share == [d \in Counter |-> Share(doc, c, d).fee + Share(doc, c, d).loan]
           upto(k) == [d \in Counter |-> IF doc[d].position <= k THEN share[d] ELSE 0]
           S == {k \in 0..NumCounters : Total(upto(k), NumCounters) = value - left[k]}
<1>1. c \in Counter /\ value \in Nat /\ left \in [0..NumCounters -> 0..value]
  BY CounterAssumption, LoanValueFact
<1>2. \A d \in Counter : share[d] \in Int
  <2> SUFFICES ASSUME NEW d \in Counter PROVE share[d] \in Int
    OBVIOUS
  <2>1. PICK x \in Nat, y \in Nat : x = Share(doc, c, d).fee /\ y = Share(doc, c, d).loan
    BY <1>1, ShareFact
  <2> QED BY <2>1
<1>3. /\ left[0] = value
      /\ \A d \in InDebt(doc) :
           left[doc[d].position] = left[doc[d].position - 1]
                                     - Claw(doc, d, left[doc[d].position - 1]).fee
                                     - Claw(doc, d, left[doc[d].position - 1]).loan
      /\ \A p \in Counter : (\A d \in InDebt(doc) : doc[d].position # p) => left[p] = left[p - 1]
  BY <1>1, LoanValueEach
<1>4. ASSUME NEW d \in Counter, d \notin InDebt(doc)
      PROVE  share[d] = 0
  BY <1>4 DEF Share
<1>5. ASSUME NEW d \in InDebt(doc)
      PROVE  /\ d \in Counter /\ doc[d].position \in Counter /\ Live(doc[d])
             /\ left[doc[d].position] = left[doc[d].position - 1] - share[d]
  <2>1. d \in Counter /\ doc[d].position \in Counter /\ Live(doc[d])
        /\ left[doc[d].position - 1] \in Nat
    BY <1>1, LeftNat
  <2>2. share[d] = Claw(doc, d, left[doc[d].position - 1]).fee
                     + Claw(doc, d, left[doc[d].position - 1]).loan
    BY <2>1 DEF Share
  <2>3. PICK l \in Nat : l = left[doc[d].position - 1]
    BY <2>1
  <2>4. PICK x \in Nat, y \in Nat : x = Claw(doc, d, l).fee /\ y = Claw(doc, d, l).loan
    BY <2>1, ClawFact
  <2> HIDE DEF left, share
  <2>5. left[doc[d].position] = l - x - y /\ share[d] = x + y
    BY <1>3, <2>2, <2>3, <2>4
  <2> QED BY <2>1, <2>3, <2>5
<1>6. \A d \in Counter : /\ doc[d].position \in Nat /\ doc[d].position <= NumCounters
                         /\ Live(doc[d]) <=> doc[d].position > 0
  BY StateFields, SizeAssumption DEF SoundDocument, Sound, Live
<1> HIDE DEF left, share, value
<1>7. \A k \in Int : upto(k) \in [1..NumCounters -> Int]
  BY <1>2 DEF Counter
<1>8. 0 \in S
  <2>1. \A d \in 1..NumCounters : upto(0)[d] = 0
    <3> SUFFICES ASSUME NEW d \in Counter, doc[d].position <= 0 PROVE share[d] = 0
      BY DEF Counter
    <3>1. d \notin InDebt(doc)
      BY <1>5, <1>6
    <3> QED BY <1>4, <3>1
  <2>2. Total(upto(0), NumCounters) = 0
    <3> DEFINE f == upto(0)
    <3>1. f \in [1..NumCounters -> Int] /\ \A d \in 1..NumCounters : f[d] = 0
      BY <1>7, <2>1
    <3> HIDE DEF f
    <3>2. Total(f, NumCounters) = 0
      BY <3>1, SizeAssumption, TotalZero
    <3> QED BY <3>2 DEF f
  <2> HIDE DEF upto
  <2> QED BY <1>1, <1>3, <2>2, SizeAssumption
<1>9. ASSUME NEW k \in 1..NumCounters, k - 1 \in S
      PROVE  k \in S
  <2>1. PICK l \in Int : l = left[k - 1] /\ Total(upto(k - 1), NumCounters) = value - l
    <3>1. k - 1 \in 0..NumCounters
      BY SizeAssumption
    <3> HIDE DEF upto
    <3> QED BY <1>1, <1>9, <3>1
  <2>2. CASE \E d \in InDebt(doc) : doc[d].position = k
    <3>1. PICK d \in InDebt(doc) : doc[d].position = k
      BY <2>2
    <3>2. \A e \in 1..NumCounters : e # d => upto(k)[e] = upto(k - 1)[e]
      <4> SUFFICES ASSUME NEW e \in Counter, e # d
                   PROVE  doc[e].position <= k <=> doc[e].position <= k - 1
        BY DEF Counter
      <4>1. doc[e].position # k
        BY <1>5, <3>1 DEF Placed
      <4> QED BY <1>6, <4>1
    <3>3. upto(k)[d] = share[d] /\ upto(k - 1)[d] = 0 /\ d \in 1..NumCounters
      BY <1>5, <3>1 DEF Counter
    <3>4. left[k] = l - share[d]
      BY <1>5, <2>1, <3>1
    <3>5. Total(upto(k), NumCounters) = Total(upto(k - 1), NumCounters) - upto(k - 1)[d] + upto(k)[d]
      <4> DEFINE f == upto(k - 1)
                 g == upto(k)
      <4>1. /\ f \in [1..NumCounters -> Int] /\ g \in [1..NumCounters -> Int]
            /\ \A e \in 1..NumCounters : e # d => g[e] = f[e]
        BY <1>7, <3>2
      <4> HIDE DEF f, g
      <4>2. Total(g, NumCounters) = Total(f, NumCounters) - f[d] + g[d]
        BY <3>3, <4>1, SizeAssumption, TotalUpdate
      <4> QED BY <4>2 DEF f, g
    <3>6. PICK s \in Int : s = share[d]
      BY <1>2, <1>5
    <3> HIDE DEF upto
    <3>7. Total(upto(k), NumCounters) = value - l + s /\ left[k] = l - s
      BY <1>1, <2>1, <3>3, <3>4, <3>5, <3>6
    <3> QED BY <1>1, <2>1, <3>6, <3>7
  <2>3. CASE \A d \in InDebt(doc) : doc[d].position # k
    <3>1. left[k] = l
      BY <1>3, <2>1, <2>3 DEF Counter
    <3>2. upto(k) = upto(k - 1)
      <4> SUFFICES ASSUME NEW d \in Counter
                   PROVE  (IF doc[d].position <= k THEN share[d] ELSE 0)
                            = (IF doc[d].position <= k - 1 THEN share[d] ELSE 0)
        OBVIOUS
      <4>1. doc[d].position = k => share[d] = 0
        BY <1>4, <2>3
      <4> QED BY <1>6, <4>1
    <3> HIDE DEF upto
    <3> QED BY <2>1, <3>1, <3>2
  <2> QED BY <2>2, <2>3
<1>10. NumCounters \in S
  <2>1. \A k \in 0..NumCounters : k \in S
    <3> HIDE DEF S
    <3> QED BY <1>8, <1>9, SizeAssumption, UpTo
  <2> QED BY <2>1, SizeAssumption
<1>11. upto(NumCounters) = share
  <2>1. share = [d \in Counter |-> share[d]]
    BY DEF share
  <2> QED BY <1>6, <2>1
<1> HIDE DEF upto
<1> QED BY <1>10, <1>11 DEF share, left, value

\* A counter that is appended takes the place after all others.
LEMMA AddCounterPlaced ==
  ASSUME NEW doc \in SoundDocument, Placed(doc), NEW c \in Counter, ~Live(doc[c])
  PROVE  Placed(AddCounter(doc, c).doc)
<1> DEFINE new == AddCounter(doc, c).doc
           live == {d \in Counter : Live(doc[d])}
<1>1. /\ new[c].position = 1 + Size(doc)
      /\ \A d \in Counter : d # c => new[d].position = doc[d].position
  BY AddCounterEach
<1>2. \A d \in Counter : doc[d].position \in Nat
  BY StateFields DEF SoundDocument, Sound
<1> HIDE DEF new
<1>3. Size(doc) = Count(live)
  <2>1. [d \in Counter |-> IF Live(doc[d]) THEN 1 ELSE 0]
          = [d \in Counter |-> IF d \in live THEN 1 ELSE 0]
    OBVIOUS
  <2> QED BY <2>1 DEF Size, Count
<1>4. c \notin live /\ live \in SUBSET Counter /\ live \union {c} \in SUBSET Counter
  OBVIOUS
<1>5. Count(live) \in Nat /\ Count(live \union {c}) = Count(live) + 1
  <2> HIDE DEF live
  <2> QED BY <1>4, CountMore
<1>6. \A d \in Counter : Live(new[d]) <=> d \in live \union {c}
  BY <1>1, <1>2, <1>3, <1>5 DEF Live
<1>7. Size(new) = Size(doc) + 1
  <2>1. [d \in Counter |-> IF Live(new[d]) THEN 1 ELSE 0]
          = [d \in Counter |-> IF d \in live \union {c} THEN 1 ELSE 0]
    BY <1>6
  <2> QED BY <1>3, <1>5, <2>1 DEF Size, Count
<1>8. PICK n \in Nat : n = Size(doc)
  BY <1>3, <1>5
<1>9. \A d \in Counter : doc[d].position <= n
  BY <1>8 DEF Placed
<1> HIDE DEF live
<1>10. \A d \in Counter : new[d].position <= Size(new)
  BY <1>1, <1>2, <1>7, <1>8, <1>9
<1>11. ASSUME NEW d \in Counter, NEW e \in Counter, Live(new[d]),
              new[d].position = new[e].position
       PROVE  d = e
  <2>1. CASE d # c /\ e # c
    BY <1>1, <1>11, <2>1 DEF Placed, Live
  <2>2. CASE d = c \/ e = c
    BY <1>1, <1>2, <1>8, <1>9, <1>11, <2>2
  <2> QED BY <2>1, <2>2
<1> QED BY <1>10, <1>11 DEF Placed, new

\* Only a counter given on loan owes anything, and one that owes less than it
\* was lent owes no fee.
Debts(doc) ==
  \A c \in Counter :
    /\ ~(Live(doc[c]) /\ LoanTerms[c].given) => doc[c].loan = 0 /\ doc[c].fee = 0
    /\ doc[c].loan < Initial[c] => doc[c].fee = 0

\* What counter by counter is owed.
SameOwed(doc, new) ==
  \A c \in Counter : new[c].loan = doc[c].loan /\ new[c].fee = doc[c].fee

\* An operation that leaves loans and places alone keeps both invariants.
LEMMA SameDebtsKeeps ==
  ASSUME NEW doc, NEW new, SameDebts(doc, new), Placed(doc), Debts(doc)
  PROVE  Placed(new) /\ Debts(new) /\ SameOwed(doc, new)
<1>1. [c \in Counter |-> IF Live(new[c]) THEN 1 ELSE 0]
        = [c \in Counter |-> IF Live(doc[c]) THEN 1 ELSE 0]
  BY DEF SameDebts, Live
<1>2. Size(new) = Size(doc)
  BY <1>1 DEF Size
<1>3. Placed(new)
  BY <1>2 DEF SameDebts, Placed, Live
<1>4. Debts(new)
  BY DEF SameDebts, Debts, Live
<1> QED BY <1>3, <1>4 DEF SameDebts, SameOwed

\* An expiry pass removes no counter that owes anything.
LEMMA ExpireDebts ==
  ASSUME NEW doc \in SoundDocument, Debts(doc), NEW t \in Nat
  PROVE  /\ Debts(Expire(doc, t).doc)
         /\ LoansLend => SameOwed(doc, Expire(doc, t).doc)
<1> DEFINE kept == {c \in Counter : Kept(c, Pruned(doc[c], t), t)}
           new  == Expire(doc, t).doc
<1>1. /\ new \in SoundDocument
      /\ \A c \in Counter :
           /\ c \in kept => /\ new[c].loan = doc[c].loan /\ new[c].fee = doc[c].fee
                            /\ Live(doc[c])
           /\ c \notin kept => /\ new[c].loan = 0 /\ new[c].fee = 0
                               /\ ~Live(doc[c]) \/ doc[c].loan = 0
  <2>1. /\ Absent.loan = 0 /\ Absent.fee = 0
    BY DEF Absent
  <2>2. ASSUME NEW c \in Counter
        PROVE  /\ c \in kept => Live(doc[c])
               /\ c \notin kept => ~Live(doc[c]) \/ doc[c].loan = 0
    <3>1. doc[c] \in CounterState
      BY CounterStates
    <3>2. /\ Pruned(doc[c], t).loan = doc[c].loan /\ doc[c].loan \in Nat
          /\ Live(Pruned(doc[c], t)) <=> Live(doc[c])
      BY <3>1 DEF Pruned, CounterState, Live
    <3> QED BY <3>2 DEF Kept
  <2>3. new \in SoundDocument
    BY ExpireSound
  <2> HIDE DEF new
  <2> QED BY <2>1, <2>2, <2>3, ExpireEach DEF new
<1>2. \A c \in Counter : doc[c].loan \in Nat /\ doc[c].fee \in Nat /\ Initial[c] \in Nat
  BY StateFields, CounterAssumption DEF SoundDocument, Sound
<1>3. ASSUME NEW c \in kept PROVE Live(new[c])
  <2>1. c \in Counter /\ new[c].position = Place(doc, kept, c)
    BY <1>3, ExpireEach
  <2>2. \A d \in Counter : doc[d].position \in Nat
    BY StateFields DEF SoundDocument, Sound
  <2> DEFINE part == {d \in Counter : d \in kept /\ doc[d].position <= doc[c].position}
  <2>3. c \in part /\ part \in SUBSET Counter /\ {} \in SUBSET Counter /\ {} # part
    BY <1>3, <2>1, <2>2
  <2>4. Place(doc, kept, c) = Count(part)
    <3>1. [d \in Counter |-> IF d \in kept /\ doc[d].position <= doc[c].position THEN 1 ELSE 0]
            = [d \in Counter |-> IF d \in part THEN 1 ELSE 0]
      <4> HIDE DEF kept
      <4> QED OBVIOUS
    <3> HIDE DEF kept, part
    <3> QED BY <3>1 DEF Place, Count
  <2> HIDE DEF part, kept, new
  <2>5. Count({}) \in Nat /\ Count(part) \in Nat /\ Count({}) < Count(part)
    BY <2>3, CountMore
  <2> QED BY <2>1, <2>4, <2>5 DEF Live
<1> HIDE DEF kept, new
<1>4. Debts(new)
  BY <1>1, <1>2, <1>3 DEF Debts
<1>5. ASSUME LoansLend PROVE SameOwed(doc, new)
  BY <1>1, <1>2, <1>5 DEF Debts, SameOwed, LoansLend
<1> QED BY <1>4, <1>5 DEF new

\* An appended counter owes what it was lent, and the loans it pays give up
\* their fees first.
LEMMA AddCounterDebts ==
  ASSUME NEW doc \in SoundDocument, Debts(doc), NEW c \in Counter, ~Live(doc[c])
  PROVE  Debts(AddCounter(doc, c).doc)
<1> DEFINE new == AddCounter(doc, c).doc
<1>1. /\ new[c].position = 1 + Size(doc)
      /\ new[c].loan = IF LoanTerms[c].given THEN Initial[c] ELSE 0
      /\ new[c].fee = IF LoanTerms[c].given THEN LoanTerms[c].fee ELSE 0
      /\ \A d \in Counter : d # c =>
           /\ new[d].position = doc[d].position
           /\ new[d].loan = doc[d].loan - Share(doc, c, d).loan
           /\ new[d].fee = doc[d].fee - Share(doc, c, d).fee
  BY AddCounterEach
<1>2. Live(new[c])
  <2>1. Size(doc) = Count({d \in Counter : Live(doc[d])})
    <3>1. [d \in Counter |-> IF Live(doc[d]) THEN 1 ELSE 0]
            = [d \in Counter |-> IF d \in {e \in Counter : Live(doc[e])} THEN 1 ELSE 0]
      OBVIOUS
    <3> QED BY <3>1 DEF Size, Count
  <2>2. Size(doc) \in Nat
    BY <2>1, CountMore
  <2> QED BY <1>1, <2>2 DEF Live
<1> HIDE DEF new
<1>3. ASSUME NEW d \in Counter
      PROVE  /\ ~(Live(new[d]) /\ LoanTerms[d].given) => new[d].loan = 0 /\ new[d].fee = 0
             /\ new[d].loan < Initial[d] => new[d].fee = 0
  <2>1. PICK i \in Nat : i = Initial[d]
    BY CounterAssumption
  <2>2. CASE d = c
    BY <1>1, <1>2, <2>1, <2>2
  <2>3. CASE d # c
    <3>1. PICK loan \in Nat, fee \in Nat : loan = doc[d].loan /\ fee = doc[d].fee
      BY StateFields DEF SoundDocument, Sound
    <3>2. PICK back \in Nat, paid \in Nat :
            /\ back = Share(doc, c, d).loan /\ paid = Share(doc, c, d).fee
            /\ paid <= fee /\ back <= loan /\ (back > 0 => paid = fee)
      BY <3>1, ShareFact
    <3>3. new[d].loan = loan - back /\ new[d].fee = fee - paid /\ (Live(new[d]) <=> Live(doc[d]))
      BY <1>1, <2>3, <3>1, <3>2 DEF Live
    <3>4. /\ ~(Live(doc[d]) /\ LoanTerms[d].given) => loan = 0 /\ fee = 0
          /\ loan < i => fee = 0
      BY <2>1, <3>1 DEF Debts
    <3>5. ASSUME loan = 0, fee = 0 PROVE new[d].loan = 0 /\ new[d].fee = 0
      <4>1. back <= loan /\ paid <= fee
        BY <3>2
      <4>2. back = 0 /\ paid = 0
        BY <3>5, <4>1
      <4>3. new[d].loan = loan - back /\ new[d].fee = fee - paid
        BY <3>3
      <4> QED BY <3>5, <4>2, <4>3
    <3>6. new[d].loan < i => new[d].fee = 0
      <4>1. SUFFICES ASSUME loan - back < i PROVE fee - paid = 0
        BY <3>3
      <4>2. CASE back > 0
        BY <3>2, <4>2
      <4>3. CASE back = 0
        BY <3>2, <3>4, <4>1, <4>3
      <4> QED BY <4>2, <4>3
    <3> QED BY <2>1, <3>3, <3>4, <3>5, <3>6
  <2> QED BY <2>2, <2>3
<1> QED BY <1>3 DEF Debts, new

-----------------------------------------------------------------------------
\* The places and the debts of a document that a call is made on.
Orderly(doc) == Placed(doc) /\ Debts(doc)

\* An expiry pass before or after an operation.
LEMMA ExpireOrderly ==
  ASSUME NEW doc \in SoundDocument, Orderly(doc), NEW t \in Nat
  PROVE  /\ Orderly(Expire(doc, t).doc) /\ Expire(doc, t).doc \in SoundDocument
         /\ LoansLend => SameOwed(doc, Expire(doc, t).doc)
BY ExpirePlaced, ExpireDebts, ExpireSound DEF Orderly

\* A call that journals neither a provisioning nor a repayment changes no debt.
KeepsDebts(doc, call) ==
  /\ Orderly(call.doc)
  /\ \A c \in Counter : call.early[c].provisioned = 0 /\ call.early[c].repaid = 0
  /\ LoansLend => SameOwed(doc, call.doc)

\* The expiry passes of executeWithQuota around an operation.
LEMMA CallKeepsDebts ==
  ASSUME NEW doc \in SoundDocument, Orderly(doc), NEW t \in Nat, NEW new \in SoundDocument,
         SameDebts(Expire(doc, t).doc, new), NEW early, NEW answer,
         \A c \in Counter : early[c].provisioned = 0 /\ early[c].repaid = 0
  PROVE  KeepsDebts(doc, Call(Expire(doc, t), new, early, answer, t))
<1> DEFINE fresh == Expire(doc, t)
           call  == Call(fresh, new, early, answer, t)
<1>1. /\ fresh.doc \in SoundDocument /\ Orderly(fresh.doc)
      /\ LoansLend => SameOwed(doc, fresh.doc)
  BY ExpireOrderly
<1>2. Orderly(new) /\ SameOwed(fresh.doc, new)
  BY <1>1, SameDebtsKeeps DEF Orderly
<1>3. /\ Orderly(Expire(new, t).doc)
      /\ LoansLend => SameOwed(new, Expire(new, t).doc)
  BY <1>2, ExpireOrderly
<1>4. call.doc = Expire(new, t).doc /\ call.early = early
  <2>1. Tabulated(new) = new
    BY TabulatedFact
  <2> QED BY <2>1 DEF Call
<1> HIDE DEF fresh, call
<1>5. LoansLend => SameOwed(doc, call.doc)
  BY <1>1, <1>2, <1>3, <1>4 DEF SameOwed
<1> QED BY <1>3, <1>4, <1>5 DEF KeepsDebts, call, fresh

\* Reservations, debits, releases and expiries neither lend nor repay.
LEMMA OtherCallsKeepDebts ==
  ASSUME NEW doc \in SoundDocument, Orderly(doc), NEW t \in Nat, NEW r \in Ref,
         NEW units \in Nat, NEW reclaim \in BOOLEAN
  PROVE  /\ KeepsDebts(doc, ReserveCall(doc, r, units, t))
         /\ KeepsDebts(doc, DebitCall(doc, r, units, reclaim, t))
         /\ KeepsDebts(doc, ReleaseCall(doc, r, t))
<1> DEFINE fresh == Expire(doc, t)
           early == [c \in Counter |->
                       [NoEntry EXCEPT !.spent = Debit(fresh.doc, r, units, reclaim).spent[c]]]
<1>1. fresh.doc \in SoundDocument
  BY ExpireSound
<1>2. \A c \in Counter : early[c].provisioned = 0 /\ early[c].repaid = 0
  BY DEF NoEntry
<1> HIDE DEF early
<1>3. KeepsDebts(doc, ReserveCall(doc, r, units, t))
  <2> DEFINE done == ReserveQuota(fresh.doc, r, units, t)
  <2>1. done.doc \in SoundDocument /\ SameDebts(fresh.doc, done.doc)
    <3> HIDE DEF fresh
    <3> QED BY <1>1, ReserveQuotaSound, ReserveKeepsDebts
  <2>2. ReserveCall(doc, r, units, t) = Call(fresh, done.doc, NoEntries, done.granted, t)
    BY DEF ReserveCall
  <2> HIDE DEF done
  <2> QED BY <2>1, <2>2, NoEntriesFact, CallKeepsDebts
<1>4. KeepsDebts(doc, DebitCall(doc, r, units, reclaim, t))
  <2> DEFINE done == Debit(fresh.doc, r, units, reclaim)
  <2>1. done.doc \in SoundDocument /\ SameDebts(fresh.doc, done.doc)
    <3> HIDE DEF fresh
    <3> QED BY <1>1, DebitSound, DebitKeepsDebts
  <2>2. DebitCall(doc, r, units, reclaim, t) = Call(fresh, done.doc, early, done.unaccounted, t)
    BY DEF DebitCall, early
  <2> HIDE DEF done
  <2> QED BY <1>2, <2>1, <2>2, CallKeepsDebts
<1>5. KeepsDebts(doc, ReleaseCall(doc, r, t))
  <2> DEFINE done == Release(fresh.doc, r)
  <2>1. done \in SoundDocument /\ SameDebts(fresh.doc, done)
    <3> HIDE DEF fresh
    <3> QED BY <1>1, ReleaseSound, ReleaseKeepsDebts
  <2>2. ReleaseCall(doc, r, t) = Call(fresh, done, NoEntries, 0, t)
    BY DEF ReleaseCall
  <2> HIDE DEF done
  <2> QED BY <2>1, <2>2, NoEntriesFact, CallKeepsDebts
<1> QED BY <1>3, <1>4, <1>5

\* The housekeeping job neither lends nor repays.
LEMMA ExpireCallKeepsDebts ==
  ASSUME NEW doc \in SoundDocument, Orderly(doc), NEW t \in Nat
  PROVE  KeepsDebts(doc, ExpireCall(doc, t))
<1> DEFINE fresh == Expire(doc, t)
<1>1. fresh.doc \in SoundDocument /\ SameDebts(fresh.doc, fresh.doc)
  BY ExpireSound DEF SameDebts
<1>2. ExpireCall(doc, t) = Call(fresh, fresh.doc, NoEntries, 0, t)
  BY DEF ExpireCall
<1> QED BY <1>1, <1>2, NoEntriesFact, CallKeepsDebts

\* Nothing is left to a younger loan that was not left to an older one.
LEMMA LeftFalls ==
  ASSUME NEW doc \in SoundDocument, Placed(doc), NEW value \in Nat,
         NEW d \in InDebt(doc), NEW e \in InDebt(doc),
         doc[d].position < doc[e].position
  PROVE  LoanValue(doc, value)[doc[e].position - 1] <= LoanValue(doc, value)[doc[d].position - 1]
<1> DEFINE left == LoanValue(doc, value)
<1>1. PICK p \in Counter, q \in Counter : p = doc[d].position /\ q = doc[e].position /\ p < q
  BY LeftNat
<1>2. left \in [0..NumCounters -> 0..value]
  BY LoanValueFact
<1>3. ASSUME NEW k \in Counter PROVE left[k] <= left[k - 1]
  <2>1. k \in 0..NumCounters /\ k - 1 \in 0..NumCounters
    BY SizeAssumption DEF Counter
  <2>2. PICK l \in Nat : l = left[k - 1] /\ left[k] \in Nat
    BY <1>2, <2>1
  <2>3. CASE \E b \in InDebt(doc) : doc[b].position = k
    <3>1. PICK b \in InDebt(doc) : doc[b].position = k
      BY <2>3
    <3>2. PICK x \in Nat, y \in Nat : x = Claw(doc, b, l).fee /\ y = Claw(doc, b, l).loan
      BY ClawFact DEF InDebt
    <3>3. left[k] = left[k - 1] - Claw(doc, b, left[k - 1]).fee - Claw(doc, b, left[k - 1]).loan
      BY <3>1, LoanValueEach
    <3> HIDE DEF left
    <3>4. left[k] = l - x - y
      BY <2>2, <3>2, <3>3
    <3> QED BY <2>2, <3>4
  <2>4. CASE \A b \in InDebt(doc) : doc[b].position # k
    <3>1. left[k] = left[k - 1]
      BY <2>4, LoanValueEach
    <3> HIDE DEF left
    <3> QED BY <2>2, <3>1
  <2> QED BY <2>3, <2>4
<1> HIDE DEF left
<1> DEFINE S == {k \in 0..NumCounters : p <= k + 1 => left[k] <= left[p - 1]}
<1>4. p - 1 \in 0..NumCounters /\ q - 1 \in 0..NumCounters /\ p > 0
  BY SizeAssumption DEF Counter
<1>5. 0 \in S
  <2>1. 0 \in 0..NumCounters
    BY SizeAssumption
  <2>2. p <= 0 + 1 => p - 1 = 0
    BY DEF Counter
  <2>3. left[0] <= left[0]
    <3>1. left[0] \in Nat
      BY <1>2, <2>1
    <3> QED BY <3>1
  <2> QED BY <2>1, <2>2, <2>3
<1>6. ASSUME NEW k \in 1..NumCounters, k - 1 \in S PROVE k \in S
  <2>1. k \in 0..NumCounters /\ k - 1 \in 0..NumCounters /\ k \in Counter
    BY SizeAssumption DEF Counter
  <2>2. PICK a \in Nat, b \in Nat, m \in Nat : a = left[k - 1] /\ b = left[k] /\ m = left[p - 1]
    BY <1>2, <1>4, <2>1
  <2>3. b <= a
    BY <1>3, <2>1, <2>2
  <2>4. p <= k => a <= m
    BY <1>6, <2>2
  <2>5. p = k + 1 => b = m
    BY <2>2
  <2>6. p \in Nat /\ k \in Nat
    BY SizeAssumption DEF Counter
  <2>7. p <= k + 1 => b <= m
    BY <2>2, <2>3, <2>4, <2>5, <2>6
  <2> QED BY <2>1, <2>2, <2>7
<1>7. q - 1 \in S
  <2>1. \A k \in 0..NumCounters : k \in S
    <3> HIDE DEF S
    <3> QED BY <1>5, <1>6, SizeAssumption, UpTo
  <2> QED BY <1>4, <2>1
<1>8. p <= (q - 1) + 1
  BY <1>1 DEF Counter
<1>9. left[q - 1] <= left[p - 1]
  BY <1>7, <1>8
<1> QED BY <1>1, <1>9 DEF left

\* A loan whose terms take something takes something of any value.
LEMMA ClawTakes ==
  ASSUME LoansTake, NEW doc \in SoundDocument, NEW c \in InDebt(doc), LoanTerms[c].given,
         NEW value \in Nat, value > 0
  PROVE  Claw(doc, c, value).fee + Claw(doc, c, value).loan > 0
<1>1. PICK fee \in Nat, loan \in Nat : fee = doc[c].fee /\ loan = doc[c].loan /\ loan > 0
  BY StateFields DEF SoundDocument, Sound, InDebt
<1>2. PICK minimum \in Nat, percent \in 0..100 :
        /\ minimum = LoanTerms[c].minimum /\ percent = LoanTerms[c].percent
        /\ minimum > 0 \/ percent > 0
  BY TermsOfLoan DEF LoansTake, InDebt
<1> DEFINE due == IF loan <= minimum THEN Least(loan, value)
                  ELSE IF percent = 0 THEN Least(minimum, value)
                  ELSE PercentOf(value, percent)
           paid == Least(due, fee)
           back == Least(due - paid, loan)
<1>3. due \in Nat /\ due > 0
  <2>1. /\ Least(loan, value) \in Nat /\ Least(loan, value) > 0
        /\ Least(minimum, value) \in Nat
        /\ minimum > 0 => Least(minimum, value) > 0
    BY <1>1, <1>2 DEF Least
  <2>2. /\ PercentOf(value, percent) \in 0..value
        /\ value > 0 /\ percent > 0 => PercentOf(value, percent) > 0
    BY PercentFact, Zenon
  <2> QED BY <1>2, <2>1, <2>2
<1>4. Claw(doc, c, value) = [fee |-> paid, loan |-> back]
  BY <1>1, <1>2 DEF Claw, Clawback
<1> HIDE DEF due
<1>5. paid + back > 0
  BY <1>1, <1>3 DEF Least
<1> HIDE DEF paid, back
<1> QED BY <1>4, <1>5

\* The older of two loans is paid whenever the younger is.
LEMMA OlderPays ==
  ASSUME LoansTake, NEW doc \in SoundDocument, Orderly(doc), NEW c \in Counter,
         NEW d \in InDebt(doc), NEW e \in InDebt(doc), doc[d].position < doc[e].position,
         Share(doc, c, e).fee + Share(doc, c, e).loan > 0
  PROVE  Share(doc, c, d).fee + Share(doc, c, d).loan > 0
<1> DEFINE left == LoanValue(doc, Initial[c])
<1>1. d \in Counter /\ e \in Counter /\ Initial[c] \in Nat /\ LoanTerms[d].given
  <2>1. d \in Counter /\ e \in Counter /\ Initial[c] \in Nat
    BY CounterAssumption DEF InDebt
  <2>2. doc[d].loan # 0
    BY DEF InDebt
  <2> QED BY <2>1, <2>2 DEF Orderly, Debts
<1>2. c \in Repays /\ ~LoanTerms[c].given
  <2>1. SUFFICES ASSUME ~(c \in Repays /\ ~LoanTerms[c].given) PROVE FALSE
    OBVIOUS
  <2>2. Share(doc, c, e) = [fee |-> 0, loan |-> 0]
    BY <2>1 DEF Share
  <2> QED BY <2>2
<1>3. PICK l \in Nat, m \in Nat :
        l = left[doc[d].position - 1] /\ m = left[doc[e].position - 1]
  BY <1>1, LeftNat
<1>4. m <= l
  <2>1. left[doc[e].position - 1] <= left[doc[d].position - 1]
    BY <1>1, LeftFalls DEF Orderly
  <2> QED BY <1>3, <2>1
<1>5. Share(doc, c, e) = Claw(doc, e, m) /\ Share(doc, c, d) = Claw(doc, d, l)
  BY <1>2, <1>3 DEF Share
<1>6. m > 0
  <2>1. SUFFICES ASSUME ~(m > 0) PROVE FALSE
    OBVIOUS
  <2>2. Claw(doc, e, m) = [fee |-> 0, loan |-> 0]
    BY <2>1 DEF Claw
  <2> QED BY <1>5, <2>2
<1>7. l > 0
  BY <1>4, <1>6
<1> QED BY <1>1, <1>5, <1>7, ClawTakes

\* A share of a younger loan is never the only one.
OldestFirst(doc, share) ==
  \A d, e \in Counter :
    /\ doc[d].loan > 0 /\ doc[e].loan > 0
    /\ doc[d].position < doc[e].position
    /\ share[e] > 0
    => share[d] > 0

\* What a provisioning lends and what it repays: the share of every loan.
Provisions(doc, c, call) ==
  LET given == LoanTerms[c].given
  IN  /\ Orderly(call.doc)
      /\ \A d \in Counter : d # c =>
           call.early[d].provisioned = 0 /\ call.early[d].repaid = 0
      /\ call.early[c].provisioned = Initial[c]
      /\ LoansLend =>
           \E share \in [Counter -> Nat] :
             /\ share[c] = 0
             /\ \A d \in Counter : d # c =>
                  call.doc[d].loan + call.doc[d].fee = doc[d].loan + doc[d].fee - share[d]
             /\ doc[c].loan = 0 /\ doc[c].fee = 0
             /\ call.doc[c].loan = IF given THEN Initial[c] ELSE 0
             /\ call.doc[c].fee = IF given THEN LoanTerms[c].fee ELSE 0
             /\ call.early[c].repaid = Total(share, NumCounters)
             /\ LoansTake => OldestFirst(doc, share)

\* A provisioning finds its counter on the quota, or lends and repays.
LEMMA ProvisionCallDebts ==
  ASSUME NEW doc \in SoundDocument, Orderly(doc), NEW t \in Nat, NEW c \in Counter
  PROVE  \/ KeepsDebts(doc, ProvisionCall(doc, c, t))
         \/ Provisions(doc, c, ProvisionCall(doc, c, t))
<1> DEFINE fresh == Expire(doc, t)
           done  == AddCounter(fresh.doc, c)
           early == [NoEntries EXCEPT ![c] = [NoEntry EXCEPT !.provisioned = Initial[c],
                                                             !.repaid = done.repaid]]
           call  == ProvisionCall(doc, c, t)
<1>1. /\ fresh.doc \in SoundDocument /\ Orderly(fresh.doc)
      /\ LoansLend => SameOwed(doc, fresh.doc)
  BY ExpireOrderly
<1>2. CASE Live(fresh.doc[c])
  <2>1. call = Call(fresh, fresh.doc, NoEntries, 0, t)
    BY <1>2 DEF ProvisionCall
  <2>2. SameDebts(fresh.doc, fresh.doc)
    BY DEF SameDebts
  <2> QED BY <1>1, <2>1, <2>2, NoEntriesFact, CallKeepsDebts
<1>3. CASE ~Live(fresh.doc[c])
  <2>1. call = Call(fresh, done.doc, early, 0, t)
    BY <1>3 DEF ProvisionCall
  <2>2. call.doc = Expire(done.doc, t).doc /\ call.early = early
    <3>1. Tabulated(done.doc) = done.doc
      BY TabulatedFact
    <3> HIDE DEF early, done, fresh
    <3> QED BY <2>1, <3>1 DEF Call
  <2>3. done.doc \in SoundDocument /\ done.repaid \in Nat /\ Orderly(done.doc)
    <3> HIDE DEF fresh
    <3> QED BY <1>1, <1>3, AddCounterSound, AddCounterPlaced, AddCounterDebts DEF Orderly
  <2>4. /\ Orderly(call.doc)
        /\ LoansLend => SameOwed(done.doc, call.doc)
    <3> HIDE DEF done, call
    <3> QED BY <2>2, <2>3, ExpireOrderly
  <2>5. /\ \A d \in Counter : d # c => early[d].provisioned = 0 /\ early[d].repaid = 0
        /\ early[c].provisioned = Initial[c] /\ early[c].repaid = done.repaid
    <3> HIDE DEF done
    <3> QED BY DEF NoEntries, NoEntry
  <2> DEFINE share == [d \in Counter |->
                         Share(fresh.doc, c, d).fee + Share(fresh.doc, c, d).loan]
  <2>6. share \in [Counter -> Nat]
    <3> SUFFICES ASSUME NEW d \in Counter
                 PROVE  Share(fresh.doc, c, d).fee + Share(fresh.doc, c, d).loan \in Nat
      OBVIOUS
    <3> HIDE DEF fresh
    <3>1. PICK x \in Nat, y \in Nat :
            x = Share(fresh.doc, c, d).fee /\ y = Share(fresh.doc, c, d).loan
      BY <1>1, ShareFact
    <3> QED BY <3>1
  <2>7. fresh.doc[c].loan = 0 /\ fresh.doc[c].fee = 0
    BY <1>1, <1>3 DEF Orderly, Debts
  <2>8. share[c] = 0
    <3>1. c \notin InDebt(fresh.doc)
      <4> HIDE DEF fresh
      <4> QED BY <2>7 DEF InDebt
    <3> QED BY <3>1 DEF Share
  <2>9. done.repaid = Total(share, NumCounters)
    <3>1. CASE c \in Repays /\ ~LoanTerms[c].given
      <4> HIDE DEF fresh
      <4>1. Total(share, NumCounters)
              = Initial[c] - LoanValue(fresh.doc, Initial[c])[NumCounters]
        BY <1>1, <3>1, SharesAddUp DEF Orderly
      <4>2. done.repaid = Initial[c] - LoanValue(fresh.doc, Initial[c])[NumCounters]
        BY <1>1, <3>1, AddCounterEach
      <4> QED BY <4>1, <4>2
    <3>2. CASE ~(c \in Repays /\ ~LoanTerms[c].given)
      <4>1. \A d \in 1..NumCounters : share[d] = 0
        <5> HIDE DEF fresh
        <5> QED BY <3>2 DEF Share, Counter
      <4>2. done.repaid = 0
        <5> HIDE DEF fresh
        <5> QED BY <1>1, <3>2, AddCounterEach
      <4>3. share \in [1..NumCounters -> Int]
        <5> HIDE DEF share
        <5> QED BY <2>6 DEF Counter
      <4> HIDE DEF share, done
      <4> QED BY <4>1, <4>2, <4>3, TotalZero, SizeAssumption
    <3> QED BY <3>1, <3>2
  <2>10. /\ done.doc[c].loan = IF LoanTerms[c].given THEN Initial[c] ELSE 0
         /\ done.doc[c].fee = IF LoanTerms[c].given THEN LoanTerms[c].fee ELSE 0
         /\ \A d \in Counter : d # c =>
              done.doc[d].loan + done.doc[d].fee
                = fresh.doc[d].loan + fresh.doc[d].fee - share[d]
    <3> HIDE DEF fresh
    <3>1. /\ done.doc[c].loan = IF LoanTerms[c].given THEN Initial[c] ELSE 0
          /\ done.doc[c].fee = IF LoanTerms[c].given THEN LoanTerms[c].fee ELSE 0
          /\ \A d \in Counter : d # c =>
               /\ done.doc[d].loan = fresh.doc[d].loan - Share(fresh.doc, c, d).loan
               /\ done.doc[d].fee = fresh.doc[d].fee - Share(fresh.doc, c, d).fee
      BY <1>1, AddCounterEach
    <3>2. ASSUME NEW d \in Counter, d # c
          PROVE  done.doc[d].loan + done.doc[d].fee
                   = fresh.doc[d].loan + fresh.doc[d].fee - share[d]
      <4>1. PICK l \in Nat, f \in Nat, x \in Nat, y \in Nat :
              /\ l = fresh.doc[d].loan /\ f = fresh.doc[d].fee
              /\ x = Share(fresh.doc, c, d).fee /\ y = Share(fresh.doc, c, d).loan
        BY <1>1, ShareFact, StateFields DEF SoundDocument, Sound
      <4>2. share[d] = x + y
        BY <4>1
      <4> HIDE DEF share, done
      <4>3. done.doc[d].loan = l - y /\ done.doc[d].fee = f - x
        BY <3>1, <3>2, <4>1
      <4> QED BY <4>1, <4>2, <4>3
    <3> QED BY <3>1, <3>2
  <2> HIDE DEF fresh, done, early, call, share
  <2>11. ASSUME LoansLend
         PROVE  /\ share[c] = 0
                /\ \A d \in Counter : d # c =>
                     call.doc[d].loan + call.doc[d].fee = doc[d].loan + doc[d].fee - share[d]
                /\ doc[c].loan = 0 /\ doc[c].fee = 0
                /\ call.doc[c].loan = IF LoanTerms[c].given THEN Initial[c] ELSE 0
                /\ call.doc[c].fee = IF LoanTerms[c].given THEN LoanTerms[c].fee ELSE 0
                /\ call.early[c].repaid = Total(share, NumCounters)
    BY <1>1, <2>2, <2>4, <2>5, <2>7, <2>8, <2>9, <2>10, <2>11 DEF SameOwed
  <2>12. ASSUME LoansLend, LoansTake PROVE OldestFirst(doc, share)
    <3> SUFFICES ASSUME NEW d \in Counter, NEW e \in Counter,
                        doc[d].loan > 0, doc[e].loan > 0,
                        doc[d].position < doc[e].position, share[e] > 0
                 PROVE  share[d] > 0
      BY DEF OldestFirst
    <3>1. d \in InDebt(fresh.doc) /\ e \in InDebt(fresh.doc)
      BY <1>1, <2>12 DEF SameOwed, InDebt
    <3>2. Live(fresh.doc[d]) /\ Live(fresh.doc[e])
      BY <1>1, <3>1, LeftNat
    <3>3. fresh.doc[d].position < fresh.doc[e].position
      BY <3>2, ExpirePlaced DEF Orderly, fresh
    <3>4. /\ share[e] = Share(fresh.doc, c, e).fee + Share(fresh.doc, c, e).loan
          /\ share[d] = Share(fresh.doc, c, d).fee + Share(fresh.doc, c, d).loan
      BY DEF share
    <3> QED BY <1>1, <2>12, <3>1, <3>3, <3>4, OlderPays
  <2>13. Provisions(doc, c, call)
    BY <2>2, <2>4, <2>5, <2>6, <2>11, <2>12 DEF Provisions
  <2> QED BY <2>13 DEF call
<1> QED BY <1>2, <1>3

\* What the journal says was lent on a counter, and what its books hold of it.
LentOn(book, c) ==
  IF LoanTerms[c].given
    THEN book[c].provisioned + (book[c].provisioned \div Initial[c]) * LoanTerms[c].fee
    ELSE 0

Lent(book) == [c \in Counter |-> LentOn(book, c)]

OwedOrRepaid(doc, book) ==
  [c \in Counter |-> doc[c].loan + doc[c].fee + book[c].repaid]

\* The inductive invariant of the loans: IInv is needed because an expiry pass
\* and a repayment are only known to be exact on a sound document.
LoanInv ==
  /\ IInv
  /\ Orderly(quota)
  /\ LoansLend => Total(Lent(journal), NumCounters)
                    = Total(OwedOrRepaid(quota, journal), NumCounters)

\* The empty quota owes nothing and nothing was lent.
LEMMA InitLoanInv == Init => LoanInv
<1> SUFFICES ASSUME Init PROVE LoanInv
  OBVIOUS
<1>1. IInv
  BY InitIInv
<1>2. \A c \in Counter : /\ quota[c].position = 0 /\ quota[c].loan = 0 /\ quota[c].fee = 0
                         /\ journal[c].provisioned = 0 /\ journal[c].repaid = 0
  BY DEF Init, EmptyDocument, Absent, EmptyJournal
<1>3. Debts(quota)
  BY <1>2 DEF Debts
<1>4. Placed(quota)
  <2>1. Size(quota) = Count({})
    <3>1. [c \in Counter |-> IF Live(quota[c]) THEN 1 ELSE 0]
            = [c \in Counter |-> IF c \in {} THEN 1 ELSE 0]
      BY <1>2 DEF Live
    <3> QED BY <3>1 DEF Size, Count
  <2>2. Size(quota) \in Nat
    BY <2>1, CountMore
  <2> QED BY <1>2, <2>2 DEF Placed, Live
<1>5. ASSUME LoansLend
      PROVE  Total(Lent(journal), NumCounters) = Total(OwedOrRepaid(quota, journal), NumCounters)
  <2>1. ASSUME NEW c \in Counter
        PROVE  Lent(journal)[c] = 0 /\ OwedOrRepaid(quota, journal)[c] = 0
    <3>1. OwedOrRepaid(quota, journal)[c] = 0
      BY <1>2 DEF OwedOrRepaid
    <3>2. CASE LoanTerms[c].given
      <4>1. PICK i \in Nat \ {0}, f \in Nat : i = Initial[c] /\ f = LoanTerms[c].fee
        BY <1>5, <3>2, CounterAssumption, TermsOfLoan DEF LoansLend
      <4>2. (0 \div i) * f = 0
        <5>1. 0 \div i = 0
          OBVIOUS
        <5> QED BY <5>1
      <4> QED BY <1>2, <3>1, <3>2, <4>1, <4>2 DEF Lent, LentOn
    <3>3. CASE ~LoanTerms[c].given
      BY <3>1, <3>3 DEF Lent, LentOn
    <3> QED BY <3>2, <3>3
  <2>2. Lent(journal) = OwedOrRepaid(quota, journal)
    BY <2>1 DEF Lent, OwedOrRepaid
  <2> QED BY <2>2
<1> QED BY <1>1, <1>3, <1>4, <1>5 DEF LoanInv, Orderly

\* A balance once more provisioned has been provisioned once more.
LEMMA OnceMore ==
  ASSUME NEW p \in Nat, NEW i \in Nat \ {0}
  PROVE  (p + i) \div i = (p \div i) + 1
OBVIOUS

\* What is lent on a counter is a number.
LEMMA LentInt ==
  ASSUME LoansLend, NEW c \in Counter, NEW book \in [Counter -> Totals]
  PROVE  LentOn(book, c) \in Int
<1>1. CASE LoanTerms[c].given
  <2>1. PICK i \in Nat \ {0}, f \in Nat, p \in Nat :
          i = Initial[c] /\ f = LoanTerms[c].fee /\ p = book[c].provisioned
    BY <1>1, CounterAssumption, TermsOfLoan DEF LoansLend, Totals
  <2>2. PICK k \in Int : k = p \div i
    BY <2>1, DivFact
  <2>3. k * f \in Int
    BY MulFact
  <2> QED BY <1>1, <2>1, <2>2, <2>3 DEF LentOn
<1>2. CASE ~LoanTerms[c].given
  BY <1>2 DEF LentOn
<1> QED BY <1>1, <1>2

\* A call that keeps the debts keeps the invariant.
LEMMA KeepsDebtsStep ==
  ASSUME LoanInv, IInv', NEW call, KeepsDebts(quota, call), Apply(call)
  PROVE  LoanInv'
<1>1. quota' = call.doc
  BY DEF Apply
<1>2. Orderly(quota')
  BY <1>1 DEF KeepsDebts
<1>3. \A c \in Counter : /\ journal[c].provisioned \in Nat /\ journal[c].repaid \in Nat
  BY DEF LoanInv, IInv, Totals
<1>4. ASSUME NEW c \in Counter
      PROVE  /\ journal'[c].provisioned = journal[c].provisioned
             /\ journal'[c].repaid = journal[c].repaid
  <2>1. PICK p \in Nat, q \in Nat : p = journal[c].provisioned /\ q = journal[c].repaid
    BY <1>3
  <2>2. call.early[c].provisioned = 0 /\ call.early[c].repaid = 0
    BY DEF KeepsDebts
  <2>3. /\ journal'[c].provisioned = journal[c].provisioned + call.early[c].provisioned
        /\ journal'[c].repaid = journal[c].repaid + call.early[c].repaid
    BY DEF Apply, PostLate, PostEarly
  <2>4. p + 0 = p /\ q + 0 = q
    OBVIOUS
  <2> QED BY <2>1, <2>2, <2>3, <2>4
<1>5. ASSUME LoansLend
      PROVE  Total(Lent(journal'), NumCounters)
               = Total(OwedOrRepaid(quota', journal'), NumCounters)
  <2>1. Lent(journal') = Lent(journal)
    BY <1>4 DEF Lent, LentOn
  <2>2. OwedOrRepaid(quota', journal') = OwedOrRepaid(quota, journal)
    BY <1>1, <1>4, <1>5 DEF KeepsDebts, SameOwed, OwedOrRepaid
  <2> QED BY <1>5, <2>1, <2>2 DEF LoanInv
<1>6. (Orderly(quota))' /\ (LoansLend => Total(Lent(journal), NumCounters)
                                           = Total(OwedOrRepaid(quota, journal), NumCounters))'
  <2>1. (Orderly(quota))'
    BY <1>2 DEF Orderly, Placed, Debts, Size
  <2>2. (LoansLend => Total(Lent(journal), NumCounters)
                        = Total(OwedOrRepaid(quota, journal), NumCounters))'
    BY <1>5 DEF Lent, LentOn, OwedOrRepaid
  <2> QED BY <2>1, <2>2
<1> QED BY <1>6 DEF LoanInv

\* A provisioning that lends or repays keeps the books: what is lent is added
\* to both sides, and what is repaid moves from what is owed.
LEMMA ProvisionsStep ==
  ASSUME LoanInv, IInv', NEW c \in Counter, NEW call, Provisions(quota, c, call), Apply(call)
  PROVE  LoanInv'
<1>1. quota' = call.doc
  BY DEF Apply
<1>2. Orderly(quota')
  BY <1>1 DEF Provisions
<1>3. /\ quota \in SoundDocument /\ quota' \in SoundDocument
      /\ journal \in [Counter -> Totals] /\ journal' \in [Counter -> Totals]
  BY DEF LoanInv, IInv
<1>4. \A d \in Counter : /\ journal[d].provisioned \in Nat /\ journal[d].repaid \in Nat
                         /\ quota[d].loan \in Nat /\ quota[d].fee \in Nat
                         /\ journal'[d].repaid \in Nat
                         /\ quota'[d].loan \in Nat /\ quota'[d].fee \in Nat
  BY <1>3, StateFields DEF SoundDocument, Sound, Totals
<1>5. \A d \in Counter :
        /\ journal'[d].provisioned = journal[d].provisioned + call.early[d].provisioned
        /\ journal'[d].repaid = journal[d].repaid + call.early[d].repaid
  BY DEF Apply, PostLate, PostEarly
<1>6. ASSUME NEW d \in Counter, d # c
      PROVE  /\ journal'[d].provisioned = journal[d].provisioned
             /\ journal'[d].repaid = journal[d].repaid
  <2>1. PICK p \in Nat, q \in Nat : p = journal[d].provisioned /\ q = journal[d].repaid
    BY <1>4
  <2>2. call.early[d].provisioned = 0 /\ call.early[d].repaid = 0
    BY <1>6 DEF Provisions
  <2>3. p + 0 = p /\ q + 0 = q
    OBVIOUS
  <2> QED BY <1>5, <2>1, <2>2, <2>3
<1>7. ASSUME LoansLend
      PROVE  Total(Lent(journal'), NumCounters)
               = Total(OwedOrRepaid(quota', journal'), NumCounters)
  <2>1. PICK share \in [Counter -> Nat] :
          /\ share[c] = 0
          /\ \A d \in Counter : d # c =>
               call.doc[d].loan + call.doc[d].fee = quota[d].loan + quota[d].fee - share[d]
          /\ quota[c].loan = 0 /\ quota[c].fee = 0
          /\ call.doc[c].loan = IF LoanTerms[c].given THEN Initial[c] ELSE 0
          /\ call.doc[c].fee = IF LoanTerms[c].given THEN LoanTerms[c].fee ELSE 0
          /\ call.early[c].repaid = Total(share, NumCounters)
    BY <1>7 DEF Provisions
  <2> DEFINE lent == Lent(journal)
             lentNext == Lent(journal')
             owed == OwedOrRepaid(quota, journal)
             owedNext == OwedOrRepaid(quota', journal')
             mid == [d \in Counter |-> owed[d] - share[d]]
             extra == IF LoanTerms[c].given THEN Initial[c] + LoanTerms[c].fee ELSE 0
             shares == Total(share, NumCounters)
  <2>2. /\ lent \in [1..NumCounters -> Int] /\ lentNext \in [1..NumCounters -> Int]
    <3>1. \A d \in Counter : LentOn(journal, d) \in Int /\ LentOn(journal', d) \in Int
      BY <1>3, <1>7, LentInt
    <3> QED BY <3>1 DEF Lent, Counter
  <2>3. owed \in [1..NumCounters -> Int] /\ owedNext \in [1..NumCounters -> Int]
    <3>1. ASSUME NEW d \in Counter
          PROVE  /\ quota[d].loan + quota[d].fee + journal[d].repaid \in Int
                 /\ quota'[d].loan + quota'[d].fee + journal'[d].repaid \in Int
      BY <1>4
    <3> QED BY <3>1 DEF OwedOrRepaid, Counter
  <2>4. share \in [1..NumCounters -> Int] /\ c \in 1..NumCounters
    BY DEF Counter
  <2>5. \A d \in 1..NumCounters : mid[d] = owed[d] - share[d]
    BY DEF Counter
  <2>6. mid \in [1..NumCounters -> Int]
    <3> HIDE DEF owed
    <3> QED BY <2>3, <2>4 DEF Counter
  <2>7. \A d \in 1..NumCounters : d # c => owedNext[d] = mid[d] /\ lentNext[d] = lent[d]
    <3> SUFFICES ASSUME NEW d \in Counter, d # c
                 PROVE  owedNext[d] = mid[d] /\ lentNext[d] = lent[d]
      BY DEF Counter
    <3>1. lentNext[d] = lent[d]
      BY <1>6 DEF Lent, LentOn
    <3>2. PICK l \in Nat, f \in Nat, q \in Nat, s \in Nat, m \in Nat, g \in Nat :
            /\ l = quota[d].loan /\ f = quota[d].fee /\ q = journal[d].repaid /\ s = share[d]
            /\ m = quota'[d].loan /\ g = quota'[d].fee
      BY <1>4
    <3>3. m + g = l + f - s
      BY <1>1, <2>1, <3>2
    <3>4. mid[d] = (l + f + q) - s /\ owedNext[d] = m + g + q
      BY <1>6, <3>2 DEF OwedOrRepaid
    <3>5. (l + f + q) - s = m + g + q
      BY <3>3
    <3> QED BY <3>1, <3>4, <3>5
  <2>8. shares \in Nat
    BY TotalNat, SizeAssumption DEF Counter
  <2>9. owedNext[c] = mid[c] + extra + shares /\ extra \in Nat
    <3>1. PICK q \in Nat, i \in Nat, f \in Nat, n \in Nat :
            /\ q = journal[c].repaid /\ i = Initial[c] /\ f = LoanTerms[c].fee /\ n = shares
      BY <1>4, <2>8, CounterAssumption, TermsOfLoan
    <3>2. mid[c] = q
      <4>1. mid[c] = (0 + 0 + q) - 0
        BY <2>1, <3>1 DEF OwedOrRepaid
      <4> QED BY <4>1
    <3>3. owedNext[c] = quota'[c].loan + quota'[c].fee + (q + n)
      BY <1>5, <2>1, <3>1 DEF OwedOrRepaid
    <3>4. CASE LoanTerms[c].given
      <4>1. owedNext[c] = i + f + (q + n) /\ extra = i + f
        BY <1>1, <2>1, <3>1, <3>3, <3>4
      <4> QED BY <3>1, <3>2, <4>1
    <3>5. CASE ~LoanTerms[c].given
      <4>1. owedNext[c] = 0 + 0 + (q + n) /\ extra = 0
        BY <1>1, <2>1, <3>1, <3>3, <3>5
      <4> QED BY <3>1, <3>2, <4>1
    <3> QED BY <3>4, <3>5
  <2>10. lentNext[c] = lent[c] + extra
    <3>1. CASE LoanTerms[c].given
      <4>1. PICK p \in Nat, i \in Nat \ {0}, f \in Nat :
              p = journal[c].provisioned /\ i = Initial[c] /\ f = LoanTerms[c].fee
        BY <1>4, <1>7, <3>1, CounterAssumption, TermsOfLoan DEF LoansLend
      <4>2. journal'[c].provisioned = p + i
        BY <1>5, <4>1 DEF Provisions
      <4>3. lent[c] = p + (p \div i) * f /\ lentNext[c] = (p + i) + ((p + i) \div i) * f
        BY <3>1, <4>1, <4>2 DEF Lent, LentOn
      <4>4. PICK k \in Int : k = p \div i /\ (p + i) \div i = k + 1
        <5>1. (p + i) \div i = (p \div i) + 1
          BY OnceMore
        <5>2. p \div i \in Int
          BY DivFact
        <5> QED BY <5>1, <5>2
      <4>5. (k + 1) * f = k * f + f /\ k * f \in Int
        OBVIOUS
      <4>6. lentNext[c] = (p + i) + (k * f + f) /\ lent[c] = p + k * f /\ extra = i + f
        BY <3>1, <4>1, <4>3, <4>4, <4>5
      <4>7. PICK m \in Int : m = k * f
        BY <4>5
      <4>8. (p + i) + (m + f) = (p + m) + (i + f)
        OBVIOUS
      <4> QED BY <4>6, <4>7, <4>8
    <3>2. CASE ~LoanTerms[c].given
      <4>1. lent[c] = 0 /\ lentNext[c] = 0 /\ extra = 0
        BY <3>2 DEF Lent, LentOn
      <4> QED BY <4>1
    <3> QED BY <3>1, <3>2
  <2>11. Total(lent, NumCounters) = Total(owed, NumCounters)
    BY <1>7 DEF LoanInv
  <2> HIDE DEF lent, lentNext, owed, owedNext, mid, extra
  <2>12. Total(lentNext, NumCounters) = Total(lent, NumCounters) - lent[c] + lentNext[c]
    BY <2>2, <2>4, <2>7, SizeAssumption, TotalUpdate
  <2>13. Total(owedNext, NumCounters) = Total(mid, NumCounters) - mid[c] + owedNext[c]
    BY <2>3, <2>4, <2>6, <2>7, SizeAssumption, TotalUpdate
  <2>14. Total(mid, NumCounters) = Total(owed, NumCounters) - shares
    BY <2>3, <2>4, <2>5, <2>6, SizeAssumption, TotalMinus
  <2>15. PICK a \in Int, b \in Int, e \in Nat, n \in Nat, T \in Int :
           /\ a = lent[c] /\ b = mid[c] /\ e = extra /\ n = shares
           /\ T = Total(owed, NumCounters)
    <3>1. Total(owed, NumCounters) \in Int
      <4>1. PICK p \in [0..NumCounters -> Int] : Total(owed, NumCounters) = p[NumCounters]
        BY <2>3, SizeAssumption, PartialSums
      <4> QED BY <4>1, SizeAssumption
    <3> HIDE DEF shares
    <3> QED BY <2>2, <2>4, <2>6, <2>8, <2>9, <3>1
  <2> HIDE DEF shares
  <2>16. Total(lentNext, NumCounters) = T - a + (a + e)
    BY <2>10, <2>11, <2>12, <2>15
  <2>17. Total(owedNext, NumCounters) = (T - n) - b + (b + e + n)
    BY <2>9, <2>13, <2>14, <2>15
  <2>18. T - a + (a + e) = (T - n) - b + (b + e + n)
    OBVIOUS
  <2> QED BY <2>16, <2>17, <2>18 DEF lentNext, owedNext
<1>8. (Orderly(quota))' /\ (LoansLend => Total(Lent(journal), NumCounters)
                                           = Total(OwedOrRepaid(quota, journal), NumCounters))'
  <2>1. (Orderly(quota))'
    BY <1>2 DEF Orderly, Placed, Debts, Size
  <2>2. (LoansLend => Total(Lent(journal), NumCounters)
                        = Total(OwedOrRepaid(quota, journal), NumCounters))'
    BY <1>7 DEF Lent, LentOn, OwedOrRepaid
  <2> QED BY <2>1, <2>2
<1> QED BY <1>8 DEF LoanInv

\* Every call keeps the invariant of the loans.
LEMMA NextLoanInv == LoanInv /\ [Next]_vars => LoanInv'
<1> SUFFICES ASSUME LoanInv, [Next]_vars PROVE LoanInv'
  OBVIOUS
<1>1. IInv' /\ quota \in SoundDocument /\ Orderly(quota) /\ now \in 0..MaxTime
  BY NextIInv DEF LoanInv, IInv
<1>2. \A t \in Recent : t \in Nat
  BY <1>1, BoundAssumption DEF Recent
<1>3. ASSUME NEW r \in Ref, NEW units \in 0..MaxUnits, NEW t \in Recent, Reserve(r, units, t)
      PROVE  LoanInv'
  <2>1. units \in Nat /\ TRUE \in BOOLEAN
    BY BoundAssumption
  <2>2. KeepsDebts(quota, ReserveCall(quota, r, units, t))
    BY <1>1, <1>2, <2>1, OtherCallsKeepDebts
  <2>3. Apply(ReserveCall(quota, r, units, t))
    BY <1>3 DEF Reserve
  <2> QED BY <1>1, <2>2, <2>3, KeepsDebtsStep
<1>4. ASSUME NEW r \in Ref, NEW units \in 1..MaxUnits, NEW reclaim \in BOOLEAN,
             NEW t \in Recent, DebitUnits(r, units, reclaim, t)
      PROVE  LoanInv'
  <2>1. units \in Nat
    BY BoundAssumption
  <2>2. KeepsDebts(quota, DebitCall(quota, r, units, reclaim, t))
    BY <1>1, <1>2, <2>1, OtherCallsKeepDebts
  <2>3. Apply(DebitCall(quota, r, units, reclaim, t))
    BY <1>4 DEF DebitUnits
  <2> QED BY <1>1, <2>2, <2>3, KeepsDebtsStep
<1>5. ASSUME NEW r \in Ref, NEW t \in Recent, ReleaseUnits(r, t) PROVE LoanInv'
  <2>1. 0 \in Nat /\ TRUE \in BOOLEAN
    OBVIOUS
  <2>2. KeepsDebts(quota, ReleaseCall(quota, r, t))
    BY <1>1, <1>2, <2>1, OtherCallsKeepDebts
  <2>3. Apply(ReleaseCall(quota, r, t))
    BY <1>5 DEF ReleaseUnits
  <2> QED BY <1>1, <2>2, <2>3, KeepsDebtsStep
<1>6. ASSUME NEW c \in Counter, NEW t \in Recent, Provision(c, t) PROVE LoanInv'
  <2>1. \/ KeepsDebts(quota, ProvisionCall(quota, c, t))
        \/ Provisions(quota, c, ProvisionCall(quota, c, t))
    BY <1>1, <1>2, ProvisionCallDebts
  <2>2. Apply(ProvisionCall(quota, c, t))
    BY <1>6 DEF Provision
  <2> QED BY <1>1, <2>1, <2>2, KeepsDebtsStep, ProvisionsStep
<1>7. ASSUME NEW t \in Recent, ProcessExpired(t) PROVE LoanInv'
  <2>1. KeepsDebts(quota, ExpireCall(quota, t))
    BY <1>1, <1>2, ExpireCallKeepsDebts
  <2>2. Apply(ExpireCall(quota, t))
    BY <1>7 DEF ProcessExpired
  <2> QED BY <1>1, <2>1, <2>2, KeepsDebtsStep
<1>8. ASSUME UNCHANGED <<quota, journal>> PROVE LoanInv'
  BY <1>1, <1>8 DEF LoanInv, Orderly, Placed, Debts, Size, Lent, LentOn, OwedOrRepaid
<1> QED BY <1>3, <1>4, <1>5, <1>6, <1>7, <1>8 DEF Next, Tick, vars

\* A loan that was paid down owes no fee: the fee is taken first, whatever the
\* terms, the order of the calls and the loans that share the repayment.
THEOREM FeePaidFirst == Spec => []FeeBeforeLoan
<1>1. LoanInv => FeeBeforeLoan
  BY DEF LoanInv, Orderly, Debts, FeeBeforeLoan
<1> QED BY <1>1, InitLoanInv, NextLoanInv, PTL DEF Spec

\* Everything that was lent is still owed or was repaid, when no loan is one of
\* nothing.
THEOREM LoansAccounted ==
  ASSUME LoansLend
  PROVE  Spec => []LoansAccountedFor
<1>1. LoanInv => LoansAccountedFor
  <2> SUFFICES ASSUME LoanInv PROVE LoansAccountedFor
    OBVIOUS
  <2>1. Total(Lent(journal), NumCounters) = Total(OwedOrRepaid(quota, journal), NumCounters)
    BY DEF LoanInv
  <2> QED BY <2>1 DEF LoansAccountedFor, Lent, LentOn, OwedOrRepaid
<1> QED BY <1>1, InitLoanInv, NextLoanInv, PTL DEF Spec

\* The loans are paid oldest first, when every loan lends and takes something.
THEOREM LoansOldestFirst ==
  ASSUME LoansLend, LoansTake
  PROVE  Spec => OldestLoanFirst
<1> DEFINE A == \A c, d \in Counter :
                  /\ quota[c].loan > 0 /\ quota[d].loan > 0
                  /\ quota[c].position < quota[d].position
                  /\ Owed(d)' < Owed(d)
                  => Owed(c)' < Owed(c)
<1>1. LoanInv /\ [Next]_vars => [A]_vars
  <2> SUFFICES ASSUME LoanInv, [Next]_vars, NEW c \in Counter, NEW d \in Counter,
                      quota[c].loan > 0, quota[d].loan > 0,
                      quota[c].position < quota[d].position, Owed(d)' < Owed(d)
               PROVE  Owed(c)' < Owed(c)
    OBVIOUS
  <2>1. IInv' /\ quota \in SoundDocument /\ Orderly(quota) /\ now \in 0..MaxTime
    BY NextIInv DEF LoanInv, IInv
  <2>2. \A t \in Recent : t \in Nat
    BY <2>1, BoundAssumption DEF Recent
  <2>3. \A b \in Counter : /\ quota[b].loan \in Nat /\ quota[b].fee \in Nat
                           /\ quota'[b].loan \in Nat /\ quota'[b].fee \in Nat
    BY <2>1, StateFields DEF IInv, SoundDocument, Sound
  <2>4. \A call : ~(KeepsDebts(quota, call) /\ Apply(call))
    <3> SUFFICES ASSUME NEW call, KeepsDebts(quota, call), Apply(call) PROVE FALSE
      OBVIOUS
    <3>1. quota'[d].loan = quota[d].loan /\ quota'[d].fee = quota[d].fee
      BY DEF KeepsDebts, SameOwed, Apply
    <3>2. PICK l \in Nat, f \in Nat : l = quota[d].loan /\ f = quota[d].fee
      BY <2>3
    <3>3. Owed(d)' = l + f /\ Owed(d) = l + f
      BY <3>1, <3>2 DEF Owed
    <3> QED BY <3>3
  <2>5. ~ UNCHANGED quota
    <3>1. UNCHANGED quota => Owed(d)' = Owed(d)
      BY DEF Owed
    <3>2. Owed(d) \in Nat
      BY <2>3 DEF Owed
    <3> QED BY <3>1, <3>2
  <2>6. ASSUME NEW b \in Counter, NEW call, Provisions(quota, b, call), Apply(call)
        PROVE  Owed(c)' < Owed(c)
    <3>1. PICK share \in [Counter -> Nat] :
            /\ \A e \in Counter : e # b =>
                 call.doc[e].loan + call.doc[e].fee = quota[e].loan + quota[e].fee - share[e]
            /\ quota[b].loan = 0
            /\ OldestFirst(quota, share)
      BY <2>6 DEF Provisions
    <3>2. c # b /\ d # b /\ quota' = call.doc
      BY <2>6, <3>1 DEF Apply
    <3>3. /\ Owed(c) \in Nat /\ Owed(d) \in Nat /\ share[c] \in Nat /\ share[d] \in Nat
          /\ Owed(c)' = Owed(c) - share[c] /\ Owed(d)' = Owed(d) - share[d]
      BY <2>3, <3>1, <3>2 DEF Owed
    <3>4. share[d] > 0
      BY <3>3
    <3>5. share[c] > 0
      BY <3>1, <3>4 DEF OldestFirst
    <3> QED BY <3>3, <3>5
  <2>7. ASSUME NEW r \in Ref, NEW units \in 0..MaxUnits, NEW t \in Recent, Reserve(r, units, t)
        PROVE  FALSE
    <3>1. units \in Nat /\ TRUE \in BOOLEAN
      BY BoundAssumption
    <3>2. KeepsDebts(quota, ReserveCall(quota, r, units, t))
      BY <2>1, <2>2, <3>1, OtherCallsKeepDebts
    <3> QED BY <2>4, <2>7, <3>2 DEF Reserve
  <2>8. ASSUME NEW r \in Ref, NEW units \in 1..MaxUnits, NEW reclaim \in BOOLEAN,
               NEW t \in Recent, DebitUnits(r, units, reclaim, t)
        PROVE  FALSE
    <3>1. units \in Nat
      BY BoundAssumption
    <3>2. KeepsDebts(quota, DebitCall(quota, r, units, reclaim, t))
      BY <2>1, <2>2, <3>1, OtherCallsKeepDebts
    <3> QED BY <2>4, <2>8, <3>2 DEF DebitUnits
  <2>9. ASSUME NEW r \in Ref, NEW t \in Recent, ReleaseUnits(r, t) PROVE FALSE
    <3>1. 0 \in Nat /\ TRUE \in BOOLEAN
      OBVIOUS
    <3>2. KeepsDebts(quota, ReleaseCall(quota, r, t))
      BY <2>1, <2>2, <3>1, OtherCallsKeepDebts
    <3> QED BY <2>4, <2>9, <3>2 DEF ReleaseUnits
  <2>10. ASSUME NEW b \in Counter, NEW t \in Recent, Provision(b, t)
         PROVE  Owed(c)' < Owed(c)
    <3>1. \/ KeepsDebts(quota, ProvisionCall(quota, b, t))
          \/ Provisions(quota, b, ProvisionCall(quota, b, t))
      BY <2>1, <2>2, ProvisionCallDebts
    <3>2. Apply(ProvisionCall(quota, b, t))
      BY <2>10 DEF Provision
    <3> QED BY <2>4, <2>6, <3>1, <3>2
  <2>11. ASSUME NEW t \in Recent, ProcessExpired(t) PROVE FALSE
    <3>1. KeepsDebts(quota, ExpireCall(quota, t))
      BY <2>1, <2>2, ExpireCallKeepsDebts
    <3> QED BY <2>4, <2>11, <3>1 DEF ProcessExpired
  <2> QED BY <2>5, <2>7, <2>8, <2>9, <2>10, <2>11 DEF Next, Tick, vars
<1> QED BY <1>1, InitLoanInv, NextLoanInv, PTL DEF Spec, OldestLoanFirst

-----------------------------------------------------------------------------
\* A grant is what the engine hands out for a reservation.
LEMMA GrantIsPromise == Grant = Promise
BY DEF Grant, Promise

-----------------------------------------------------------------------------
\* The inductive invariant: the ledger's, that nothing is reserved under an id
\* that was not drawn, and that what is left of a grant is backed while it is
\* valid.  The property itself is not inductive: it speaks of debits made now,
\* and says nothing of what a reservation is worth after one of them.
GrantsInv ==
  /\ IInv
  /\ granted \in [Ref -> Grant]
  /\ \A r \in Ref : r \notin drawn => Unheld(quota, r) /\ granted[r] = NoGrant
  /\ \A r \in Ref :
       Plain(r) /\ granted[r].units > 0 /\ granted[r].until > now
         => Backed(quota, r, granted[r])

\* At first no id is drawn and nothing reserved.
LEMMA InitGrantsInv == GrantsInit => GrantsInv
<1> SUFFICES ASSUME GrantsInit PROVE GrantsInv
  OBVIOUS
<1>1. IInv
  BY InitIInv DEF GrantsInit
<1>2. NoGrant \in Grant /\ NoGrant.units = 0
  BY DEF NoGrant, Grant
<1>3. granted \in [Ref -> Grant] /\ \A r \in Ref : granted[r] = NoGrant
  BY <1>2 DEF GrantsInit
<1>4. \A r \in Ref : Unheld(quota, r)
  BY DEF GrantsInit, Init, EmptyDocument, Absent, Unreserved, NoReservation, Unheld, Amount
<1> QED BY <1>1, <1>2, <1>3, <1>4 DEF GrantsInv

\* A step that keeps every grant but that of r leaves the others backed.
LEMMA OthersKept ==
  ASSUME GrantsInv, NEW q \in Ref, NEW t \in Recent, NEW doc,
         KeepsGrant(quota, doc, q, t)
  PROVE  /\ q \notin drawn => Unheld(doc, q) /\ granted[q] = NoGrant
         /\ Plain(q) /\ granted[q].units > 0 /\ granted[q].until > now
              => Backed(doc, q, granted[q])
<1>1. granted[q] \in Grant /\ now \in Nat /\ t \in Nat /\ t <= now
  BY BoundAssumption DEF GrantsInv, IInv, Recent
<1>2. granted[q].until > now => granted[q].until > t
  BY <1>1 DEF Grant
<1> QED BY <1>1, <1>2, GrantIsPromise DEF GrantsInv, KeepsGrant

\* Every call and every tick preserves the inductive invariant.
LEMMA NextGrantsInv == GrantsInv /\ [GrantsNext]_grantVars => GrantsInv'
<1> SUFFICES ASSUME GrantsInv, [GrantsNext]_grantVars PROVE GrantsInv'
  OBVIOUS
<1>1. /\ IInv /\ quota \in SoundDocument /\ now \in Nat /\ drawn \in SUBSET Ref
      /\ granted \in [Ref -> Grant]
  BY BoundAssumption DEF GrantsInv, IInv
<1>2. ASSUME NEW t \in Recent PROVE t \in Nat /\ t <= now
  BY <1>1 DEF Recent
<1>3. NoGrant \in Grant /\ NoGrant.units = 0
  BY DEF NoGrant, Grant
<1>4. ASSUME NEW r \in Ref, NEW units \in 0..MaxUnits, NEW t \in Recent,
             ReserveGrant(r, units, t)
      PROVE  GrantsInv'
  <2> DEFINE call == ReserveCall(quota, r, units, t)
             grant == [units |-> call.answer, until |-> t + Validity]
  <2>1. /\ r \notin drawn /\ drawn' = drawn \union {r} /\ quota' = call.doc /\ now' = now
        /\ granted' = [granted EXCEPT ![r] = grant]
    BY <1>4 DEF ReserveGrant, Reserve, Apply
  <2>2. IInv'
    BY <1>1, <1>4, NextIInv DEF ReserveGrant, Next
  <2>3. units \in Nat /\ t \in Nat /\ t <= now
    BY <1>2, BoundAssumption
  <2>4. /\ grant \in Grant
        /\ Plain(r) /\ Unheld(quota, r) /\ t + Validity > t => Backed(call.doc, r, grant)
    BY <1>1, <2>3, ReserveCallBacked, GrantIsPromise
  <2>5. ASSUME NEW q \in Ref, q # r PROVE KeepsGrant(quota, call.doc, q, t)
    BY <1>1, <2>3, <2>5, CallsKeepOthers
  <2>6. Unheld(quota, r)
    BY <2>1 DEF GrantsInv
  <2>7. grant.until = t + Validity /\ t + Validity \in Nat
    BY <2>3, ValidityAssumption
  <2> HIDE DEF call, grant
  <2>8. granted' \in [Ref -> Grant] /\ granted'[r] = grant /\ r \in drawn'
        /\ \A q \in Ref : q # r => granted'[q] = granted[q] /\ (q \in drawn' => q \in drawn)
    BY <1>1, <2>1, <2>4
  <2>9. ASSUME NEW q \in Ref
        PROVE  /\ q \notin drawn' => Unheld(quota', q) /\ granted'[q] = NoGrant
               /\ Plain(q) /\ granted'[q].units > 0 /\ granted'[q].until > now'
                    => Backed(quota', q, granted'[q])
    <3>1. CASE q = r
      <4>1. grant.until > now => t + Validity > t
        BY <1>1, <2>3, <2>7
      <4> QED BY <2>1, <2>4, <2>6, <2>8, <3>1, <4>1
    <3>2. CASE q # r
      <4>1. /\ q \notin drawn => Unheld(call.doc, q) /\ granted[q] = NoGrant
            /\ Plain(q) /\ granted[q].units > 0 /\ granted[q].until > now
                 => Backed(call.doc, q, granted[q])
        BY <2>5, <3>2, OthersKept
      <4>2. q \notin drawn' => q \notin drawn
        BY <2>1
      <4> QED BY <2>1, <2>8, <3>2, <4>1, <4>2
    <3> QED BY <3>1, <3>2
  <2> QED BY <2>2, <2>8, <2>9 DEF GrantsInv
<1>5. ASSUME NEW r \in Ref, NEW used \in 1..MaxUnits, NEW reclaim \in BOOLEAN,
             NEW t \in Recent, UseGrant(r, used, reclaim, t)
      PROVE  GrantsInv'
  <2> DEFINE call == DebitCall(quota, r, used, reclaim, t)
             rest == [granted[r] EXCEPT !.units = @ - used]
             over == reclaim \/ used = granted[r].units
  <2>1. /\ r \in drawn /\ drawn' = drawn /\ quota' = call.doc /\ now' = now
        /\ granted[r].until > t /\ used <= granted[r].units
        /\ granted' = [granted EXCEPT ![r] = IF over THEN NoGrant ELSE rest]
    <3>1. rest = [units |-> granted[r].units - used, until |-> granted[r].until]
      <4>1. granted[r] \in Grant
        BY <1>1
      <4> QED BY <4>1 DEF Grant
    <3>2. granted' = [granted EXCEPT ![r] =
                        IF over THEN NoGrant
                        ELSE [units |-> granted[r].units - used, until |-> granted[r].until]]
      BY <1>5, Zenon DEF UseGrant
    <3> HIDE DEF over, rest
    <3> QED BY <1>5, <3>1, <3>2 DEF UseGrant, Valid, DebitUnits, Apply
  <2>2. IInv'
    BY <1>1, <1>5, NextIInv DEF UseGrant, Next
  <2>3. /\ used \in Nat /\ used > 0 /\ t \in Nat /\ t <= now
        /\ granted[r].units \in Nat /\ granted[r].until \in Nat /\ granted[r] \in Grant
    BY <1>1, <1>2, BoundAssumption DEF Grant
  <2>4. rest \in Grant /\ rest.until = granted[r].until /\ used \in 1..granted[r].units
    BY <2>1, <2>3 DEF Grant
  <2>5. ASSUME NEW q \in Ref, q # r PROVE KeepsGrant(quota, call.doc, q, t)
    BY <1>1, <2>3, <2>5, CallsKeepOthers
  <2>6. ASSUME ~over, Plain(r), granted[r].until > now PROVE Backed(call.doc, r, rest)
    <3>1. reclaim = FALSE
      BY <2>6
    <3>2. Backed(quota, r, granted[r])
      BY <2>1, <2>3, <2>6 DEF GrantsInv
    <3>3. Backed(DebitCall(quota, r, used, FALSE, t).doc, r, rest)
      BY <1>1, <2>1, <2>3, <2>4, <2>6, <3>2, DebitCallBacked, GrantIsPromise
    <3> QED BY <3>1, <3>3
  <2> HIDE DEF call, rest, over
  <2>7. granted' \in [Ref -> Grant] /\ granted'[r] = (IF over THEN NoGrant ELSE rest)
        /\ \A q \in Ref : q # r => granted'[q] = granted[q]
    BY <1>1, <1>3, <2>1, <2>4
  <2>8. ASSUME NEW q \in Ref
        PROVE  /\ q \notin drawn' => Unheld(quota', q) /\ granted'[q] = NoGrant
               /\ Plain(q) /\ granted'[q].units > 0 /\ granted'[q].until > now'
                    => Backed(quota', q, granted'[q])
    <3>1. CASE q = r
      <4>1. CASE over
        BY <1>3, <2>1, <2>7, <3>1, <4>1
      <4>2. CASE ~over
        BY <2>1, <2>4, <2>6, <2>7, <3>1, <4>2
      <4> QED BY <4>1, <4>2
    <3>2. CASE q # r
      <4>1. /\ q \notin drawn => Unheld(call.doc, q) /\ granted[q] = NoGrant
            /\ Plain(q) /\ granted[q].units > 0 /\ granted[q].until > now
                 => Backed(call.doc, q, granted[q])
        BY <2>5, <3>2, OthersKept
      <4> QED BY <2>1, <2>7, <3>2, <4>1
    <3> QED BY <3>1, <3>2
  <2> QED BY <2>2, <2>7, <2>8 DEF GrantsInv
<1>6. ASSUME NEW r \in Ref, NEW t \in Recent, GiveBack(r, t)
      PROVE  GrantsInv'
  <2> DEFINE call == ReleaseCall(quota, r, t)
  <2>1. /\ r \in drawn /\ drawn' = drawn /\ quota' = call.doc /\ now' = now
        /\ granted' = [granted EXCEPT ![r] = NoGrant]
    BY <1>6 DEF GiveBack, ReleaseUnits, Apply
  <2>2. IInv'
    BY <1>1, <1>6, NextIInv DEF GiveBack, Next
  <2>3. ASSUME NEW q \in Ref, q # r PROVE KeepsGrant(quota, call.doc, q, t)
    BY <1>1, <1>2, <2>3, CallsKeepOthers
  <2> HIDE DEF call
  <2>4. granted' \in [Ref -> Grant] /\ granted'[r] = NoGrant
        /\ \A q \in Ref : q # r => granted'[q] = granted[q]
    BY <1>1, <1>3, <2>1
  <2>5. ASSUME NEW q \in Ref
        PROVE  /\ q \notin drawn' => Unheld(quota', q) /\ granted'[q] = NoGrant
               /\ Plain(q) /\ granted'[q].units > 0 /\ granted'[q].until > now'
                    => Backed(quota', q, granted'[q])
    <3>1. CASE q = r
      BY <1>3, <2>1, <2>4, <3>1
    <3>2. CASE q # r
      <4>1. /\ q \notin drawn => Unheld(call.doc, q) /\ granted[q] = NoGrant
            /\ Plain(q) /\ granted[q].units > 0 /\ granted[q].until > now
                 => Backed(call.doc, q, granted[q])
        BY <2>3, <3>2, OthersKept
      <4> QED BY <2>1, <2>4, <3>2, <4>1
    <3> QED BY <3>1, <3>2
  <2> QED BY <2>2, <2>4, <2>5 DEF GrantsInv
\* Provisioning and expiry keep all grants.
<1>7. ASSUME NEW t \in Recent, NEW doc, quota' = doc, drawn' = drawn, now' = now,
             granted' = granted, IInv',
             \A q \in Ref : KeepsGrant(quota, doc, q, t)
      PROVE  GrantsInv'
  <2>1. \A q \in Ref :
          /\ q \notin drawn => Unheld(doc, q) /\ granted[q] = NoGrant
          /\ Plain(q) /\ granted[q].units > 0 /\ granted[q].until > now
               => Backed(doc, q, granted[q])
    BY <1>7, OthersKept
  <2> QED BY <1>1, <1>7, <2>1 DEF GrantsInv
<1>8. ASSUME NEW c \in Counter, NEW t \in Recent, Provision(c, t), UNCHANGED granted
      PROVE  GrantsInv'
  <2>1. \A q \in Ref : KeepsGrant(quota, ProvisionCall(quota, c, t).doc, q, t)
    BY <1>1, <1>2, CallsKeepOthers
  <2>2. IInv'
    BY <1>1, <1>8, NextIInv DEF Next
  <2> QED BY <1>7, <1>8, <2>1, <2>2 DEF Provision, Apply
<1>9. ASSUME NEW t \in Recent, ProcessExpired(t), UNCHANGED granted
      PROVE  GrantsInv'
  <2>1. \A q \in Ref : KeepsGrant(quota, ExpireCall(quota, t).doc, q, t)
    BY <1>1, <1>2, CallsKeepOthers
  <2>2. IInv'
    BY <1>1, <1>9, NextIInv DEF Next
  <2> QED BY <1>7, <1>9, <2>1, <2>2 DEF ProcessExpired, Apply
<1>10. ASSUME Tick, UNCHANGED granted PROVE GrantsInv'
  <2>1. IInv' /\ now' = now + 1 /\ quota' = quota /\ drawn' = drawn
    BY <1>1, <1>10, NextIInv DEF Next, Tick
  <2>2. \A r \in Ref : granted[r].until > now + 1 => granted[r].until > now
    BY <1>1 DEF Grant
  <2> QED BY <1>1, <1>10, <2>1, <2>2 DEF GrantsInv
<1>11. ASSUME UNCHANGED grantVars PROVE GrantsInv'
  <2>1. IInv'
    BY <1>1, <1>11, NextIInv DEF grantVars
  <2> QED BY <1>11, <2>1 DEF grantVars, vars, GrantsInv
<1> QED BY <1>4, <1>5, <1>6, <1>8, <1>9, <1>10, <1>11 DEF GrantsNext, ManagerStep

\* What is granted is a whole number of units until a whole time, never
\* negative: no more is taken from a grant than it has.
THEOREM GrantsTypeCorrect == GrantsSpec => []GrantsTypeOK
<1>1. GrantsInv => GrantsTypeOK
  BY DEF GrantsInv, GrantsTypeOK
<1> QED BY <1>1, InitGrantsInv, NextGrantsInv, PTL DEF GrantsSpec

\* Nothing that is used within a valid grant of a plain tariff goes unpaid,
\* whatever other grants, expiries and provisioning come in between.
THEOREM GrantsPaid == GrantsSpec => []UseWithinGrantIsPaid
<1>1. ASSUME GrantsInv PROVE UseWithinGrantIsPaid
  <2> SUFFICES ASSUME NEW r \in Ref, Plain(r), NEW used \in Usable(r)
               PROVE  DebitCall(quota, r, used, FALSE, now).answer = 0
    BY DEF UseWithinGrantIsPaid
  <2>1. quota \in SoundDocument /\ now \in Nat /\ granted[r] \in Grant
    BY <1>1, BoundAssumption DEF GrantsInv, IInv
  <2>2. granted[r].until > now /\ used \in 1..granted[r].units
    BY DEF Usable, Valid
  <2>3. granted[r].units > 0
    BY <2>1, <2>2 DEF Grant
  <2>4. Backed(quota, r, granted[r])
    BY <1>1, <2>2, <2>3 DEF GrantsInv
  <2> QED BY <2>1, <2>2, <2>4, DebitCallBacked, GrantIsPromise
<1> QED BY <1>1, InitGrantsInv, NextGrantsInv, PTL DEF GrantsSpec

\* The engine uses the quota as the ledger lets it, so the quota keeps under
\* grants what it keeps under any calls.
THEOREM GrantsKeepLedger == GrantsSpec => [](NoOverReservation /\ JournalBalances)
<1>1. GrantsInv => NoOverReservation /\ JournalBalances
  BY IInvImplies DEF GrantsInv
<1> QED BY <1>1, InitGrantsInv, NextGrantsInv, PTL DEF GrantsSpec

=============================================================================
