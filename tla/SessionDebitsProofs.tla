-------------------------- MODULE SessionDebitsProofs --------------------------
(***************************************************************************)
(* The charging engine's handlers debit a grant within what is left of it  *)
(* and while it is valid, while the requests of a session follow one       *)
(* another and report what they were granted once.  The invariant follows  *)
(* the book of what is left of each grant: it covers the debits a handler  *)
(* has planned and the reports it still comes to, and agrees with the      *)
(* record for the handler that reads it next.  With it, every step of the  *)
(* handlers is a step of QuotaGrants or none, and what the book still      *)
(* grants is backed by reservations, so that debits are paid.              *)
(***************************************************************************)
EXTENDS SessionProofs

-----------------------------------------------------------------------------
\* The requests that account on the record of their session.
Reporting == {"update", "release"}

\* The sums of the first k elements of f, for every k up to n.
Sums(f, n) == Loop(n, 0, [k \in 1..n |-> [sum \in Int |-> sum + f[k]]])

\* What the first containers of a usage take from a grant of its group, and what
\* the first usages of request q take from one of the group.
UsageTakes(usage) ==
  Sums([i \in DOMAIN usage.used |->
          IF usage.used[i].units = 0 THEN 0 ELSE Taken(usage.group, usage.used[i].units)],
       Len(usage.used))

Takes(q, group) ==
  Sums([i \in DOMAIN Requests[q].usage |->
          LET usage == Requests[q].usage[i]
          IN  IF usage.group = group THEN UsageTakes(usage)[Len(usage.used)] ELSE 0],
       Len(Requests[q].usage))

Reports(q, group) == Takes(q, group)[Len(Requests[q].usage)]

\* What request q still takes after its first n usages.
Ahead(q, group, n) == Reports(q, group) - Takes(q, group)[n]

AheadOf(q, n) == [group \in Group |-> Ahead(q, group, n)]

\* The rest of the group's grants is given back with the report.
GivesBack(q, group) ==
  \E i \in DOMAIN Requests[q].usage :
    LET usage == Requests[q].usage[i]
    IN  /\ usage.group = group
        /\ \E j \in DOMAIN usage.used : usage.used[j].reclaim /\ usage.used[j].units > 0

NoneAhead == [group \in Group |-> 0]

\* The requests that have accounted on the record of session s since its number
\* was n, and what they reported of a group.
Since(s, n) ==
  {p \in Request : /\ Requests[p].session = s /\ ~Requests[p].resent
                   /\ Kind(p) \in Reporting /\ Requests[p].seq > n
                   /\ pc[p] \notin {"idle", "load"}}

SpentBy(P, group) ==
  Total([p \in Request |-> IF p \in P THEN Reports(p, group) ELSE 0], NumRequests)

Spent(s, n, group) == SpentBy(Since(s, n), group)

\* The requests of a session follow one another.
InSequence ==
  \A p, q \in Request :
    /\ p # q /\ Requests[p].session = Requests[q].session
    /\ ~Requests[p].resent /\ ~Requests[q].resent
    => p \in Follows[q] \/ q \in Follows[p]

\* A network element uses what it was granted once: when a request arrives and
\* others have reported on the same record, which they did not get to replace,
\* then all their reports are within each grant that is still valid, and none of
\* them gave the grant back.
ReportsWithinGrants ==
  \A q \in Request :
    LET row == Row(q)
    IN  pc[q] = "load" /\ Kind(q) \in Reporting /\ row.there =>
          \A group \in Group \ Free : \A i \in DOMAIN row.grants[group] :
            LET grant == row.grants[group][i]
            IN  /\ grant.until > ctx[q].at /\ Reports(q, group) > 0
                /\ Spent(Requests[q].session, row.seq, group) > 0
                => /\ Spent(Requests[q].session, row.seq, group) + Reports(q, group)
                        <= grant.units
                   /\ \A p \in Since(Requests[q].session, row.seq) : ~GivesBack(p, group)

-----------------------------------------------------------------------------
Ended == {"answered", "failed", "crashed"}

Active == Steps \union {"cleanup"}

\* What is left of a grant.
Left == [units : Nat, until : Nat]

\* What a debit leaves of it.
Debited(left, reclaim, units) ==
  IF reclaim \/ units = left.units
    THEN NoGrant ELSE [units |-> left.units - units, until |-> left.until]

\* The course of the book while the debits of todo are made by a handler that
\* began at t: each is within what the ones before it left.
Course(f, todo, t) ==
  /\ f \in [0..Len(todo) -> [Ref -> Left]]
  /\ \A k \in 1..Len(todo) :
       LET debit == todo[k]
       IN  /\ debit.ref \in Ref
           /\ f[k - 1][debit.ref].until > t /\ debit.units <= f[k - 1][debit.ref].units
           /\ f[k] = [f[k - 1] EXCEPT ![debit.ref] = Debited(@, debit.reclaim, debit.units)]

\* No two grants of a group, or of two groups, have the same id.
Distinct(grants) ==
  \A g, h \in Group \ Free : \A i \in DOMAIN grants[g], j \in DOMAIN grants[h] :
    grants[g][i].ref = grants[h][j].ref => g = h /\ i = j

\* Grants that were made by request q have its ids.
OwnSeq(q, grants) ==
  \A group \in Group \ Free : \A i \in DOMAIN grants[group] :
    grants[group][i].seq = Requests[q].seq => grants[group][i].ref \in Mine(q)

\* Grants that were made by requests of the number n.
Numbered(grants, n) ==
  \A group \in Group \ Free : \A i \in DOMAIN grants[group] : grants[group][i].seq = n

\* Grants nobody has used yet.
Unused(grants) ==
  /\ Distinct(grants)
  /\ \A group \in Group \ Free : \A i \in DOMAIN grants[group] :
       book[grants[group][i].ref] = Worth(grants[group][i])

\* The book left covers what request q can still charge to the grants that are
\* valid at t, if it has come to usage n.
Suffices(q, grants, t, n, left) ==
  \A group \in Group \ Free : \A i \in DOMAIN grants[group] :
    LET grant == grants[group][i]
    IN  grant.until > t =>
          /\ left[grant.ref].units >= Least(grant.units, Ahead(q, group, n))
          /\ left[grant.ref].units > 0 => left[grant.ref].until = grant.until

\* The book left agrees with the record of session s, but for what was reported
\* since; ahead is what is left of a report.
Agrees(s, left, ahead) ==
  LET row == records[s]
  IN  \A group \in Group \ Free : \A i \in DOMAIN row.grants[group] :
        LET grant == row.grants[group][i]
        IN  /\ left[grant.ref].units > 0 => left[grant.ref].until = grant.until
            /\ \/ \E p \in Since(s, row.seq) : GivesBack(p, group)
               \/ left[grant.ref].units + Spent(s, row.seq, group)
                     >= grant.units + ahead[group]

\* The ids of grants were taken from the record of session s.
FromRecord(s, grants) ==
  \A group \in Group \ Free : \A i \in DOMAIN grants[group] :
    \E j \in DOMAIN records[s].grants[group] :
      grants[group][i].ref = records[s].grants[group][j].ref

\* The handler of q, which accounts: its debits are covered, and what they leave
\* covers what it comes to next.
Accounting(q, c) ==
  LET m == Settled(q, c).grants
      s == Requests[q].session
  IN  /\ Distinct(m) /\ OwnSeq(q, m)
      /\ \A i \in DOMAIN c.todo : c.todo[i].units > 0
      /\ \E f \in [0..Len(c.todo) -> [Ref -> Left]] :
           /\ Course(f, c.todo, c.at)
           /\ \A r \in MayHold(q) : f[0][r] = book[r]
           /\ c.fits => Suffices(q, m, c.at, c.done, f[Len(c.todo)])
           /\ Kind(q) \in Reporting /\ records[s].there =>
                /\ records[s].seq < Requests[q].seq
                /\ FromRecord(s, m)
                /\ \A k \in DOMAIN f :
                     Agrees(s, f[k], AheadOf(q, c.done))

\* The handler of q at a place with a context.
Fits(q, place, c) ==
  /\ place \in {"load", "rate"} => c.todo = <<>>
  /\ place \in Steps => OwnSeq(q, c.grants)
  /\ place = "rate" => Unused(c.fresh) /\ Numbered(c.fresh, Requests[q].seq)
  /\ place \in {"save", "trace"} /\ Kind(q) \in Opening =>
       Numbered(c.grants, Requests[q].seq)
  /\ place = "save" /\ Kind(q) \in Opening => Unused(c.grants)
  /\ place = "account" => Accounting(q, c)
  /\ place = "cleanup" => c.due \in Seq(Mine(q) \union {NoRef})

HandlerFits(q) == Fits(q, pc[q], ctx[q])

\* Nobody accounts on the record of session s.
NotAccounting(s) ==
  \A p \in Request :
    Requests[p].session = s /\ Kind(p) \in Reporting => pc[p] # "account"

\* The record of session s: who wrote it, and what the book has of its grants as
\* long as nobody accounts on it.
RecordFits(s) ==
  LET row == records[s]
  IN  row.there =>
        /\ Distinct(row.grants)
        /\ \E p \in Request :
             /\ Requests[p].session = s /\ Requests[p].seq = row.seq
             /\ ~Requests[p].resent /\ pc[p] \in {"trace", "answered", "crashed"}
             /\ row.grants \in GrantsOf(Mine(p))
        /\ Numbered(row.grants, row.seq)
        /\ NotAccounting(s) => Agrees(s, book, NoneAhead)

\* The requests that end before another one is sent have ended.
Sequential ==
  \A q \in Request : \A p \in Follows[q] : pc[q] # "idle" => pc[p] \in Ended

FitInv ==
  /\ \A r \in Ref : book[r] \in Left
  /\ Sequential
  /\ \A q \in Request : HandlerFits(q)
  /\ \A s \in Session : RecordFits(s)

-----------------------------------------------------------------------------
\* The sums grow from 0 to the last one.
LEMMA SumsFact ==
  ASSUME NEW n \in Nat, NEW f \in [1..n -> Nat]
  PROVE  /\ Sums(f, n) \in [0..n -> Nat] /\ Sums(f, n)[0] = 0
         /\ \A k \in 1..n : Sums(f, n)[k] = Sums(f, n)[k - 1] + f[k]
         /\ \A k \in 0..n : Sums(f, n)[k] <= Sums(f, n)[n]
<1>1. PICK body : body = [k \in 1..n |-> [sum \in Int |-> sum + f[k]]]
  OBVIOUS
<1>2. body \in [1..n -> [Int -> Int]]
  BY <1>1
<1>3. PICK p \in [0..n -> Int] :
        /\ p = Sums(f, n) /\ p[0] = 0
        /\ \A k \in 1..n : p[k] = body[k][p[k - 1]]
  <2>1. Sums(f, n) = Loop(n, 0, body)
    BY <1>1 DEF Sums
  <2>2. PICK X, first : X = Int /\ first = 0
    OBVIOUS
  <2>a. first \in X /\ n \in Nat /\ body \in [1..n -> [X -> X]]
    BY <1>2, <2>2
  <2>3. Loop(n, first, body) \in [0..n -> X]
    BY ONLY <2>a, LoopRule
  <2>4. Loop(n, first, body)[0] = first
    BY ONLY <2>a, LoopRule
  <2>5. \A k \in 1..n : Loop(n, first, body)[k] = body[k][Loop(n, first, body)[k - 1]]
    BY ONLY <2>a, LoopRule
  <2> QED BY <2>1, <2>2, <2>3, <2>4, <2>5
<1>4. \A k \in 1..n : p[k] = p[k - 1] + f[k]
  <2>1. ASSUME NEW k \in 1..n PROVE p[k] = p[k - 1] + f[k]
    <3>1. p[k - 1] \in Int /\ p[k] = body[k][p[k - 1]]
      BY <1>3
    <3> QED BY <1>1, <3>1
  <2> QED BY <2>1
<1>5. \A k \in 0..n : p[k] \in Nat /\ \A j \in 0..k : p[j] <= p[k]
  <2> DEFINE S == {k \in 0..n : p[k] \in Nat /\ \A j \in 0..k : p[j] <= p[k]}
  <2>1. 0 \in S
    BY <1>3
  <2>2. ASSUME NEW k \in 1..n, k - 1 \in S PROVE k \in S
    <3>1. p[k] = p[k - 1] + f[k] /\ f[k] \in Nat /\ p[k - 1] \in Nat
      BY <1>4, <2>2
    <3>2. ASSUME NEW j \in 0..k PROVE p[j] <= p[k]
      <4>1. CASE j = k
        BY <3>1, <4>1
      <4>2. CASE j \in 0..(k - 1)
        <5>1. p[j] <= p[k - 1] /\ p[j] \in Int
          BY <2>2, <4>2
        <5> QED BY <3>1, <5>1
      <4> QED BY <4>1, <4>2
    <3> QED BY <3>1, <3>2
  <2>3. \A k \in 0..n : k \in S
    <3> HIDE DEF S
    <3> QED BY <2>1, <2>2, UpTo
  <2> QED BY <2>3
<1>6. p \in [0..n -> Nat] /\ \A k \in 0..n : p[k] <= p[n]
  BY <1>3, <1>5
<1> QED BY <1>3, <1>4, <1>6

\* Rounding does not make a number of units smaller.
LEMMA NormaliseAtLeast ==
  ASSUME NEW group \in Group, NEW units \in Nat
  PROVE  NormaliseUnits(group, units) >= units
<1>1. PICK least \in Nat, step \in Nat :
        least = Greatest(units, Minimum[group]) /\ step = Increment[group] /\ least >= units
  BY SessionAssumption DEF Greatest
<1>2. ASSUME step > 1 PROVE least % step \in Nat /\ least % step <= step
  BY <1>2
<1>3. NormaliseUnits(group, units) =
        IF step <= 1 \/ least % step = 0 THEN least ELSE least + step - (least % step)
  BY <1>1 DEF NormaliseUnits
<1>4. CASE step <= 1 \/ least % step = 0
  BY <1>1, <1>3, <1>4
<1>5. CASE ~(step <= 1 \/ least % step = 0)
  <2>1. PICK over \in Nat : over = least % step /\ over <= step
    BY <1>2, <1>5
  <2> QED BY <1>1, <1>3, <1>5, <2>1
<1> QED BY <1>4, <1>5

\* What the containers of a usage take, one after the other.
LEMMA UsageTakesFact ==
  ASSUME NEW usage, usage.group \in Group, usage.used \in Seq(UsedUnit)
  PROVE  LET n == Len(usage.used)
             p == UsageTakes(usage)
         IN  /\ n \in Nat /\ p \in [0..n -> Nat] /\ p[0] = 0
             /\ \A k \in 1..n :
                  p[k] = p[k - 1] + (IF usage.used[k].units = 0 THEN 0
                                     ELSE Taken(usage.group, usage.used[k].units))
             /\ \A k \in 0..n : p[k] <= p[n]
<1>1. PICK n \in Nat : n = Len(usage.used) /\ DOMAIN usage.used = 1..n
  OBVIOUS
<1>2. PICK f : f = [i \in 1..n |->
          IF usage.used[i].units = 0 THEN 0 ELSE Taken(usage.group, usage.used[i].units)]
  OBVIOUS
<1>3. ASSUME NEW i \in 1..n
      PROVE  (IF usage.used[i].units = 0 THEN 0 ELSE Taken(usage.group, usage.used[i].units))
               \in Nat
  <2>1. usage.used[i] \in UsedUnit
    BY <1>1
  <2> QED BY <2>1, NormaliseNat DEF UsedUnit
<1>4. f \in [1..n -> Nat]
  BY <1>2, <1>3
<1>5. UsageTakes(usage) = Sums(f, n)
  BY <1>1, <1>2 DEF UsageTakes
<1>6. PICK p : p = Sums(f, n)
  OBVIOUS
<1>7. /\ p \in [0..n -> Nat] /\ p[0] = 0
      /\ \A k \in 1..n : p[k] = p[k - 1] + f[k]
      /\ \A k \in 0..n : p[k] <= p[n]
  BY <1>4, <1>6, SumsFact
<1> QED BY <1>1, <1>2, <1>5, <1>6, <1>7

\* What a usage takes from a grant of the group.
Part(q, group, n) ==
  LET usage == Requests[q].usage[n]
  IN  IF usage.group = group THEN UsageTakes(usage)[Len(usage.used)] ELSE 0

\* What is ahead of a handler gets less by what each usage takes.
LEMMA AheadFact ==
  ASSUME NEW q \in Request, NEW group \in Group
  PROVE  LET n == Len(Requests[q].usage)
         IN  /\ Reports(q, group) \in Nat /\ Ahead(q, group, 0) = Reports(q, group)
             /\ \A k \in 0..n : Ahead(q, group, k) \in Nat
             /\ \A k \in 1..n : /\ Part(q, group, k) \in Nat
                                /\ Part(q, group, k) <= Reports(q, group)
                                /\ Ahead(q, group, k) =
                                     Ahead(q, group, k - 1) - Part(q, group, k)
<1>1. PICK n \in Nat : n = Len(Requests[q].usage) /\ DOMAIN Requests[q].usage = 1..n
  BY RequestFact
<1>2. PICK f : f = [k \in 1..n |-> Part(q, group, k)]
  OBVIOUS
<1>3. ASSUME NEW k \in 1..n PROVE Part(q, group, k) \in Nat
  <2>1. PICK usage : usage = Requests[q].usage[k]
    OBVIOUS
  <2>2. usage.group \in Group /\ usage.used \in Seq(UsedUnit)
    BY <1>1, <2>1, RequestFact
  <2>3. PICK m, p :
          m \in Nat /\ m = Len(usage.used) /\ p = UsageTakes(usage) /\ p \in [0..m -> Nat]
    BY <2>2, UsageTakesFact
  <2>4. p[m] \in Nat
    BY <2>3
  <2> QED BY <2>1, <2>3, <2>4 DEF Part
<1>4. f \in [1..n -> Nat]
  BY <1>2, <1>3
<1>5. PICK p : p = Sums(f, n)
  OBVIOUS
<1>6. /\ p \in [0..n -> Nat] /\ p[0] = 0
      /\ \A k \in 1..n : p[k] = p[k - 1] + f[k]
      /\ \A k \in 0..n : p[k] <= p[n]
  BY <1>4, <1>5, SumsFact
<1>7. Takes(q, group) = p
  BY <1>1, <1>2, <1>5 DEF Takes, Part
<1>8. Reports(q, group) = p[n] /\ \A k \in 0..n : Ahead(q, group, k) = p[n] - p[k]
  BY <1>1, <1>7 DEF Reports, Ahead
<1>9. p[n] \in Nat /\ \A k \in 0..n : p[k] \in Nat
  BY <1>6
<1>10. \A k \in 0..n : p[n] - p[k] \in Nat
  BY <1>6, <1>9
<1>11. ASSUME NEW k \in 1..n
       PROVE  /\ Part(q, group, k) \in Nat /\ Part(q, group, k) <= p[n]
              /\ p[n] - p[k] = (p[n] - p[k - 1]) - Part(q, group, k)
  <2>1. /\ p[k] = p[k - 1] + Part(q, group, k) /\ p[k] <= p[n]
        /\ p[k] \in Nat /\ p[k - 1] \in Nat /\ Part(q, group, k) \in Nat
    BY <1>2, <1>3, <1>6
  <2> QED BY <1>9, <2>1
<1>12. \A k \in 1..n : k \in 0..n /\ k - 1 \in 0..n
  OBVIOUS
<1>13. 0 \in 0..n /\ p[n] - p[0] = p[n]
  BY <1>6, <1>9
<1> QED BY <1>1, <1>8, <1>9, <1>10, <1>11, <1>12, <1>13

\* Who gives a grant back reports something.
LEMMA GivesBackFact ==
  ASSUME NEW q \in Request, NEW group \in Group \ Free, GivesBack(q, group)
  PROVE  Reports(q, group) > 0
<1>1. PICK n \in 1..Len(Requests[q].usage) :
        /\ Requests[q].usage[n].group = group
        /\ \E j \in DOMAIN Requests[q].usage[n].used :
             Requests[q].usage[n].used[j].reclaim /\ Requests[q].usage[n].used[j].units > 0
  <2>1. DOMAIN Requests[q].usage = 1..Len(Requests[q].usage)
    BY RequestFact
  <2> QED BY <2>1 DEF GivesBack
<1>2. PICK usage : usage = Requests[q].usage[n] /\ usage.used \in Seq(UsedUnit)
  BY RequestFact
<1>3. PICK j \in 1..Len(usage.used) : usage.used[j].units > 0
  BY <1>1, <1>2
<1>4. usage.used[j].units \in Nat /\ usage.used[j].units > 0
  <2>1. usage.used[j] \in UsedUnit
    BY <1>2
  <2> QED BY <1>3, <2>1 DEF UsedUnit
<1>5. Taken(group, usage.used[j].units) > 0 /\ Taken(group, usage.used[j].units) \in Nat
  <2>1. PICK units \in Nat : units = usage.used[j].units /\ units > 0
    BY <1>4
  <2>2. Taken(group, units) >= units /\ Taken(group, units) \in Nat
    BY NormaliseAtLeast, NormaliseNat DEF Taken
  <2> QED BY <2>1, <2>2
<1>6. PICK m, p :
        /\ m \in Nat /\ m = Len(usage.used) /\ p = UsageTakes(usage) /\ p \in [0..m -> Nat]
        /\ \A k \in 1..m : p[k] = p[k - 1] + (IF usage.used[k].units = 0 THEN 0
                                              ELSE Taken(group, usage.used[k].units))
        /\ \A k \in 0..m : p[k] <= p[m]
  <2>1. usage.group = group /\ usage.group \in Group /\ usage.used \in Seq(UsedUnit)
    BY <1>1, <1>2
  <2> QED BY ONLY <2>1, UsageTakesFact
<1>7. p[m] \in Nat /\ p[m] > 0
  <2>1. j \in 1..m /\ j - 1 \in 0..m /\ j \in 0..m
    BY <1>6
  <2>2. p[j] = p[j - 1] + Taken(group, usage.used[j].units)
    BY <1>3, <1>4, <1>6, <2>1
  <2>3. p[j - 1] \in Nat /\ p[j] \in Nat /\ p[j] <= p[m] /\ p[m] \in Nat
    <3>1. m \in 0..m
      BY <1>6
    <3> QED BY <1>6, <2>1, <3>1
  <2> QED BY <1>5, <2>2, <2>3
<1>8. Part(q, group, n) = p[m]
  BY <1>1, <1>2, <1>6 DEF Part
<1>9. Part(q, group, n) <= Reports(q, group) /\ Reports(q, group) \in Nat
  BY AheadFact
<1>10. PICK part \in Nat, reports \in Nat : part = p[m] /\ reports = Reports(q, group)
  BY <1>7, <1>9
<1>11. part > 0 /\ part <= reports
  BY <1>7, <1>8, <1>9, <1>10
<1> QED BY <1>10, <1>11

\* What some requests reported: a number, no less than what one of them did, and
\* more with one more of them.
LEMMA SpentFact ==
  ASSUME NEW P, NEW group \in Group
  PROVE  /\ SpentBy(P, group) \in Nat
         /\ \A p \in Request : p \in P => Reports(p, group) <= SpentBy(P, group)
         /\ \A T : P \subseteq T => SpentBy(P, group) <= SpentBy(T, group)
         /\ \A q \in Request : q \notin P =>
              SpentBy(P \union {q}, group) = SpentBy(P, group) + Reports(q, group)
<1> DEFINE f(T) == [p \in Request |-> IF p \in T THEN Reports(p, group) ELSE 0]
<1>1. PICK n \in Nat : n = NumRequests /\ Request = 1..n
  BY NumberFact DEF Request
<1>2. \A T : SpentBy(T, group) = Total(f(T), n)
  BY <1>1 DEF SpentBy
<1>3. \A p \in Request : Reports(p, group) \in Nat
  BY AheadFact
<1>4. \A T : f(T) \in [1..n -> Nat]
  BY <1>1, <1>3
<1>5. \A T : f(T) \in [1..n -> Int]
  BY <1>4
<1>6. \A T : \A p \in 1..n : f(T)[p] = IF p \in T THEN Reports(p, group) ELSE 0
  BY <1>1
<1> HIDE DEF f
<1>7. Total(f(P), n) \in Nat /\ \A p \in 1..n : f(P)[p] <= Total(f(P), n)
  BY <1>4, TotalNat
<1>8. \A p \in Request : p \in P => Reports(p, group) <= SpentBy(P, group)
  BY <1>1, <1>2, <1>6, <1>7
<1>9. ASSUME NEW T, P \subseteq T PROVE SpentBy(P, group) <= SpentBy(T, group)
  <2>1. \A p \in 1..n : f(P)[p] <= f(T)[p]
    BY <1>1, <1>3, <1>6, <1>9
  <2>2. Total(f(P), n) <= Total(f(T), n)
    BY <1>5, <2>1, TotalMono
  <2> QED BY <1>2, <2>2
<1>10. ASSUME NEW q \in Request, q \notin P
       PROVE  SpentBy(P \union {q}, group) = SpentBy(P, group) + Reports(q, group)
  <2>1. PICK T : T = P \union {q}
    OBVIOUS
  <2>2. \A p \in 1..n : p # q => f(T)[p] = f(P)[p]
    BY <1>6, <2>1
  <2>3. Total(f(T), n) = Total(f(P), n) - f(P)[q] + f(T)[q]
    BY <1>1, <1>5, <2>2, TotalUpdate
  <2>4. f(P)[q] = 0 /\ f(T)[q] = Reports(q, group)
    BY <1>1, <1>6, <1>10, <2>1
  <2> QED BY <1>2, <1>3, <1>7, <2>1, <2>3, <2>4
<1> QED BY <1>2, <1>7, <1>8, <1>9, <1>10

-----------------------------------------------------------------------------
\* What is chosen keeps its order: element j was at the index h[j].
LEMMA ChosenAt ==
  ASSUME NEW S, NEW s \in Seq(S), NEW I \in SUBSET DOMAIN s
  PROVE  \E h \in [1..Len(Chosen(s, I)) -> I] :
           /\ \A j \in 1..Len(Chosen(s, I)) : Chosen(s, I)[j] = s[h[j]]
           /\ \A i, j \in 1..Len(Chosen(s, I)) : h[i] = h[j] => i = j
<1>0. Len(s) \in Nat /\ DOMAIN s = 1..Len(s)
  OBVIOUS
<1>1. PICK X, n : X = Seq({s[i] : i \in I}) /\ n = Len(s) /\ n \in Nat
  BY <1>0
<1>2. PICK body :
        body = [i \in 1..n |-> [rest \in X |-> IF i \in I THEN Append(rest, s[i]) ELSE rest]]
  OBVIOUS
<1>3. PICK first : first = <<>> /\ first \in X
  <2>1. <<>> \in X
    BY <1>1
  <2> QED BY <2>1
<1>4. body \in [1..n -> [X -> X]]
  <2>1. ASSUME NEW i \in 1..n, NEW rest \in X, i \in I PROVE Append(rest, s[i]) \in X
    BY <1>1, <2>1
  <2> QED BY <1>2, <2>1
<1>5. PICK at \in [0..n -> X] :
        /\ at = Loop(n, first, body) /\ at[0] = first
        /\ \A k \in 1..n : at[k] = body[k][at[k - 1]]
  <2>1. n \in Nat
    BY <1>1
  <2>2. Loop(n, first, body) \in [0..n -> X]
    BY ONLY <1>3, <1>4, <2>1, LoopRule
  <2>3. Loop(n, first, body)[0] = first
    BY ONLY <1>3, <1>4, <2>1, LoopRule
  <2>4. \A k \in 1..n : Loop(n, first, body)[k] = body[k][Loop(n, first, body)[k - 1]]
    BY ONLY <1>3, <1>4, <2>1, LoopRule
  <2> QED BY <2>2, <2>3, <2>4
<1>6. Chosen(s, I) = at[n]
  BY <1>0, <1>1, <1>2, <1>3, <1>5 DEF Chosen
<1> DEFINE Traced(k, h) ==
             /\ h \in [1..Len(at[k]) -> I]
             /\ \A j \in 1..Len(at[k]) : at[k][j] = s[h[j]] /\ h[j] <= k
             /\ \A i, j \in 1..Len(at[k]) : h[i] = h[j] => i = j
           T == {k \in 0..n : \E h : Traced(k, h)}
<1>7. 0 \in T
  <2>1. Len(at[0]) = 0
    BY <1>3, <1>5
  <2>2. PICK h : h = [j \in 1..0 |-> 0]
    OBVIOUS
  <2>3. h \in [1..0 -> I] /\ \A j \in 1..0 : FALSE
    BY <2>2
  <2>4. Traced(0, h)
    BY <2>1, <2>3
  <2> QED BY <1>1, <2>4
<1>8. ASSUME NEW k \in 1..n, k - 1 \in T PROVE k \in T
  <2>1. PICK h : Traced(k - 1, h)
    BY <1>8
  <2>2. PICK rest, L :
          /\ rest = at[k - 1] /\ rest \in X /\ L = Len(rest) /\ L \in Nat
          /\ at[k] = IF k \in I THEN Append(rest, s[k]) ELSE rest
    <3>1. k - 1 \in 0..n
      BY <1>1
    <3>2. at[k - 1] \in X /\ at[k] = body[k][at[k - 1]]
      BY <1>5, <3>1
    <3>3. Len(at[k - 1]) \in Nat
      BY <1>1, <3>2
    <3> QED BY <1>2, <3>2, <3>3
  <2>3. /\ h \in [1..L -> I]
        /\ \A j \in 1..L : rest[j] = s[h[j]] /\ h[j] <= k - 1
        /\ \A i, j \in 1..L : h[i] = h[j] => i = j
    BY <2>1, <2>2
  <2>4. CASE k \notin I
    <3>1. \A j \in 1..L : h[j] <= k
      <4>1. \A j \in 1..L : h[j] \in Int
        BY <1>0, <2>3
      <4> QED BY <2>3, <4>1
    <3>2. at[k] = rest
      BY <2>2, <2>4
    <3>3. Traced(k, h)
      BY <2>2, <2>3, <3>1, <3>2
    <3> QED BY <3>3
  <2>5. CASE k \in I
    <3>1. PICK g : g = [j \in 1..(L + 1) |-> IF j = L + 1 THEN k ELSE h[j]]
      OBVIOUS
    <3>2. /\ Len(at[k]) = L + 1 /\ at[k][L + 1] = s[k]
          /\ \A j \in 1..L : at[k][j] = rest[j]
      BY <1>1, <2>2, <2>5
    <3>3. \A j \in 1..(L + 1) : j = L + 1 \/ j \in 1..L
      BY <2>2
    <3>4. g[L + 1] = k /\ \A j \in 1..L : g[j] = h[j]
      BY <2>2, <3>1
    <3>5. \A j \in 1..L : h[j] \in Int /\ h[j] <= k - 1
      BY <1>0, <2>3
    <3>6. g \in [1..(L + 1) -> I]
      BY <2>3, <2>5, <3>1, <3>3
    <3>7. \A j \in 1..(L + 1) : at[k][j] = s[g[j]] /\ g[j] <= k
      BY <2>3, <3>2, <3>3, <3>4, <3>5
    <3>8. \A i, j \in 1..(L + 1) : g[i] = g[j] => i = j
      <4>1. \A j \in 1..L : g[j] # k
        BY <3>4, <3>5
      <4> QED BY <2>3, <3>3, <3>4, <4>1
    <3>9. Traced(k, g)
      BY <3>2, <3>6, <3>7, <3>8
    <3>10. k \in 0..n
      OBVIOUS
    <3> HIDE DEF Traced
    <3> QED BY ONLY <3>9, <3>10
  <2> QED BY <2>4, <2>5
<1>9. n \in T
  <2>1. \A k \in 0..n : k \in T
    <3> HIDE DEF T
    <3> QED BY <1>1, <1>7, <1>8, UpTo
  <2>2. n \in 0..n
    BY <1>1
  <2> QED BY <2>1, <2>2
<1>10. PICK h : Traced(n, h)
  BY <1>9
<1> QED BY <1>6, <1>10

-----------------------------------------------------------------------------
\* What is left of a grant after a debit it covers.
LEMMA DebitedFact ==
  ASSUME NEW left \in Left, NEW reclaim \in BOOLEAN, NEW units \in Nat, units <= left.units
  PROVE  /\ Debited(left, reclaim, units) \in Left
         /\ ~reclaim => Debited(left, reclaim, units).units = left.units - units
         /\ Debited(left, reclaim, units).units > 0 =>
              /\ Debited(left, reclaim, units).until = left.until
              /\ left.units > 0
<1>1. left.units \in Nat /\ left.until \in Nat /\ left.units - units \in Nat
  BY DEF Left
<1>2. CASE reclaim \/ units = left.units
  BY <1>1, <1>2 DEF Debited, NoGrant, Left
<1>3. CASE ~(reclaim \/ units = left.units)
  BY <1>1, <1>3 DEF Debited, Left
<1> QED BY <1>2, <1>3

\* One debit each of the first i grants.
Debits(b, grants, i, reclaim, units) ==
  [r \in Ref |-> IF \E j \in 1..i : grants[j].ref = r
                   THEN Debited(b[r], reclaim, units) ELSE b[r]]

\* What is left before and after each of n debits.
DebitRun(b, grants, n, reclaim, units) ==
  [i \in 0..n |-> Debits(b, grants, i, reclaim, units)]

\* The first n grants cover a debit each.
Debitable(b, grants, n, units, t) ==
  \A i \in 1..n : b[grants[i].ref].until > t /\ units <= b[grants[i].ref].units

\* Grants with an id each, all of which cover a debit, can be debited one by one.
LEMMA DebitsCourse ==
  ASSUME NEW group, group \notin Free, NEW grants \in Seq(GrantOf(Ref)),
         \A i, j \in DOMAIN grants : grants[i].ref = grants[j].ref => i = j,
         NEW n \in 0..Len(grants), NEW container \in UsedUnit, NEW units \in Nat,
         NEW t \in Nat, NEW b \in [Ref -> Left],
         Debitable(b, grants, n, units, t),
         NEW f, f = DebitRun(b, grants, n, container.reclaim, units),
         NEW todo, todo = Charges(group, grants, n, container, units)
  PROVE  Len(todo) = n /\ Course(f, todo, t) /\ f[0] = b
<1>a. \A i \in 1..n : b[grants[i].ref].until > t /\ units <= b[grants[i].ref].units
  BY DEF Debitable
<1>1. PICK reclaim \in BOOLEAN : reclaim = container.reclaim
  BY DEF UsedUnit
<1>2. f = [i \in 0..n |-> Debits(b, grants, i, reclaim, units)]
  BY <1>1 DEF DebitRun
<1>3. todo = [i \in 1..n |-> [ref |-> grants[i].ref, reclaim |-> reclaim,
                              units |-> units]]
  BY <1>1 DEF Charges
<1>5. n \in Nat /\ n <= Len(grants) /\ Len(grants) \in Nat
  OBVIOUS
<1>6. Len(todo) = n /\ \A i \in 1..n : todo[i] = [ref |-> grants[i].ref, reclaim |-> reclaim,
                                                  units |-> units]
  BY <1>3, <1>5
<1>7. \A i \in 1..n : i \in DOMAIN grants /\ grants[i].ref \in Ref
  <2>1. \A i \in 1..n : i \in DOMAIN grants /\ grants[i] \in GrantOf(Ref)
    BY <1>5
  <2> QED BY <2>1 DEF GrantOf
<1>8. f[0] = b
  <2>1. Debits(b, grants, 0, reclaim, units) = [r \in Ref |-> b[r]]
    BY DEF Debits
  <2> QED BY <1>2, <1>5, <2>1
<1>9. f \in [0..n -> [Ref -> Left]]
  <2>1. ASSUME NEW i \in 0..n PROVE Debits(b, grants, i, reclaim, units) \in [Ref -> Left]
    <3>1. ASSUME NEW r \in Ref, \E j \in 1..i : grants[j].ref = r
          PROVE  Debited(b[r], reclaim, units) \in Left
      <4>1. PICK j \in 1..n : grants[j].ref = r
        BY <3>1
      <4>2. units <= b[r].units /\ b[r] \in Left
        BY <1>a, <4>1
      <4> QED BY <4>2, DebitedFact
    <3> QED BY <3>1 DEF Debits
  <2> QED BY <1>2, <2>1
<1>10. ASSUME NEW k \in 1..n
       PROVE  LET r == grants[k].ref
              IN  /\ f[k - 1][r] = b[r]
                  /\ f[k] = [f[k - 1] EXCEPT ![r] = Debited(@, reclaim, units)]
  <2>1. PICK r \in Ref : r = grants[k].ref
    BY <1>7
  <2>2. k - 1 \in 0..n /\ k \in 0..n
    OBVIOUS
  <2>3. /\ f[k - 1] = Debits(b, grants, k - 1, reclaim, units)
        /\ f[k] = Debits(b, grants, k, reclaim, units)
    BY <1>2, <2>2
  <2>4. \A j \in 1..(k - 1) : grants[j].ref # r
    BY <1>7, <2>1
  <2>5. f[k - 1][r] = b[r]
    BY <2>3, <2>4 DEF Debits
  <2>6. \A j \in 1..k : j = k \/ j \in 1..(k - 1)
    OBVIOUS
  <2>7. ASSUME NEW s \in Ref, s # r
        PROVE  (\E j \in 1..k : grants[j].ref = s) <=> (\E j \in 1..(k - 1) : grants[j].ref = s)
    BY <2>1, <2>6, <2>7
  <2>8. Debits(b, grants, k, reclaim, units)
          = [Debits(b, grants, k - 1, reclaim, units) EXCEPT ![r] = Debited(@, reclaim, units)]
    <3>1. Debits(b, grants, k, reclaim, units)[r] = Debited(b[r], reclaim, units)
      BY <2>1 DEF Debits
    <3>2. ASSUME NEW s \in Ref, s # r
          PROVE  Debits(b, grants, k, reclaim, units)[s]
                   = Debits(b, grants, k - 1, reclaim, units)[s]
      BY <2>7, <3>2 DEF Debits
    <3>3. Debits(b, grants, k - 1, reclaim, units)[r] = b[r]
      BY <2>3, <2>5
    <3>4. /\ Debits(b, grants, k, reclaim, units)
               = [s \in Ref |-> Debits(b, grants, k, reclaim, units)[s]]
          /\ Debits(b, grants, k - 1, reclaim, units)
               = [s \in Ref |-> Debits(b, grants, k - 1, reclaim, units)[s]]
      BY DEF Debits
    <3> QED BY <3>1, <3>2, <3>3, <3>4
  <2> QED BY <2>1, <2>3, <2>5, <2>8
<1>11. Course(f, todo, t)
  <2>1. ASSUME NEW k \in 1..n
        PROVE  /\ todo[k].ref \in Ref
               /\ f[k - 1][todo[k].ref].until > t
               /\ todo[k].units <= f[k - 1][todo[k].ref].units
               /\ f[k] = [f[k - 1] EXCEPT ![todo[k].ref] =
                            Debited(@, todo[k].reclaim, todo[k].units)]
    <3>1. /\ todo[k].ref = grants[k].ref /\ todo[k].reclaim = reclaim
          /\ todo[k].units = units
      BY <1>6
    <3>2. PICK r : r = grants[k].ref /\ r \in Ref
      BY <1>7
    <3>3. f[k - 1][r] = b[r] /\ f[k] = [f[k - 1] EXCEPT ![r] = Debited(@, reclaim, units)]
      BY <1>10, <3>2
    <3>4. b[r].until > t /\ units <= b[r].units
      BY <1>a, <3>2
    <3> QED BY ONLY <3>1, <3>2, <3>3, <3>4
  <2> QED BY <1>6, <1>9, <2>1 DEF Course
<1> QED BY <1>6, <1>8, <1>11

\* The units debited.
LEMMA ChargesUnits ==
  ASSUME NEW group, group \notin Free, NEW grants, NEW n \in Nat, NEW container, NEW units
  PROVE  \A i \in 1..n : Charges(group, grants, n, container, units)[i].units = units
BY DEF Charges

\* The course h is the course f of m debits and then the course g of n more.
Joined(h, f, g, m, n) ==
  /\ \A i \in 0..m : h[i] = f[i]
  /\ \A i \in 0..n : h[m + i] = g[i]

\* Debits followed by others.
LEMMA CourseAppend ==
  ASSUME NEW S, NEW a \in Seq(S), NEW c \in Seq(S), NEW f, NEW g, NEW t,
         Course(f, a, t), Course(g, c, t), g[0] = f[Len(a)],
         NEW m \in Nat, NEW n \in Nat, m = Len(a), n = Len(c)
  PROVE  Len(a \o c) = m + n /\ \E h : Course(h, a \o c, t) /\ Joined(h, f, g, m, n)
<1>1. m = Len(a) /\ n = Len(c)
  OBVIOUS
<1>2. PICK h : h = [i \in 0..(m + n) |-> IF i <= m THEN f[i] ELSE g[i - m]]
  OBVIOUS
<1>3. /\ f \in [0..m -> [Ref -> Left]] /\ g \in [0..n -> [Ref -> Left]]
      /\ \A k \in 1..m :
           /\ a[k].ref \in Ref
           /\ f[k - 1][a[k].ref].until > t /\ a[k].units <= f[k - 1][a[k].ref].units
           /\ f[k] = [f[k - 1] EXCEPT ![a[k].ref] = Debited(@, a[k].reclaim, a[k].units)]
      /\ \A k \in 1..n :
           /\ c[k].ref \in Ref
           /\ g[k - 1][c[k].ref].until > t /\ c[k].units <= g[k - 1][c[k].ref].units
           /\ g[k] = [g[k - 1] EXCEPT ![c[k].ref] = Debited(@, c[k].reclaim, c[k].units)]
  BY <1>1 DEF Course
<1>4. \A i \in 0..m : h[i] = f[i]
  BY <1>2
<1>5. ASSUME NEW i \in 0..n PROVE h[m + i] = g[i]
  <2>1. CASE i = 0
    BY <1>1, <1>4, <2>1
  <2>2. CASE i # 0
    <3>1. m + i \in 0..(m + n) /\ ~(m + i <= m) /\ (m + i) - m = i
      BY <2>2
    <3> QED BY <1>2, <3>1
  <2> QED BY <2>1, <2>2
<1>6. \A i \in 0..(m + n) : i \in 0..m \/ \E j \in 0..n : i = m + j
  <2>1. ASSUME NEW i \in 0..(m + n), i \notin 0..m PROVE i - m \in 0..n /\ i = m + (i - m)
    BY <2>1
  <2> QED BY <2>1
<1>7. h \in [0..(m + n) -> [Ref -> Left]]
  <2>1. ASSUME NEW i \in 0..(m + n) PROVE h[i] \in [Ref -> Left]
    <3>1. CASE i \in 0..m
      BY <1>3, <1>4, <3>1
    <3>2. CASE i \notin 0..m
      <4>1. PICK j \in 0..n : i = m + j
        BY <1>6, <3>2
      <4>2. h[i] = g[j] /\ g[j] \in [Ref -> Left]
        BY <1>3, <1>5, <4>1
      <4> QED BY <4>2
    <3> QED BY <3>1, <3>2
  <2> QED BY <1>2, <2>1
<1>8. Len(a \o c) = m + n
  BY <1>1
<1>9. ASSUME NEW k \in 1..(m + n)
      PROVE  LET d == (a \o c)[k]
             IN  /\ d.ref \in Ref /\ h[k - 1][d.ref].until > t
                 /\ d.units <= h[k - 1][d.ref].units
                 /\ h[k] = [h[k - 1] EXCEPT ![d.ref] = Debited(@, d.reclaim, d.units)]
  <2>1. CASE k \in 1..m
    <3>1. (a \o c)[k] = a[k]
      BY <1>1, <2>1
    <3>2. h[k] = f[k] /\ h[k - 1] = f[k - 1]
      BY <1>4, <2>1
    <3> QED BY <1>3, <2>1, <3>1, <3>2
  <2>2. CASE k \notin 1..m
    <3>1. PICK j \in 1..n : k = m + j
      <4>1. k - m \in 1..n /\ k = m + (k - m)
        BY <2>2
      <4> QED BY <4>1
    <3>2. (a \o c)[k] = c[j]
      <4>1. k \in 1..(Len(a) + Len(c)) /\ k > Len(a) /\ k - Len(a) = j
        BY <1>1, <3>1
      <4> QED BY <4>1
    <3>3. h[k] = g[j]
      BY <1>5, <3>1
    <3>4. h[k - 1] = g[j - 1]
      <4>1. j - 1 \in 0..n /\ k - 1 = m + (j - 1)
        BY <3>1
      <4> QED BY <1>5, <4>1
    <3> QED BY <1>3, <3>2, <3>3, <3>4
  <2> QED BY <2>1, <2>2
<1>10. Course(h, a \o c, t)
  BY <1>7, <1>8, <1>9 DEF Course
<1> QED BY <1>4, <1>5, <1>8, <1>10 DEF Joined

-----------------------------------------------------------------------------
\* The containers of a usage up to the k-th give the rest of the grants back.
GivenBack(usage, k) ==
  \E j \in 1..k : usage.used[j].reclaim /\ usage.used[j].units > 0

\* Each of the grants is what is left of one of the valid ones.
LeftOf(valid, grants) ==
  /\ \A i \in DOMAIN grants : \E j \in DOMAIN valid :
       /\ grants[i].ref = valid[j].ref /\ grants[i].seq = valid[j].seq
       /\ grants[i].until = valid[j].until
  /\ \A i, j \in DOMAIN grants : grants[i].ref = grants[j].ref => i = j

\* The book left is b less what was taken, of the valid grants alone.
Lowered(b, left, taken, back, valid) ==
  \A r \in Ref :
    /\ (\A j \in DOMAIN valid : valid[j].ref # r) => left[r] = b[r]
    /\ back \/ left[r].units + taken >= b[r].units
    /\ left[r].units > 0 => left[r].until = b[r].until /\ b[r].units > 0

\* The book left covers what is ahead of the grants.
Covers(left, grants, ahead) ==
  \A i \in DOMAIN grants :
    /\ left[grants[i].ref].units >= Least(grants[i].units, ahead)
    /\ left[grants[i].ref].units > 0 => left[grants[i].ref].until = grants[i].until

\* The plan for a usage whose valid grants are those, after k of its containers:
\* its debits can be made, from the book b, and leave what covers the rest.
PlanFits(usage, valid, b, t, ahead, k, plan) ==
  LET taken == UsageTakes(usage)[k]
  IN  /\ \A i \in DOMAIN plan.todo : plan.todo[i].units > 0
      /\ LeftOf(valid, plan.grants)
      /\ \E f :
           /\ Course(f, plan.todo, t) /\ f[0] = b
           /\ \A i \in 0..Len(plan.todo) :
                Lowered(b, f[i], taken, GivenBack(usage, k), valid)
           /\ plan.fits => Covers(f[Len(plan.todo)], plan.grants, ahead - taken)

\* Each of the grants left is one of the grants, less what was taken from it.
Reduced(rest, grants, taken) ==
  \E h \in [DOMAIN rest -> DOMAIN grants] :
    /\ \A i \in DOMAIN rest :
         /\ rest[i].ref = grants[h[i]].ref /\ rest[i].seq = grants[h[i]].seq
         /\ rest[i].until = grants[h[i]].until
         /\ rest[i].units = grants[h[i]].units - taken
    /\ \A i, j \in DOMAIN rest : h[i] = h[j] => i = j

\* What is left of grants: each comes from one of them.
LEMMA RestAt ==
  ASSUME NEW R, NEW grants \in Seq(GrantOf(R)), NEW container \in UsedUnit,
         NEW taken \in Nat, \A i \in DOMAIN grants : grants[i].units >= taken,
         NEW rest, rest = Rest(grants, container, taken)
  PROVE  /\ container.reclaim => rest = <<>>
         /\ Reduced(rest, grants, taken)
<1>1. PICK I \in SUBSET DOMAIN grants : I = {i \in DOMAIN grants : grants[i].units # taken}
  OBVIOUS
<1>2. PICK left \in Seq(GrantOf(R)) : left = Chosen(grants, I)
  BY ChosenFact
<1>3. PICK L \in Nat : L = Len(left) /\ DOMAIN left = 1..L
  OBVIOUS
<1>4. PICK h \in [1..L -> I] :
        /\ \A j \in 1..L : left[j] = grants[h[j]]
        /\ \A i, j \in 1..L : h[i] = h[j] => i = j
  BY <1>2, <1>3, ChosenAt
<1>6. rest = IF container.reclaim THEN <<>>
             ELSE [i \in 1..L |-> [left[i] EXCEPT !.units = @ - taken]]
  BY <1>1, <1>2, <1>3 DEF Rest
<1>7. CASE container.reclaim
  <2>1. rest = <<>>
    BY <1>6, <1>7
  <2>2. DOMAIN rest = {}
    BY <2>1
  <2>3. PICK g : g = [i \in {} |-> 0]
    OBVIOUS
  <2>4. g \in [DOMAIN rest -> DOMAIN grants]
    BY <2>2, <2>3
  <2> QED BY <2>1, <2>2, <2>4 DEF Reduced
<1>8. CASE ~container.reclaim
  <2>1. rest = [i \in 1..L |-> [left[i] EXCEPT !.units = @ - taken]]
    BY <1>6, <1>8
  <2>2. DOMAIN rest = 1..L
    BY <2>1
  <2>3. ASSUME NEW i \in 1..L
        PROVE  /\ rest[i].ref = grants[h[i]].ref /\ rest[i].seq = grants[h[i]].seq
               /\ rest[i].until = grants[h[i]].until
               /\ rest[i].units = grants[h[i]].units - taken
    <3>1. PICK grant \in GrantOf(R) : grant = left[i] /\ grant = grants[h[i]]
      BY <1>3, <1>4
    <3>2. rest[i] = [grant EXCEPT !.units = @ - taken]
      BY <2>1, <3>1
    <3> QED BY <3>1, <3>2 DEF GrantOf
  <2>4. h \in [DOMAIN rest -> DOMAIN grants]
    BY <2>2
  <2>5. \A i \in DOMAIN rest :
          /\ rest[i].ref = grants[h[i]].ref /\ rest[i].seq = grants[h[i]].seq
          /\ rest[i].until = grants[h[i]].until
          /\ rest[i].units = grants[h[i]].units - taken
    BY <2>2, <2>3
  <2>6. \A i, j \in DOMAIN rest : h[i] = h[j] => i = j
    BY <1>4, <2>2
  <2> QED BY <1>8, <2>4, <2>5, <2>6 DEF Reduced
<1> QED BY <1>7, <1>8

\* How far a container gets: to the end, or before the first grant that does
\* not cover it.
LEMMA UntilFact ==
  ASSUME NEW grants \in Seq(GrantOf(Ref)), NEW taken \in Nat
  PROVE  LET bad == {i \in DOMAIN grants : grants[i].units < taken}
             until == IF bad = {} THEN Len(grants)
                                  ELSE (CHOOSE i \in bad : \A j \in bad : i <= j) - 1
         IN  /\ until \in 0..Len(grants)
             /\ \A i \in 1..until : grants[i].units \in Nat /\ grants[i].units >= taken
<1>1. PICK n \in Nat : n = Len(grants) /\ DOMAIN grants = 1..n
  OBVIOUS
<1>2. PICK bad : bad = {i \in DOMAIN grants : grants[i].units < taken}
  OBVIOUS
<1>3. PICK least : least = CHOOSE i \in bad : \A j \in bad : i <= j
  OBVIOUS
<1>4. PICK until : until = IF bad = {} THEN n ELSE least - 1
  OBVIOUS
<1>5. \A i \in 1..n : grants[i].units \in Nat
  <2>1. \A i \in 1..n : grants[i] \in GrantOf(Ref)
    BY <1>1
  <2> QED BY <2>1 DEF GrantOf
<1>6. CASE bad = {}
  <2>1. until = n
    BY <1>4, <1>6
  <2>2. ASSUME NEW i \in 1..n PROVE grants[i].units >= taken
    <3>1. i \notin bad
      BY <1>6
    <3>2. ~(grants[i].units < taken)
      BY <1>1, <1>2, <3>1
    <3> QED BY <1>5, <3>2
  <2> QED BY <1>1, <1>2, <1>3, <1>4, <1>5, <2>1, <2>2
<1>7. CASE bad # {}
  <2>1. bad \subseteq Nat /\ bad \subseteq 1..n
    BY <1>1, <1>2
  <2>2. PICK m \in bad : \A y \in bad : m <= y
    BY <1>7, <2>1, LeastOf
  <2>3. least \in bad /\ \A j \in bad : least <= j
    BY <1>3, <2>2
  <2>4. least \in 1..n /\ until = least - 1
    BY <1>4, <1>7, <2>1, <2>3
  <2>5. ASSUME NEW i \in 1..until PROVE i \in 1..n /\ grants[i].units >= taken
    <3>1. i \in 1..n /\ ~(least <= i)
      BY <2>4
    <3>2. i \notin bad
      BY <2>3, <3>1
    <3>3. ~(grants[i].units < taken)
      BY <1>1, <1>2, <3>1, <3>2
    <3> QED BY <1>5, <3>1, <3>3
  <2>6. until \in 0..n
    BY <2>4
  <2> QED BY <1>1, <1>2, <1>3, <1>4, <1>5, <2>5, <2>6
<1> QED BY <1>6, <1>7

\* More was taken, and the rest given back at most.
LEMMA LoweredMore ==
  ASSUME NEW b \in [Ref -> Left], NEW left \in [Ref -> Left], NEW taken \in Nat,
         NEW more \in Nat, taken <= more, NEW back, NEW backs, back => backs, NEW valid,
         Lowered(b, left, taken, back, valid)
  PROVE  Lowered(b, left, more, backs, valid)
<1>1. ASSUME NEW r \in Ref, left[r].units + taken >= b[r].units
      PROVE  left[r].units + more >= b[r].units
  <2>1. left[r].units \in Nat /\ b[r].units \in Nat
    BY DEF Left
  <2> QED BY <1>1, <2>1
<1> QED BY <1>1 DEF Lowered

\* The debits of a container lower the book by what it takes.
LEMMA LoweredDebits ==
  ASSUME NEW b \in [Ref -> Left], NEW left \in [Ref -> Left], NEW before \in Nat,
         NEW taken \in Nat, NEW back, NEW backs, NEW reclaim \in BOOLEAN,
         back \/ reclaim => backs,
         NEW valid, NEW grants \in Seq(GrantOf(Ref)), NEW n \in 0..Len(grants),
         LeftOf(valid, grants),
         \A i \in 1..n : taken <= left[grants[i].ref].units,
         Lowered(b, left, before, back, valid)
  PROVE  Lowered(b, Debits(left, grants, n, reclaim, taken), before + taken, backs, valid)
<1>1. PICK after : after = Debits(left, grants, n, reclaim, taken)
  OBVIOUS
<1>2. ASSUME NEW r \in Ref
      PROVE  /\ (\A j \in DOMAIN valid : valid[j].ref # r) => after[r] = b[r]
             /\ backs \/ after[r].units + (before + taken) >= b[r].units
             /\ after[r].units > 0 => after[r].until = b[r].until /\ b[r].units > 0
  <2>1. PICK old \in Left, new \in Left : old = left[r] /\ new = b[r]
    OBVIOUS
  <2>2. old.units \in Nat /\ new.units \in Nat /\ old.until \in Nat
    BY DEF Left
  <2>3. /\ (\A j \in DOMAIN valid : valid[j].ref # r) => old = new
        /\ back \/ old.units + before >= new.units
        /\ old.units > 0 => old.until = new.until /\ new.units > 0
    BY <2>1 DEF Lowered
  <2>4. CASE \E j \in 1..n : grants[j].ref = r
    <3>1. PICK j \in 1..n : grants[j].ref = r
      BY <2>4
    <3>2. after[r] = Debited(old, reclaim, taken)
      BY <1>1, <2>1, <3>1 DEF Debits
    <3>3. taken <= old.units
      BY <2>1, <3>1
    <3>4. PICK d \in Left : /\ d = Debited(old, reclaim, taken)
                            /\ ~reclaim => d.units = old.units - taken
                            /\ d.units > 0 => d.until = old.until /\ old.units > 0
      BY <3>3, DebitedFact
    <3>5. ~(\A i \in DOMAIN valid : valid[i].ref # r)
      <4>1. j \in DOMAIN grants
        OBVIOUS
      <4> QED BY <3>1, <4>1 DEF LeftOf
    <3>6. backs \/ d.units + (before + taken) >= new.units
      BY <2>2, <2>3, <3>4
    <3> QED BY <2>1, <2>3, <3>2, <3>4, <3>5, <3>6
  <2>5. CASE ~\E j \in 1..n : grants[j].ref = r
    <3>1. after[r] = old
      BY <1>1, <2>1, <2>5 DEF Debits
    <3>2. backs \/ old.units + (before + taken) >= new.units
      BY <2>2, <2>3
    <3> QED BY <2>1, <2>3, <3>1, <3>2
  <2> QED BY <2>4, <2>5
<1> QED BY <1>1, <1>2 DEF Lowered

\* A container that is charged: its debits can be made after those before it.
LEMMA ChargedFits ==
  ASSUME NEW usage, NEW group, group = usage.group, group \in Group \ Free,
         usage.used \in Seq(UsedUnit),
         NEW valid \in Seq(GrantOf(Ref)), NEW t \in Nat,
         \A j \in DOMAIN valid : valid[j].until > t,
         NEW b \in [Ref -> Left], NEW ahead \in Nat,
         UsageTakes(usage)[Len(usage.used)] <= ahead,
         NEW k \in 1..Len(usage.used), usage.used[k].units # 0,
         NEW plan \in PlanOf(Ref, Ref), plan.fits,
         PlanFits(usage, valid, b, t, ahead, k - 1, plan)
  PROVE  PlanFits(usage, valid, b, t, ahead, k, ChargeContainer(group, plan, usage.used[k]))
<1>1. PICK grants \in Seq(GrantOf(Ref)), todo \in Seq(ChargeOf(Ref)) :
        plan = [grants |-> grants, todo |-> todo, fits |-> TRUE]
  BY DEF PlanOf
<1>2. PICK container \in UsedUnit : container = usage.used[k]
  OBVIOUS
<1>3. PICK reclaim \in BOOLEAN, units \in Nat :
        reclaim = container.reclaim /\ units = container.units /\ units > 0
  <2>1. container \in UsedUnit
    OBVIOUS
  <2>2. container.reclaim \in BOOLEAN /\ container.units \in Nat
    BY ONLY <2>1 DEF UsedUnit
  <2>3. container.units > 0
    BY <1>2, <2>2
  <2> QED BY ONLY <2>2, <2>3
<1>4. PICK taken \in Nat : taken = Taken(group, units) /\ taken > 0
  <2>1. Taken(group, units) >= units /\ Taken(group, units) \in Nat
    BY NormaliseAtLeast, NormaliseNat DEF Taken
  <2> QED BY <1>3, <2>1
<1>5. PICK before \in Nat :
        /\ before = UsageTakes(usage)[k - 1] /\ UsageTakes(usage)[k] = before + taken
        /\ before + taken <= ahead
  <2>1. PICK m, p : /\ m \in Nat /\ m = Len(usage.used) /\ p = UsageTakes(usage)
                    /\ p \in [0..m -> Nat]
                    /\ \A i \in 1..m : p[i] = p[i - 1] + (IF usage.used[i].units = 0 THEN 0
                                                          ELSE Taken(usage.group, usage.used[i].units))
                    /\ \A i \in 0..m : p[i] <= p[m]
    <3>1. usage.group \in Group
      OBVIOUS
    <3> QED BY <3>1, UsageTakesFact
  <2>2. k \in 1..m /\ k - 1 \in 0..m /\ k \in 0..m /\ m \in 0..m
    BY <2>1
  <2>3. p[k] = p[k - 1] + taken
    BY <1>2, <1>3, <1>4, <2>1, <2>2
  <2>4. p[k - 1] \in Nat /\ p[k] <= p[m] /\ p[m] \in Nat /\ p[m] <= ahead
    BY <2>1, <2>2
  <2>5. p[k - 1] + taken <= ahead
    BY <2>3, <2>4
  <2> QED BY <2>1, <2>3, <2>4, <2>5
<1>6. PICK back, backs : /\ back = GivenBack(usage, k - 1) /\ backs = GivenBack(usage, k)
                         /\ back \/ reclaim => backs
  <2>1. GivenBack(usage, k - 1) => GivenBack(usage, k)
    <3>1. 1..(k - 1) \subseteq 1..k
      OBVIOUS
    <3> QED BY <3>1 DEF GivenBack
  <2>2. reclaim => GivenBack(usage, k)
    <3>1. k \in 1..k
      OBVIOUS
    <3> QED BY <1>2, <1>3, <3>1 DEF GivenBack
  <2> QED BY <2>1, <2>2
<1>7. PICK L \in Nat : L = Len(todo) /\ DOMAIN todo = 1..L
  OBVIOUS
<1>8. /\ \A i \in DOMAIN todo : todo[i].units > 0
      /\ LeftOf(valid, grants)
  BY <1>1 DEF PlanFits
<1>9. PICK f : /\ Course(f, todo, t) /\ f[0] = b
               /\ \A i \in 0..L : Lowered(b, f[i], before, back, valid)
               /\ Covers(f[L], grants, ahead - before)
  BY <1>1, <1>5, <1>6, <1>7 DEF PlanFits
<1>10. f \in [0..L -> [Ref -> Left]]
  BY <1>7, <1>9 DEF Course
<1>11. PICK e \in [Ref -> Left] : e = f[L]
  <2>1. L \in 0..L
    OBVIOUS
  <2> QED BY <1>10, <2>1
<1>12. PICK bad : bad = {i \in DOMAIN grants : grants[i].units < taken}
  OBVIOUS
<1>a. PICK least : least = CHOOSE i \in bad : \A j \in bad : i <= j
  OBVIOUS
<1>13. PICK until : until = IF bad = {} THEN Len(grants) ELSE least - 1
  OBVIOUS
<1>14. /\ until \in 0..Len(grants)
       /\ \A i \in 1..until : grants[i].units \in Nat /\ grants[i].units >= taken
  BY <1>12, <1>a, <1>13, UntilFact
<1>15. \A i \in DOMAIN grants : grants[i].ref \in Ref /\ grants[i].units \in Nat
  <2>1. \A i \in DOMAIN grants : grants[i] \in GrantOf(Ref)
    OBVIOUS
  <2> QED BY <2>1 DEF GrantOf
<1>16. \A i \in 1..until : i \in DOMAIN grants
  BY <1>14
<1>17. ASSUME NEW i \in 1..until
       PROVE  e[grants[i].ref].until > t /\ taken <= e[grants[i].ref].units
  <2>1. PICK left \in Left : left = e[grants[i].ref]
    BY <1>15, <1>16
  <2>2. /\ left.units >= Least(grants[i].units, ahead - before)
        /\ left.units > 0 => left.until = grants[i].until
    BY <1>9, <1>11, <1>16, <2>1 DEF Covers
  <2>3. left.units \in Nat
    BY DEF Left
  <2>4. ahead - before >= taken /\ ahead - before \in Nat
    <3>1. /\ before + taken <= ahead
          /\ before \in Nat /\ taken \in Nat /\ ahead \in Nat
      BY <1>5
    <3> QED BY ONLY <3>1
  <2>5. Least(grants[i].units, ahead - before) >= taken
    BY <1>14, <2>4 DEF Least
  <2>6. left.units >= taken /\ left.units > 0
    <3>1. Least(grants[i].units, ahead - before) \in Nat
      BY <1>14, <2>4 DEF Least
    <3> QED BY <1>4, <2>2, <2>3, <2>5, <3>1
  <2>7. grants[i].until > t
    BY <1>8, <1>16 DEF LeftOf
  <2> QED BY <2>1, <2>2, <2>6, <2>7
<1>18. PICK more : more = Charges(group, grants, until, container, taken)
  OBVIOUS
<1>19. more \in Seq(ChargeOf(Ref))
  BY <1>14, <1>18, ChargesFact
<1>20. PICK g : /\ g = DebitRun(e, grants, until, reclaim, taken)
                /\ g = [i \in 0..until |-> Debits(e, grants, i, reclaim, taken)]
  BY DEF DebitRun
<1>21. /\ Len(more) = until /\ Course(g, more, t) /\ g[0] = e
       /\ \A i \in 1..until : more[i].units = taken
  <2>1. \A i, j \in DOMAIN grants : grants[i].ref = grants[j].ref => i = j
    BY <1>8 DEF LeftOf
  <2>2. /\ group \notin Free /\ grants \in Seq(GrantOf(Ref)) /\ container \in UsedUnit
        /\ taken \in Nat /\ t \in Nat /\ e \in [Ref -> Left] /\ until \in 0..Len(grants)
        /\ Debitable(e, grants, until, taken, t)
    BY <1>14, <1>17 DEF Debitable
  <2>3. g = DebitRun(e, grants, until, container.reclaim, taken)
    BY <1>3, <1>20
  <2>4. Len(more) = until /\ Course(g, more, t) /\ g[0] = e
    <3>1. /\ group \notin Free /\ grants \in Seq(GrantOf(Ref))
          /\ (\A i, j \in DOMAIN grants : grants[i].ref = grants[j].ref => i = j)
          /\ until \in 0..Len(grants) /\ container \in UsedUnit /\ taken \in Nat
          /\ t \in Nat /\ e \in [Ref -> Left]
          /\ Debitable(e, grants, until, taken, t)
          /\ g = DebitRun(e, grants, until, container.reclaim, taken)
          /\ more = Charges(group, grants, until, container, taken)
      BY ONLY <1>18, <2>1, <2>2, <2>3
    <3> QED BY ONLY <3>1, DebitsCourse
  <2>5. \A i \in 1..until : more[i].units = taken
    BY <1>14, <1>18, ChargesUnits
  <2> QED BY <2>4, <2>5
<1>22. PICK all : all = todo \o more
  OBVIOUS
<1>23. PICK h : /\ Len(all) = L + until /\ Course(h, all, t)
                /\ \A i \in 0..L : h[i] = f[i]
                /\ \A i \in 0..until : h[L + i] = g[i]
  <2>1. /\ todo \in Seq(ChargeOf(Ref)) /\ more \in Seq(ChargeOf(Ref))
        /\ Course(f, todo, t) /\ Course(g, more, t) /\ g[0] = f[Len(todo)]
        /\ Len(todo) = L /\ Len(more) = until
    BY <1>7, <1>9, <1>11, <1>19, <1>21
  <2>2. L \in Nat /\ until \in Nat
    BY <1>14
  <2>3. /\ Len(todo \o more) = L + until
        /\ \E h : Course(h, todo \o more, t) /\ Joined(h, f, g, L, until)
    BY ONLY <2>1, <2>2, CourseAppend
  <2> QED BY <1>22, <2>3 DEF Joined
<1>24. PICK kept : kept = IF bad = {} THEN Rest(grants, container, taken) ELSE grants
  OBVIOUS
<1>25. PICK new : new = ChargeContainer(group, plan, usage.used[k])
  OBVIOUS
<1>26. new = [grants |-> kept, todo |-> all, fits |-> bad = {}]
  <2>1. ChargeContainer(group, plan, container) =
          [grants |-> IF bad = {} THEN Rest(grants, container, taken) ELSE grants,
           todo   |-> todo \o Charges(group, grants, until, container, taken),
           fits   |-> bad = {}]
    BY ONLY <1>1, <1>3, <1>4, <1>12, <1>a, <1>13 DEF ChargeContainer
  <2> QED BY <1>2, <1>18, <1>22, <1>24, <1>25, <2>1
<1>27. \A i \in DOMAIN all : all[i].units > 0
  <2>1. ASSUME NEW i \in 1..(L + until) PROVE all[i].units > 0
    <3>1. CASE i \in 1..L
      <4>1. all[i] = todo[i]
        BY <1>7, <1>19, <1>22, <3>1
      <4> QED BY <1>7, <1>8, <3>1, <4>1
    <3>2. CASE i \notin 1..L
      <4>1. i - L \in 1..until
        <5>1. /\ i \in 1..(L + until) /\ i \notin 1..L
              /\ L \in Nat /\ until \in Nat
          BY <1>14, <3>2
        <5> QED BY ONLY <5>1
      <4>2. all[i] = more[i - L]
        BY <1>7, <1>19, <1>21, <1>22, <3>2, <4>1
      <4> QED BY <1>4, <1>21, <4>1, <4>2
    <3> QED BY <3>1, <3>2
  <2>2. DOMAIN all = 1..(L + until)
    BY <1>19, <1>22, <1>23
  <2> QED BY <2>1, <2>2
<1>28. ASSUME NEW i \in 0..(L + until)
       PROVE  Lowered(b, h[i], before + taken, backs, valid)
  <2>1. CASE i \in 0..L
    <3>1. Lowered(b, f[i], before, back, valid) /\ f[i] \in [Ref -> Left] /\ h[i] = f[i]
      BY <1>9, <1>10, <1>23, <2>1
    <3>2. /\ before <= before + taken /\ before + taken \in Nat /\ before \in Nat
          /\ b \in [Ref -> Left] /\ (back => backs)
      BY <1>6
    <3>3. Lowered(b, f[i], before + taken, backs, valid)
      BY ONLY <3>1, <3>2, LoweredMore
    <3> QED BY <3>1, <3>3
  <2>2. CASE i \notin 0..L
    <3>1. PICK n \in 0..until : i = L + n
      <4>1. i - L \in 0..until /\ i = L + (i - L)
        BY <1>14, <2>2
      <4> QED BY <4>1
    <3>2. h[i] = Debits(e, grants, n, reclaim, taken)
      BY <1>20, <1>23, <3>1
    <3>3. Lowered(b, e, before, back, valid)
      <4>1. L \in 0..L
        OBVIOUS
      <4> QED BY <1>9, <1>11, <4>1
    <3>4. n \in 0..Len(grants) /\ \A j \in 1..n : taken <= e[grants[j].ref].units
      <4>1. \A j \in 1..n : j \in 1..until
        BY <1>14
      <4> QED BY <1>14, <1>17, <4>1
    <3>5. /\ b \in [Ref -> Left] /\ e \in [Ref -> Left] /\ before \in Nat /\ taken \in Nat
          /\ reclaim \in BOOLEAN /\ (back \/ reclaim => backs)
          /\ grants \in Seq(GrantOf(Ref)) /\ LeftOf(valid, grants)
      BY <1>6, <1>8
    <3>6. Lowered(b, Debits(e, grants, n, reclaim, taken), before + taken, backs, valid)
      BY ONLY <3>3, <3>4, <3>5, LoweredDebits
    <3> QED BY <3>2, <3>6
  <2> QED BY <2>1, <2>2
<1>29. LeftOf(valid, kept)
  <2>1. CASE bad # {}
    BY <1>8, <1>24, <2>1
  <2>2. CASE bad = {}
    <3>1. \A i \in DOMAIN grants : grants[i].units >= taken
      <4>1. until = Len(grants)
        BY <1>13, <2>2
      <4> QED BY <1>14, <4>1
    <3>2. Reduced(kept, grants, taken)
      <4>1. kept = Rest(grants, container, taken)
        BY <1>24, <2>2
      <4>2. grants \in Seq(GrantOf(Ref)) /\ container \in UsedUnit /\ taken \in Nat
        OBVIOUS
      <4> QED BY ONLY <3>1, <4>1, <4>2, RestAt
    <3>3. PICK m \in [DOMAIN kept -> DOMAIN grants] :
            /\ \A i \in DOMAIN kept :
                 /\ kept[i].ref = grants[m[i]].ref /\ kept[i].seq = grants[m[i]].seq
                 /\ kept[i].until = grants[m[i]].until
            /\ \A i, j \in DOMAIN kept : m[i] = m[j] => i = j
      BY <3>2 DEF Reduced
    <3> QED BY <1>8, <3>3 DEF LeftOf
  <2> QED BY <2>1, <2>2
<1>30. ASSUME bad = {} PROVE Covers(h[L + until], kept, ahead - (before + taken))
  <2>1. until = Len(grants)
    BY <1>13, <1>30
  <2>2. \A i \in DOMAIN grants : i \in 1..until
    BY <2>1
  <2>3. kept = Rest(grants, container, taken)
    BY <1>24, <1>30
  <2>4. \A i \in DOMAIN grants : grants[i].units >= taken
    BY <1>14, <2>2
  <2>a. grants \in Seq(GrantOf(Ref)) /\ container \in UsedUnit /\ taken \in Nat
    OBVIOUS
  <2>5. container.reclaim => kept = <<>>
    BY ONLY <2>3, <2>4, <2>a, RestAt
  <2>b. Reduced(kept, grants, taken)
    BY ONLY <2>3, <2>4, <2>a, RestAt
  <2>6. PICK m \in [DOMAIN kept -> DOMAIN grants] :
          \A i \in DOMAIN kept :
            /\ kept[i].ref = grants[m[i]].ref /\ kept[i].until = grants[m[i]].until
            /\ kept[i].units = grants[m[i]].units - taken
    BY ONLY <2>b DEF Reduced
  <2>7. ASSUME NEW i \in DOMAIN kept
        PROVE  /\ h[L + until][kept[i].ref].units
                    >= Least(kept[i].units, ahead - (before + taken))
               /\ h[L + until][kept[i].ref].units > 0 =>
                    h[L + until][kept[i].ref].until = kept[i].until
    <3>1. ~reclaim
      BY <1>3, <2>5, <2>7
    <3>2. PICK j \in 1..until : /\ j \in DOMAIN grants /\ kept[i].ref = grants[j].ref
                                /\ kept[i].until = grants[j].until
                                /\ kept[i].units = grants[j].units - taken
      BY <2>2, <2>6, <2>7
    <3>3. PICK r \in Ref, left \in Left : r = grants[j].ref /\ left = e[r]
      BY <1>15, <3>2
    <3>4. h[L + until][r] = Debited(left, reclaim, taken)
      <4>1. until \in 0..until
        BY <1>14
      <4>2. h[L + until] = Debits(e, grants, until, reclaim, taken)
        BY <1>20, <1>23, <4>1
      <4> QED BY <3>2, <3>3, <4>2 DEF Debits
    <3>5. taken <= left.units
      BY <1>17, <3>2, <3>3
    <3>6. PICK d \in Left : /\ d = Debited(left, reclaim, taken)
                            /\ d.units = left.units - taken
                            /\ d.units > 0 => d.until = left.until /\ left.units > 0
      BY <3>1, <3>5, DebitedFact
    <3>7. /\ left.units >= Least(grants[j].units, ahead - before)
          /\ left.units > 0 => left.until = grants[j].until
      BY <1>9, <1>11, <3>2, <3>3 DEF Covers
    <3>8. left.units - taken >= Least(grants[j].units - taken, ahead - (before + taken))
      <4>1. left.units \in Nat /\ grants[j].units \in Nat
        BY <1>15, <3>2 DEF Left
      <4>2. PICK x \in Nat, y \in Nat : x = left.units /\ y = grants[j].units
        BY <4>1
      <4>3. x >= Least(y, ahead - before)
        BY <3>7, <4>2
      <4>4. x - taken >= Least(y - taken, ahead - (before + taken))
        <5>1. /\ x \in Nat /\ y \in Nat /\ taken \in Nat /\ ahead \in Nat
              /\ before \in Nat
          OBVIOUS
        <5> QED BY ONLY <4>3, <5>1 DEF Least
      <4> QED BY <4>2, <4>4
    <3> QED BY <3>2, <3>3, <3>4, <3>6, <3>7, <3>8
  <2> QED BY <2>7 DEF Covers
<1>31. PlanFits(usage, valid, b, t, ahead, k, new)
  <2>1. h[0] = b
    BY <1>9, <1>23
  <2>2. /\ new.grants = kept /\ new.todo = all /\ new.fits = (bad = {})
        /\ Len(new.todo) = L + until
    BY <1>23, <1>26
  <2> QED BY <1>5, <1>6, <1>23, <1>27, <1>28, <1>29, <1>30, <2>1, <2>2 DEF PlanFits
<1> QED BY <1>25, <1>31

-----------------------------------------------------------------------------
\* The plan for the next usage, container by container.
PlanRun(q, context, at) ==
  LET usage == Requests[q].usage[context.done + 1]
      n     == Len(usage.used)
  IN  /\ at \in [0..n -> Plan]
      /\ at[0] = [grants |-> ValidGrants(context, usage.group), todo |-> <<>>,
                  fits   |-> usage.group \in context.groups \/ usage.used = <<>>]
      /\ \A k \in 1..n : at[k] = ChargeContainer(usage.group, at[k - 1], usage.used[k])
      /\ NextUsage(q, context) =
           [context EXCEPT !.done = @ + 1,
                           !.grants[usage.group] = ValidGrants(context, usage.group),
                           !.todo = at[n].todo, !.kept = at[n].grants, !.fits = at[n].fits]

\* The valid grants are some of the grants of the group, once each.
Among(valid, grants) ==
  \E h \in [DOMAIN valid -> DOMAIN grants] :
    /\ \A j \in DOMAIN valid : valid[j] = grants[h[j]]
    /\ \A i, j \in DOMAIN valid : h[i] = h[j] => i = j

\* What is still valid of the grants of a group is among them, in their order.
LEMMA ValidFact ==
  ASSUME NEW R, NEW context, NEW group, context.grants[group] \in Seq(GrantOf(R))
  PROVE  LET valid == ValidGrants(context, group)
         IN  /\ valid \in Seq(GrantOf(R)) /\ Among(valid, context.grants[group])
             /\ \A j \in DOMAIN valid : valid[j].until > context.at
<1>1. PICK grants \in Seq(GrantOf(R)) : grants = context.grants[group]
  OBVIOUS
<1>2. PICK I : I = {i \in DOMAIN grants : grants[i].until > context.at}
  OBVIOUS
<1>3. I \in SUBSET DOMAIN grants
  BY <1>2
<1>4. PICK valid \in Seq(GrantOf(R)) : valid = Chosen(grants, I)
  BY <1>3, ChosenFact
<1>5. PICK L \in Nat : L = Len(valid) /\ DOMAIN valid = 1..L
  OBVIOUS
<1>6. PICK h \in [1..L -> I] :
        /\ \A j \in 1..L : valid[j] = grants[h[j]]
        /\ \A i, j \in 1..L : h[i] = h[j] => i = j
  BY <1>3, <1>4, <1>5, ChosenAt
<1>7. PICK g : g = h /\ g \in [DOMAIN valid -> DOMAIN grants]
  BY <1>3, <1>5
<1>8. Among(valid, grants)
  BY <1>5, <1>6, <1>7 DEF Among
<1>9. \A j \in DOMAIN valid : valid[j].until > context.at
  BY <1>2, <1>5, <1>6
<1>10. valid = ValidGrants(context, group)
  BY <1>1, <1>2, <1>4 DEF ValidGrants
<1> QED BY <1>1, <1>4, <1>8, <1>9, <1>10

\* Going on to the next usage is such a run.
LEMMA PlanRunFact ==
  ASSUME NEW q \in Request, NEW context \in Context,
         context.done < Len(Requests[q].usage)
  PROVE  \E at : PlanRun(q, context, at)
<1>1. PICK usage : usage = Requests[q].usage[context.done + 1]
  OBVIOUS
<1>a. /\ usage.group \in Group /\ usage.used \in Seq(UsedUnit)
  <2>1. context.done + 1 \in 1..Len(Requests[q].usage)
    BY RequestFact DEF Context
  <2> QED BY <1>1, <2>1, RequestFact
<1>2. PICK group \in Group : group = usage.group
  BY <1>a
<1>3. PICK n \in Nat, used \in Seq(UsedUnit) :
        n = Len(usage.used) /\ used = usage.used /\ DOMAIN usage.used = 1..n
  BY <1>a
<1>8. GrantOf(Ref \union {NoRef}) = Grant /\ ChargeOf(Ref \union {NoRef}) = Charge
  BY DEF GrantOf, Grant, ChargeOf, Charge
<1>9. Plan = PlanOf(Ref \union {NoRef}, Ref \union {NoRef})
  BY <1>8 DEF Plan, PlanOf
<1>5. PICK valid \in Seq(Grant) : valid = ValidGrants(context, group)
  <2>1. context.grants[group] \in Seq(Grant)
    BY DEF Context, Grants
  <2> QED BY <1>8, <2>1, ValidFact
<1>6. PICK first : first = [grants |-> valid, todo |-> <<>>,
                            fits   |-> group \in context.groups \/ usage.used = <<>>]
  OBVIOUS
<1>7. PICK body : body = [i \in 1..n |-> [plan \in Plan |->
                            ChargeContainer(group, plan, used[i])]]
  OBVIOUS
<1>10. \A i \in 1..n : used[i] \in UsedUnit
  BY <1>3
<1>11. body \in [1..n -> [Plan -> Plan]]
  <2>1. ASSUME NEW i \in 1..n, NEW plan \in Plan
        PROVE  ChargeContainer(group, plan, used[i]) \in Plan
    BY <1>9, <1>10, ContainerFact
  <2> QED BY <1>7, <2>1
<1>14. first \in Plan
  <2>1. <<>> \in Seq(Charge)
    OBVIOUS
  <2>2. (group \in context.groups \/ usage.used = <<>>) \in BOOLEAN
    OBVIOUS
  <2> QED BY <1>6, <2>1, <2>2 DEF Plan
<1>15. PICK at \in [0..n -> Plan] :
         /\ at = Loop(n, first, body) /\ at[0] = first
         /\ \A k \in 1..n : at[k] = body[k][at[k - 1]]
  <2>1. first \in Plan
    BY <1>14
  <2>2. n \in Nat
    OBVIOUS
  <2>3. Loop(n, first, body) \in [0..n -> Plan]
    BY ONLY <1>11, <2>1, <2>2, LoopRule
  <2>4. Loop(n, first, body)[0] = first
    BY ONLY <1>11, <2>1, <2>2, LoopRule
  <2>5. \A k \in 1..n : Loop(n, first, body)[k] = body[k][Loop(n, first, body)[k - 1]]
    BY ONLY <1>11, <2>1, <2>2, LoopRule
  <2> QED BY <2>3, <2>4, <2>5
<1>16. ASSUME NEW k \in 1..n PROVE at[k] = ChargeContainer(group, at[k - 1], used[k])
  <2>1. at[k - 1] \in Plan /\ at[k] = body[k][at[k - 1]]
    BY <1>15
  <2> QED BY <1>7, <2>1
<1>18. NextUsage(q, context) =
         [context EXCEPT !.done = @ + 1, !.grants[usage.group] = ValidGrants(context, usage.group),
                         !.todo = at[n].todo, !.kept = at[n].grants, !.fits = at[n].fits]
  <2>2. [i \in DOMAIN usage.used |-> [plan \in Plan |->
           ChargeContainer(usage.group, plan, usage.used[i])]] = body
    BY <1>2, <1>3, <1>7
  <2>3. [grants |-> ValidGrants(context, usage.group), todo |-> <<>>,
         fits   |-> usage.group \in context.groups \/ usage.used = <<>>] = first
    BY <1>2, <1>5, <1>6
  <2>4. NextUsage(q, context) =
          [context EXCEPT !.done = @ + 1,
                          !.grants[usage.group] = ValidGrants(context, usage.group),
                          !.todo = Loop(Len(usage.used), first, body)[Len(usage.used)].todo,
                          !.kept = Loop(Len(usage.used), first, body)[Len(usage.used)].grants,
                          !.fits = Loop(Len(usage.used), first, body)[Len(usage.used)].fits]
    BY <1>1, <2>2, <2>3 DEF NextUsage
  <2>5. Loop(Len(usage.used), first, body)[Len(usage.used)] = at[n]
    BY <1>3, <1>15
  <2> QED BY <2>4, <2>5
<1>19. /\ usage = Requests[q].usage[context.done + 1] /\ n = Len(usage.used)
       /\ at \in [0..n -> Plan]
       /\ at[0] = [grants |-> ValidGrants(context, usage.group), todo |-> <<>>,
                   fits   |-> usage.group \in context.groups \/ usage.used = <<>>]
       /\ \A k \in 1..n : at[k] = ChargeContainer(usage.group, at[k - 1], usage.used[k])
  <2>1. usage = Requests[q].usage[context.done + 1] /\ n = Len(usage.used)
    BY <1>1, <1>3
  <2>2. \A k \in 1..n : at[k] = ChargeContainer(usage.group, at[k - 1], usage.used[k])
    BY ONLY <1>2, <1>3, <1>16
  <2>3. at[0] = first /\ at \in [0..n -> Plan]
    BY <1>15
  <2>4. first = [grants |-> ValidGrants(context, usage.group), todo |-> <<>>,
                 fits   |-> usage.group \in context.groups \/ usage.used = <<>>]
    BY ONLY <1>2, <1>5, <1>6
  <2> QED BY ONLY <2>1, <2>2, <2>3, <2>4
<1>20. PlanRun(q, context, at)
  BY ONLY <1>18, <1>19 DEF PlanRun
<1> QED BY <1>20

\* A container without units, or after an error, changes nothing.
LEMMA IdleFits ==
  ASSUME NEW usage, usage.group \in Group, usage.used \in Seq(UsedUnit), NEW valid, NEW t,
         NEW b \in [Ref -> Left], NEW ahead, NEW k \in 1..Len(usage.used),
         NEW plan \in PlanOf(Ref, Ref), ~plan.fits \/ usage.used[k].units = 0,
         PlanFits(usage, valid, b, t, ahead, k - 1, plan)
  PROVE  PlanFits(usage, valid, b, t, ahead, k, plan)
<1>1. PICK before \in Nat, after \in Nat :
        /\ before = UsageTakes(usage)[k - 1] /\ after = UsageTakes(usage)[k]
        /\ before <= after /\ (plan.fits => before = after)
  <2>1. PICK m, p : /\ m \in Nat /\ m = Len(usage.used) /\ p = UsageTakes(usage)
                    /\ p \in [0..m -> Nat]
                    /\ \A i \in 1..m : p[i] = p[i - 1] + (IF usage.used[i].units = 0 THEN 0
                                                          ELSE Taken(usage.group, usage.used[i].units))
                    /\ \A i \in 0..m : p[i] <= p[m]
    <3>1. usage.group \in Group /\ usage.used \in Seq(UsedUnit)
      OBVIOUS
    <3> QED BY ONLY <3>1, UsageTakesFact
  <2>2. k \in 1..m /\ k - 1 \in 0..m /\ k \in 0..m
    BY <2>1
  <2>3. PICK part \in Nat : /\ part = IF usage.used[k].units = 0 THEN 0
                                      ELSE Taken(usage.group, usage.used[k].units)
                            /\ plan.fits => part = 0
    <3>1. usage.used[k] \in UsedUnit
      OBVIOUS
    <3>2. usage.used[k].units \in Nat
      BY <3>1 DEF UsedUnit
    <3>3. Taken(usage.group, usage.used[k].units) \in Nat
      BY <3>2, NormaliseNat
    <3> QED BY <3>3
  <2>4. p[k] = p[k - 1] + part /\ p[k] \in Nat /\ p[k - 1] \in Nat
    BY <2>1, <2>2, <2>3
  <2> QED BY <2>1, <2>3, <2>4
<1>2. GivenBack(usage, k - 1) => GivenBack(usage, k)
  <2>1. 1..(k - 1) \subseteq 1..k
    OBVIOUS
  <2> QED BY <2>1 DEF GivenBack
<1>3. PICK back, backs : /\ back = GivenBack(usage, k - 1) /\ backs = GivenBack(usage, k)
                         /\ back => backs
  BY <1>2
<1>4. PICK L \in Nat : L = Len(plan.todo)
  <2>1. plan.todo \in Seq(ChargeOf(Ref))
    BY DEF PlanOf
  <2> QED BY <2>1
<1>5. PICK f : /\ Course(f, plan.todo, t) /\ f[0] = b
               /\ \A i \in 0..L : Lowered(b, f[i], before, back, valid)
               /\ plan.fits => Covers(f[L], plan.grants, ahead - before)
  BY <1>1, <1>3, <1>4 DEF PlanFits
<1>6. ASSUME NEW i \in 0..L PROVE Lowered(b, f[i], after, backs, valid)
  <2>1. f[i] \in [Ref -> Left] /\ Lowered(b, f[i], before, back, valid)
    BY <1>4, <1>5 DEF Course
  <2>2. /\ before <= after /\ before \in Nat /\ after \in Nat /\ (back => backs)
        /\ b \in [Ref -> Left]
    BY <1>1, <1>3
  <2> QED BY ONLY <2>1, <2>2, LoweredMore
<1>7. plan.fits => Covers(f[L], plan.grants, ahead - after)
  BY <1>1, <1>5
<1>8. (\A i \in DOMAIN plan.todo : plan.todo[i].units > 0) /\ LeftOf(valid, plan.grants)
  BY DEF PlanFits
<1> QED BY <1>1, <1>3, <1>4, <1>5, <1>6, <1>7, <1>8 DEF PlanFits

\* Before the first container nothing is planned.
LEMMA FirstFits ==
  ASSUME NEW usage, usage.group \in Group, usage.used \in Seq(UsedUnit),
         NEW valid \in Seq(GrantOf(Ref)), NEW t, NEW b \in [Ref -> Left],
         \A i, j \in DOMAIN valid : valid[i].ref = valid[j].ref => i = j,
         NEW ahead \in Nat, Covers(b, valid, ahead),
         NEW plan, plan.grants = valid, plan.todo = <<>>
  PROVE  PlanFits(usage, valid, b, t, ahead, 0, plan)
<1>1. UsageTakes(usage)[0] = 0
  BY UsageTakesFact
<1>2. PICK f : f = [i \in 0..0 |-> b]
  OBVIOUS
<1>3. Len(plan.todo) = 0 /\ DOMAIN plan.todo = {}
  OBVIOUS
<1>4. Course(f, plan.todo, t)
  BY <1>2, <1>3 DEF Course
<1>5. f[0] = b
  BY <1>2
<1>6. Lowered(b, b, 0, GivenBack(usage, 0), valid)
  <2>1. \A r \in Ref : b[r].units \in Nat
    BY DEF Left
  <2>2. \A r \in Ref : b[r].units + 0 >= b[r].units
    BY <2>1
  <2> QED BY <2>2 DEF Lowered
<1>7. \A i \in 0..Len(plan.todo) : i = 0
  BY <1>3
<1>8. LeftOf(valid, plan.grants)
  BY DEF LeftOf
<1>9. ahead - 0 = ahead
  OBVIOUS
<1>10. PICK none, back : none = UsageTakes(usage)[0] /\ back = GivenBack(usage, 0)
  OBVIOUS
<1>11. /\ \A i \in 0..Len(plan.todo) : Lowered(b, f[i], none, back, valid)
       /\ plan.fits => Covers(f[Len(plan.todo)], plan.grants, ahead - none)
  BY <1>1, <1>3, <1>5, <1>6, <1>7, <1>9, <1>10
<1> QED BY <1>3, <1>4, <1>5, <1>8, <1>10, <1>11 DEF PlanFits

\* The plan for a usage whose valid grants are covered fits, to its last container.
LEMMA UsageFits ==
  ASSUME NEW usage, NEW group \in Group \ Free, group = usage.group,
         usage.used \in Seq(UsedUnit), NEW t \in Nat,
         NEW valid \in Seq(GrantOf(Ref)), \A j \in DOMAIN valid : valid[j].until > t,
         \A i, j \in DOMAIN valid : valid[i].ref = valid[j].ref => i = j,
         NEW b \in [Ref -> Left], NEW ahead \in Nat,
         UsageTakes(usage)[Len(usage.used)] <= ahead, Covers(b, valid, ahead),
         NEW fits \in BOOLEAN, NEW at,
         at[0] = [grants |-> valid, todo |-> <<>>, fits |-> fits],
         \A k \in 1..Len(usage.used) :
           at[k] = ChargeContainer(group, at[k - 1], usage.used[k])
  PROVE  /\ at[Len(usage.used)] \in PlanOf(Ref, Ref)
         /\ PlanFits(usage, valid, b, t, ahead, Len(usage.used), at[Len(usage.used)])
<1>2. PICK n \in Nat : n = Len(usage.used)
  OBVIOUS
<1> DEFINE S == {k \in 0..n : /\ at[k] \in PlanOf(Ref, Ref)
                             /\ PlanFits(usage, valid, b, t, ahead, k, at[k])}
<1>7. 0 \in S
  <2>1. at[0] \in PlanOf(Ref, Ref)
    <3>1. <<>> \in Seq(ChargeOf(Ref))
      OBVIOUS
    <3> QED BY <3>1 DEF PlanOf
  <2>2. at[0].grants = valid /\ at[0].todo = <<>>
    OBVIOUS
  <2>3. /\ usage.group \in Group /\ usage.used \in Seq(UsedUnit)
        /\ valid \in Seq(GrantOf(Ref)) /\ b \in [Ref -> Left]
        /\ \A i, j \in DOMAIN valid : valid[i].ref = valid[j].ref => i = j
        /\ ahead \in Nat /\ Covers(b, valid, ahead)
    OBVIOUS
  <2>4. PlanFits(usage, valid, b, t, ahead, 0, at[0])
    BY ONLY <2>2, <2>3, FirstFits
  <2> QED BY <2>1, <2>4
<1>8. ASSUME NEW k \in 1..n, k - 1 \in S PROVE k \in S
  <2>1. PICK plan \in PlanOf(Ref, Ref) :
          plan = at[k - 1] /\ PlanFits(usage, valid, b, t, ahead, k - 1, plan)
    BY <1>8
  <2>2. k \in 1..Len(usage.used)
    BY <1>2
  <2>3. PICK container \in UsedUnit : container = usage.used[k]
    BY <2>2
  <2>4. at[k] = ChargeContainer(group, plan, container)
    BY <2>1, <2>2, <2>3
  <2>5. at[k] \in PlanOf(Ref, Ref)
    <3>1. group \in Group /\ group \notin Free
      OBVIOUS
    <3>2. PICK R : R = Ref
      OBVIOUS
    <3>3. /\ plan \in PlanOf(R, R) /\ container \in UsedUnit
          /\ group \notin Free => R \subseteq R
      BY <3>2
    <3>4. ChargeContainer(group, plan, container) \in PlanOf(R, R)
      BY ONLY <3>1, <3>3, ContainerFact
    <3> QED BY <2>4, <3>2, <3>4
  <2>6. PlanFits(usage, valid, b, t, ahead, k, at[k])
    <3>1. CASE ~plan.fits \/ container.units = 0
      <4>1. at[k] = plan
        BY <2>4, <3>1 DEF ChargeContainer
      <4>2. /\ ~plan.fits \/ usage.used[k].units = 0
            /\ usage.group \in Group /\ usage.used \in Seq(UsedUnit)
            /\ b \in [Ref -> Left] /\ k \in 1..Len(usage.used)
            /\ plan \in PlanOf(Ref, Ref)
            /\ PlanFits(usage, valid, b, t, ahead, k - 1, plan)
        BY <2>1, <2>2, <2>3, <3>1
      <4>3. PlanFits(usage, valid, b, t, ahead, k, plan)
        BY ONLY <4>2, IdleFits
      <4> QED BY <4>1, <4>3
    <3>2. CASE plan.fits /\ container.units # 0
      <4>1. /\ group = usage.group /\ group \in Group \ Free /\ usage.used \in Seq(UsedUnit)
            /\ valid \in Seq(GrantOf(Ref)) /\ t \in Nat
            /\ \A j \in DOMAIN valid : valid[j].until > t
            /\ b \in [Ref -> Left] /\ ahead \in Nat
            /\ UsageTakes(usage)[Len(usage.used)] <= ahead
            /\ k \in 1..Len(usage.used) /\ usage.used[k].units # 0
            /\ plan \in PlanOf(Ref, Ref) /\ plan.fits
            /\ PlanFits(usage, valid, b, t, ahead, k - 1, plan)
        BY <2>1, <2>2, <2>3, <3>2
      <4>2. PlanFits(usage, valid, b, t, ahead, k, ChargeContainer(group, plan, usage.used[k]))
        BY ONLY <4>1, ChargedFits
      <4> QED BY <2>3, <2>4, <4>2
    <3> QED BY <3>1, <3>2
  <2> QED BY <2>5, <2>6
<1>9. n \in S
  <2>1. \A k \in 0..n : k \in S
    <3> HIDE DEF S
    <3> QED BY <1>7, <1>8, UpTo
  <2> QED BY <2>1
<1> QED BY <1>2, <1>9

-----------------------------------------------------------------------------
\* What going on to the next usage makes of the context.
Planned(q, context, at, new) ==
  LET usage == Requests[q].usage[context.done + 1]
      n     == Len(usage.used)
  IN  /\ new.at = context.at /\ new.done = context.done + 1
      /\ new.todo = at[n].todo /\ new.fits = at[n].fits
      /\ new.grants = [context.grants EXCEPT ![usage.group] = ValidGrants(context, usage.group)]
      /\ Settled(q, new).grants = [context.grants EXCEPT ![usage.group] = at[n].grants]

\* The next context is made from the last plan.
LEMMA PlanPut ==
  ASSUME NEW q \in Request, NEW context \in Context, context.done < Len(Requests[q].usage),
         NEW at, PlanRun(q, context, at)
  PROVE  Planned(q, context, at, NextUsage(q, context))
<1>a. PICK new, usage, n : /\ new = NextUsage(q, context)
                           /\ usage = Requests[q].usage[context.done + 1] /\ n = Len(usage.used)
  OBVIOUS
<1>1. PICK done \in Nat \ {0} : done = context.done + 1
  BY DEF Context
<1>2. usage.group \in Group
  <2>1. context.done + 1 \in 1..Len(Requests[q].usage)
    BY RequestFact DEF Context
  <2> QED BY <1>a, <2>1, RequestFact
<1>3. PICK grants : grants = [context.grants EXCEPT ![usage.group] =
                                ValidGrants(context, usage.group)]
  OBVIOUS
<1>4. PICK todo, kept, fits : todo = at[n].todo /\ kept = at[n].grants /\ fits = at[n].fits
  OBVIOUS
<1>5. new = [context EXCEPT !.done = done, !.grants = grants, !.todo = todo, !.kept = kept,
                            !.fits = fits]
  <2>1. NextUsage(q, context) =
          [context EXCEPT !.done = @ + 1,
                          !.grants[usage.group] = ValidGrants(context, usage.group),
                          !.todo = at[n].todo, !.kept = at[n].grants, !.fits = at[n].fits]
    BY <1>a DEF PlanRun
  <2>2. NextUsage(q, context) =
          [context EXCEPT !.done = done, !.grants = grants, !.todo = todo, !.kept = kept,
                          !.fits = fits]
    BY ONLY <1>1, <1>3, <1>4, <2>1
  <2> QED BY <1>a, <2>2
<1>6. /\ new.at = context.at /\ new.done = done /\ new.todo = todo /\ new.fits = fits
      /\ new.grants = grants /\ new.kept = kept
  BY <1>5 DEF Context
<1>7. UsageGroup(q, new) = usage.group
  BY <1>1, <1>a, <1>6 DEF UsageGroup
<1>8. Settled(q, new) = [new EXCEPT !.grants[usage.group] = kept, !.kept = <<>>]
  BY <1>6, <1>7 DEF Settled
<1>9. Settled(q, new).grants = [grants EXCEPT ![usage.group] = kept]
  BY <1>5, <1>6, <1>8 DEF Context
<1>10. context.grants \in [Group -> Seq(Grant)]
  BY DEF Context, Grants
<1>11. [grants EXCEPT ![usage.group] = kept] = [context.grants EXCEPT ![usage.group] = kept]
  BY <1>2, <1>3, <1>10
<1> QED BY <1>1, <1>a, <1>3, <1>4, <1>6, <1>9, <1>11 DEF Planned

\* In a group free of charge no debit is planned.
LEMMA FreePlan ==
  ASSUME NEW usage, usage.group \in Free, usage.used \in Seq(UsedUnit), NEW at,
         at[0].todo = <<>>,
         \A k \in 1..Len(usage.used) :
           at[k] = ChargeContainer(usage.group, at[k - 1], usage.used[k])
  PROVE  at[Len(usage.used)].todo = <<>>
<1>1. PICK n \in Nat : n = Len(usage.used)
  OBVIOUS
<1> DEFINE S == {k \in 0..n : at[k].todo = <<>>}
<1>2. 0 \in S
  OBVIOUS
<1>3. ASSUME NEW k \in 1..n, k - 1 \in S PROVE k \in S
  <2>1. PICK plan, container : plan = at[k - 1] /\ container = usage.used[k]
    OBVIOUS
  <2>2. plan.todo = <<>> /\ at[k] = ChargeContainer(usage.group, plan, container)
    BY <1>1, <1>3, <2>1
  <2>3. \A grants, i, taken : Charges(usage.group, grants, i, container, taken) = <<>>
    BY DEF Charges
  <2>4. <<>> \o <<>> = <<>>
    OBVIOUS
  <2>5. at[k].todo = <<>>
    BY ONLY <2>2, <2>3, <2>4 DEF ChargeContainer
  <2>6. k \in 0..n
    BY <1>1, <1>3
  <2> QED BY ONLY <2>5, <2>6
<1>4. \A k \in 0..n : k \in S
  <2> HIDE DEF S
  <2> QED BY <1>2, <1>3, UpTo
<1> QED BY <1>1, <1>4

\* What is left of the valid ones of some grants is left of the grants.
LEMMA LeftOfAmong ==
  ASSUME NEW grants, NEW valid, Among(valid, grants),
         \A i, j \in DOMAIN grants : grants[i].ref = grants[j].ref => i = j
  PROVE  LeftOf(grants, valid) /\ \A kept : LeftOf(valid, kept) => LeftOf(grants, kept)
<1>1. PICK h \in [DOMAIN valid -> DOMAIN grants] :
        /\ \A j \in DOMAIN valid : valid[j] = grants[h[j]]
        /\ \A i, j \in DOMAIN valid : h[i] = h[j] => i = j
  BY DEF Among
<1>2. LeftOf(grants, valid)
  <2>1. \A j \in DOMAIN valid : h[j] \in DOMAIN grants
    BY <1>1
  <2> QED BY <1>1, <2>1 DEF LeftOf
<1>3. ASSUME NEW kept, LeftOf(valid, kept) PROVE LeftOf(grants, kept)
  <2>1. ASSUME NEW i \in DOMAIN kept
        PROVE  \E j \in DOMAIN grants : /\ kept[i].ref = grants[j].ref
                                        /\ kept[i].seq = grants[j].seq
                                        /\ kept[i].until = grants[j].until
    <3>1. PICK j \in DOMAIN valid : /\ kept[i].ref = valid[j].ref /\ kept[i].seq = valid[j].seq
                                    /\ kept[i].until = valid[j].until
      BY <1>3 DEF LeftOf
    <3>2. h[j] \in DOMAIN grants /\ valid[j] = grants[h[j]]
      BY <1>1
    <3> QED BY <3>1, <3>2
  <2>2. \A i, j \in DOMAIN kept : kept[i].ref = kept[j].ref => i = j
    BY <1>3 DEF LeftOf
  <2> QED BY <2>1, <2>2 DEF LeftOf
<1> QED BY <1>2, <1>3

\* With the grants of one group replaced by what is left of them, all the grants
\* still have an id each, which was drawn for who made them, or is in the record.
LEMMA KeptGrants ==
  ASSUME NEW q \in Request, NEW m \in Grants, Distinct(m), OwnSeq(q, m),
         NEW group \in Group, NEW kept, group \in Free \/ LeftOf(m[group], kept),
         NEW new, new = [m EXCEPT ![group] = kept]
  PROVE  Distinct(new) /\ OwnSeq(q, new) /\ \A s : FromRecord(s, m) => FromRecord(s, new)
<1>1. new[group] = kept /\ \A g \in Group : g # group => new[g] = m[g]
  BY DEF Grants
<1>2. ASSUME NEW g \in Group \ Free, NEW i \in DOMAIN new[g]
      PROVE  \E j \in DOMAIN m[g] : /\ new[g][i].ref = m[g][j].ref
                                    /\ new[g][i].seq = m[g][j].seq
  <2>1. CASE g = group
    BY <1>1, <2>1 DEF LeftOf
  <2>2. CASE g # group
    BY <1>1, <2>2
  <2> QED BY <2>1, <2>2
<1>3. ASSUME NEW g \in Group \ Free, NEW h \in Group \ Free,
             NEW i \in DOMAIN new[g], NEW j \in DOMAIN new[h], new[g][i].ref = new[h][j].ref
      PROVE  g = h /\ i = j
  <2>1. PICK k \in DOMAIN m[g] : new[g][i].ref = m[g][k].ref
    BY <1>2
  <2>2. PICK l \in DOMAIN m[h] : new[h][j].ref = m[h][l].ref
    BY <1>2
  <2>3. g = h /\ k = l
    BY <1>3, <2>1, <2>2 DEF Distinct
  <2>4. CASE g = group
    BY <1>1, <1>3, <2>3, <2>4 DEF LeftOf
  <2>5. CASE g # group
    BY <1>1, <1>3, <2>3, <2>5 DEF Distinct
  <2> QED BY <2>3, <2>4, <2>5
<1>4. Distinct(new)
  BY <1>3 DEF Distinct
<1>5. OwnSeq(q, new)
  <2>1. ASSUME NEW g \in Group \ Free, NEW i \in DOMAIN new[g], new[g][i].seq = Requests[q].seq
        PROVE  new[g][i].ref \in Mine(q)
    <3>1. PICK j \in DOMAIN m[g] : new[g][i].ref = m[g][j].ref /\ new[g][i].seq = m[g][j].seq
      BY <1>2
    <3> QED BY <2>1, <3>1 DEF OwnSeq
  <2> QED BY <2>1 DEF OwnSeq
<1>6. ASSUME NEW s, FromRecord(s, m) PROVE FromRecord(s, new)
  <2>1. ASSUME NEW g \in Group \ Free, NEW i \in DOMAIN new[g]
        PROVE  \E j \in DOMAIN records[s].grants[g] : new[g][i].ref = records[s].grants[g][j].ref
    <3>1. PICK j \in DOMAIN m[g] : new[g][i].ref = m[g][j].ref
      BY <1>2
    <3> QED BY <1>6, <3>1 DEF FromRecord
  <2> QED BY <2>1 DEF FromRecord
<1> QED BY <1>4, <1>5, <1>6

\* Of what was covered before a usage, what is left covers the usages after it.
LEMMA KeptSuffices ==
  ASSUME NEW q \in Request, NEW m \in GrantsOf(Ref), Distinct(m), NEW t,
         NEW n \in 1..Len(Requests[q].usage),
         NEW group \in Group, group = Requests[q].usage[n].group,
         NEW b \in [Ref -> Left], NEW left, NEW taken, NEW back, NEW valid, NEW kept,
         Suffices(q, m, t, n - 1, b), Lowered(b, left, taken, back, valid),
         group \notin Free => Covers(left, kept, Ahead(q, group, n)),
         valid = <<>> \/ (group \notin Free /\ Among(valid, m[group])),
         NEW new, new = [m EXCEPT ![group] = kept]
  PROVE  Suffices(q, new, t, n, left)
<1>1. new[group] = kept /\ \A g \in Group : g # group => new[g] = m[g]
  BY DEF Grants, GrantsOf
<1>2. ASSUME NEW g \in Group \ Free, NEW i \in DOMAIN new[g], new[g][i].until > t
      PROVE  /\ left[new[g][i].ref].units >= Least(new[g][i].units, Ahead(q, g, n))
             /\ left[new[g][i].ref].units > 0 => left[new[g][i].ref].until = new[g][i].until
  <2>1. CASE g = group
    BY <1>1, <2>1 DEF Covers
  <2>2. CASE g # group
    <3>1. new[g] = m[g] /\ i \in DOMAIN m[g]
      BY <1>1, <2>2
    <3>2. PICK r \in Ref : r = m[g][i].ref
      <4>1. m[g] \in Seq(GrantOf(Ref))
        BY DEF GrantsOf, RefsOf
      <4>2. m[g][i] \in GrantOf(Ref)
        BY <3>1, <4>1
      <4> QED BY <4>2 DEF GrantOf
    <3>3. \A j \in DOMAIN valid : valid[j].ref # r
      <4>1. CASE valid = <<>>
        BY <4>1
      <4>2. CASE group \notin Free /\ Among(valid, m[group])
        <5>1. ASSUME NEW j \in DOMAIN valid, valid[j].ref = r PROVE FALSE
          <6>1. PICK k \in DOMAIN m[group] : valid[j] = m[group][k]
            BY <4>2 DEF Among
          <6>2. m[group][k].ref = m[g][i].ref
            BY <3>2, <5>1, <6>1
          <6> QED BY <2>2, <3>1, <4>2, <6>2 DEF Distinct
        <5> QED BY <5>1
      <4> QED BY <4>1, <4>2
    <3>4. left[r] = b[r]
      BY <3>3 DEF Lowered
    <3>5. /\ b[r].units >= Least(m[g][i].units, Ahead(q, g, n - 1))
          /\ b[r].units > 0 => b[r].until = m[g][i].until
      BY <1>2, <3>1, <3>2 DEF Suffices
    <3>6. Ahead(q, g, n) = Ahead(q, g, n - 1)
      <4>1. Part(q, g, n) = 0
        BY <2>2 DEF Part
      <4>2. Ahead(q, g, n) = Ahead(q, g, n - 1) - Part(q, g, n)
        BY AheadFact
      <4>3. Ahead(q, g, n - 1) \in Nat
        <5>1. n - 1 \in 0..Len(Requests[q].usage)
          BY RequestFact
        <5> QED BY <5>1, AheadFact
      <4> QED BY <4>1, <4>2, <4>3
    <3> QED BY <3>1, <3>2, <3>4, <3>5, <3>6
  <2> QED BY <2>1, <2>2
<1> QED BY <1>2 DEF Suffices

\* The book was lowered by usage n of request q, which is of the group.
LoweredBy(q, group, n, b, left, valid) ==
  \E back : /\ Lowered(b, left, Part(q, group, n), back, valid)
            /\ back => GivesBack(q, group)

\* A usage lowers the book by what its request then has reported.
LEMMA KeptAgrees ==
  ASSUME NEW q \in Request, NEW s, NEW m \in Grants,
         NEW n \in 1..Len(Requests[q].usage),
         NEW group \in Group, group = Requests[q].usage[n].group,
         NEW b \in [Ref -> Left], NEW left \in [Ref -> Left], NEW valid,
         LoweredBy(q, group, n, b, left, valid),
         valid = <<>> \/ (group \notin Free /\ Among(valid, m[group])),
         q \in Since(s, records[s].seq),
         records[s].grants \in GrantsOf(Ref), Distinct(records[s].grants),
         FromRecord(s, m),
         Agrees(s, b, AheadOf(q, n - 1))
  PROVE  Agrees(s, left, AheadOf(q, n))
<1>1. PICK row, given : /\ row = records[s] /\ given = row.grants /\ given \in GrantsOf(Ref)
                        /\ Distinct(given)
  OBVIOUS
<1>b. PICK back : Lowered(b, left, Part(q, group, n), back, valid) /\ (back => GivesBack(q, group))
  BY DEF LoweredBy
<1>2. ASSUME NEW g \in Group \ Free, NEW i \in DOMAIN given[g]
      PROVE  LET r == given[g][i].ref
             IN  /\ left[r].units > 0 => left[r].until = given[g][i].until
                 /\ \/ \E p \in Since(s, row.seq) : GivesBack(p, g)
                    \/ left[r].units + Spent(s, row.seq, g)
                          >= given[g][i].units + Ahead(q, g, n)
  <2>1. PICK r \in Ref, units \in Nat, until \in Nat :
          r = given[g][i].ref /\ units = given[g][i].units /\ until = given[g][i].until
    <3>1. given[g] \in Seq(GrantOf(Ref))
      BY <1>1 DEF GrantsOf, RefsOf
    <3>2. given[g][i] \in GrantOf(Ref)
      BY <3>1
    <3> QED BY <3>2 DEF GrantOf
  <2>2. PICK ahead \in Nat, after \in Nat, part \in Nat :
          /\ ahead = Ahead(q, g, n - 1) /\ after = Ahead(q, g, n) /\ part = Part(q, g, n)
          /\ after = ahead - part
    <3>1. n - 1 \in 0..Len(Requests[q].usage) /\ n \in 0..Len(Requests[q].usage)
      BY RequestFact
    <3>2. q \in Request /\ g \in Group /\ n \in 1..Len(Requests[q].usage)
      OBVIOUS
    <3>3. /\ Ahead(q, g, n - 1) \in Nat /\ Ahead(q, g, n) \in Nat /\ Part(q, g, n) \in Nat
          /\ Ahead(q, g, n) = Ahead(q, g, n - 1) - Part(q, g, n)
      BY ONLY <3>1, <3>2, AheadFact
    <3> QED BY ONLY <3>3
  <2>3. PICK spent \in Nat : spent = Spent(s, row.seq, g)
    BY SpentFact DEF Spent
  <2>4. PICK old \in Left, new \in Left : old = b[r] /\ new = left[r]
    OBVIOUS
  <2>5. /\ old.units > 0 => old.until = until
        /\ \/ \E p \in Since(s, row.seq) : GivesBack(p, g)
           \/ old.units + spent >= units + ahead
    BY <1>1, <2>1, <2>2, <2>3, <2>4 DEF Agrees, AheadOf
  <2>6. /\ (\A j \in DOMAIN valid : valid[j].ref # r) => new = old
        /\ back \/ new.units + Part(q, group, n) >= old.units
        /\ new.units > 0 => new.until = old.until /\ old.units > 0
    BY <1>b, <2>4 DEF Lowered
  <2>7. new.units > 0 => new.until = until
    BY <2>5, <2>6
  <2>8. PICK x \in Nat, y \in Nat : x = new.units /\ y = old.units
    BY DEF Left
  <2>b. /\ x \in Nat /\ y \in Nat /\ spent \in Nat /\ units \in Nat
        /\ ahead \in Nat /\ after \in Nat /\ part \in Nat
    OBVIOUS
  <2>c. PICK gone \in BOOLEAN : gone = \E p \in Since(s, row.seq) : GivesBack(p, g)
    OBVIOUS
  <2>d. gone \/ y + spent >= units + ahead
    BY ONLY <2>5, <2>8, <2>c
  <2>9. \/ \E p \in Since(s, row.seq) : GivesBack(p, g)
        \/ x + spent >= units + after
    <3>1. CASE \A j \in DOMAIN valid : valid[j].ref # r
      <4>1. x = y
        BY <2>6, <2>8, <3>1
      <4>2. gone \/ x + spent >= units + after
        BY ONLY <2>b, <2>2, <2>d, <4>1
      <4> QED BY ONLY <2>c, <4>2
    <3>2. CASE ~\A j \in DOMAIN valid : valid[j].ref # r
      <4>1. PICK j \in DOMAIN valid : valid[j].ref = r
        BY <3>2
      <4>2. group \notin Free /\ Among(valid, m[group])
        BY <4>1
      <4>3. PICK k \in DOMAIN m[group] : valid[j] = m[group][k]
        BY <4>2 DEF Among
      <4>4. PICK l \in DOMAIN given[group] : given[group][l].ref = r
        <5>1. FromRecord(s, m) /\ group \in Group \ Free /\ k \in DOMAIN m[group]
          BY <4>2
        <5>2. \E l \in DOMAIN records[s].grants[group] :
                m[group][k].ref = records[s].grants[group][l].ref
          BY ONLY <5>1 DEF FromRecord
        <5> QED BY <1>1, <4>1, <4>3, <5>2
      <4>5. g = group
        <5>1. /\ Distinct(given) /\ g \in Group \ Free /\ group \in Group \ Free
              /\ i \in DOMAIN given[g] /\ l \in DOMAIN given[group]
              /\ given[g][i].ref = given[group][l].ref
          BY <1>1, <2>1, <4>2, <4>4
        <5> QED BY ONLY <5>1 DEF Distinct
      <4>6. CASE back
        BY <1>1, <1>b, <4>5, <4>6
      <4>7. CASE ~back
        <5>1. x + part >= y
          BY <2>2, <2>6, <2>8, <4>5, <4>7
        <5>2. y + spent >= units + ahead => x + spent >= units + after
          <6>1. after = ahead - part
            BY <2>2
          <6> QED BY ONLY <2>b, <5>1, <6>1
        <5>3. gone \/ x + spent >= units + after
          BY ONLY <2>d, <5>2
        <5> QED BY ONLY <2>c, <5>3
      <4> QED BY <4>6, <4>7
    <3> QED BY <3>1, <3>2
  <2> QED BY <2>1, <2>2, <2>3, <2>4, <2>7, <2>8, <2>9
<1> QED BY <1>1, <1>2 DEF Agrees, AheadOf

\* The debits of the next usage, and how they leave the book.
Continues(q, context, b, new, f) ==
  /\ Course(f, new.todo, context.at) /\ f[0] = b
  /\ new.fits => Suffices(q, Settled(q, new).grants, context.at, context.done + 1,
                          f[Len(new.todo)])
  /\ \A s \in Session :
       /\ q \in Since(s, records[s].seq)
       /\ records[s].grants \in GrantsOf(Ref) /\ Distinct(records[s].grants)
       /\ FromRecord(s, context.grants)
       /\ Agrees(s, b, AheadOf(q, context.done))
       => \A k \in 0..Len(new.todo) :
            Agrees(s, f[k], AheadOf(q, context.done + 1))

\* A book is lowered by nothing.
LEMMA LoweredNot ==
  ASSUME NEW b \in [Ref -> Left], NEW taken \in Nat, NEW back, NEW valid
  PROVE  Lowered(b, b, taken, back, valid)
<1>1. \A r \in Ref : b[r].units \in Nat
  BY DEF Left
<1>2. \A r \in Ref : b[r].units + taken >= b[r].units
  BY <1>1
<1> QED BY <1>2 DEF Lowered

\* A usage of a group that is free of charge leaves everything as it is.
LEMMA FreeContinues ==
  ASSUME NEW q \in Request, NEW context \in Context,
         context.done < Len(Requests[q].usage), context.grants \in GrantsOf(Ref),
         Distinct(context.grants), NEW b \in [Ref -> Left],
         Suffices(q, context.grants, context.at, context.done, b),
         Requests[q].usage[context.done + 1].group \in Free,
         NEW new, new = NextUsage(q, context)
  PROVE  new.todo = <<>> /\ \E f : Continues(q, context, b, new, f)
<1>1. PICK n \in 1..Len(Requests[q].usage), t \in Nat :
        n = context.done + 1 /\ n - 1 = context.done /\ t = context.at
  <2>1. context.done \in Nat /\ context.at \in Nat
    BY NumberFact DEF Context
  <2>2. context.done < Len(Requests[q].usage) /\ Len(Requests[q].usage) \in Nat
    BY RequestFact
  <2>3. context.done + 1 \in 1..Len(Requests[q].usage) /\ (context.done + 1) - 1 = context.done
    BY <2>1, <2>2
  <2> QED BY <2>1, <2>3
<1>a. PICK usage : usage = Requests[q].usage[n]
  OBVIOUS
<1>2. PICK group \in Group : /\ group = usage.group /\ usage.group \in Free
                            /\ usage.used \in Seq(UsedUnit)
  <2>1. usage.group \in Group /\ usage.used \in Seq(UsedUnit)
    BY <1>a, RequestFact
  <2>2. usage.group \in Free
    BY <1>1, <1>a
  <2> QED BY <2>1, <2>2
<1>3. PICK at : PlanRun(q, context, at)
  BY PlanRunFact
<1>4. PICK N, kept : N = Len(usage.used) /\ kept = at[N].grants
  OBVIOUS
<1>5. /\ new.todo = at[N].todo
      /\ Settled(q, new).grants = [context.grants EXCEPT ![group] = kept]
  <2>1. Planned(q, context, at, new)
    BY <1>3, PlanPut
  <2> QED BY <1>1, <1>a, <1>2, <1>4, <2>1 DEF Planned
<1>6. new.todo = <<>>
  <2>1. /\ at[0] = [grants |-> ValidGrants(context, usage.group), todo |-> <<>>,
                    fits   |-> usage.group \in context.groups \/ usage.used = <<>>]
        /\ \A k \in 1..Len(usage.used) :
             at[k] = ChargeContainer(usage.group, at[k - 1], usage.used[k])
    BY <1>1, <1>a, <1>3 DEF PlanRun
  <2>2. at[0].todo = <<>>
    BY <2>1
  <2>3. usage.group \in Free /\ usage.used \in Seq(UsedUnit)
    BY <1>2
  <2>4. at[Len(usage.used)].todo = <<>>
    BY ONLY <2>1, <2>2, <2>3, FreePlan
  <2> QED BY <1>4, <1>5, <2>4
<1>7. PICK f : f = [i \in 0..0 |-> b]
  OBVIOUS
<1>8. Course(f, <<>>, t) /\ f[0] = b
  BY <1>7 DEF Course
<1>9. PICK m \in GrantsOf(Ref) : m = context.grants
  OBVIOUS
<1>10. PICK settled : settled = Settled(q, new).grants /\ settled = [m EXCEPT ![group] = kept]
  BY <1>5, <1>9
<1>11. Suffices(q, settled, t, n, b)
  <2>1. /\ q \in Request /\ m \in GrantsOf(Ref) /\ Distinct(m)
        /\ n \in 1..Len(Requests[q].usage) /\ group \in Group
        /\ group = Requests[q].usage[n].group /\ b \in [Ref -> Left]
        /\ Suffices(q, m, t, n - 1, b) /\ group \in Free
        /\ settled = [m EXCEPT ![group] = kept]
    BY <1>1, <1>a, <1>2, <1>9, <1>10
  <2>2. PICK valid : valid = <<>>
    OBVIOUS
  <2>3. Lowered(b, b, 0, FALSE, valid)
    BY LoweredNot
  <2> QED BY ONLY <2>1, <2>2, <2>3, KeptSuffices
<1>12. ASSUME NEW s \in Session, q \in Since(s, records[s].seq),
              records[s].grants \in GrantsOf(Ref), Distinct(records[s].grants),
              FromRecord(s, context.grants),
              Agrees(s, b, AheadOf(q, context.done))
       PROVE  Agrees(s, b, AheadOf(q, n))
  <2>1. PICK valid : valid = <<>>
    OBVIOUS
  <2>2. LoweredBy(q, group, n, b, b, valid)
    <3>1. Part(q, group, n) \in Nat
      BY AheadFact
    <3> QED BY <3>1, LoweredNot DEF LoweredBy
  <2>3. /\ q \in Request /\ m \in Grants /\ n \in 1..Len(Requests[q].usage)
        /\ group \in Group /\ group = Requests[q].usage[n].group /\ b \in [Ref -> Left]
        /\ q \in Since(s, records[s].seq)
        /\ records[s].grants \in GrantsOf(Ref) /\ Distinct(records[s].grants)
        /\ FromRecord(s, m) /\ Agrees(s, b, AheadOf(q, n - 1))
    BY <1>1, <1>a, <1>2, <1>9, <1>12 DEF GrantsOf
  <2> QED BY ONLY <2>1, <2>2, <2>3, KeptAgrees
<1>13. Continues(q, context, b, new, f)
  <2>1. Len(new.todo) = 0 /\ \A k \in 0..0 : k = 0
    BY <1>6
  <2>2. Course(f, new.todo, context.at) /\ f[0] = b
    BY <1>1, <1>6, <1>8
  <2>3. Suffices(q, Settled(q, new).grants, context.at, context.done + 1, f[Len(new.todo)])
    BY <1>1, <1>8, <1>10, <1>11, <2>1
  <2>4. ASSUME NEW s \in Session, q \in Since(s, records[s].seq),
               records[s].grants \in GrantsOf(Ref), Distinct(records[s].grants),
               FromRecord(s, context.grants),
               Agrees(s, b, AheadOf(q, context.done)),
               NEW k \in 0..Len(new.todo)
        PROVE  Agrees(s, f[k], AheadOf(q, context.done + 1))
    <3>1. f[k] = b
      BY <1>8, <2>1, <2>4
    <3>2. Agrees(s, b, AheadOf(q, n))
      BY <1>12, <2>4
    <3> QED BY <1>1, <3>1, <3>2
  <2> QED BY <2>2, <2>3, <2>4 DEF Continues
<1> QED BY <1>6, <1>13

\* What a usage takes is all that is then not ahead any more.
LEMMA PartFact ==
  ASSUME NEW q \in Request, NEW n \in 1..Len(Requests[q].usage),
         NEW usage, usage = Requests[q].usage[n],
         NEW group \in Group, group = usage.group
  PROVE  /\ UsageTakes(usage)[Len(usage.used)] = Part(q, group, n)
         /\ Part(q, group, n) \in Nat /\ Ahead(q, group, n - 1) \in Nat
         /\ Part(q, group, n) <= Ahead(q, group, n - 1)
         /\ Ahead(q, group, n - 1) - Part(q, group, n) = Ahead(q, group, n)
         /\ GivenBack(usage, Len(usage.used)) => GivesBack(q, group)
<1>1. UsageTakes(usage)[Len(usage.used)] = Part(q, group, n)
  BY DEF Part
<1>2. n - 1 \in 0..Len(Requests[q].usage) /\ n \in 0..Len(Requests[q].usage)
  BY RequestFact
<1>3. /\ q \in Request /\ group \in Group /\ n \in 1..Len(Requests[q].usage)
  OBVIOUS
<1>4. PICK part \in Nat, before \in Nat, after \in Nat :
        /\ part = Part(q, group, n) /\ before = Ahead(q, group, n - 1)
        /\ after = Ahead(q, group, n) /\ after = before - part
  <2>1. /\ Part(q, group, n) \in Nat /\ Ahead(q, group, n - 1) \in Nat
        /\ Ahead(q, group, n) \in Nat
        /\ Ahead(q, group, n) = Ahead(q, group, n - 1) - Part(q, group, n)
    BY ONLY <1>2, <1>3, AheadFact
  <2> QED BY ONLY <2>1
<1>5. part <= before /\ before - part = after
  BY <1>4
<1>6. GivenBack(usage, Len(usage.used)) => GivesBack(q, group)
  <2>1. usage.used \in Seq(UsedUnit) /\ n \in DOMAIN Requests[q].usage
    BY RequestFact
  <2>2. DOMAIN usage.used = 1..Len(usage.used)
    BY <2>1
  <2> QED BY <2>1, <2>2 DEF GivenBack, GivesBack
<1> QED BY <1>1, <1>4, <1>5, <1>6

\* The valid grants of a group are covered if what can still be charged is.
LEMMA ValidCovered ==
  ASSUME NEW q, NEW m, NEW t, NEW n, NEW b, Suffices(q, m, t, n, b), NEW group \in Group \ Free,
         NEW valid, Among(valid, m[group]), \A j \in DOMAIN valid : valid[j].until > t
  PROVE  Covers(b, valid, Ahead(q, group, n))
<1>1. ASSUME NEW j \in DOMAIN valid
      PROVE  /\ b[valid[j].ref].units >= Least(valid[j].units, Ahead(q, group, n))
             /\ b[valid[j].ref].units > 0 => b[valid[j].ref].until = valid[j].until
  <2>1. PICK k \in DOMAIN m[group] : valid[j] = m[group][k]
    BY DEF Among
  <2>2. m[group][k].until > t
    BY <2>1
  <2>3. /\ b[m[group][k].ref].units >= Least(m[group][k].units, Ahead(q, group, n))
        /\ b[m[group][k].ref].units > 0 => b[m[group][k].ref].until = m[group][k].until
    BY <2>2 DEF Suffices
  <2> QED BY <2>1, <2>3
<1> QED BY <1>1 DEF Covers

\* A usage of a group that is charged.
LEMMA PaidContinues ==
  ASSUME NEW q \in Request, NEW context \in Context,
         context.done < Len(Requests[q].usage), context.grants \in GrantsOf(Ref),
         Distinct(context.grants), NEW b \in [Ref -> Left],
         Suffices(q, context.grants, context.at, context.done, b),
         NEW group \in Group \ Free, group = Requests[q].usage[context.done + 1].group,
         NEW new, new = NextUsage(q, context)
  PROVE  /\ \A i \in DOMAIN new.todo : new.todo[i].units > 0
         /\ \E f : Continues(q, context, b, new, f)
         /\ LeftOf(context.grants[group], new.grants[group])
         /\ LeftOf(context.grants[group], Settled(q, new).grants[group])
<1>1. PICK n \in 1..Len(Requests[q].usage), t \in Nat :
        n = context.done + 1 /\ n - 1 = context.done /\ t = context.at
  <2>1. context.done \in Nat /\ context.at \in Nat
    BY NumberFact DEF Context
  <2>2. context.done < Len(Requests[q].usage) /\ Len(Requests[q].usage) \in Nat
    BY RequestFact
  <2>3. context.done + 1 \in 1..Len(Requests[q].usage) /\ (context.done + 1) - 1 = context.done
    BY <2>1, <2>2
  <2> QED BY <2>1, <2>3
<1>2. PICK usage : usage = Requests[q].usage[n]
  OBVIOUS
<1>3. usage.group = group /\ group \in Group /\ usage.used \in Seq(UsedUnit)
  BY <1>1, <1>2, RequestFact
<1>4. PICK at : PlanRun(q, context, at)
  BY PlanRunFact
<1>b. PICK N \in Nat : N = Len(usage.used)
  BY <1>3
<1>5. PICK kept : N = Len(usage.used) /\ kept = at[N].grants
  BY <1>b
<1>6. PICK m \in GrantsOf(Ref) : m = context.grants
  OBVIOUS
<1>7. PICK valid : valid = ValidGrants(context, group)
  OBVIOUS
<1>8. /\ valid \in Seq(GrantOf(Ref)) /\ Among(valid, m[group])
      /\ \A j \in DOMAIN valid : valid[j].until > t
  <2>1. context.grants[group] \in Seq(GrantOf(Ref))
    BY DEF GrantsOf, RefsOf
  <2> QED BY <1>1, <1>6, <1>7, <2>1, ValidFact
<1>9. /\ new.todo = at[N].todo /\ new.fits = at[N].fits
      /\ new.grants = [m EXCEPT ![group] = valid]
      /\ Settled(q, new).grants = [m EXCEPT ![group] = kept]
  <2>1. Planned(q, context, at, new)
    BY <1>4, PlanPut
  <2> QED BY <1>1, <1>2, <1>3, <1>5, <1>6, <1>7, <2>1 DEF Planned
<1>10. PICK settled : settled = Settled(q, new).grants /\ settled = [m EXCEPT ![group] = kept]
  BY <1>9
<1>11. new.grants[group] = valid /\ settled[group] = kept
  BY <1>9, <1>10 DEF GrantsOf, Grants
<1>12. \A i, j \in DOMAIN m[group] : m[group][i].ref = m[group][j].ref => i = j
  <2>1. Distinct(m) /\ group \in Group \ Free
    BY <1>6
  <2> QED BY ONLY <2>1 DEF Distinct
<1>13. \A i, j \in DOMAIN valid : valid[i].ref = valid[j].ref => i = j
  <2>1. LeftOf(m[group], valid)
    BY <1>8, <1>12, LeftOfAmong
  <2> QED BY <2>1 DEF LeftOf
<1>c. PICK back : back = GivenBack(usage, N)
  OBVIOUS
<1>14. PICK taken \in Nat, ahead \in Nat :
         /\ taken = UsageTakes(usage)[N] /\ taken = Part(q, group, n)
         /\ ahead = Ahead(q, group, n - 1) /\ taken <= ahead
         /\ ahead - taken = Ahead(q, group, n)
         /\ (back => GivesBack(q, group))
  <2>1. /\ q \in Request /\ n \in 1..Len(Requests[q].usage)
        /\ usage = Requests[q].usage[n] /\ group \in Group /\ group = usage.group
    BY <1>2, <1>3
  <2>2. /\ UsageTakes(usage)[Len(usage.used)] = Part(q, group, n)
        /\ Part(q, group, n) \in Nat /\ Ahead(q, group, n - 1) \in Nat
        /\ Part(q, group, n) <= Ahead(q, group, n - 1)
        /\ Ahead(q, group, n - 1) - Part(q, group, n) = Ahead(q, group, n)
        /\ GivenBack(usage, Len(usage.used)) => GivesBack(q, group)
    BY ONLY <2>1, PartFact
  <2> QED BY ONLY <1>5, <1>c, <2>2
<1>15. Covers(b, valid, ahead)
  <2>1. Suffices(q, m, t, n - 1, b)
    BY <1>1, <1>6
  <2>2. Covers(b, valid, Ahead(q, group, n - 1))
    BY <1>8, <2>1, ValidCovered
  <2> QED BY <1>14, <2>2
<1>16. PICK plan : /\ plan = at[N] /\ plan \in PlanOf(Ref, Ref)
                   /\ PlanFits(usage, valid, b, t, ahead, N, plan)
  <2>1. PICK fits \in BOOLEAN :
          /\ at[0] = [grants |-> valid, todo |-> <<>>, fits |-> fits]
          /\ \A k \in 1..Len(usage.used) :
               at[k] = ChargeContainer(group, at[k - 1], usage.used[k])
    BY <1>1, <1>2, <1>3, <1>4, <1>7 DEF PlanRun
  <2>2. /\ group \in Group \ Free /\ group = usage.group
        /\ usage.used \in Seq(UsedUnit) /\ t \in Nat
        /\ valid \in Seq(GrantOf(Ref)) /\ \A j \in DOMAIN valid : valid[j].until > t
        /\ \A i, j \in DOMAIN valid : valid[i].ref = valid[j].ref => i = j
        /\ b \in [Ref -> Left] /\ ahead \in Nat
        /\ UsageTakes(usage)[Len(usage.used)] <= ahead /\ Covers(b, valid, ahead)
        /\ fits \in BOOLEAN
    BY <1>3, <1>5, <1>8, <1>13, <1>14, <1>15
  <2>3. /\ at[Len(usage.used)] \in PlanOf(Ref, Ref)
        /\ PlanFits(usage, valid, b, t, ahead, Len(usage.used), at[Len(usage.used)])
    BY ONLY <2>1, <2>2, UsageFits
  <2> QED BY <1>5, <2>3
<1>17. PICK todo \in Seq(ChargeOf(Ref)), L \in Nat :
         todo = plan.todo /\ todo = new.todo /\ L = Len(todo)
  <2>1. plan.todo \in Seq(ChargeOf(Ref))
    BY <1>16 DEF PlanOf
  <2>2. Len(plan.todo) \in Nat
    BY <2>1
  <2> QED BY <1>9, <1>16, <2>1, <2>2
<1>18. PICK f : /\ Course(f, todo, t) /\ f[0] = b
                /\ \A i \in 0..L : Lowered(b, f[i], taken, back, valid)
                /\ new.fits => Covers(f[L], kept, Ahead(q, group, n))
  <2>1. /\ PlanFits(usage, valid, b, t, ahead, N, plan)
        /\ plan.todo = todo /\ plan.fits = new.fits /\ plan.grants = kept /\ L = Len(todo)
        /\ taken = UsageTakes(usage)[N] /\ back = GivenBack(usage, N)
        /\ ahead - taken = Ahead(q, group, n)
    <3>1. /\ N = Len(usage.used) /\ kept = at[N].grants /\ plan = at[N]
          /\ PlanFits(usage, valid, b, t, ahead, N, plan)
      BY <1>5, <1>16
    <3>2. /\ new.fits = at[N].fits /\ todo = plan.todo /\ L = Len(todo)
      BY <1>9, <1>17
    <3>3. /\ taken = UsageTakes(usage)[N] /\ back = GivenBack(usage, N)
          /\ ahead - taken = Ahead(q, group, n)
      BY <1>c, <1>14
    <3> QED BY ONLY <3>1, <3>2, <3>3
  <2> QED BY ONLY <2>1 DEF PlanFits
<1>19. (\A i \in DOMAIN todo : todo[i].units > 0) /\ LeftOf(valid, kept)
  BY <1>5, <1>16, <1>17 DEF PlanFits
<1>20. LeftOf(m[group], valid) /\ LeftOf(m[group], kept)
  BY <1>8, <1>12, <1>19, LeftOfAmong
<1>21. \A i \in 0..L : f[i] \in [Ref -> Left]
  BY <1>17, <1>18 DEF Course
<1>22. ASSUME new.fits PROVE Suffices(q, settled, t, n, f[L])
  <2>1. PICK left : left = f[L]
    OBVIOUS
  <2>2. Lowered(b, left, taken, back, valid)
    BY <1>18, <2>1
  <2>3. /\ q \in Request /\ m \in GrantsOf(Ref) /\ Distinct(m)
        /\ n \in 1..Len(Requests[q].usage) /\ group \in Group
        /\ group = Requests[q].usage[n].group /\ b \in [Ref -> Left]
        /\ Suffices(q, m, t, n - 1, b)
        /\ (group \notin Free => Covers(left, kept, Ahead(q, group, n)))
        /\ (valid = <<>> \/ (group \notin Free /\ Among(valid, m[group])))
        /\ settled = [m EXCEPT ![group] = kept]
    BY <1>1, <1>2, <1>3, <1>6, <1>8, <1>10, <1>18, <1>22, <2>1
  <2>4. Suffices(q, settled, t, n, left)
    BY ONLY <2>2, <2>3, KeptSuffices
  <2> QED BY <2>1, <2>4
<1>23. ASSUME NEW s \in Session, q \in Since(s, records[s].seq),
              records[s].grants \in GrantsOf(Ref), Distinct(records[s].grants),
              FromRecord(s, context.grants),
              Agrees(s, b, AheadOf(q, context.done)),
              NEW k \in 0..L
       PROVE  Agrees(s, f[k], AheadOf(q, n))
  <2>1. PICK left \in [Ref -> Left] : left = f[k]
    BY <1>21
  <2>2. /\ q \in Request /\ m \in Grants /\ n \in 1..Len(Requests[q].usage)
        /\ group \in Group /\ group = Requests[q].usage[n].group /\ b \in [Ref -> Left]
        /\ left \in [Ref -> Left] /\ LoweredBy(q, group, n, b, left, valid)
        /\ (valid = <<>> \/ (group \notin Free /\ Among(valid, m[group])))
        /\ q \in Since(s, records[s].seq)
        /\ records[s].grants \in GrantsOf(Ref) /\ Distinct(records[s].grants)
        /\ FromRecord(s, m) /\ Agrees(s, b, AheadOf(q, n - 1))
    <3>1. /\ q \in Request /\ m \in Grants /\ n \in 1..Len(Requests[q].usage)
          /\ group \in Group /\ group = Requests[q].usage[n].group /\ b \in [Ref -> Left]
      BY <1>1, <1>2, <1>3, <1>6 DEF GrantsOf
    <3>2. left \in [Ref -> Left] /\ LoweredBy(q, group, n, b, left, valid)
      BY <1>14, <1>18, <2>1 DEF LoweredBy
    <3>3. group \notin Free /\ Among(valid, m[group])
      BY <1>8
    <3>4. /\ FromRecord(s, m) /\ Agrees(s, b, AheadOf(q, n - 1))
      BY <1>1, <1>6, <1>23
    <3> QED BY ONLY <1>23, <3>1, <3>2, <3>3, <3>4
  <2>3. Agrees(s, left, AheadOf(q, n))
    BY ONLY <2>2, KeptAgrees
  <2> QED BY <2>1, <2>3
<1>24. Continues(q, context, b, new, f)
  BY <1>1, <1>10, <1>17, <1>18, <1>22, <1>23 DEF Continues
<1> QED BY <1>6, <1>10, <1>11, <1>17, <1>19, <1>20, <1>24

-----------------------------------------------------------------------------
\* A handler that is not under way fits.
LEMMA FitsIdle ==
  ASSUME NEW q, NEW place, place \notin Active, NEW c
  PROVE  Fits(q, place, c)
BY DEF Fits, Active, Steps

\* The request q is being served, or may be.
Serving(q) ==
  /\ pc[q] \notin Ended
  /\ pc[q] = "idle" => \A p \in Follows[q] : pc[p] \in Ended

\* While a request is served no other handler of its session is under way.
LEMMA Serial ==
  ASSUME SessionInv, Sequential, InSequence, NEW q \in Request, ~Requests[q].resent, Serving(q),
         NEW p \in Request \ {q}, Requests[p].session = Requests[q].session
  PROVE  pc[p] \notin Active
<1>1. CASE Requests[p].resent
  <2>1. pc[p] \in {"idle", "resend", "answered", "failed"}
    BY <1>1 DEF SessionInv, HandlerInv, Carries
  <2> QED BY <2>1 DEF Active, Steps
<1>2. CASE ~Requests[p].resent
  <2>1. p \in Follows[q] \/ q \in Follows[p]
    BY <1>2 DEF InSequence
  <2>2. ASSUME p \in Follows[q] PROVE pc[p] \in Ended
    BY <2>2 DEF Serving, Sequential
  <2>3. ASSUME q \in Follows[p] PROVE pc[p] = "idle"
    BY <2>3 DEF Serving, Sequential
  <2> QED BY <2>1, <2>2, <2>3 DEF Ended, Active, Steps
<1> QED BY <1>1, <1>2

\* A step of a handler keeps the order of the requests.
LEMMA SequentialStep ==
  ASSUME Sequential, NEW q \in Request, Serving(q),
         \A p \in Request \ {q} : pc'[p] = pc[p]
  PROVE  Sequential'
<1>1. ASSUME NEW x \in Request, NEW p \in Follows[x], pc'[x] # "idle"
      PROVE  pc'[p] \in Ended
  <2>1. Follows[x] \subseteq Request
    BY SessionAssumption
  <2>2. CASE x = q
    <3>1. pc[p] \in Ended
      BY <2>2 DEF Serving, Sequential
    <3>2. p # q
      BY <3>1 DEF Serving
    <3> QED BY <2>1, <3>1, <3>2
  <2>3. CASE x # q
    <3>1. pc[p] \in Ended
      BY <1>1, <2>3 DEF Sequential
    <3>2. p # q
      BY <3>1 DEF Serving
    <3> QED BY <2>1, <3>1, <3>2
  <2> QED BY <2>2, <2>3
<1> QED BY <1>1 DEF Sequential, Ended

\* A step leaves what the handlers of session s rely on, but for its record,
\* which may be deleted.
Apart(s) ==
  /\ \A p \in Request :
       Requests[p].session = s /\ ~Requests[p].resent => pc'[p] = pc[p]
  /\ \A r \in Ref :
       \/ drawn[r] \in Request /\ Requests[drawn[r]].session = s
       \/ drawn'[r] \in Request /\ Requests[drawn'[r]].session = s
       => drawn'[r] = drawn[r] /\ book'[r] = book[r]
  /\ records'[s] = records[s] \/ ~records'[s].there

\* Then it leaves the ids, and the requests that have accounted.
LEMMA ApartSets ==
  ASSUME NEW s \in Session, Apart(s)
  PROVE  /\ \A q \in Request : Requests[q].session = s =>
              Mine(q)' = Mine(q) /\ MayHold(q)' = MayHold(q)
         /\ \A n : Since(s, n)' = Since(s, n) /\ Under(s, n)' = Under(s, n)
<1>1. ASSUME NEW q \in Request, Requests[q].session = s
      PROVE  Mine(q)' = Mine(q) /\ MayHold(q)' = MayHold(q)
  BY <1>1 DEF Apart, Mine, MayHold
<1>2. ASSUME NEW n PROVE Since(s, n)' = Since(s, n) /\ Under(s, n)' = Under(s, n)
  <2>1. Since(s, n)' = Since(s, n)
    BY DEF Apart, Since, Kind
  <2>2. Under(s, n)' = Under(s, n)
    BY DEF Apart, Under
  <2> QED BY <2>1, <2>2
<1> QED BY <1>1, <1>2

\* A grant under one of the ids R, in grants of them.
LEMMA GrantAt ==
  ASSUME NEW R, NEW m \in GrantsOf(R), NEW group \in Group \ Free, NEW i \in DOMAIN m[group]
  PROVE  /\ m[group][i].ref \in R /\ m[group][i].seq \in Nat
         /\ m[group][i].units \in Nat /\ m[group][i].until \in Nat
<1>1. m[group] \in Seq(GrantOf(R))
  BY DEF GrantsOf, RefsOf
<1>2. m[group][i] \in GrantOf(R)
  BY <1>1
<1> QED BY <1>2 DEF GrantOf

\* Grants stay unused while the book of their ids does not change.
LEMMA UnusedStays ==
  ASSUME NEW R, NEW m \in GrantsOf(R), \A r \in R : book'[r] = book[r], Unused(m)
  PROVE  Unused(m)'
<1>1. ASSUME NEW group \in Group \ Free, NEW i \in DOMAIN m[group]
      PROVE  book'[m[group][i].ref] = Worth(m[group][i])
  <2>1. m[group][i].ref \in R
    BY GrantAt
  <2> QED BY <2>1 DEF Unused
<1> QED BY <1>1 DEF Unused, Distinct, Worth

\* The record of session s, and who has accounted on it, say the same.
SameRecord(s) ==
  /\ records'[s] = records[s]
  /\ \A n : Since(s, n)' = Since(s, n)

\* A book agrees with the record that is the same.
LEMMA AgreesStays ==
  ASSUME NEW s, SameRecord(s), NEW left, NEW ahead, Agrees(s, left, ahead)
  PROVE  Agrees(s, left, ahead)'
<1>1. PICK row : row = records[s] /\ row = records'[s]
  BY DEF SameRecord
<1>2. PICK P : P = Since(s, row.seq) /\ P = Since(s, row.seq)'
  BY DEF SameRecord

<1>4. \A group : Spent(s, row.seq, group) = SpentBy(P, group)
                 /\ Spent(s, row.seq, group)' = SpentBy(P, group)
  BY <1>2 DEF Spent, SpentBy
<1>5. \A group \in Group \ Free : \A i \in DOMAIN row.grants[group] :
        LET grant == row.grants[group][i]
        IN  /\ left[grant.ref].units > 0 => left[grant.ref].until = grant.until
            /\ \/ \E p \in P : GivesBack(p, group)
               \/ left[grant.ref].units + SpentBy(P, group) >= grant.units + ahead[group]
  <2>1. row = records[s] /\ P = Since(s, row.seq) /\ Agrees(s, left, ahead)
    BY <1>1, <1>2
  <2> QED BY ONLY <2>1 DEF Agrees, Spent
<1>6. /\ row = records'[s] /\ P = Since(s, row.seq)'
      /\ \A group : Spent(s, row.seq, group)' = SpentBy(P, group)
  BY <1>1, <1>2, <1>4
<1> QED BY ONLY <1>5, <1>6 DEF Agrees, GivesBack

\* A handler that accounts goes on to fit when nothing changes for it.
LEMMA AccountingStays ==
  ASSUME NEW q \in Request, NEW c, Accounting(q, c),
         Mine(q)' = Mine(q), MayHold(q)' = MayHold(q),
         \A r \in MayHold(q) : book'[r] = book[r],
         SameRecord(Requests[q].session) \/ ~records'[Requests[q].session].there
  PROVE  Accounting(q, c)'
<1>1. PICK m, s : m = Settled(q, c).grants /\ s = Requests[q].session
  OBVIOUS
<1>2. Distinct(m) /\ OwnSeq(q, m) /\ \A i \in DOMAIN c.todo : c.todo[i].units > 0
  BY <1>1 DEF Accounting
<1>3. OwnSeq(q, m)'
  BY <1>2 DEF OwnSeq
<1>4. PICK f \in [0..Len(c.todo) -> [Ref -> Left]] :
        /\ Course(f, c.todo, c.at)
        /\ \A r \in MayHold(q) : f[0][r] = book[r]
        /\ c.fits => Suffices(q, m, c.at, c.done, f[Len(c.todo)])
        /\ Kind(q) \in Reporting /\ records[s].there =>
             /\ records[s].seq < Requests[q].seq
             /\ FromRecord(s, m)
             /\ \A k \in DOMAIN f : Agrees(s, f[k], AheadOf(q, c.done))
  BY <1>1 DEF Accounting
<1>5. \A r \in MayHold(q)' : f[0][r] = book'[r]
  BY <1>4
<1>6. ASSUME Kind(q) \in Reporting, records'[s].there
      PROVE  /\ records'[s].seq < Requests[q].seq
             /\ FromRecord(s, m)'
             /\ \A k \in DOMAIN f : Agrees(s, f[k], AheadOf(q, c.done))'
  <2>1. SameRecord(s) /\ records'[s] = records[s]
    BY <1>1, <1>6 DEF SameRecord
  <2>2. ASSUME NEW k \in DOMAIN f PROVE Agrees(s, f[k], AheadOf(q, c.done))'
    <3>1. PICK left, ahead : left = f[k] /\ ahead = AheadOf(q, c.done)
      OBVIOUS
    <3>2. Agrees(s, left, ahead)
      BY <1>4, <1>6, <2>1, <3>1
    <3>3. Agrees(s, left, ahead)'
      BY <2>1, <3>2, AgreesStays
    <3> QED BY <3>1, <3>3
  <2>3. FromRecord(s, m)'
    BY <1>4, <1>6, <2>1 DEF FromRecord
  <2> QED BY <1>4, <1>6, <2>1, <2>2, <2>3
<1> QED BY <1>1, <1>2, <1>3, <1>4, <1>5, <1>6 DEF Accounting

\* So does every handler.
LEMMA FitsStays ==
  ASSUME NEW q \in Request, NEW place, NEW c, pc'[q] = place, ctx'[q] = c,
         Carries(q, place, c), Fits(q, place, c),
         Mine(q)' = Mine(q), MayHold(q)' = MayHold(q),
         \A r \in MayHold(q) : book'[r] = book[r],
         SameRecord(Requests[q].session) \/ ~records'[Requests[q].session].there
  PROVE  HandlerFits(q)'
<1>1. \A r \in Mine(q) : book'[r] = book[r]
  BY MineHeld
<1>2. OwnSeq(q, c.grants) => OwnSeq(q, c.grants)'
  BY DEF OwnSeq
<1>3. place = "rate" => Unused(c.fresh)'
  BY <1>1, UnusedStays DEF Carries, Fits
<1>4. place = "save" /\ Kind(q) \in Opening => Unused(c.grants)'
  BY <1>1, UnusedStays DEF Carries, Fits
<1>5. place = "account" => Accounting(q, c)'
  BY AccountingStays DEF Fits
<1> QED BY <1>2, <1>3, <1>4, <1>5 DEF HandlerFits, Fits

\* A book that agrees with a record does so when more have accounted, and when
\* it is another book of the same ids.
LEMMA AgreesMore ==
  ASSUME NEW s, NEW b, NEW left, NEW ahead, NEW ahead2, NEW row, row = records[s], row = records'[s],
         row.grants \in GrantsOf(Ref), Agrees(s, b, ahead),
         \A group \in Group : ahead[group] \in Nat /\ ahead2[group] \in Nat
                              /\ ahead2[group] <= ahead[group],
         Since(s, row.seq) \subseteq Since(s, row.seq)',
         \A group \in Group \ Free : \A i \in DOMAIN row.grants[group] :
           LET r == row.grants[group][i].ref
           IN  left[r] = b[r] /\ left[r].units \in Nat
  PROVE  Agrees(s, left, ahead2)'
<1>1. PICK P, Q : P = Since(s, row.seq) /\ Q = Since(s, row.seq)' /\ P \subseteq Q
  OBVIOUS
<1>2. ASSUME NEW group \in Group \ Free, NEW i \in DOMAIN row.grants[group]
      PROVE  LET grant == row.grants[group][i]
             IN  /\ left[grant.ref].units > 0 => left[grant.ref].until = grant.until
                 /\ \/ \E p \in Q : GivesBack(p, group)
                    \/ left[grant.ref].units + SpentBy(Q, group) >= grant.units + ahead2[group]
  <2>1. PICK grant : grant = row.grants[group][i]
    OBVIOUS
  <2>2. PICK units \in Nat, x \in Nat : units = grant.units /\ x = left[grant.ref].units
    BY <2>1, GrantAt
  <2>3. left[grant.ref] = b[grant.ref]
    BY <2>1
  <2>4. PICK less \in Nat, more \in Nat :
          less = SpentBy(P, group) /\ more = SpentBy(Q, group) /\ less <= more
    BY <1>1, SpentFact
  <2>5. PICK m \in Nat, n \in Nat : m = ahead[group] /\ n = ahead2[group] /\ n <= m
    OBVIOUS
  <2>6. /\ x > 0 => left[grant.ref].until = grant.until
        /\ \/ \E p \in P : GivesBack(p, group)
           \/ x + less >= units + m
    <3>1. /\ b[grant.ref].units > 0 => b[grant.ref].until = grant.until
          /\ \/ \E p \in Since(s, row.seq) : GivesBack(p, group)
             \/ b[grant.ref].units + Spent(s, row.seq, group) >= grant.units + ahead[group]
      BY <2>1 DEF Agrees
    <3>2. /\ b[grant.ref].units = x /\ Spent(s, row.seq, group) = less
          /\ grant.units = units /\ ahead[group] = m /\ P = Since(s, row.seq)
      BY <1>1, <2>2, <2>3, <2>4, <2>5 DEF Spent
    <3> QED BY ONLY <2>3, <3>1, <3>2
  <2>7. x + less >= units + m => x + more >= units + n
    BY <2>2, <2>4, <2>5
  <2> QED BY <1>1, <2>1, <2>2, <2>4, <2>5, <2>6, <2>7
<1>3. \A group : Spent(s, row.seq, group)' = SpentBy(Q, group)
  BY <1>1 DEF Spent, SpentBy
<1>4. row = records'[s] /\ Q = Since(s, row.seq)'
  BY <1>1
<1> QED BY ONLY <1>2, <1>3, <1>4 DEF Agrees, GivesBack

\* The book itself then agrees.
LEMMA BookAgrees ==
  ASSUME NEW s, NEW b, b = book \/ b = book', NEW ahead, NEW row, row = records[s],
         row = records'[s], row.grants \in GrantsOf(Ref), Agrees(s, b, ahead),
         \A group \in Group : ahead[group] \in Nat,
         Since(s, row.seq) \subseteq Since(s, row.seq)',
         \A group \in Group \ Free : \A i \in DOMAIN row.grants[group] :
           LET r == row.grants[group][i].ref
           IN  book'[r] = b[r] /\ book'[r] \in Left
  PROVE  Agrees(s, book, NoneAhead)'
<1>1. PICK left, none : left = book' /\ none = NoneAhead
  OBVIOUS
<1>2. \A group \in Group : none[group] \in Nat /\ ahead[group] \in Nat /\ none[group] <= ahead[group]
  BY <1>1 DEF NoneAhead
<1>3. \A group \in Group \ Free : \A i \in DOMAIN row.grants[group] :
        LET r == row.grants[group][i].ref
        IN  left[r] = b[r] /\ left[r].units \in Nat
  BY <1>1 DEF Left
<1>4. Agrees(s, left, none)'
  BY <1>2, <1>3, AgreesMore
<1> QED BY <1>1, <1>4 DEF Agrees

\* The record of a session stays as it is, or is deleted.
LEMMA RecordApart ==
  ASSUME SessionInv, NEW s \in Session, Apart(s), RecordFits(s), \A r \in Ref : book'[r] \in Left
  PROVE  RecordFits(s)'
<1>1. CASE ~records'[s].there
  BY <1>1 DEF RecordFits
<1>2. CASE records'[s] = records[s] /\ records[s].there
  <2>1. PICK row : row = records[s] /\ row = records'[s] /\ row.there
    BY <1>2
  <2>2. PICK p \in Request :
          /\ Requests[p].session = s /\ Requests[p].seq = row.seq
          /\ ~Requests[p].resent /\ pc[p] \in {"trace", "answered", "crashed"}
          /\ row.grants \in GrantsOf(Mine(p))
    BY <2>1 DEF RecordFits
  <2>3. Mine(p)' = Mine(p) /\ pc'[p] = pc[p]
    BY <2>2, ApartSets DEF Apart
  <2>4. row.grants \in GrantsOf(Ref)
    <3>1. Mine(p) \subseteq Ref
      BY DEF Mine
    <3> QED BY <2>2, <3>1, MoreIds
  <2>5. \A group \in Group \ Free : \A i \in DOMAIN row.grants[group] :
          LET r == row.grants[group][i].ref
          IN  book'[r] = book[r] /\ book'[r] \in Left
    <3>1. \A r \in Mine(p) : book'[r] = book[r] /\ book'[r] \in Left
      BY <2>2 DEF Apart, Mine
    <3> QED BY <2>2, <3>1, GrantAt
  <2>6. ASSUME NotAccounting(s)'
        PROVE  Agrees(s, book, NoneAhead)'
    <3>1. NotAccounting(s)
      <4>1. ASSUME NEW x \in Request, Requests[x].session = s, Kind(x) \in Reporting,
                   pc[x] = "account"
            PROVE  FALSE
        <5>1. pc'[x] # "account"
          BY <2>6, <4>1 DEF NotAccounting, Kind
        <5>2. Requests[x].resent
          BY <4>1, <5>1, RequestFact DEF Apart
        <5> QED BY <4>1, <5>2 DEF SessionInv, HandlerInv, Carries
      <4> QED BY <4>1 DEF NotAccounting
    <3>2. Agrees(s, book, NoneAhead)
      BY <2>1, <3>1 DEF RecordFits, NotAccounting
    <3>3. PICK b, none : b = book /\ none = NoneAhead
      OBVIOUS
    <3>4. Agrees(s, b, none)
      BY <3>2, <3>3
    <3>5. \A group \in Group : none[group] \in Nat
      BY <3>3 DEF NoneAhead
    <3>6. \A group \in Group \ Free : \A i \in DOMAIN row.grants[group] :
            LET r == row.grants[group][i].ref
            IN  book'[r] = b[r] /\ book'[r] \in Left
      BY <2>5, <3>3
    <3>7. Since(s, row.seq) \subseteq Since(s, row.seq)'
      BY ApartSets
    <3>8. /\ row = records[s] /\ row = records'[s] /\ row.grants \in GrantsOf(Ref)
          /\ (b = book \/ b = book')
      BY <2>1, <2>4, <3>3
    <3> QED BY ONLY <3>4, <3>5, <3>6, <3>7, <3>8, BookAgrees
  <2> QED BY <2>1, <2>2, <2>3, <2>6 DEF RecordFits, NotAccounting, Kind
<1> QED BY <1>1, <1>2 DEF Apart

\* What is known of a handler.
LEMMA HandlerFact ==
  ASSUME SessionInv, NEW q \in Request
  PROVE  /\ pc[q] \in Places /\ ctx[q] \in Context /\ Carries(q, pc[q], ctx[q])
         /\ ctx[q].at \in Nat /\ ctx[q].done \in 0..Len(Requests[q].usage)
         /\ Len(ctx[q].todo) \in Nat
<1>1. /\ pc[q] \in Places /\ ctx[q] \in Context /\ Carries(q, pc[q], ctx[q])
  BY StayFact DEF SessionInv, HandlerInv
<1>2. PICK c \in Context : c = ctx[q] /\ Carries(q, pc[q], c)
  BY <1>1
<1>3. c.at \in Nat /\ c.done \in Nat /\ c.todo \in Seq(Charge)
  BY NumberFact DEF Context
<1>4. c.done <= Len(Requests[q].usage)
  BY <1>2 DEF Carries
<1>5. c.done \in 0..Len(Requests[q].usage) /\ Len(c.todo) \in Nat
  BY <1>3, <1>4, RequestFact
<1> QED BY <1>1, <1>2, <1>3, <1>5

\* A book that has the same of the grants in the record agrees with it, too.
LEMMA AgreesSame ==
  ASSUME NEW s, NEW b, NEW left, NEW ahead, Agrees(s, b, ahead),
         NEW row, row = records[s],
         \A group \in Group \ Free : \A i \in DOMAIN row.grants[group] :
           left[row.grants[group][i].ref] = b[row.grants[group][i].ref]
  PROVE  Agrees(s, left, ahead)
<1>1. ASSUME NEW group \in Group \ Free, NEW i \in DOMAIN row.grants[group]
      PROVE  LET grant == row.grants[group][i]
             IN  /\ left[grant.ref].units > 0 => left[grant.ref].until = grant.until
                 /\ \/ \E p \in Since(s, row.seq) : GivesBack(p, group)
                    \/ left[grant.ref].units + Spent(s, row.seq, group)
                          >= grant.units + ahead[group]
  <2>1. PICK grant : grant = row.grants[group][i]
    OBVIOUS
  <2>2. /\ b[grant.ref].units > 0 => b[grant.ref].until = grant.until
        /\ \/ \E p \in Since(s, row.seq) : GivesBack(p, group)
           \/ b[grant.ref].units + Spent(s, row.seq, group) >= grant.units + ahead[group]
    BY <2>1 DEF Agrees
  <2>3. left[grant.ref] = b[grant.ref]
    BY <2>1
  <2> QED BY <2>1, <2>2, <2>3
<1> QED BY <1>1 DEF Agrees

\* A step that leaves all sessions as they are but for handlers that end.
LEMMA ApartStep ==
  ASSUME SessionInv, FitInv, Sequential', \A s \in Session : Apart(s),
         \A r \in Ref : book'[r] \in Left,
         \A p \in Request :
           \/ pc'[p] = pc[p] /\ ctx'[p] = ctx[p]
           \/ pc'[p] \notin Active
  PROVE  FitInv'
<1>1. ASSUME NEW p \in Request PROVE HandlerFits(p)'
  <2>1. PICK place, c : place = pc'[p] /\ c = ctx'[p]
    OBVIOUS
  <2>2. CASE place \notin Active
    <3>1. Fits(p, place, c)'
      BY <2>2 DEF Fits, Active, Steps
    <3> QED BY <2>1, <2>2 DEF HandlerFits, Fits, Active, Steps
  <2>3. CASE pc'[p] = pc[p] /\ ctx'[p] = ctx[p]
    <3>1. PICK s \in Session : s = Requests[p].session
      BY RequestFact
    <3>2. Carries(p, place, c) /\ Fits(p, place, c)
      BY <2>1, <2>3 DEF SessionInv, HandlerInv, FitInv, HandlerFits
    <3>3. Mine(p)' = Mine(p) /\ MayHold(p)' = MayHold(p)
      BY <3>1, ApartSets
    <3>4. \A r \in MayHold(p) : book'[r] = book[r]
      BY <3>1 DEF Apart, MayHold
    <3>5. SameRecord(s) \/ ~records'[s].there
      BY <3>1, ApartSets DEF Apart, SameRecord
    <3> QED BY <2>1, <3>1, <3>2, <3>3, <3>4, <3>5, FitsStays
  <2> QED BY <2>1, <2>2, <2>3
<1>2. \A s \in Session : RecordFits(s)'
  BY RecordApart DEF FitInv
<1> QED BY <1>1, <1>2 DEF FitInv

\* A step of the handler of q: it changes its own session.
Local(q) ==
  /\ \A p \in Request \ {q} : pc'[p] = pc[p] /\ ctx'[p] = ctx[p]
  /\ \A r \in Ref : \/ drawn'[r] = drawn[r] /\ (book'[r] = book[r] \/ r \in MayHold(q))
                    \/ drawn[r] = 0 /\ drawn'[r] = q
  /\ \A s \in Session \ {Requests[q].session} : records'[s] = records[s]

\* A local step leaves every other session alone.
LEMMA LocalApart ==
  ASSUME NEW q \in Request, Local(q), NEW s \in Session, s # Requests[q].session
  PROVE  Apart(s)
<1>1. \A p \in Request :
        Requests[p].session = s /\ ~Requests[p].resent => pc'[p] = pc[p]
  BY DEF Local
<1>2. ASSUME NEW r \in Ref,
             \/ drawn[r] \in Request /\ Requests[drawn[r]].session = s
             \/ drawn'[r] \in Request /\ Requests[drawn'[r]].session = s
      PROVE  drawn'[r] = drawn[r] /\ book'[r] = book[r]
  <2>1. drawn'[r] # q \/ drawn[r] # 0
    BY <1>2, NumberFact
  <2>2. drawn'[r] = drawn[r] /\ (book'[r] = book[r] \/ r \in MayHold(q))
    BY <2>1 DEF Local
  <2>3. r \notin MayHold(q)
    BY <1>2, <2>2 DEF MayHold
  <2> QED BY <2>2, <2>3
<1> QED BY <1>1, <1>2 DEF Local, Apart

\* It fits afterwards if the handler and the record of its session do.
LEMMA FitStep ==
  ASSUME SessionInv, FitInv, InSequence, NEW q \in Request, ~Requests[q].resent,
         Serving(q), Local(q), \A r \in Ref : book'[r] \in Left,
         HandlerFits(q)', RecordFits(Requests[q].session)'
  PROVE  FitInv'
<1>1. Sequential'
  BY SequentialStep DEF FitInv, Local
<1>2. ASSUME NEW p \in Request \ {q} PROVE HandlerFits(p)'
  <2>1. PICK place, c : /\ place = pc'[p] /\ place = pc[p] /\ c = ctx'[p] /\ c = ctx[p]
    BY DEF Local
  <2>2. CASE place \notin Active
    BY <2>1, <2>2 DEF HandlerFits, Fits, Active, Steps
  <2>3. CASE place \in Active
    <3>1. PICK s \in Session : s = Requests[p].session
      BY RequestFact
    <3>2. s # Requests[q].session
      BY <2>1, <2>3, <3>1, Serial DEF FitInv
    <3>3. Apart(s)
      BY <3>2, LocalApart
    <3>4. Carries(p, place, c) /\ Fits(p, place, c)
      BY <2>1, <2>3 DEF SessionInv, HandlerInv, FitInv, HandlerFits
    <3>5. Mine(p)' = Mine(p) /\ MayHold(p)' = MayHold(p)
      BY <3>1, <3>3, ApartSets
    <3>6. \A r \in MayHold(p) : book'[r] = book[r]
      BY <3>1, <3>3 DEF Apart, MayHold
    <3>7. SameRecord(s) \/ ~records'[s].there
      BY <3>1, <3>3, ApartSets DEF Apart, SameRecord
    <3> QED BY <2>1, <3>1, <3>4, <3>5, <3>6, <3>7, FitsStays
  <2> QED BY <2>2, <2>3
<1>3. ASSUME NEW s \in Session PROVE RecordFits(s)'
  <2>1. CASE s = Requests[q].session
    BY <2>1
  <2>2. CASE s # Requests[q].session
    BY <2>2, LocalApart, RecordApart DEF FitInv
  <2> QED BY <2>1, <2>2
<1> QED BY <1>1, <1>2, <1>3 DEF FitInv

\* The record of the session stays while its handler is served: its grants are
\* not those it can give back, and they agree with the book when it has accounted.
LEMMA RecordKeeps ==
  ASSUME SessionInv, SessionTypeOK', Progress, FitInv, InSequence,
         NEW q \in Request, ~Requests[q].resent, Serving(q), Local(q),
         NEW s \in Session, s = Requests[q].session, records'[s] = records[s],
         pc[q] = "trace" => pc'[q] \in {"trace", "answered", "crashed"},
         pc[q] \notin {"idle", "load"} => pc'[q] \notin {"idle", "load"},
         \A r \in Ref : book'[r] \in Left,
         \/ Kind(q) \in Reporting /\ pc'[q] = "account"
         \/ \A r \in Ref : \/ book'[r] = book[r] \/ drawn[r] = 0
                           \/ pc[q] \in {"account", "cleanup"} /\ drawn[r] = q
  PROVE  RecordFits(s)'
<1> SUFFICES ASSUME records[s].there PROVE RecordFits(s)'
  BY DEF RecordFits
<1>1. PICK row : row = records[s] /\ row = records'[s] /\ row.there
  OBVIOUS
<1>2. PICK p \in Request :
        /\ Requests[p].session = s /\ Requests[p].seq = row.seq
        /\ ~Requests[p].resent /\ pc[p] \in {"trace", "answered", "crashed"}
        /\ row.grants \in GrantsOf(Mine(p))
  BY <1>1 DEF RecordFits, FitInv
<1>3. row.grants \in GrantsOf(Mine(p)')
  <2>1. Mine(p) \subseteq Mine(p)'
    BY MoreHeld DEF SessionInv
  <2> QED BY <1>2, <2>1, MoreIds
<1>4. pc'[p] \in {"trace", "answered", "crashed"}
  BY <1>2 DEF Local, Serving, Ended
<1>5. row.grants \in GrantsOf(Ref)
  <2>1. Mine(p) \subseteq Ref
    BY DEF Mine
  <2> QED BY <1>2, <2>1, MoreIds
<1>6. Distinct(row.grants) /\ Numbered(row.grants, row.seq)
  BY <1>1 DEF RecordFits, FitInv
<1>7. Since(s, row.seq) \subseteq Since(s, row.seq)'
  BY DEF Since, Local, Kind
<1>8. ASSUME NotAccounting(s)' PROVE Agrees(s, book, NoneAhead)'
  <2>1. ~(Kind(q) \in Reporting /\ pc'[q] = "account")
    BY <1>8 DEF NotAccounting, Kind
  <2>2. \A group \in Group \ Free : \A i \in DOMAIN row.grants[group] :
          LET r == row.grants[group][i].ref
          IN  book'[r] = book[r] /\ book'[r] \in Left
    <3>1. ASSUME NEW r \in Mine(p) PROVE book'[r] = book[r] /\ book'[r] \in Left
      <4>1. r \in Ref /\ drawn[r] = p /\ drawn[r] # 0
        BY NumberFact DEF Mine
      <4>2. pc[p] \notin {"account", "cleanup"}
        BY <1>2
      <4> QED BY <2>1, <4>1, <4>2
    <3> QED BY <1>2, <3>1, GrantAt
  <2>3. PICK b : b = book
    OBVIOUS
  <2>4. PICK ahead : /\ Agrees(s, b, ahead) /\ \A group \in Group : ahead[group] \in Nat
    <3>1. CASE Kind(q) \in Reporting /\ pc[q] = "account"
      <4>1. Accounting(q, ctx[q])
        BY <3>1 DEF FitInv, HandlerFits, Fits
      <4>2. PICK f :
              /\ f \in [0..Len(ctx[q].todo) -> [Ref -> Left]]
              /\ \A r \in MayHold(q) : f[0][r] = book[r]
              /\ row.seq < Requests[q].seq
              /\ \A k \in DOMAIN f : Agrees(s, f[k], AheadOf(q, ctx[q].done))
        BY <1>1, <3>1, <4>1 DEF Accounting
      <4>3. 0 \in DOMAIN f
        BY <4>2, HandlerFact
      <4>4. \A group \in Group : AheadOf(q, ctx[q].done)[group] \in Nat
        BY HandlerFact, AheadFact DEF AheadOf
      <4>5. Agrees(s, b, AheadOf(q, ctx[q].done))
        <5>1. Agrees(s, f[0], AheadOf(q, ctx[q].done))
          BY <4>2, <4>3
        <5>2. \A group \in Group \ Free : \A i \in DOMAIN row.grants[group] :
                f[0][row.grants[group][i].ref] = b[row.grants[group][i].ref]
          <6>1. Mine(p) \subseteq MayHold(q)
            BY <1>2, <3>1, <4>2 DEF Mine, MayHold, Kind, Reporting
          <6> QED BY <1>2, <2>3, <4>2, <6>1, GrantAt
        <5>3. row = records[s]
          BY <1>1
        <5> QED BY ONLY <5>1, <5>2, <5>3, AgreesSame
      <4> QED BY <4>4, <4>5
    <3>2. CASE ~(Kind(q) \in Reporting /\ pc[q] = "account")
      <4>1. NotAccounting(s)
        <5>1. ASSUME NEW x \in Request, Requests[x].session = s, Kind(x) \in Reporting,
                     pc[x] = "account"
              PROVE  FALSE
          <6>1. x # q
            BY <3>2, <5>1
          <6> QED BY <5>1, <6>1, Serial DEF FitInv, Active, Steps
        <5> QED BY <5>1 DEF NotAccounting
      <4>2. Agrees(s, book, NoneAhead)
        BY <4>1 DEF FitInv, RecordFits
      <4>3. \A group \in Group : NoneAhead[group] \in Nat
        BY DEF NoneAhead
      <4> QED BY <2>3, <4>2, <4>3
    <3> QED BY <3>1, <3>2
  <2>5. \A group \in Group \ Free : \A i \in DOMAIN row.grants[group] :
          LET r == row.grants[group][i].ref
          IN  book'[r] = b[r] /\ book'[r] \in Left
    BY <2>2, <2>3
  <2>6. /\ row = records[s] /\ row = records'[s] /\ row.grants \in GrantsOf(Ref)
        /\ (b = book \/ b = book') /\ Since(s, row.seq) \subseteq Since(s, row.seq)'
    BY <1>1, <1>5, <1>7, <2>3
  <2> QED BY ONLY <2>4, <2>5, <2>6, BookAgrees
<1> QED BY <1>1, <1>2, <1>3, <1>4, <1>6, <1>8 DEF RecordFits, NotAccounting, Kind

\* Where a handler goes, and with which context.
LEMMA GotoFact ==
  ASSUME SessionInv, NEW q \in Request, NEW place, NEW c, Goto(q, place), Put(q, c)
  PROVE  /\ pc'[q] = place /\ ctx'[q] = c
         /\ \A p \in Request \ {q} : pc'[p] = pc[p] /\ ctx'[p] = ctx[p]
BY DEF Goto, Put, SessionInv, SessionTypeOK

\* A step of a handler that touches neither the book nor the records.
LEMMA FitMove ==
  ASSUME SessionInv, SessionInv', FitInv, InSequence,
         NEW q \in Request, ~Requests[q].resent, Serving(q),
         NEW place, NEW c, Goto(q, place), Put(q, c), UNCHANGED <<book, drawn, records, now>>,
         pc[q] # "idle" => place # "idle",
         pc[q] = "trace" => place \in {"trace", "answered", "crashed"},
         pc[q] \notin {"idle", "load"} => place \notin {"idle", "load"},
         place = "account" => pc[q] = "account" \/ Kind(q) \notin Reporting,
         Fits(q, place, c)
  PROVE  FitInv'
<1>1. SessionTypeOK /\ SessionTypeOK'
  BY DEF SessionInv
<1>2. /\ pc'[q] = place /\ ctx'[q] = c
      /\ \A p \in Request \ {q} : pc'[p] = pc[p] /\ ctx'[p] = ctx[p]
  BY GotoFact
<1>3. Local(q)
  BY <1>2 DEF Local
<1>4. Progress
  BY <1>1, <1>2, NumberFact DEF Progress, SessionTypeOK
<1>5. PICK s \in Session : s = Requests[q].session
  BY RequestFact
<1>6. \A r \in Ref : book'[r] \in Left
  BY DEF FitInv
<1>7. Mine(q)' = Mine(q) /\ MayHold(q)' = MayHold(q)
  BY DEF Mine, MayHold
<1>8. place = "account" => Accounting(q, c)'
  <2>1. ASSUME place = "account" PROVE SameRecord(s)
    <3>1. \A p \in Request :
            /\ Kind(p) \in Reporting
            => (pc'[p] \notin {"idle", "load"} <=> pc[p] \notin {"idle", "load"})
      BY <1>2, <2>1
    <3> QED BY <3>1 DEF SameRecord, Since, Kind
  <2>2. place = "account" => Accounting(q, c)
    BY DEF Fits
  <2> QED BY <1>5, <1>7, <2>1, <2>2, AccountingStays
<1>9. HandlerFits(q)'
  <2>1. OwnSeq(q, c.grants) => OwnSeq(q, c.grants)'
    BY <1>7 DEF OwnSeq
  <2>2. /\ Unused(c.fresh) => Unused(c.fresh)'
        /\ Unused(c.grants) => Unused(c.grants)'
    BY DEF Unused
  <2> QED BY <1>2, <1>7, <1>8, <2>1, <2>2 DEF HandlerFits, Fits
<1>10. RecordFits(s)'
  BY <1>1, <1>2, <1>3, <1>4, <1>5, <1>6, RecordKeeps
<1> QED BY <1>3, <1>5, <1>6, <1>9, <1>10, FitStep

\* A handler that is under way is that of a request sent once.
LEMMA Sent ==
  ASSUME SessionInv, NEW q \in Request, pc[q] \in Active
  PROVE  ~Requests[q].resent /\ Serving(q)
<1>1. Carries(q, pc[q], ctx[q])
  BY HandlerFact
<1> QED BY <1>1 DEF Carries, Active, Steps, Serving, Ended

\* The other requests of a session go on.
LEMMA BeginFit ==
  ASSUME SessionInv, SessionInv', FitInv, InSequence, NEW q \in Request, Begin(q)
  PROVE  FitInv'
<1>1. PICK place, c :
        /\ place = IF Requests[q].resent THEN "resend" ELSE "load"
        /\ c = [NoContext EXCEPT !.at = now]
  OBVIOUS
<1>2. Serving(q)
  BY DEF Begin, Serving, Ended
<1>3. Goto(q, place) /\ Put(q, c)
  BY <1>1 DEF Begin
<1>4. UNCHANGED <<book, drawn, records, now>> /\ pc[q] = "idle"
  BY DEF Begin, credit, store, world
<1>5. CASE Requests[q].resent
  <2>2. /\ pc'[q] = place /\ place = "resend"
        /\ \A p \in Request \ {q} : pc'[p] = pc[p] /\ ctx'[p] = ctx[p]
    BY <1>1, <1>3, <1>5, GotoFact
  <2>3. Sequential'
    BY <1>2, <2>2, SequentialStep DEF FitInv
  <2>4. \A s \in Session : Apart(s)
    BY <1>4, <1>5, <2>2 DEF Apart
  <2>5. \A r \in Ref : book'[r] \in Left
    BY <1>4 DEF FitInv
  <2> QED BY <2>2, <2>3, <2>4, <2>5, ApartStep DEF Active, Steps
<1>6. CASE ~Requests[q].resent
  <2>1. place = "load" /\ c.todo = <<>> /\ c.grants = NoGrants
    BY <1>1, <1>6 DEF NoContext
  <2>2. OwnSeq(q, NoGrants)
    BY DEF OwnSeq, NoGrants
  <2>3. Fits(q, place, c)
    BY <2>1, <2>2 DEF Fits
  <2> QED BY <1>2, <1>3, <1>4, <1>6, <2>1, <2>3, FitMove
<1> QED BY <1>5, <1>6

\* A retransmission reads the trace and nothing else.
LEMMA ResendFit ==
  ASSUME SessionInv, SessionInv', FitInv, NEW q \in Request, Resend(q)
  PROVE  FitInv'
<1>1. /\ Requests[q].resent /\ Serving(q)
  <2>1. pc[q] = "resend" /\ Carries(q, pc[q], ctx[q])
    BY HandlerFact DEF Resend
  <2> QED BY <2>1 DEF Carries, Serving, Ended
<1>2. /\ \A p \in Request \ {q} : pc'[p] = pc[p] /\ ctx'[p] = ctx[p]
      /\ pc'[q] \in {"answered", "failed"}
  BY DEF Resend, Goto, SessionInv, SessionTypeOK
<1>3. UNCHANGED <<book, drawn, records>>
  BY DEF Resend, credit, store, world
<1>4. Sequential'
  BY <1>1, <1>2, SequentialStep DEF FitInv
<1>5. \A s \in Session : Apart(s)
  BY <1>1, <1>2, <1>3 DEF Apart
<1>6. \A r \in Ref : book'[r] \in Left
  BY <1>3 DEF FitInv
<1> QED BY <1>2, <1>4, <1>5, <1>6, ApartStep DEF Active, Steps

\* So do the provisioning of a counter, the housekeeping job and the clock.
LEMMA OutsideFit ==
  ASSUME SessionInv, FitInv, UNCHANGED <<pc, ctx, drawn, book>>,
         \A s \in Session : records'[s] = records[s] \/ ~records'[s].there
  PROVE  FitInv'
<1>1. Sequential'
  BY DEF FitInv, Sequential
<1>2. \A s \in Session : Apart(s)
  BY DEF Apart
<1>3. \A r \in Ref : book'[r] \in Left
  BY DEF FitInv
<1> QED BY <1>1, <1>2, <1>3, ApartStep

\* A handler that begins a session, or a one-time charge, has no grants.
LEMMA BeginsFit ==
  ASSUME SessionInv, SessionInv', FitInv, InSequence, NEW q \in Request, pc[q] = "load",
         UNCHANGED <<book, drawn, records, now>>, Goto(q, "rate"),
         Put(q, [ctx[q] EXCEPT !.groups = GroupsAsked(q)])
  PROVE  FitInv'
<1>1. ~Requests[q].resent /\ Serving(q)
  BY Sent DEF Active, Steps
<1>2. ctx[q] \in Context /\ Carries(q, "load", ctx[q])
  BY HandlerFact
<1>3. PICK c : c = [ctx[q] EXCEPT !.groups = GroupsAsked(q)]
  OBVIOUS
<1>4. /\ c.grants = ctx[q].grants /\ c.fresh = ctx[q].fresh /\ c.todo = ctx[q].todo
  BY <1>2, <1>3 DEF Context
<1>5. /\ ctx[q].todo = <<>> /\ OwnSeq(q, ctx[q].grants) /\ ctx[q].fresh = NoGrants
  BY <1>2 DEF FitInv, HandlerFits, Fits, Steps, Carries
<1>6. Unused(NoGrants) /\ Numbered(NoGrants, Requests[q].seq)
  BY DEF Unused, Distinct, Numbered, NoGrants
<1>7. Fits(q, "rate", c)
  BY <1>4, <1>5, <1>6 DEF Fits
<1> QED BY <1>1, <1>3, <1>7, FitMove

\* A session, or a one-time charge, begins without grants.
LEMMA LoadNoneFit ==
  ASSUME SessionInv, SessionInv', FitInv, InSequence, NEW q \in Request, LoadNone(q)
  PROVE  FitInv'
<1>1. ~Requests[q].resent /\ Serving(q)
  BY Sent DEF LoadNone, Active, Steps
<1>2. pc[q] = "load" /\ UNCHANGED <<book, drawn, records, now>>
  BY DEF LoadNone, credit, store, world
<1>3. CASE Row(q).there
  <2>1. Goto(q, "failed") /\ Put(q, ctx[q])
    BY <1>3, StayFact DEF LoadNone, SessionInv
  <2>2. Fits(q, "failed", ctx[q])
    BY FitsIdle DEF Active, Steps
  <2> QED BY <1>1, <1>2, <2>1, <2>2, FitMove
<1>4. CASE ~Row(q).there
  BY <1>2, <1>4, BeginsFit DEF LoadNone
<1> QED BY <1>3, <1>4

\* A look-up that fails is taken for one that found nothing.
LEMMA LookUpFailsFit ==
  ASSUME SessionInv, SessionInv', FitInv, InSequence, NEW q \in Request, LookUpFails(q)
  PROVE  FitInv'
BY BeginsFit DEF LookUpFails, credit, store

\* What is given back is the request's own.
LEMMA OwnDue ==
  ASSUME NEW q \in Request, NEW M \in SUBSET Ref, NEW grants \in GrantsOf(M),
         OwnSeq(q, grants), NEW I \in SUBSET DOMAIN Requests[q].usage,
         \A i \in I : /\ grants[Requests[q].usage[i].group] # <<>>
                      /\ grants[Requests[q].usage[i].group][1].seq = Requests[q].seq
  PROVE  LET released == Chosen(Requests[q].usage, I)
         IN  [i \in DOMAIN released |-> grants[released[i].group][1].ref]
               \in Seq(Mine(q) \union {NoRef})
<1>1. PICK usage \in Seq(Usage) : usage = Requests[q].usage
  BY RequestFact
<1>2. PICK S : S = {usage[i] : i \in I}
  OBVIOUS
<1>3. I \in SUBSET DOMAIN usage /\ \A i \in I : usage[i].group \in Group
  <2>1. I \in SUBSET DOMAIN usage
    BY <1>1
  <2>2. \A i \in DOMAIN usage : usage[i] \in Usage
    OBVIOUS
  <2> QED BY <2>1, <2>2 DEF Usage
<1>4. PICK released \in Seq(S) : released = Chosen(usage, I)
  <2>1. Chosen(usage, I) \in Seq({usage[i] : i \in I})
    BY <1>3, ChosenFact
  <2> QED BY <1>2, <2>1
<1>5. ASSUME NEW u \in S PROVE grants[u.group][1].ref \in Mine(q) \union {NoRef}
  <2>1. PICK i \in I : u = usage[i]
    BY <1>2
  <2>2. PICK group \in Group : group = u.group
    BY <1>3, <2>1
  <2>3. PICK given : /\ given = grants[group] /\ given \in Seq(GrantOf(RefsOf(group, M)))
                     /\ given # <<>> /\ given[1].seq = Requests[q].seq
    BY <1>1, <2>1, <2>2 DEF GrantsOf
  <2>4. 1 \in DOMAIN given
    BY <2>3
  <2>5. CASE group \in Free
    <3>1. given \in Seq(GrantOf({NoRef}))
      BY <2>2, <2>3, <2>5 DEF RefsOf
    <3>2. given[1] \in GrantOf({NoRef})
      BY <2>4, <3>1
    <3> QED BY <2>2, <2>3, <3>2 DEF GrantOf
  <2>6. CASE group \notin Free
    BY <2>2, <2>3, <2>4, <2>6 DEF OwnSeq
  <2> QED BY <2>5, <2>6
<1>6. PICK n \in Nat : DOMAIN released = 1..n /\ \A i \in 1..n : released[i] \in S
  <2>1. Len(released) \in Nat /\ DOMAIN released = 1..Len(released)
    BY <1>4
  <2>2. \A i \in 1..Len(released) : released[i] \in S
    BY <1>4
  <2> QED BY <2>1, <2>2
<1>7. PICK due : due = [i \in DOMAIN released |-> grants[released[i].group][1].ref]
  OBVIOUS
<1>8. due \in Seq(Mine(q) \union {NoRef})
  <2>1. due = [i \in 1..n |-> grants[released[i].group][1].ref]
    BY ONLY <1>6, <1>7
  <2>2. \A i \in 1..n : grants[released[i].group][1].ref \in Mine(q) \union {NoRef}
    BY ONLY <1>5, <1>6
  <2>3. n \in Nat
    OBVIOUS
  <2> QED BY ONLY <2>1, <2>2, <2>3
<1>9. due \in Seq(Mine(q) \union {NoRef}) /\ released = Chosen(Requests[q].usage, I)
  BY <1>1, <1>4, <1>8
<1> QED BY ONLY <1>7, <1>9

\* A handler gives up: it releases at most what is its own.
LEMMA AbandonFit ==
  ASSUME SessionInv, SessionInv', FitInv, InSequence, NEW q \in Request,
         pc[q] \in Steps \ {"trace"}, Abandon(q, ctx[q]), UNCHANGED <<book, drawn, records, now>>
  PROVE  FitInv'
<1>1. ~Requests[q].resent /\ Serving(q)
  BY Sent DEF Active
<1>2. PICK M \in SUBSET Ref : M = MayHold(q) /\ ctx[q].grants \in GrantsOf(M)
  BY HandlerFact, MineHeld DEF Carries
<1>3. OwnSeq(q, ctx[q].grants)
  BY DEF FitInv, HandlerFits, Fits
<1>4. PICK I : I = {i \in DOMAIN Requests[q].usage :
                      LET grants == ctx[q].grants[Requests[q].usage[i].group]
                      IN  grants # <<>> /\ grants[1].seq = Requests[q].seq}
  OBVIOUS
<1>5. ReleaseFirst(q, ctx[q], I)
  BY <1>4 DEF Abandon
<1>6. PICK due : due = LET released == Chosen(Requests[q].usage, I)
                       IN  [i \in DOMAIN released |-> ctx[q].grants[released[i].group][1].ref]
  OBVIOUS
<1>7. due \in Seq(Mine(q) \union {NoRef})
  <2>1. /\ I \in SUBSET DOMAIN Requests[q].usage
        /\ \A i \in I :
             /\ ctx[q].grants[Requests[q].usage[i].group] # <<>>
             /\ ctx[q].grants[Requests[q].usage[i].group][1].seq = Requests[q].seq
    BY <1>4
  <2> QED BY <1>2, <1>3, <1>6, <2>1, OwnDue
<1>8. PICK place, c :
        /\ Goto(q, place) /\ Put(q, c)
        /\ \/ place = "failed"
           \/ place = "cleanup" /\ c.due = due
  <2>1. CASE Goto(q, "failed") /\ Put(q, NoContext)
    BY <2>1
  <2>2. CASE /\ Goto(q, "cleanup")
             /\ Put(q, [ctx[q] EXCEPT !.todo = <<>>, !.due = due])
    <3>1. PICK c : c = [ctx[q] EXCEPT !.todo = <<>>, !.due = due]
      OBVIOUS
    <3>2. c.due = due
      BY <3>1, HandlerFact DEF Context
    <3> QED BY <2>2, <3>1, <3>2
  <2> QED BY <1>5, <1>6, <2>1, <2>2 DEF ReleaseFirst
<1>9. Fits(q, place, c)
  <2>1. CASE place = "failed"
    BY <2>1, FitsIdle DEF Active, Steps
  <2>2. CASE place = "cleanup"
    BY <1>7, <1>8, <2>2 DEF Fits, Steps
  <2> QED BY <1>8, <2>1, <2>2
<1> QED BY <1>1, <1>8, <1>9, FitMove

\* A handler that stops does not spoil what it leaves, if the trace is written.
LEMMA FaultFit ==
  ASSUME SessionInv, SessionInv', FitInv, InSequence, "trace" \notin Failing,
         NEW q \in Request, Fault(q)
  PROVE  FitInv'
<1>1. pc[q] \in Steps \ {"trace"} /\ Abandon(q, ctx[q])
  BY SessionAssumption DEF Fault
<1>2. UNCHANGED <<book, drawn, records, now>>
  BY DEF Fault, credit, store
<1> QED BY <1>1, <1>2, AbandonFit

\* A handler dies where it is.
LEMMA CrashFit ==
  ASSUME SessionInv, SessionInv', FitInv, InSequence, NEW q \in Request, Crash(q)
  PROVE  FitInv'
<1>1. ~Requests[q].resent /\ Serving(q)
  BY Sent DEF Crash, Active
<1>2. UNCHANGED <<book, drawn, records, now>> /\ Goto(q, "crashed") /\ Put(q, NoContext)
  BY DEF Crash, credit, store
<1>3. Fits(q, "crashed", NoContext)
  BY FitsIdle DEF Active, Steps
<1> QED BY <1>1, <1>2, <1>3, FitMove

\* The trace is the last thing a handler writes.
LEMMA CreateTraceFit ==
  ASSUME SessionInv, SessionInv', FitInv, InSequence, NEW q \in Request, CreateTrace(q)
  PROVE  FitInv'
<1>1. ~Requests[q].resent /\ Serving(q)
  BY Sent DEF CreateTrace, Active, Steps
<1>2. /\ UNCHANGED <<book, drawn, records, now>>
      /\ Goto(q, "answered") /\ Put(q, NoContext)
  BY DEF CreateTrace, credit, world
<1>3. Fits(q, "answered", NoContext)
  BY FitsIdle DEF Active, Steps
<1> QED BY <1>1, <1>2, <1>3, FitMove

\* What was just granted can be charged.
LEMMA FreshAccounting ==
  ASSUME SessionInv, FitInv, NEW q \in Request, Kind(q) \notin Reporting, NEW c,
         c.grants \in GrantsOf(Mine(q)), Unused(c.grants), c.todo = <<>>, c.done = 0
  PROVE  Accounting(q, c)
<1>1. PICK m \in GrantsOf(Mine(q)) : m = c.grants
  OBVIOUS
<1>2. Settled(q, c).grants = m
  BY <1>1 DEF Settled
<1>3. OwnSeq(q, m) /\ Distinct(m)
  BY <1>1, GrantAt DEF OwnSeq, Unused
<1>4. book \in [Ref -> Left]
  BY DEF FitInv, SessionInv, SessionTypeOK
<1>5. PICK f : f = [i \in 0..0 |-> book]
  OBVIOUS
<1>6. Course(f, <<>>, c.at) /\ f[0] = book /\ Len(c.todo) = 0
  BY <1>4, <1>5 DEF Course
<1>7. Suffices(q, m, c.at, 0, book)
  <2>1. ASSUME NEW group \in Group \ Free, NEW i \in DOMAIN m[group]
        PROVE  LET grant == m[group][i]
               IN  /\ book[grant.ref].units >= Least(grant.units, Ahead(q, group, 0))
                   /\ book[grant.ref].until = grant.until
    <3>1. PICK grant : grant = m[group][i]
      OBVIOUS
    <3>2. book[grant.ref] = Worth(grant)
      BY <1>1, <3>1 DEF Unused
    <3>3. PICK units \in Nat, ahead \in Nat : units = grant.units /\ ahead = Ahead(q, group, 0)
      <4>1. grant.units \in Nat
        BY <3>1, GrantAt
      <4>2. Ahead(q, group, 0) \in Nat
        BY AheadFact
      <4> QED BY <4>1, <4>2
    <3>4. units >= Least(units, ahead)
      BY DEF Least
    <3> QED BY <3>1, <3>2, <3>3, <3>4 DEF Worth
  <2> QED BY <2>1 DEF Suffices
<1>8. f \in [0..Len(c.todo) -> [Ref -> Left]]
  BY <1>6 DEF Course
<1>9. \A i \in DOMAIN c.todo : c.todo[i].units > 0
  OBVIOUS
<1> QED BY <1>2, <1>3, <1>6, <1>7, <1>8, <1>9 DEF Accounting

\* The new grants take the place of those of the record.
LEMMA RateDoneFit ==
  ASSUME SessionInv, SessionInv', FitInv, InSequence, NEW q \in Request, RateDone(q)
  PROVE  FitInv'
<1>1. ~Requests[q].resent /\ Serving(q)
  BY Sent DEF RateDone, Active, Steps
<1>2. PICK b \in Context : b = ctx[q] /\ Carries(q, "rate", b) /\ pc[q] = "rate"
  BY HandlerFact DEF RateDone
<1>3. PICK c : c = [b EXCEPT !.grants = b.fresh, !.fresh = NoGrants, !.done = 0]
  OBVIOUS
<1>4. c.grants = b.fresh /\ c.todo = b.todo /\ c.done = 0
  BY <1>3 DEF Context
<1>5. /\ b.todo = <<>> /\ Unused(b.fresh) /\ Numbered(b.fresh, Requests[q].seq)
      /\ b.fresh \in GrantsOf(Mine(q))
  BY <1>2 DEF FitInv, HandlerFits, Fits, Carries
<1>6. OwnSeq(q, b.fresh)
  BY <1>5, GrantAt DEF OwnSeq
<1>7. PICK place : /\ place = (IF Kind(q) = "event" THEN "account" ELSE "save")
                   /\ Goto(q, place) /\ Put(q, c)
  BY <1>2, <1>3 DEF RateDone
<1>8. place = "account" => Accounting(q, c) /\ Kind(q) \notin Reporting
  <2>1. place = "account" => Kind(q) \notin Reporting
    BY <1>7 DEF Reporting
  <2> QED BY <1>4, <1>5, <2>1, FreshAccounting
<1>9. Fits(q, place, c)
  BY <1>4, <1>5, <1>6, <1>7, <1>8 DEF Fits
<1>10. UNCHANGED <<book, drawn, records, now>>
  BY DEF RateDone, credit, store, world
<1> QED BY <1>1, <1>2, <1>7, <1>8, <1>9, <1>10, FitMove

\* All that was reported is charged, or a grant did not cover it.
LEMMA AccountDoneFit ==
  ASSUME SessionInv, SessionInv', FitInv, InSequence, NEW q \in Request, AccountDone(q)
  PROVE  FitInv'
<1>1. ~Requests[q].resent /\ Serving(q) /\ pc[q] = "account"
  BY Sent DEF AccountDone, Active, Steps
<1>2. UNCHANGED <<book, drawn, records, now>>
  BY DEF AccountDone, credit, store, world
<1>3. CASE ~ctx[q].fits
  BY <1>1, <1>2, <1>3, AbandonFit DEF AccountDone, Steps
<1>4. CASE ctx[q].fits
  <2>1. PICK b \in Context : b = ctx[q] /\ Carries(q, "account", b)
    BY <1>1, HandlerFact
  <2>2. PICK M \in SUBSET Ref : M = MayHold(q)
    BY MineHeld
  <2>3. PICK d \in Context :
          /\ d = Settled(q, b) /\ d.fresh = b.fresh /\ d.todo = b.todo
    BY <2>1, <2>2, SettledFact DEF Carries
  <2>4. /\ Accounting(q, b) /\ b.todo = <<>> /\ b.fresh = NoGrants
        /\ Kind(q) # "create"
    BY <1>1, <2>1 DEF FitInv, HandlerFits, Fits, AccountDone, Carries
  <2>5. OwnSeq(q, d.grants)
    BY <2>3, <2>4 DEF Accounting
  <2>6. CASE Kind(q) = "update"
    <3>1. PICK c : c = [d EXCEPT !.groups = GroupsAsked(q), !.done = 0]
      OBVIOUS
    <3>2. c.grants = d.grants /\ c.todo = <<>> /\ c.fresh = NoGrants
      BY <2>3, <2>4, <3>1 DEF Context
    <3>3. Unused(NoGrants) /\ Numbered(NoGrants, Requests[q].seq)
      BY DEF Unused, Distinct, Numbered, NoGrants
    <3>4. Fits(q, "rate", c)
      BY <2>5, <2>6, <3>2, <3>3 DEF Fits, Steps
    <3>5. Goto(q, "rate") /\ Put(q, c)
      BY <1>4, <2>1, <2>3, <2>6, <3>1 DEF AccountDone
    <3> QED BY <1>1, <1>2, <3>4, <3>5, FitMove
  <2>7. CASE Kind(q) # "update"
    <3>1. Fits(q, "save", d)
      BY <2>4, <2>5, <2>7 DEF Fits, Opening, Steps
    <3>2. Goto(q, "save") /\ Put(q, d)
      BY <1>4, <2>1, <2>3, <2>7 DEF AccountDone
    <3> QED BY <1>1, <1>2, <3>1, <3>2, FitMove
  <2> QED BY <2>6, <2>7
<1> QED BY <1>3, <1>4

\* A step of a handler of which only its own fitting is left to show.
LEMMA OwnStep ==
  ASSUME SessionInv, SessionInv', FitInv, InSequence,
         NEW q \in Request, ~Requests[q].resent, Serving(q), Local(q), now' = now,
         NEW s \in Session, s = Requests[q].session, records'[s] = records[s],
         pc[q] \notin {"idle", "load", "trace"}, pc'[q] \notin {"idle", "load"},
         \A r \in Ref : book'[r] \in Left,
         \/ Kind(q) \in Reporting /\ pc'[q] = "account"
         \/ \A r \in Ref : \/ book'[r] = book[r] \/ drawn[r] = 0
                           \/ pc[q] \in {"account", "cleanup"} /\ drawn[r] = q,
         HandlerFits(q)'
  PROVE  FitInv'
<1>1. SessionTypeOK /\ SessionTypeOK'
  BY DEF SessionInv
<1>2. Progress
  BY <1>1, NumberFact DEF Progress, SessionTypeOK, Local
<1>3. RecordFits(s)'
  BY <1>1, <1>2, RecordKeeps
<1> QED BY <1>3, FitStep

\* The record is replaced, removed, or kept from a second create.
LEMMA SaveRecordFit ==
  ASSUME SessionInv, SessionInv', FitInv, InSequence, NEW q \in Request, SaveRecord(q)
  PROVE  FitInv'
<1>1. ~Requests[q].resent /\ Serving(q) /\ pc[q] = "save"
  BY Sent DEF SaveRecord, Active, Steps
<1>2. PICK s \in Session : s = Requests[q].session
  BY RequestFact
<1>3. PICK c \in Context : c = ctx[q] /\ Carries(q, "save", c)
  BY <1>1, HandlerFact
<1>g. CASE Kind(q) = "create" /\ records[s].there
  <2>1. Abandon(q, ctx[q]) /\ UNCHANGED <<book, drawn, records, now>>
    BY <1>2, <1>g DEF SaveRecord, Row, credit, world
  <2> QED BY <1>1, <2>1, AbandonFit DEF Steps
<1> SUFFICES ASSUME ~(Kind(q) = "create" /\ records[s].there) PROVE FitInv'
  BY <1>g
<1>4. /\ OwnSeq(q, c.grants)
      /\ Kind(q) \in Opening =>
           /\ Numbered(c.grants, Requests[q].seq) /\ Unused(c.grants)
           /\ c.grants \in GrantsOf(Mine(q))
  BY <1>1, <1>2, <1>3 DEF FitInv, HandlerFits, Fits, Steps, Row, Carries
<1>5. PICK row : row = [there |-> TRUE, seq |-> Requests[q].seq, at |-> now,
                        groups |-> c.groups, grants |-> c.grants]
  OBVIOUS
<1>6. /\ Goto(q, "trace") /\ Put(q, c)
      /\ records' = [records EXCEPT
                       ![s] = IF Kind(q) \in {"release", "event"} THEN NoRecord
                              ELSE IF Kind(q) = "create" \/ @.there THEN row ELSE @]
  <2>1. Put(q, ctx[q]) <=> ctx' = ctx
    BY StayFact DEF SessionInv, SessionTypeOK, Put
  <2> QED BY <1>2, <1>3, <1>4, <1>5, <2>1 DEF SaveRecord, Row
<1>7. /\ pc'[q] = "trace" /\ ctx'[q] = c
      /\ \A p \in Request \ {q} : pc'[p] = pc[p] /\ ctx'[p] = ctx[p]
  BY <1>6, GotoFact
<1>8. book' = book /\ drawn' = drawn
  BY DEF SaveRecord, credit
<1>9. /\ \A x \in Session \ {s} : records'[x] = records[x]
      /\ records'[s] = IF Kind(q) \in {"release", "event"} THEN NoRecord
                       ELSE IF Kind(q) = "create" \/ records[s].there THEN row ELSE records[s]
  BY <1>6 DEF SessionInv, SessionTypeOK
<1>10. Local(q)
  BY <1>2, <1>7, <1>8, <1>9 DEF Local
<1>11. \A r \in Ref : book'[r] \in Left
  BY <1>8 DEF FitInv
<1>12. HandlerFits(q)'
  <2>1. OwnSeq(q, c.grants)'
    BY <1>4, <1>8 DEF OwnSeq, Mine
  <2> QED BY <1>4, <1>7, <2>1 DEF HandlerFits, Fits
<1>13. RecordFits(s)'
  <2>1. CASE ~records'[s].there
    BY <2>1 DEF RecordFits
  <2>2. CASE records'[s].there
    <3>1. records'[s] = row /\ Kind(q) \in Opening
      <4>1. Kind(q) \in {"create", "update", "release", "event"}
        BY RequestFact DEF Kind
      <4> QED BY <1>9, <2>2, <4>1 DEF NoRecord, Opening
    <3>2. row.there /\ row.seq = Requests[q].seq /\ row.grants = c.grants
      BY <1>5
    <3>3. Distinct(row.grants) /\ Numbered(row.grants, row.seq)
      BY <1>4, <3>1, <3>2 DEF Unused
    <3>4. row.grants \in GrantsOf(Mine(q)')
      <4>1. Mine(q)' = Mine(q)
        BY <1>8 DEF Mine
      <4> QED BY <1>4, <3>1, <3>2, <4>1
    <3>5. Agrees(s, book, NoneAhead)'
      <4>1. ASSUME NEW group \in Group \ Free, NEW i \in DOMAIN row.grants[group]
            PROVE  LET grant == row.grants[group][i]
                   IN  /\ book'[grant.ref].until = grant.until
                       /\ book'[grant.ref].units + Spent(s, row.seq, group)'
                            >= grant.units + NoneAhead[group]
        <5>1. PICK grant : grant = row.grants[group][i]
          OBVIOUS
        <5>2. book'[grant.ref] = Worth(grant)
          BY <1>4, <1>8, <3>1, <3>2, <5>1 DEF Unused
        <5>3. PICK units \in Nat : units = grant.units
          BY <1>4, <3>1, <3>2, <5>1, GrantAt
        <5>4. PICK P : P = Since(s, row.seq)'
          OBVIOUS
        <5>5. PICK spent \in Nat : spent = SpentBy(P, group)
          BY SpentFact
        <5>6. Spent(s, row.seq, group)' = spent
          BY <5>4, <5>5 DEF Spent, SpentBy
        <5>7. units + spent >= units + 0 /\ NoneAhead[group] = 0
          BY DEF NoneAhead
        <5> QED BY <5>1, <5>2, <5>3, <5>6, <5>7 DEF Worth
      <4> QED BY <3>1, <4>1 DEF Agrees
    <3> QED BY <1>1, <1>2, <1>7, <3>1, <3>2, <3>3, <3>4, <3>5 DEF RecordFits
  <2> QED BY <2>1, <2>2
<1> QED BY <1>1, <1>2, <1>10, <1>11, <1>12, <1>13, FitStep

\* A handler that gave up releases its own grants.
LEMMA CleanUpFit ==
  ASSUME SessionInv, SessionInv', FitInv, InSequence, NEW q \in Request, CleanUp(q)
  PROVE  FitInv'
<1>1. ~Requests[q].resent /\ Serving(q) /\ pc[q] = "cleanup"
  BY Sent DEF CleanUp, Active
<1>2. PICK c \in Context : c = ctx[q] /\ c.due \in Seq(Mine(q) \union {NoRef})
  BY <1>1, HandlerFact DEF FitInv, HandlerFits, Fits
<1>3. UNCHANGED <<drawn, records, now>>
  BY DEF CleanUp, store, world
<1>4. CASE c.due = <<>>
  <2>1. Goto(q, "failed") /\ Put(q, NoContext) /\ book' = book
    BY <1>2, <1>4 DEF CleanUp, credit
  <2>2. Fits(q, "failed", NoContext)
    BY FitsIdle DEF Active, Steps
  <2> QED BY <1>1, <1>3, <2>1, <2>2, FitMove
<1>5. CASE c.due # <<>>
  <2>1. PICK d, r : d = [c EXCEPT !.due = Tail(c.due)] /\ r = Head(c.due)
    OBVIOUS
  <2>2. /\ Goto(q, "cleanup") /\ Put(q, d)
        /\ book' = [x \in Ref |-> IF x = r THEN NoGrant ELSE book[x]]
    <3>1. pc' = pc
      BY <1>2, <1>5 DEF CleanUp
    <3>2. Goto(q, "cleanup")
      BY <1>1, <3>1 DEF Goto, SessionInv, SessionTypeOK
    <3> QED BY <1>2, <1>5, <2>1, <3>2 DEF CleanUp
  <2>3. r \in Mine(q) \union {NoRef} /\ d.due \in Seq(Mine(q) \union {NoRef})
    BY <1>2, <1>5, <2>1, RestOfSeq DEF Context
  <2>4. /\ pc'[q] = "cleanup" /\ ctx'[q] = d
        /\ \A p \in Request \ {q} : pc'[p] = pc[p] /\ ctx'[p] = ctx[p]
    BY <2>2, GotoFact
  <2>5. \A x \in Ref : book'[x] \in Left /\ (book'[x] = book[x] \/ x \in Mine(q))
    <3>1. NoGrant \in Left
      BY DEF NoGrant, Left
    <3> QED BY <2>2, <2>3, <3>1, NumberFact DEF FitInv
  <2>6. Local(q)
    BY <1>3, <2>4, <2>5, MineHeld DEF Local
  <2>7. HandlerFits(q)'
    <3>1. Mine(q)' = Mine(q)
      BY <1>3 DEF Mine
    <3> QED BY <2>3, <2>4, <3>1 DEF HandlerFits, Fits, Steps
  <2>8. \A x \in Ref : book'[x] = book[x] \/ drawn[x] = q
    BY <2>5 DEF Mine
  <2>9. PICK s \in Session : s = Requests[q].session /\ records'[s] = records[s]
    BY <1>3, RequestFact
  <2> QED BY <1>1, <1>3, <2>4, <2>5, <2>6, <2>7, <2>8, <2>9, OwnStep
<1> QED BY <1>4, <1>5

\* A release that fails leaves the rest of what is to be released.
LEMMA ReleaseFailsFit ==
  ASSUME SessionInv, SessionInv', FitInv, InSequence, NEW q \in Request, ReleaseFails(q)
  PROVE  FitInv'
<1>1. ~Requests[q].resent /\ Serving(q) /\ pc[q] = "cleanup" /\ ctx[q].due # <<>>
  BY Sent DEF ReleaseFails, Active
<1>2. PICK c \in Context : c = ctx[q] /\ c.due \in Seq(Mine(q) \union {NoRef})
  BY <1>1, HandlerFact DEF FitInv, HandlerFits, Fits
<1>3. PICK d : d = [c EXCEPT !.due = Tail(c.due)]
  OBVIOUS
<1>4. UNCHANGED <<book, drawn, records, now, pc>> /\ Put(q, d)
  BY <1>2, <1>3 DEF ReleaseFails, credit, store
<1>5. Goto(q, "cleanup")
  BY <1>1, <1>4 DEF Goto, SessionInv, SessionTypeOK
<1>6. d.due \in Seq(Mine(q) \union {NoRef})
  BY <1>1, <1>2, <1>3, RestOfSeq DEF Context
<1>7. Fits(q, "cleanup", d)
  BY <1>6 DEF Fits, Steps
<1> QED BY <1>1, <1>4, <1>5, <1>7, FitMove

\* One more grant, under a new id, is unused like the others.
LEMMA UnusedMore ==
  ASSUME NEW R, NEW m \in GrantsOf(R), Unused(m), NEW n, Numbered(m, n),
         NEW group \in Group \ Free, NEW grant, grant.seq = n, grant.ref \notin R,
         \A r \in R : book'[r] = book[r], book'[grant.ref] = Worth(grant),
         NEW new, new[group] = Append(m[group], grant),
         \A other \in Group \ {group} : new[other] = m[other]
  PROVE  Unused(new)' /\ Numbered(new, n)
<1>1. PICK old \in Seq(GrantOf(R)), N \in Nat : old = m[group] /\ N = Len(old)
  <2>1. m[group] \in Seq(GrantOf(R))
    BY DEF GrantsOf, RefsOf
  <2>2. Len(m[group]) \in Nat
    BY <2>1
  <2> QED BY <2>1, <2>2
<1>2. new[group] = Append(old, grant) /\ DOMAIN new[group] = 1..(N + 1) /\ DOMAIN old = 1..N
  BY <1>1
<1>3. ASSUME NEW g \in Group \ Free, NEW i \in DOMAIN new[g]
      PROVE  \/ g = group /\ i = N + 1 /\ new[g][i] = grant
             \/ i \in DOMAIN m[g] /\ new[g][i] = m[g][i]
  <2>1. CASE g # group
    BY <2>1
  <2>2. CASE g = group /\ i = N + 1
    BY <1>1, <1>2, <2>2
  <2>3. CASE g = group /\ i # N + 1
    <3>1. i \in 1..N
      BY <1>2, <2>3
    <3>2. Append(old, grant)[i] = old[i]
      BY <1>1, <3>1
    <3> QED BY <1>1, <1>2, <2>3, <3>1, <3>2
  <2> QED BY <2>1, <2>2, <2>3
<1>4. \A g \in Group \ Free : \A i \in DOMAIN m[g] : m[g][i].ref \in R
  BY GrantAt
<1>5. Distinct(new)
  <2>1. ASSUME NEW g \in Group \ Free, NEW h \in Group \ Free,
               NEW i \in DOMAIN new[g], NEW j \in DOMAIN new[h],
               new[g][i].ref = new[h][j].ref
        PROVE  g = h /\ i = j
    <3>1. CASE i \in DOMAIN m[g] /\ new[g][i] = m[g][i] /\ j \in DOMAIN m[h] /\ new[h][j] = m[h][j]
      BY <2>1, <3>1 DEF Unused, Distinct
    <3>2. CASE g = group /\ i = N + 1 /\ h = group /\ j = N + 1
      BY <3>2
    <3>3. CASE /\ new[g][i] = grant /\ j \in DOMAIN m[h] /\ new[h][j] = m[h][j]
      BY <1>4, <2>1, <3>3
    <3>4. CASE /\ new[h][j] = grant /\ i \in DOMAIN m[g] /\ new[g][i] = m[g][i]
      BY <1>4, <2>1, <3>4
    <3> QED BY <1>3, <3>1, <3>2, <3>3, <3>4
  <2> QED BY <2>1 DEF Distinct
<1>6. ASSUME NEW g \in Group \ Free, NEW i \in DOMAIN new[g]
      PROVE  book'[new[g][i].ref] = Worth(new[g][i]) /\ new[g][i].seq = n
  <2>1. CASE new[g][i] = grant
    BY <2>1
  <2>2. CASE i \in DOMAIN m[g] /\ new[g][i] = m[g][i]
    BY <1>4, <2>2 DEF Unused, Numbered
  <2> QED BY <1>3, <2>1, <2>2
<1> QED BY <1>5, <1>6 DEF Unused, Numbered, Distinct, Worth

\* One more group is rated, and granted under an id drawn for it.
LEMMA RateUnitFit ==
  ASSUME SessionInv, SessionInv', FitInv, InSequence, NEW q \in Request, RateUnit(q)
  PROVE  FitInv'
<1>1. ~Requests[q].resent /\ Serving(q) /\ pc[q] = "rate"
  BY Sent DEF RateUnit, Active, Steps
<1>2. PICK b \in Context : b = ctx[q] /\ Carries(q, "rate", b)
  BY <1>1, HandlerFact
<1>3. /\ b.todo = <<>> /\ OwnSeq(q, b.grants) /\ b.fresh \in GrantsOf(Mine(q))
      /\ Unused(b.fresh) /\ Numbered(b.fresh, Requests[q].seq)
  BY <1>1, <1>2 DEF FitInv, HandlerFits, Fits, Carries, Steps
<1>4. PICK group \in Group : group = Requests[q].usage[b.done + 1].group
  BY <1>2, RateFact
<1>5. PICK grant, c :
        /\ c = Granted(b, group, grant) /\ Put(q, c) /\ grant.seq = Requests[q].seq
        /\ \/ group \in Free /\ UNCHANGED <<drawn, book>>
           \/ /\ group \notin Free /\ grant.ref \in Ref /\ drawn[grant.ref] = 0
              /\ drawn' = [drawn EXCEPT ![grant.ref] = q]
              /\ book' = [book EXCEPT ![grant.ref] = Worth(grant)]
  <2>1. PICK wanted, until, t :
          /\ t = b.at
          /\ wanted = NormaliseUnits(group, Requests[q].usage[b.done + 1].wanted)
          /\ until = b.at + Validity
    OBVIOUS
  <2>2. CASE group \in Free
    <3>1. PICK grant : grant = [ref |-> NoRef, seq |-> Requests[q].seq, units |-> wanted,
                                until |-> until]
      OBVIOUS
    <3>2. Put(q, Granted(b, group, grant)) /\ UNCHANGED <<drawn, book>>
      BY <1>2, <1>4, <2>1, <2>2, <3>1 DEF RateUnit, credit
    <3> QED BY <2>2, <3>1, <3>2
  <2>3. CASE group \notin Free
    <3>1. PICK r \in Ref :
            LET units == ReserveCall(quota, r, wanted, t).answer
            IN  /\ drawn[r] = 0 /\ drawn' = [drawn EXCEPT ![r] = q]
                /\ Put(q, Granted(b, group, [ref |-> r, seq |-> Requests[q].seq,
                                             units |-> units, until |-> until]))
                /\ book' = [book EXCEPT ![r] = [units |-> units, until |-> until]]
      BY <1>2, <1>4, <2>1, <2>3 DEF RateUnit
    <3>2. PICK grant : grant = [ref |-> r, seq |-> Requests[q].seq,
                                units |-> ReserveCall(quota, r, wanted, t).answer,
                                until |-> until]
      OBVIOUS
    <3>3. /\ grant.ref = r /\ grant.seq = Requests[q].seq
          /\ Worth(grant) = [units |-> ReserveCall(quota, r, wanted, t).answer, until |-> until]
      BY <3>2 DEF Worth
    <3> QED BY <2>3, <3>1, <3>2, <3>3
  <2> QED BY <2>2, <2>3
<1>6. /\ UNCHANGED <<records, now>> /\ Goto(q, "rate")
  <2>1. UNCHANGED <<records, now, pc>>
    BY DEF RateUnit, store, world
  <2> QED BY <1>1, <2>1 DEF Goto, SessionInv, SessionTypeOK
<1>7. /\ c.grants = b.grants /\ c.todo = b.todo
      /\ c.fresh = [b.fresh EXCEPT ![group] = Append(b.fresh[group], grant)]
  BY <1>5 DEF Granted, Context
<1>8. /\ c.fresh[group] = Append(b.fresh[group], grant)
      /\ \A other \in Group \ {group} : c.fresh[other] = b.fresh[other]
  BY <1>3, <1>7 DEF GrantsOf, Grants
<1>9. CASE group \in Free /\ UNCHANGED <<drawn, book>>
  <2>1. Unused(c.fresh) /\ Numbered(c.fresh, Requests[q].seq)
    <3>1. \A g \in Group \ Free : c.fresh[g] = b.fresh[g]
      BY <1>8, <1>9
    <3> QED BY <1>3, <3>1 DEF Unused, Distinct, Numbered
  <2>2. Fits(q, "rate", c)
    BY <1>3, <1>7, <2>1 DEF Fits, Steps
  <2> QED BY <1>1, <1>5, <1>6, <1>9, <2>2, FitMove
<1>10. CASE /\ group \notin Free /\ grant.ref \in Ref /\ drawn[grant.ref] = 0
            /\ drawn' = [drawn EXCEPT ![grant.ref] = q]
            /\ book' = [book EXCEPT ![grant.ref] = Worth(grant)]
  <2>1. PICK r \in Ref : r = grant.ref /\ drawn[r] = 0
    BY <1>10
  <2>2. /\ drawn'[r] = q /\ book'[r] = Worth(grant)
        /\ \A x \in Ref \ {r} : drawn'[x] = drawn[x] /\ book'[x] = book[x]
    BY <1>10, <2>1 DEF SessionInv, SessionTypeOK
  <2>3. /\ pc'[q] = "rate" /\ ctx'[q] = c
        /\ \A p \in Request \ {q} : pc'[p] = pc[p] /\ ctx'[p] = ctx[p]
    BY <1>5, <1>6, GotoFact
  <2>4. r \notin Mine(q) /\ Mine(q) \subseteq Mine(q)'
    BY <2>1, <2>2, NumberFact DEF Mine
  <2>5. \A x \in Mine(q) : book'[x] = book[x]
    BY <2>2, <2>4 DEF Mine
  <2>6. Unused(c.fresh)' /\ Numbered(c.fresh, Requests[q].seq)
    <3>1. PICK R, m, n, new : /\ R = Mine(q) /\ m = b.fresh /\ n = Requests[q].seq
                              /\ new = c.fresh
      OBVIOUS
    <3>2. /\ m \in GrantsOf(R) /\ Unused(m) /\ Numbered(m, n) /\ group \in Group \ Free
          /\ grant.seq = n /\ grant.ref \notin R
          /\ (\A x \in R : book'[x] = book[x]) /\ book'[grant.ref] = Worth(grant)
          /\ new[group] = Append(m[group], grant)
          /\ \A other \in Group \ {group} : new[other] = m[other]
      BY <1>3, <1>5, <1>8, <1>10, <2>1, <2>2, <2>4, <2>5, <3>1
    <3>3. Unused(new)' /\ Numbered(new, n)
      BY ONLY <3>2, UnusedMore
    <3> QED BY <3>1, <3>3 DEF Unused
  <2>7. OwnSeq(q, b.grants)'
    BY <1>3, <2>4 DEF OwnSeq
  <2>8. HandlerFits(q)'
    <3>1. Row(q)' = Row(q)
      BY <1>6 DEF Row
    <3> QED BY <1>3, <1>7, <2>3, <2>6, <2>7, <3>1 DEF HandlerFits, Fits
  <2>9. \A x \in Ref : book'[x] \in Left
    <3>1. Worth(grant) \in Left
      <4>1. c \in Context
        BY <2>3 DEF SessionInv, SessionTypeOK
      <4>2. c.fresh[group] \in Seq(Grant)
        BY <4>1 DEF Context, Grants
      <4>3. b.fresh[group] \in Seq(Grant)
        BY <1>2 DEF Context, Grants
      <4>4. PICK old \in Seq(Grant), N \in Nat : old = b.fresh[group] /\ N = Len(old)
        <5>1. Len(b.fresh[group]) \in Nat
          BY <4>3
        <5> QED BY <4>3, <5>1
      <4>5. Append(old, grant) \in Seq(Grant) /\ Append(old, grant)[N + 1] = grant
        BY <1>8, <4>2, <4>4
      <4>6. N + 1 \in DOMAIN Append(old, grant)
        BY <4>4
      <4>7. grant \in Grant
        BY <4>5, <4>6
      <4> QED BY <4>7 DEF Grant, Worth, Left
    <3> QED BY <2>2, <3>1 DEF FitInv
  <2>10. Local(q)
    BY <1>6, <2>1, <2>2, <2>3 DEF Local
  <2>11. \A x \in Ref : book'[x] = book[x] \/ drawn[x] = 0
    BY <2>1, <2>2
  <2>12. PICK s \in Session : s = Requests[q].session /\ records'[s] = records[s]
    BY <1>6, RequestFact
  <2> QED BY <1>1, <1>6, <2>3, <2>8, <2>9, <2>10, <2>11, <2>12, OwnStep
<1> QED BY <1>5, <1>9, <1>10

\* A course from its second book on.
Onward(f, n) == [i \in 0..n |-> f[i + 1]]

\* The book after a debit.
After(b, d) == [b EXCEPT ![d.ref] = Debited(@, d.reclaim, d.units)]

\* The debit d is within its grant, and g is the course of the rest.
Starts(M, f, todo, t, d, rest, g) ==
  /\ d \in ChargeOf(M) /\ f[0][d.ref] \in Left /\ f[0] \in [Ref -> Left]
  /\ f[0][d.ref].until > t /\ d.units <= f[0][d.ref].units
  /\ f[1] = After(f[0], d)
  /\ Course(g, rest, t) /\ g[0] = f[1] /\ g[Len(rest)] = f[Len(todo)]
  /\ \A i \in 0..Len(rest) : g[i] = f[i + 1] /\ i + 1 \in DOMAIN f
  /\ \A i \in DOMAIN rest : i + 1 \in DOMAIN todo /\ rest[i] = todo[i + 1]

\* The first debit of a course is within its grant; the rest is a course, too.
LEMMA CourseRest ==
  ASSUME NEW M \in SUBSET Ref, NEW todo \in Seq(ChargeOf(M)), todo # <<>>, NEW t, NEW f,
         Course(f, todo, t), NEW d, d = Head(todo), NEW rest, rest = Tail(todo),
         NEW g, g = Onward(f, Len(rest))
  PROVE  Starts(M, f, todo, t, d, rest, g)
<1>1. PICK n \in Nat : /\ Len(todo) = n + 1 /\ Len(Tail(todo)) = n
                       /\ \A k \in 1..n : Tail(todo)[k] = todo[k + 1]
  <2>1. Len(todo) \in Nat \ {0}
    OBVIOUS
  <2>2. PICK n \in Nat : Len(todo) = n + 1
    BY <2>1
  <2>3. Len(Tail(todo)) = n /\ \A k \in 1..n : Tail(todo)[k] = todo[k + 1]
    BY <2>2
  <2> QED BY <2>2, <2>3
<1>2. d \in ChargeOf(M) /\ d = todo[1] /\ d.ref \in Ref
  <2>1. Head(todo) \in ChargeOf(M) /\ Head(todo) = todo[1]
    BY <1>1, RestOfSeq
  <2> QED BY <2>1 DEF ChargeOf
<1>3. /\ f \in [0..(n + 1) -> [Ref -> Left]]
      /\ \A k \in 1..(n + 1) :
           /\ todo[k].ref \in Ref
           /\ f[k - 1][todo[k].ref].until > t /\ todo[k].units <= f[k - 1][todo[k].ref].units
           /\ f[k] = [f[k - 1] EXCEPT
                        ![todo[k].ref] = Debited(@, todo[k].reclaim, todo[k].units)]
  BY <1>1 DEF Course
<1>4. 1 \in 1..(n + 1) /\ 1 - 1 = 0 /\ 0 \in 0..(n + 1)
  OBVIOUS
<1>5. /\ f[0][d.ref].until > t /\ d.units <= f[0][d.ref].units
      /\ f[1] = [f[0] EXCEPT ![d.ref] = Debited(@, d.reclaim, d.units)]
  <2>1. /\ f[1 - 1][todo[1].ref].until > t /\ todo[1].units <= f[1 - 1][todo[1].ref].units
        /\ f[1] = [f[1 - 1] EXCEPT
                     ![todo[1].ref] = Debited(@, todo[1].reclaim, todo[1].units)]
    BY ONLY <1>3, <1>4
  <2> QED BY <1>2, <1>4, <2>1
<1>6. f[0] \in [Ref -> Left] /\ f[0][d.ref] \in Left
  BY <1>2, <1>3, <1>4
<1>7. g = [i \in 0..n |-> f[i + 1]]
  BY <1>1 DEF Onward
<1>8. \A i \in 0..n : g[i] = f[i + 1] /\ i + 1 \in DOMAIN f
  BY <1>3, <1>7
<1>9. Course(g, Tail(todo), t)
  <2>1. g \in [0..n -> [Ref -> Left]]
    BY <1>3, <1>7
  <2>2. ASSUME NEW k \in 1..n
        PROVE  LET debit == Tail(todo)[k]
               IN  /\ debit.ref \in Ref
                   /\ g[k - 1][debit.ref].until > t /\ debit.units <= g[k - 1][debit.ref].units
                   /\ g[k] = [g[k - 1] EXCEPT
                                ![debit.ref] = Debited(@, debit.reclaim, debit.units)]
    <3>1. k + 1 \in 1..(n + 1) /\ (k + 1) - 1 = k /\ (k - 1) + 1 = k /\ k - 1 \in 0..n
          /\ k \in 0..n
      OBVIOUS
    <3>2. g[k] = f[k + 1] /\ g[k - 1] = f[k] /\ Tail(todo)[k] = todo[k + 1]
      <4>1. g[k - 1] = f[(k - 1) + 1]
        BY <1>8, <3>1
      <4> QED BY <1>1, <1>8, <3>1, <4>1
    <3>3. /\ todo[k + 1].ref \in Ref
          /\ f[(k + 1) - 1][todo[k + 1].ref].until > t
          /\ todo[k + 1].units <= f[(k + 1) - 1][todo[k + 1].ref].units
          /\ f[k + 1] = [f[(k + 1) - 1] EXCEPT
                 ![todo[k + 1].ref] = Debited(@, todo[k + 1].reclaim, todo[k + 1].units)]
      BY ONLY <1>3, <3>1
    <3> QED BY <3>1, <3>2, <3>3
  <2> QED BY <1>1, <2>1, <2>2 DEF Course
<1>10. g[0] = f[1] /\ g[n] = f[n + 1]
  <2>1. 0 \in 0..n /\ n \in 0..n /\ 0 + 1 = 1
    OBVIOUS
  <2> QED BY <1>8, <2>1
<1>11. \A i \in DOMAIN rest : i + 1 \in DOMAIN todo /\ rest[i] = todo[i + 1]
  BY <1>1
<1> QED BY <1>1, <1>2, <1>5, <1>6, <1>8, <1>9, <1>10, <1>11 DEF After, Starts

\* The next debit is made.
LEMMA DebitAccounting ==
  ASSUME SessionInv, FitInv, NEW q \in Request, NEW b \in Context, Accounting(q, b),
         b.todo \in Seq(ChargeOf(MayHold(q))), b.todo # <<>>,
         NEW d, d = Head(b.todo),
         book' = [book EXCEPT ![d.ref] = Debited(@, d.reclaim, d.units)],
         drawn' = drawn, SameRecord(Requests[q].session),
         NEW c, c = [b EXCEPT !.todo = Tail(b.todo)]
  PROVE  /\ Accounting(q, c)' /\ d.ref \in MayHold(q)
         /\ \A r \in Ref : book'[r] \in Left
<1>1. PICK M \in SUBSET Ref : M = MayHold(q)
  BY MineHeld
<1>2. PICK todo \in Seq(ChargeOf(M)) : todo = b.todo /\ todo # <<>>
  BY <1>1
<1>r. PICK rest : rest = Tail(todo)
  OBVIOUS
<1>3. c.todo = rest /\ c.at = b.at /\ c.done = b.done /\ c.fits = b.fits /\ c.kept = b.kept
      /\ c.grants = b.grants
  BY <1>2, <1>r DEF Context
<1>4. PICK m, s : m = Settled(q, b).grants /\ s = Requests[q].session
  OBVIOUS
<1>5. Settled(q, c).grants = m
  <2>1. CASE b.done = 0
    BY <1>3, <1>4, <2>1 DEF Settled
  <2>2. CASE b.done # 0
    BY <1>3, <1>4, <2>2 DEF Settled, UsageGroup, Context
  <2> QED BY <2>1, <2>2
<1>6. Distinct(m) /\ OwnSeq(q, m) /\ \A i \in DOMAIN todo : todo[i].units > 0
  BY <1>2, <1>4 DEF Accounting
<1>7. PICK f :
        /\ Course(f, todo, b.at) /\ DOMAIN f = 0..Len(todo)
        /\ \A r \in M : f[0][r] = book[r]
        /\ b.fits => Suffices(q, m, b.at, b.done, f[Len(todo)])
        /\ Kind(q) \in Reporting /\ records[s].there =>
             /\ records[s].seq < Requests[q].seq
             /\ FromRecord(s, m)
             /\ \A k \in DOMAIN f : Agrees(s, f[k], AheadOf(q, b.done))
  BY <1>1, <1>2, <1>4 DEF Accounting
<1>8. PICK g : g = Onward(f, Len(rest))
  OBVIOUS
<1>9. /\ d \in ChargeOf(M) /\ f[0][d.ref] \in Left /\ f[0] \in [Ref -> Left]
      /\ f[0][d.ref].until > b.at /\ d.units <= f[0][d.ref].units
      /\ f[1] = After(f[0], d)
      /\ Course(g, rest, b.at) /\ g[0] = f[1] /\ g[Len(rest)] = f[Len(todo)]
      /\ \A i \in 0..Len(rest) : g[i] = f[i + 1] /\ i + 1 \in DOMAIN f
      /\ \A i \in DOMAIN rest : i + 1 \in DOMAIN todo /\ rest[i] = todo[i + 1]
  <2>1. /\ M \in SUBSET Ref /\ todo \in Seq(ChargeOf(M)) /\ todo # <<>>
        /\ Course(f, todo, b.at) /\ d = Head(todo) /\ rest = Tail(todo)
        /\ g = Onward(f, Len(rest))
    BY <1>2, <1>r, <1>7, <1>8
  <2>2. Starts(M, f, todo, b.at, d, rest, g)
    BY ONLY <2>1, CourseRest
  <2> QED BY <2>2 DEF Starts
<1>10. d.ref \in M /\ d.reclaim \in BOOLEAN /\ d.units \in Nat
  BY <1>9 DEF ChargeOf
<1>11. book \in [Ref -> Left] /\ f[0][d.ref] = book[d.ref]
  BY <1>7, <1>10 DEF FitInv, SessionInv, SessionTypeOK
<1>12. PICK debited \in Left : debited = Debited(book[d.ref], d.reclaim, d.units)
  BY <1>9, <1>10, <1>11, DebitedFact
<1>13. book' = [book EXCEPT ![d.ref] = debited] /\ f[1] = [f[0] EXCEPT ![d.ref] = debited]
  BY <1>9, <1>11, <1>12 DEF After
<1>14. \A r \in M : g[0][r] = book'[r]
  BY <1>7, <1>9, <1>10, <1>11, <1>13
<1>15. \A r \in Ref : book'[r] \in Left
  BY <1>10, <1>11, <1>13
<1>16. MayHold(q)' = M /\ Mine(q)' = Mine(q)
  BY <1>1 DEF MayHold, Mine
<1>17. OwnSeq(q, m)'
  BY <1>6, <1>16 DEF OwnSeq
<1>18. \A i \in DOMAIN rest : rest[i].units > 0
  BY <1>6, <1>9
<1>19. ASSUME Kind(q) \in Reporting, records'[s].there
       PROVE  /\ records'[s].seq < Requests[q].seq
              /\ FromRecord(s, m)'
              /\ \A k \in DOMAIN g : Agrees(s, g[k], AheadOf(q, c.done))'
  <2>1. SameRecord(s) /\ records'[s] = records[s]
    BY <1>4 DEF SameRecord
  <2>2. ASSUME NEW k \in DOMAIN g PROVE Agrees(s, g[k], AheadOf(q, c.done))'
    <3>1. PICK left, ahead : left = g[k] /\ ahead = AheadOf(q, c.done)
      OBVIOUS
    <3>2. Agrees(s, left, ahead)
      <4>1. g[k] = f[k + 1] /\ k + 1 \in DOMAIN f
        BY <1>8, <1>9 DEF Onward
      <4> QED BY <1>3, <1>7, <1>19, <2>1, <3>1, <4>1
    <3>3. Agrees(s, left, ahead)'
      BY <2>1, <3>2, AgreesStays
    <3> QED BY <3>1, <3>3
  <2>3. FromRecord(s, m)'
    BY <1>7, <1>19, <2>1 DEF FromRecord
  <2> QED BY <1>7, <1>19, <2>1, <2>2, <2>3
<1>20. g \in [0..Len(rest) -> [Ref -> Left]]
  BY <1>9 DEF Course
<1>21. c.fits => Suffices(q, m, c.at, c.done, g[Len(rest)])
  BY <1>3, <1>7, <1>9
<1>22. Accounting(q, c)'
  <2>1. PICK n : n = Settled(q, c).grants /\ n = m
    BY <1>5
  <2>2. /\ Distinct(n) /\ OwnSeq(q, n)' /\ \A i \in DOMAIN c.todo : c.todo[i].units > 0
    BY <1>3, <1>6, <1>17, <1>18, <2>1
  <2>3. /\ g \in [0..Len(c.todo) -> [Ref -> Left]]
        /\ Course(g, c.todo, c.at) /\ \A r \in MayHold(q)' : g[0][r] = book'[r]
        /\ c.fits => Suffices(q, n, c.at, c.done, g[Len(c.todo)])
    BY <1>3, <1>9, <1>14, <1>16, <1>20, <1>21, <2>1
  <2>4. Kind(q) \in Reporting /\ records'[s].there =>
          /\ records'[s].seq < Requests[q].seq
          /\ FromRecord(s, n)'
          /\ \A k \in DOMAIN g : Agrees(s, g[k], AheadOf(q, c.done))'
    BY <1>19, <2>1
  <2> QED BY <1>4, <2>1, <2>2, <2>3, <2>4 DEF Accounting
<1> QED BY <1>1, <1>10, <1>15, <1>22

\* A handler makes the next debit.
LEMMA DebitUsedFit ==
  ASSUME SessionInv, SessionInv', FitInv, InSequence, NEW q \in Request, DebitUsed(q)
  PROVE  FitInv'
<1>1. ~Requests[q].resent /\ Serving(q) /\ pc[q] = "account"
  BY Sent DEF DebitUsed, Active, Steps
<1>2. PICK b \in Context : b = ctx[q] /\ Carries(q, "account", b)
  BY <1>1, HandlerFact
<1>3. /\ Accounting(q, b) /\ OwnSeq(q, b.grants) /\ Kind(q) # "create"
      /\ b.todo \in Seq(ChargeOf(MayHold(q)))
  BY <1>1, <1>2 DEF FitInv, HandlerFits, Fits, Carries, Steps
<1>4. PICK d, c : d = Head(b.todo) /\ c = [b EXCEPT !.todo = Tail(b.todo)]
  OBVIOUS
<1>5. /\ b.todo # <<>> /\ UNCHANGED <<records, drawn, now, pc>> /\ Put(q, c)
      /\ book' = [book EXCEPT ![d.ref] = Debited(@, d.reclaim, d.units)]
  BY <1>2, <1>4 DEF DebitUsed, store, world, Debited
<1>6. Goto(q, "account")
  BY <1>1, <1>5 DEF Goto, SessionInv, SessionTypeOK
<1>7. /\ pc'[q] = "account" /\ ctx'[q] = c
      /\ \A p \in Request \ {q} : pc'[p] = pc[p] /\ ctx'[p] = ctx[p]
  BY <1>5, <1>6, GotoFact
<1>8. PICK s \in Session : s = Requests[q].session /\ records'[s] = records[s]
  BY <1>5, RequestFact
<1>9. SameRecord(s)
  BY <1>5, <1>8 DEF SameRecord, Since, Kind
<1>10. /\ Accounting(q, c)' /\ d.ref \in MayHold(q)
       /\ \A r \in Ref : book'[r] \in Left
  BY <1>3, <1>4, <1>5, <1>8, <1>9, DebitAccounting
<1>11. Local(q)
  BY <1>5, <1>7, <1>10 DEF Local, SessionInv, SessionTypeOK
<1>12. HandlerFits(q)'
  <2>1. OwnSeq(q, b.grants)' /\ c.grants = b.grants
    BY <1>3, <1>4, <1>5 DEF OwnSeq, Mine, Context
  <2> QED BY <1>3, <1>7, <1>10, <2>1 DEF HandlerFits, Fits
<1>13. CASE Kind(q) \in Reporting
  BY <1>1, <1>5, <1>7, <1>8, <1>10, <1>11, <1>12, <1>13, OwnStep
<1>14. CASE Kind(q) \notin Reporting
  <2>1. d.ref \in Ref /\ drawn[d.ref] = q
    BY <1>10, <1>14 DEF MayHold, Kind, Reporting
  <2>2. \A r \in Ref : book'[r] = book[r] \/ drawn[r] = q
    BY <1>5, <2>1 DEF SessionInv, SessionTypeOK
  <2> QED BY <1>1, <1>5, <1>7, <1>8, <1>10, <1>11, <1>12, <2>2, OwnStep
<1> QED BY <1>13, <1>14

\* What is true of the record while a handler accounts on it.
LEMMA RecordAccounted ==
  ASSUME SessionInv, FitInv, NEW q \in Request, pc[q] = "account", ~Requests[q].resent,
         Kind(q) \in Reporting, NEW s \in Session, s = Requests[q].session,
         records[s].there, records[s].seq < Requests[q].seq
  PROVE  /\ q \in Since(s, records[s].seq)
         /\ records[s].grants \in GrantsOf(Ref) /\ Distinct(records[s].grants)
<1>1. q \in Since(s, records[s].seq)
  <2>1. records[s].seq \in Nat /\ Requests[q].seq \in Nat
    BY RequestFact DEF SessionInv, SessionTypeOK
  <2> QED BY <2>1 DEF Since
<1>2. RecordInv(s) /\ RecordFits(s)
  BY DEF SessionInv, FitInv
<1>3. PICK U : U = Under(s, records[s].seq) /\ U \subseteq Ref
  BY MineHeld
<1>4. records[s].grants \in GrantsOf(Ref)
  <2>1. GrantsOf(U) \subseteq GrantsOf(Ref)
    BY <1>3, MoreIds
  <2> QED BY <1>2, <1>3, <2>1 DEF RecordInv
<1> QED BY <1>1, <1>2, <1>4 DEF RecordFits

\* The next usage is planned, of a group that is charged or not.
LEMMA UsageContinues ==
  ASSUME NEW q \in Request, NEW context \in Context,
         context.done < Len(Requests[q].usage), context.grants \in GrantsOf(Ref),
         Distinct(context.grants), OwnSeq(q, context.grants), NEW b \in [Ref -> Left],
         Suffices(q, context.grants, context.at, context.done, b),
         NEW new, new = NextUsage(q, context)
  PROVE  /\ \A i \in DOMAIN new.todo : new.todo[i].units > 0
         /\ \E f : Continues(q, context, b, new, f)
         /\ OwnSeq(q, new.grants)
         /\ Distinct(Settled(q, new).grants) /\ OwnSeq(q, Settled(q, new).grants)
         /\ \A s : FromRecord(s, context.grants) => FromRecord(s, Settled(q, new).grants)
<1>1. PICK group \in Group : group = Requests[q].usage[context.done + 1].group
  <2>1. context.done + 1 \in 1..Len(Requests[q].usage)
    <3>1. context.done \in Nat /\ Len(Requests[q].usage) \in Nat
      BY RequestFact DEF Context
    <3> QED BY <3>1
  <2> QED BY <2>1, RequestFact
<1>2. PICK m \in Grants : m = context.grants /\ Distinct(m) /\ OwnSeq(q, m)
  BY DEF GrantsOf
<1>3. PICK settled : settled = Settled(q, new).grants
  OBVIOUS
<1>4. PICK valid, kept : /\ new.grants = [m EXCEPT ![group] = valid]
                         /\ settled = [m EXCEPT ![group] = kept]
  <2>1. PICK at : PlanRun(q, context, at)
    BY PlanRunFact
  <2>2. Planned(q, context, at, new)
    BY <2>1, PlanPut
  <2>3. PICK usage : usage = Requests[q].usage[context.done + 1]
    OBVIOUS
  <2>4. PICK valid, kept : /\ valid = ValidGrants(context, group)
                           /\ kept = at[Len(usage.used)].grants
    OBVIOUS
  <2>5. /\ new.grants = [context.grants EXCEPT ![group] = valid]
        /\ settled = [context.grants EXCEPT ![group] = kept]
    BY <1>1, <1>3, <2>2, <2>3, <2>4 DEF Planned
  <2>6. new.grants = [m EXCEPT ![group] = valid] /\ settled = [m EXCEPT ![group] = kept]
    BY ONLY <1>2, <2>5
  <2> QED BY ONLY <2>6
<1>5. new.grants[group] = valid /\ settled[group] = kept
  BY <1>2, <1>4 DEF Grants
<1>6. /\ \A i \in DOMAIN new.todo : new.todo[i].units > 0
      /\ \E f : Continues(q, context, b, new, f)
      /\ group \in Free \/ LeftOf(m[group], valid)
      /\ group \in Free \/ LeftOf(m[group], kept)
  <2>1. CASE group \in Free
    <3>1. new.todo = <<>> /\ \E f : Continues(q, context, b, new, f)
      BY <1>1, <2>1, FreeContinues
    <3> QED BY <2>1, <3>1
  <2>2. CASE group \notin Free
    <3>1. /\ q \in Request /\ context \in Context /\ context.done < Len(Requests[q].usage)
          /\ context.grants \in GrantsOf(Ref) /\ Distinct(context.grants)
          /\ b \in [Ref -> Left] /\ Suffices(q, context.grants, context.at, context.done, b)
          /\ group \in Group \ Free /\ group = Requests[q].usage[context.done + 1].group
          /\ new = NextUsage(q, context)
      BY <1>1, <2>2
    <3>2. /\ \A i \in DOMAIN new.todo : new.todo[i].units > 0
          /\ \E f : Continues(q, context, b, new, f)
          /\ LeftOf(context.grants[group], new.grants[group])
          /\ LeftOf(context.grants[group], Settled(q, new).grants[group])
      BY ONLY <3>1, PaidContinues
    <3> QED BY <1>2, <1>3, <1>5, <3>2
  <2> QED BY <2>1, <2>2
<1>7. OwnSeq(q, new.grants)
  <2>1. PICK given : given = new.grants
    OBVIOUS
  <2>2. /\ q \in Request /\ m \in Grants /\ Distinct(m) /\ OwnSeq(q, m) /\ group \in Group
        /\ (group \in Free \/ LeftOf(m[group], valid))
        /\ given = [m EXCEPT ![group] = valid]
    BY <1>2, <1>4, <1>6, <2>1
  <2>3. OwnSeq(q, given)
    BY ONLY <2>2, KeptGrants
  <2> QED BY <2>1, <2>3
<1>8. /\ Distinct(settled) /\ OwnSeq(q, settled)
      /\ \A s : FromRecord(s, m) => FromRecord(s, settled)
  <2>1. /\ q \in Request /\ m \in Grants /\ Distinct(m) /\ OwnSeq(q, m) /\ group \in Group
        /\ (group \in Free \/ LeftOf(m[group], kept))
        /\ settled = [m EXCEPT ![group] = kept]
    BY <1>2, <1>4, <1>6
  <2> QED BY ONLY <2>1, KeptGrants
<1> QED BY <1>2, <1>3, <1>6, <1>7, <1>8

\* Accounting goes on to the next usage.
LEMMA NextAccounting ==
  ASSUME SessionInv, FitInv, NEW q \in Request, pc[q] = "account", ~Requests[q].resent,
         NEW b \in Context, Carries(q, "account", b), Accounting(q, b),
         b.todo = <<>>, b.fits, b.done < Len(Requests[q].usage),
         NEW c, c = NextUsage(q, Settled(q, b))
  PROVE  Accounting(q, c) /\ OwnSeq(q, c.grants)
<1>1. PICK M \in SUBSET Ref : M = MayHold(q)
  BY MineHeld
<1>2. PICK d \in Context :
        /\ d = Settled(q, b) /\ d.at = b.at /\ d.done = b.done /\ d.grants \in GrantsOf(M)
  BY <1>1, SettledFact DEF Carries
<1>3. d.grants \in GrantsOf(Ref)
  BY <1>2, MoreIds
<1>4. PICK s \in Session : s = Requests[q].session
  BY RequestFact
<1>5. /\ Distinct(d.grants) /\ OwnSeq(q, d.grants)
      /\ \E f \in [0..0 -> [Ref -> Left]] :
           /\ \A r \in MayHold(q) : f[0][r] = book[r]
           /\ Suffices(q, d.grants, d.at, d.done, f[0])
           /\ Kind(q) \in Reporting /\ records[s].there =>
                /\ records[s].seq < Requests[q].seq
                /\ FromRecord(s, d.grants)
                /\ \A k \in DOMAIN f : Agrees(s, f[k], AheadOf(q, d.done))
  <2>1. Len(b.todo) = 0
    OBVIOUS
  <2> QED BY <1>2, <1>4, <2>1 DEF Accounting
<1>6. PICK x \in [Ref -> Left] :
        /\ \A r \in MayHold(q) : x[r] = book[r]
        /\ Suffices(q, d.grants, d.at, d.done, x)
        /\ Kind(q) \in Reporting /\ records[s].there =>
             /\ records[s].seq < Requests[q].seq
             /\ FromRecord(s, d.grants)
             /\ Agrees(s, x, AheadOf(q, d.done))
  <2>1. 0 \in 0..0
    OBVIOUS
  <2> QED BY <1>5, <2>1
<1>7. /\ \A i \in DOMAIN c.todo : c.todo[i].units > 0
      /\ \E f : Continues(q, d, x, c, f)
      /\ OwnSeq(q, c.grants)
      /\ Distinct(Settled(q, c).grants) /\ OwnSeq(q, Settled(q, c).grants)
      /\ \A y : FromRecord(y, d.grants) => FromRecord(y, Settled(q, c).grants)
  <2>1. /\ q \in Request /\ d \in Context /\ d.done < Len(Requests[q].usage)
        /\ d.grants \in GrantsOf(Ref) /\ Distinct(d.grants) /\ OwnSeq(q, d.grants)
        /\ x \in [Ref -> Left] /\ Suffices(q, d.grants, d.at, d.done, x)
        /\ c = NextUsage(q, d)
    BY <1>2, <1>3, <1>5, <1>6
  <2> QED BY ONLY <2>1, UsageContinues
<1>8. c.at = d.at /\ c.done = d.done + 1
  BY <1>2, UsageFact
<1>9. PICK f : Continues(q, d, x, c, f)
  BY <1>7
<1>10. /\ Course(f, c.todo, c.at) /\ f \in [0..Len(c.todo) -> [Ref -> Left]] /\ f[0] = x
       /\ c.fits => Suffices(q, Settled(q, c).grants, c.at, c.done, f[Len(c.todo)])
  BY <1>8, <1>9 DEF Continues, Course
<1>11. ASSUME Kind(q) \in Reporting, records[s].there
       PROVE  /\ records[s].seq < Requests[q].seq
              /\ FromRecord(s, Settled(q, c).grants)
              /\ \A k \in DOMAIN f : Agrees(s, f[k], AheadOf(q, c.done))
  <2>1. /\ q \in Since(s, records[s].seq)
        /\ records[s].grants \in GrantsOf(Ref) /\ Distinct(records[s].grants)
    BY <1>4, <1>6, <1>11, RecordAccounted
  <2>2. FromRecord(s, d.grants) /\ Agrees(s, x, AheadOf(q, d.done))
    BY <1>6, <1>11
  <2>3. \A k \in 0..Len(c.todo) : Agrees(s, f[k], AheadOf(q, d.done + 1))
    BY <1>9, <2>1, <2>2 DEF Continues
  <2> QED BY <1>6, <1>7, <1>8, <1>10, <1>11, <2>2, <2>3
<1> QED BY <1>4, <1>6, <1>7, <1>10, <1>11 DEF Accounting

\* A handler goes on to the next usage.
LEMMA AccountUsageFit ==
  ASSUME SessionInv, SessionInv', FitInv, InSequence, NEW q \in Request, AccountUsage(q)
  PROVE  FitInv'
<1>1. ~Requests[q].resent /\ Serving(q) /\ pc[q] = "account"
  BY Sent DEF AccountUsage, Active, Steps
<1>2. PICK b \in Context : b = ctx[q] /\ Carries(q, "account", b)
  BY <1>1, HandlerFact
<1>3. Accounting(q, b)
  BY <1>1, <1>2 DEF FitInv, HandlerFits, Fits
<1>4. PICK c : c = NextUsage(q, Settled(q, b))
  OBVIOUS
<1>5. /\ b.todo = <<>> /\ b.fits /\ b.done < Len(Requests[q].usage)
      /\ Put(q, c) /\ UNCHANGED <<book, drawn, records, now, pc>>
  BY <1>2, <1>4 DEF AccountUsage, credit, store, world
<1>6. Goto(q, "account")
  BY <1>1, <1>5 DEF Goto, SessionInv, SessionTypeOK
<1>7. Accounting(q, c) /\ OwnSeq(q, c.grants)
  BY <1>1, <1>2, <1>3, <1>4, <1>5, NextAccounting
<1>8. Fits(q, "account", c)
  BY <1>3, <1>7 DEF Fits
<1> QED BY <1>1, <1>5, <1>6, <1>8, FitMove

\* A report that arrives at a record on which nobody accounts is covered by the
\* grants of the record that are still valid.
LEMMA ReportCovered ==
  ASSUME SessionInv, FitInv, ReportsWithinGrants, NEW q \in Request, pc[q] = "load",
         Kind(q) \in Reporting, NEW s, s = Requests[q].session, NotAccounting(s),
         NEW row, row = records[s], row.there, row.grants \in GrantsOf(Ref)
  PROVE  Suffices(q, row.grants, ctx[q].at, 0, book)
<1>1. Agrees(s, book, NoneAhead)
  BY RequestFact DEF FitInv, RecordFits
<1>2. ASSUME NEW group \in Group \ Free, NEW i \in DOMAIN row.grants[group],
             row.grants[group][i].until > ctx[q].at
      PROVE  LET grant == row.grants[group][i]
             IN  /\ book[grant.ref].units >= Least(grant.units, Ahead(q, group, 0))
                 /\ book[grant.ref].units > 0 => book[grant.ref].until = grant.until
  <2> PICK grant : grant = row.grants[group][i]
    OBVIOUS
  <2>1. grant.ref \in Ref /\ grant.units \in Nat
    BY <1>2, GrantAt
  <2>2. PICK left \in Left : left = book[grant.ref]
    BY <2>1 DEF FitInv
  <2>3. PICK P : P = Since(s, row.seq)
    OBVIOUS
  <2>4. PICK units \in Nat, reports \in Nat, spent \in Nat :
          /\ units = grant.units
          /\ reports = Reports(q, group) /\ reports = Ahead(q, group, 0)
          /\ spent = SpentBy(P, group)
    <3>1. Reports(q, group) \in Nat /\ Ahead(q, group, 0) = Reports(q, group)
      BY <1>2, AheadFact
    <3>2. SpentBy(P, group) \in Nat
      BY <1>2, SpentFact
    <3> QED BY <2>1, <3>1, <3>2
  <2>5. PICK given \in BOOLEAN : given = (\E p \in P : GivesBack(p, group))
    OBVIOUS
  <2>6. /\ left.units > 0 => left.until = grant.until
        /\ given \/ left.units + spent >= units + 0
    BY <1>1, <1>2, <2>2, <2>3, <2>4, <2>5 DEF Agrees, Spent, NoneAhead
  <2>7. reports > 0 /\ spent > 0 => spent + reports <= units /\ ~given
    BY <1>2, <2>3, <2>4, <2>5, RequestFact DEF ReportsWithinGrants, Row, Spent
  <2>8. given => spent > 0
    <3>1. ASSUME NEW p \in P, GivesBack(p, group) PROVE spent > 0
      <4>1. p \in Request
        BY <2>3, <3>1 DEF Since
      <4>2. PICK more \in Nat : more = Reports(p, group) /\ more > 0
        BY <1>2, <3>1, <4>1, AheadFact, GivesBackFact
      <4>3. more <= spent
        BY <1>2, <2>4, <3>1, <4>1, <4>2, SpentFact
      <4> QED BY <4>2, <4>3
    <3> QED BY <2>5, <3>1
  <2>9. left.units \in Nat
    BY DEF Left
  <2>10. left.units >= Least(units, reports)
    BY <2>6, <2>7, <2>8, <2>9 DEF Least
  <2> QED BY <2>2, <2>4, <2>6, <2>10
<1> QED BY <1>2 DEF Suffices

\* When the handler of q starts to account, its report counts as spent.
LEMMA ReportCounted ==
  ASSUME FitInv, NEW q \in Request, pc[q] = "load", pc'[q] = "account",
         \A p \in Request \ {q} : pc'[p] = pc[p],
         Kind(q) \in Reporting, ~Requests[q].resent, NEW s, s = Requests[q].session,
         NEW row, row = records[s], row = records'[s], row.seq < Requests[q].seq,
         row.grants \in GrantsOf(Ref),
         NEW b, b \in [Ref -> Left], Agrees(s, b, NoneAhead)
  PROVE  Agrees(s, b, AheadOf(q, 0))'
<1>1. PICK P : P = Since(s, row.seq)
  OBVIOUS
<1>2. P \union {q} = Since(s, row.seq)' /\ q \notin P
  BY <1>1 DEF Since, Kind
<1>3. ASSUME NEW group \in Group \ Free, NEW i \in DOMAIN row.grants[group]
      PROVE  LET grant == row.grants[group][i]
             IN  /\ b[grant.ref].units > 0 => b[grant.ref].until = grant.until
                 /\ \/ \E p \in P \union {q} : GivesBack(p, group)
                    \/ b[grant.ref].units + SpentBy(P \union {q}, group)
                         >= grant.units + Ahead(q, group, 0)
  <2> PICK grant : grant = row.grants[group][i]
    OBVIOUS
  <2>1. grant.ref \in Ref /\ grant.units \in Nat
    BY <1>3, GrantAt
  <2>2. PICK left \in Nat, units \in Nat, reports \in Nat, spent \in Nat :
          /\ left = b[grant.ref].units /\ units = grant.units
          /\ reports = Reports(q, group) /\ reports = Ahead(q, group, 0)
          /\ spent = SpentBy(P, group)
    <3>1. Reports(q, group) \in Nat /\ Ahead(q, group, 0) = Reports(q, group)
      BY <1>3, AheadFact
    <3>2. SpentBy(P, group) \in Nat
      BY <1>3, SpentFact
    <3>3. b[grant.ref].units \in Nat
      BY <2>1 DEF Left
    <3> QED BY <2>1, <3>1, <3>2, <3>3
  <2>3. SpentBy(P \union {q}, group) = spent + reports
    <3>1. SpentBy(P \union {q}, group) = SpentBy(P, group) + Reports(q, group)
      BY <1>2, <1>3, SpentFact
    <3> QED BY <2>2, <3>1
  <2>4. /\ b[grant.ref].units > 0 => b[grant.ref].until = grant.until
        /\ \/ \E p \in P : GivesBack(p, group)
           \/ left + spent >= units + 0
    <3>1. /\ b[grant.ref].units > 0 => b[grant.ref].until = grant.until
          /\ \/ \E p \in P : GivesBack(p, group)
             \/ b[grant.ref].units + SpentBy(P, group) >= grant.units + NoneAhead[group]
      <4>1. PICK none : none = NoneAhead
        OBVIOUS
      <4>2. /\ group \in Group \ Free /\ i \in DOMAIN row.grants[group]
            /\ grant = row.grants[group][i] /\ row = records[s] /\ Agrees(s, b, none)
        BY <1>3, <4>1
      <4>3. /\ b[grant.ref].units > 0 => b[grant.ref].until = grant.until
            /\ \/ \E p \in Since(s, row.seq) : GivesBack(p, group)
               \/ b[grant.ref].units + Spent(s, row.seq, group) >= grant.units + none[group]
        BY ONLY <4>2 DEF Agrees
      <4> QED BY <1>1, <4>1, <4>3 DEF Spent
    <3>2. NoneAhead[group] = 0
      BY <1>3 DEF NoneAhead
    <3> QED BY <2>2, <3>1, <3>2
  <2>5. left + spent >= units + 0 => left + (spent + reports) >= units + reports
    OBVIOUS
  <2> QED BY <2>2, <2>3, <2>4, <2>5
<1>4. \A group \in Group : AheadOf(q, 0)[group] = Ahead(q, group, 0)
  BY DEF AheadOf
<1>5. \A group : Spent(s, row.seq, group)' = SpentBy(P \union {q}, group)
  BY <1>2 DEF Spent
<1>6. PICK ahead : ahead = AheadOf(q, 0)
  OBVIOUS
<1>7. \A group \in Group \ Free : \A i \in DOMAIN row.grants[group] :
        LET grant == row.grants[group][i]
        IN  /\ b[grant.ref].units > 0 => b[grant.ref].until = grant.until
            /\ \/ \E p \in Since(s, row.seq)' : GivesBack(p, group)
               \/ b[grant.ref].units + Spent(s, row.seq, group)' >= grant.units + ahead[group]
  BY <1>2, <1>3, <1>4, <1>5, <1>6
<1>8. row = records'[s]
  OBVIOUS
<1>9. Agrees(s, b, ahead)'
  BY ONLY <1>7, <1>8 DEF Agrees
<1> QED BY <1>6, <1>9

\* A report is accepted on the record it goes on from.
LEMMA LoadRecordFit ==
  ASSUME SessionInv, SessionInv', FitInv, ReportsWithinGrants, InSequence,
         NEW q \in Request, LoadRecord(q)
  PROVE  FitInv'
<1>1. ~Requests[q].resent /\ Serving(q) /\ pc[q] = "load" /\ Kind(q) \in Reporting
  BY Sent DEF LoadRecord, Active, Steps, Reporting
<1>2. UNCHANGED <<book, drawn, records, now>>
  BY DEF LoadRecord, credit, store, world
<1>3. CASE Goto(q, "failed") /\ UNCHANGED ctx
  <2>1. Put(q, ctx[q])
    BY <1>3 DEF Put, SessionInv, SessionTypeOK
  <2>2. Fits(q, "failed", ctx[q])
    BY FitsIdle DEF Active, Steps
  <2> QED BY <1>1, <1>2, <1>3, <2>1, <2>2, FitMove
<1>4. CASE /\ Row(q).there /\ Row(q).seq < Requests[q].seq /\ Goto(q, "account")
           /\ Put(q, [ctx[q] EXCEPT !.grants = Row(q).grants, !.groups = Row(q).groups])
  <2>1. PICK s \in Session : s = Requests[q].session
    BY RequestFact
  <2>2. PICK row : row = records[s] /\ row = records'[s] /\ row = Row(q)
    BY <1>2, <2>1 DEF Row
  <2>3. PICK b \in Context : b = ctx[q] /\ Carries(q, "load", b) /\ b.todo = <<>>
    BY <1>1, HandlerFact DEF FitInv, HandlerFits, Fits
  <2>4. PICK c : c = [b EXCEPT !.grants = row.grants, !.groups = row.groups]
    OBVIOUS
  <2>5. /\ c.grants = row.grants /\ c.todo = <<>> /\ c.at = b.at
        /\ c.done = 0 /\ b.done = 0
    BY <2>3, <2>4 DEF Context, Carries
  <2>6. /\ pc'[q] = "account" /\ ctx'[q] = c
        /\ \A p \in Request \ {q} : pc'[p] = pc[p] /\ ctx'[p] = ctx[p]
    BY <1>4, <2>2, <2>3, <2>4, GotoFact
  <2>7. row.there /\ row.seq < Requests[q].seq
    BY <1>4, <2>2
  <2>8. /\ Distinct(row.grants) /\ Numbered(row.grants, row.seq)
        /\ NotAccounting(s) => Agrees(s, book, NoneAhead)
        /\ row.grants \in GrantsOf(Ref)
    <3>1. RecordFits(s)
      BY DEF FitInv
    <3>2. PICK p \in Request : row.grants \in GrantsOf(Mine(p))
      BY <2>2, <2>7, <3>1 DEF RecordFits
    <3>3. Mine(p) \subseteq Ref
      BY DEF Mine
    <3> QED BY <2>2, <2>7, <3>1, <3>2, <3>3, MoreIds DEF RecordFits
  <2>9. NotAccounting(s)
    <3>1. ASSUME NEW p \in Request, Requests[p].session = s, pc[p] = "account" PROVE FALSE
      <4>1. p # q
        BY <1>1, <3>1
      <4> QED BY <1>1, <2>1, <3>1, <4>1, Serial DEF FitInv, Active, Steps
    <3> QED BY <3>1 DEF NotAccounting
  <2>10. book \in [Ref -> Left] /\ book' = book
    BY <1>2 DEF FitInv, SessionInv, SessionTypeOK
  <2>11. Suffices(q, row.grants, c.at, 0, book)
    BY <1>1, <2>1, <2>2, <2>3, <2>5, <2>7, <2>8, <2>9, ReportCovered
  <2>12. PICK x \in [Ref -> Left] : x = book /\ x = book'
    BY <2>10
  <2>13. Agrees(s, x, AheadOf(q, 0))'
    BY <1>1, <2>1, <2>2, <2>6, <2>7, <2>8, <2>9, <2>12, ReportCounted
  <2>14. OwnSeq(q, row.grants)'
    <3>1. row.seq # Requests[q].seq
      <4>1. row.seq \in Nat
        BY <2>2 DEF SessionInv, SessionTypeOK
      <4> QED BY <2>7, <4>1, RequestFact
    <3> QED BY <2>8, <3>1 DEF OwnSeq, Numbered
  <2>15. Accounting(q, c)'
    <3>1. Settled(q, c).grants = row.grants
      BY <2>5 DEF Settled
    <3>2. PICK f : f = [k \in 0..0 |-> x]
      OBVIOUS
    <3>3. /\ Course(f, <<>>, c.at) /\ f[0] = x /\ DOMAIN f = {0}
          /\ f \in [0..0 -> [Ref -> Left]]
      BY <2>12, <3>2 DEF Course
    <3>4. FromRecord(s, row.grants)'
      BY <2>2 DEF FromRecord
    <3>5. Suffices(q, row.grants, c.at, 0, f[0])
      BY <2>11, <2>12, <3>3
    <3>6. \A r \in MayHold(q)' : f[0][r] = book'[r]
      BY <2>12, <3>3
    <3>7. \A k \in DOMAIN f : Agrees(s, f[k], AheadOf(q, 0))'
      BY <2>13, <3>3
    <3>8. Len(c.todo) = 0 /\ \A i \in DOMAIN c.todo : c.todo[i].units > 0
      BY <2>5
    <3> QED BY <2>1, <2>2, <2>5, <2>7, <2>8, <2>14, <3>1, <3>3, <3>4, <3>5, <3>6, <3>7, <3>8
        DEF Accounting
  <2>16. HandlerFits(q)'
    <3>1. Fits(q, "account", c)'
      BY <1>1, <2>5, <2>14, <2>15 DEF Fits, Reporting
    <3> QED BY <2>6, <3>1 DEF HandlerFits
  <2>17. Local(q)
    BY <1>2, <2>6 DEF Local
  <2>18. Progress /\ SessionTypeOK'
    BY <1>2, <2>6, NumberFact DEF Progress, SessionInv, SessionTypeOK
  <2>19. \A r \in Ref : book'[r] \in Left
    BY <2>10
  <2>20. RecordFits(s)'
    <3>1. /\ SessionInv /\ SessionTypeOK' /\ Progress /\ FitInv /\ InSequence
          /\ q \in Request /\ ~Requests[q].resent /\ Serving(q) /\ Local(q)
          /\ s \in Session /\ s = Requests[q].session /\ records'[s] = records[s]
          /\ (pc[q] = "trace" => pc'[q] \in {"trace", "answered", "crashed"})
          /\ (pc[q] \notin {"idle", "load"} => pc'[q] \notin {"idle", "load"})
          /\ (\A r \in Ref : book'[r] \in Left)
          /\ Kind(q) \in Reporting /\ pc'[q] = "account"
      BY <1>1, <1>2, <2>1, <2>6, <2>17, <2>18, <2>19
    <3> QED BY ONLY <3>1, RecordKeeps
  <2> QED BY <1>1, <2>1, <2>16, <2>17, <2>19, <2>20, FitStep
<1> QED BY <1>3, <1>4 DEF LoadRecord

-----------------------------------------------------------------------------
\* Initially nobody holds or uses anything.
LEMMA InitFit == Init => FitInv
<1> SUFFICES ASSUME Init PROVE FitInv
  OBVIOUS
<1>1. \A r \in Ref : book[r] \in Left
  BY DEF Init, Left, NoGrant
<1>2. \A q \in Request : pc[q] = "idle"
  BY DEF Init
<1>3. Sequential
  BY <1>2 DEF Sequential
<1>4. ASSUME NEW q \in Request PROVE HandlerFits(q)
  <2>1. pc[q] \notin Active
    BY <1>2 DEF Active, Steps
  <2> QED BY <2>1, FitsIdle DEF HandlerFits
<1>5. \A s \in Session : RecordFits(s)
  BY DEF Init, RecordFits, NoRecord
<1> QED BY <1>1, <1>3, <1>4, <1>5 DEF FitInv

\* Every step keeps the invariant, while the reports are within the grants.
LEMMA NextFit ==
  ASSUME InSequence, "trace" \notin Failing, SessionInv, FitInv, ReportsWithinGrants,
         [Next]_vars
  PROVE  FitInv'
<1>1. SessionInv'
  BY NextSessionInv
<1>2. CASE \E q \in Request : Serve(q)
  <2>1. PICK q \in Request : Serve(q)
    BY <1>2
  <2>2. CASE Begin(q) \/ Resend(q) \/ LoadNone(q) \/ LoadRecord(q)
    BY <1>1, <2>2, BeginFit, ResendFit, LoadNoneFit, LoadRecordFit
  <2>3. CASE AccountUsage(q) \/ DebitUsed(q) \/ AccountDone(q)
    BY <1>1, <2>3, AccountUsageFit, DebitUsedFit, AccountDoneFit
  <2>4. CASE RateUnit(q) \/ RateDone(q)
    BY <1>1, <2>4, RateUnitFit, RateDoneFit
  <2>5. CASE SaveRecord(q) \/ CreateTrace(q) \/ CleanUp(q)
    BY <1>1, <2>5, SaveRecordFit, CreateTraceFit, CleanUpFit
  <2> QED BY <2>1, <2>2, <2>3, <2>4, <2>5 DEF Serve
<1>3. CASE \E q \in Request : LookUpFails(q) \/ Fault(q) \/ ReleaseFails(q) \/ Crash(q)
  BY <1>1, <1>3, LookUpFailsFit, FaultFit, ReleaseFailsFit, CrashFit
<1>4. CASE CleanStaleSessions
  <2>1. UNCHANGED <<pc, ctx, drawn, book>>
    BY <1>4 DEF CleanStaleSessions, credit, handler
  <2>2. \A s \in Session : records'[s] = records[s] \/ ~records'[s].there
    BY <1>4 DEF CleanStaleSessions, NoRecord
  <2> QED BY <2>1, <2>2, OutsideFit
<1>5. CASE (\E c \in Counter : Provision(c)) \/ ExpireQuota \/ Tick \/ UNCHANGED vars
  <2>1. UNCHANGED <<pc, ctx, drawn, book, records>>
    BY <1>5 DEF Provision, ExpireQuota, Tick, vars, credit, store, handler, world
  <2> QED BY <2>1, OutsideFit
<1> QED BY <1>2, <1>3, <1>4, <1>5 DEF Next

\* The next debit of a handler is within what is left of its grant, which is
\* valid.
DebitsCovered ==
  \A q \in Request :
    (pc[q] = "account" /\ ctx[q].todo # <<>>) =>
      LET d == Head(ctx[q].todo)
      IN  book[d.ref].until > ctx[q].at /\ d.units <= book[d.ref].units

\* The debit that comes next is the first of those the book covers.
LEMMA FitDebits == ASSUME SessionInv, FitInv PROVE DebitsCovered
<1>1. ASSUME NEW q \in Request, pc[q] = "account", ctx[q].todo # <<>>,
             NEW d, d = Head(ctx[q].todo)
      PROVE  book[d.ref].until > ctx[q].at /\ d.units <= book[d.ref].units
  <2>1. PICK c \in Context : c = ctx[q] /\ Carries(q, "account", c) /\ c.at \in Nat
    BY <1>1, HandlerFact
  <2>2. Accounting(q, c)
    BY <1>1, <2>1 DEF FitInv, HandlerFits, Fits
  <2>3. PICK M \in SUBSET Ref : M = MayHold(q)
    BY MineHeld
  <2>4. PICK todo \in Seq(ChargeOf(M)) : todo = c.todo /\ todo # <<>> /\ d = Head(todo)
    BY <1>1, <2>1, <2>3 DEF Carries
  <2>5. PICK f : Course(f, todo, c.at) /\ \A r \in M : f[0][r] = book[r]
    BY <2>2, <2>3, <2>4 DEF Accounting
  <2>6. PICK rest, g : rest = Tail(todo) /\ g = Onward(f, Len(rest))
    OBVIOUS
  <2>7. Starts(M, f, todo, c.at, d, rest, g)
    BY <2>1, <2>4, <2>5, <2>6, CourseRest
  <2>8. d.ref \in M
    BY <2>7 DEF Starts, ChargeOf
  <2> QED BY <2>1, <2>5, <2>7, <2>8 DEF Starts
<1> QED BY <1>1 DEF DebitsCovered

-----------------------------------------------------------------------------
\* The manager's operators are the document's: the instance substitutes only
\* variables and bounds.  Operator by operator, from the helpers up.
LEMMA SameCalls ==
  /\ \A d, r, u, t : Manager!ReserveCall(d, r, u, t) = ReserveCall(d, r, u, t)
  /\ \A d, r, u, b, t : Manager!DebitCall(d, r, u, b, t) = DebitCall(d, r, u, b, t)
  /\ \A d, r, t : Manager!ReleaseCall(d, r, t) = ReleaseCall(d, r, t)
  /\ \A d, c, t : Manager!ProvisionCall(d, c, t) = ProvisionCall(d, c, t)
  /\ \A d, t : Manager!ExpireCall(d, t) = ExpireCall(d, t)
  /\ Manager!Counter = Counter /\ Manager!Ref = Ref
  /\ Manager!NoGrant = NoGrant
  /\ Manager!EmptyDocument = EmptyDocument /\ Manager!EmptyJournal = EmptyJournal
  /\ \A j, e : Manager!PostEarly(j, e) = PostEarly(j, e)
  /\ \A j, l : Manager!PostLate(j, l) = PostLate(j, l)
<1>1. /\ Manager!Counter = Counter /\ Manager!Ref = Ref
      /\ Manager!NoReservation = NoReservation
      /\ Manager!NoEntry = NoEntry
  BY DEF Manager!Counter, Counter, Manager!Ref, Ref, Manager!NoReservation, NoReservation,
         Manager!NoEntry, NoEntry
<1>2. /\ Manager!Unreserved = Unreserved /\ Manager!NoEntries = NoEntries
  BY <1>1 DEF Manager!Unreserved, Unreserved, Manager!NoEntries, NoEntries
<1>3. Manager!Absent = Absent
  BY <1>2 DEF Manager!Absent, Absent
<1>4. \A n, f, b : Manager!Loop(n, f, b) = Loop(n, f, b)
  BY DEF Manager!Loop, Loop
<1>5. \A f, n : Manager!Total(f, n) = Total(f, n)
  BY <1>4 DEF Manager!Total, Total
<1>6. /\ \A f : Manager!Tabulated(f) = Tabulated(f)
      /\ \A a, b : Manager!Least(a, b) = Least(a, b)
      /\ \A a, b : Manager!Greatest(a, b) = Greatest(a, b)
      /\ \A s : Manager!Live(s) = Live(s)
  BY DEF Manager!Tabulated, Tabulated, Manager!Least, Least, Manager!Greatest, Greatest, Manager!Live, Live
<1>7. \A s : Manager!Reserved(s) = Reserved(s)
  BY <1>1, <1>5 DEF Manager!Reserved, Reserved
<1>8. \A s : Manager!Available(s) = Available(s)
  BY <1>7 DEF Manager!Available, Available
<1>9. /\ \A r, u : Manager!Up(r, u) = Up(r, u)
      /\ \A r, u : Manager!Down(r, u) = Down(r, u)
      /\ \A r, u : Manager!Cost(r, u) = Cost(r, u)
  BY DEF Manager!Up, Up, Manager!Down, Down, Manager!Cost, Cost
<1>10. /\ \A d, r, m : Manager!Matching(d, r, m) = Matching(d, r, m)
       /\ \A d, r, m : Manager!Holding(d, r, m) = Holding(d, r, m)
  BY <1>1, <1>6 DEF Manager!Matching, Matching, Manager!Holding, Holding
<1>11. /\ \A s, r, a, t : Manager!Hold(s, r, a, t) = Hold(s, r, a, t)
       /\ \A s, r, a, b : Manager!Spend(s, r, a, b) = Spend(s, r, a, b)
       /\ \A s, t : Manager!Pruned(s, t) = Pruned(s, t)
  BY <1>1, <1>6 DEF Manager!Hold, Hold, Manager!Spend, Spend, Manager!Pruned, Pruned
<1>12. /\ \A d, r, c, w : Manager!ServiceTake(d, r, c, w) = ServiceTake(d, r, c, w)
       /\ \A d, r, c, w : Manager!ValueTake(d, r, c, w) = ValueTake(d, r, c, w)
       /\ \A d, r, c, w : Manager!ServiceAccount(d, r, c, w) = ServiceAccount(d, r, c, w)
       /\ \A d, r, c, w : Manager!ValueAccount(d, r, c, w) = ValueAccount(d, r, c, w)
  BY <1>6, <1>8, <1>9, <1>10 
     DEF Manager!ServiceTake, ServiceTake, Manager!ValueTake, ValueTake,
         Manager!ServiceAccount, ServiceAccount, Manager!ValueAccount, ValueAccount
<1>13. \A d, r, u : Manager!ServiceGranted(d, r, u) = ServiceGranted(d, r, u)
  BY <1>1, <1>4, <1>12 DEF Manager!ServiceGranted, ServiceGranted
<1>14. \A d, r : Manager!Affordable(d, r) = Affordable(d, r)
  BY <1>1, <1>5, <1>8, <1>10 DEF Manager!Affordable, Affordable
<1>15. \A d, r, u : Manager!ValueWanted(d, r, u) = ValueWanted(d, r, u)
  BY <1>1, <1>4, <1>9, <1>12 DEF Manager!ValueWanted, ValueWanted
<1>16. \A d, r, u : Manager!ServiceUnspent(d, r, u) = ServiceUnspent(d, r, u)
  BY <1>1, <1>4, <1>9, <1>10, <1>12 DEF Manager!ServiceUnspent, ServiceUnspent
<1>17. \A d, r, u : Manager!ValueUnspent(d, r, u) = ValueUnspent(d, r, u)
  BY <1>1, <1>4, <1>9, <1>12 DEF Manager!ValueUnspent, ValueUnspent
<1>18. \A d, r, u, t : Manager!ReserveService(d, r, u, t) = ReserveService(d, r, u, t)
  BY <1>1, <1>11, <1>12, <1>13 DEF Manager!ReserveService, ReserveService
<1>19. \A d, r, u, t : Manager!ReserveMonetary(d, r, u, t) = ReserveMonetary(d, r, u, t)
  BY <1>1, <1>6, <1>11, <1>12, <1>14, <1>15 DEF Manager!ReserveMonetary, ReserveMonetary
<1>20. \A d, r, u, t : Manager!ReserveQuota(d, r, u, t) = ReserveQuota(d, r, u, t)
  BY <1>18, <1>19 DEF Manager!ReserveQuota, ReserveQuota
<1>21. \A d, r, u, b : Manager!DebitService(d, r, u, b) = DebitService(d, r, u, b)
  <2> SUFFICES ASSUME NEW d, NEW r, NEW u, NEW b
               PROVE  Manager!DebitService(d, r, u, b) = DebitService(d, r, u, b)
    OBVIOUS
  <2> DEFINE left == ServiceUnspent(d, r, u)
             mine == [c \in Counter |-> ServiceAccount(d, r, c, left[c - 1])]
             hers == [c \in Manager!Counter |-> Manager!ServiceAccount(d, r, c, left[c - 1])]
             doc  == [c \in Counter |-> IF c \in Holding(d, r, FALSE)
                                          THEN Spend(d[c], r, mine[c], b) ELSE d[c]]
             hdoc == [c \in Manager!Counter |-> IF c \in Manager!Holding(d, r, FALSE)
                                          THEN Manager!Spend(d[c], r, hers[c], b) ELSE d[c]]
  <2>1. hers = mine
    BY <1>1, <1>12
  <2>2. hdoc = doc
    <3> HIDE DEF hers, mine
    <3> QED BY <1>1, <1>10, <1>11, <2>1
  <2>3. DebitService(d, r, u, b) = [doc |-> doc, spent |-> mine, left |-> left[NumCounters]]
    BY DEF DebitService
  <2>4. Manager!DebitService(d, r, u, b) = [doc |-> hdoc, spent |-> hers, left |-> left[NumCounters]]
    BY <1>16 DEF Manager!DebitService
  <2> HIDE DEF hers, mine, doc, hdoc
  <2> QED BY <2>1, <2>2, <2>3, <2>4
<1>22. \A d, r, u, b : Manager!DebitMonetary(d, r, u, b) = DebitMonetary(d, r, u, b)
  <2> SUFFICES ASSUME NEW d, NEW r, NEW u, NEW b
               PROVE  Manager!DebitMonetary(d, r, u, b) = DebitMonetary(d, r, u, b)
    OBVIOUS
  <2> DEFINE left == ValueUnspent(d, r, u)
             mine == [c \in Counter |-> ValueAccount(d, r, c, left[c - 1])]
             hers == [c \in Manager!Counter |-> Manager!ValueAccount(d, r, c, left[c - 1])]
             doc  == [c \in Counter |-> IF c \in Holding(d, r, TRUE)
                                          THEN Spend(d[c], r, mine[c], b \/ left[c - 1] <= 0) ELSE d[c]]
             hdoc == [c \in Manager!Counter |-> IF c \in Manager!Holding(d, r, TRUE)
                                          THEN Manager!Spend(d[c], r, hers[c], b \/ left[c - 1] <= 0) ELSE d[c]]
             rest == IF Holding(d, r, TRUE) = {}
                       THEN u
                       ELSE (left[NumCounters] * Tariff[r].den) \div (Tariff[r].num * Tariff[r].price)
  <2>1. hers = mine
    BY <1>1, <1>12
  <2>2. hdoc = doc
    <3> HIDE DEF hers, mine
    <3> QED BY <1>1, <1>10, <1>11, <2>1
  <2>3. DebitMonetary(d, r, u, b) = [doc |-> doc, spent |-> mine, left |-> rest]
    BY DEF DebitMonetary
  <2>4. Manager!DebitMonetary(d, r, u, b) = [doc |-> hdoc, spent |-> hers, left |-> rest]
    BY <1>10, <1>17 DEF Manager!DebitMonetary
  <2> HIDE DEF hers, mine, doc, hdoc, rest
  <2> QED BY <2>1, <2>2, <2>3, <2>4
<1>23. \A d, r, u, b : Manager!Debit(d, r, u, b) = Debit(d, r, u, b)
  BY <1>1, <1>21, <1>22 DEF Manager!Debit, Debit
<1>24. \A d, r : Manager!Release(d, r) = Release(d, r)
  BY <1>1 DEF Manager!Release, Release
<1>25. /\ \A s, l, v : Manager!Clawback(s, l, v) = Clawback(s, l, v)
       /\ \A d : Manager!InDebt(d) = InDebt(d)
  <2>1. \A v, p : Manager!PercentOf(v, p) = PercentOf(v, p)
    BY DEF Manager!PercentOf, PercentOf
  <2> QED BY <1>1, <1>6, <2>1 DEF Manager!Clawback, Clawback, Manager!InDebt, InDebt
<1>26. \A d, c, v : Manager!Claw(d, c, v) = Claw(d, c, v)
  BY <1>25 DEF Manager!Claw, Claw
<1>27. \A d, v : Manager!LoanValue(d, v) = LoanValue(d, v)
  BY <1>1, <1>4, <1>25, <1>26 DEF Manager!LoanValue, LoanValue
<1>28. \A d : Manager!Size(d) = Size(d)
  BY <1>1, <1>5, <1>6 DEF Manager!Size, Size
<1>29. \A d, c : Manager!NewCounter(d, c) = NewCounter(d, c)
  BY <1>2, <1>28 DEF Manager!NewCounter, NewCounter
<1>30. \A d, c : Manager!AddCounter(d, c) = AddCounter(d, c)
  <2> SUFFICES ASSUME NEW d, NEW c PROVE Manager!AddCounter(d, c) = AddCounter(d, c)
    OBVIOUS
  <2> DEFINE repays == c \in Repays /\ ~LoanTerms[c].given
             left == LoanValue(d, Initial[c])
             mine == [e \in Counter |-> IF repays /\ e \in InDebt(d)
                                         THEN Claw(d, e, left[d[e].position - 1])
                                         ELSE [fee |-> 0, loan |-> 0]]
             hers == [e \in Manager!Counter |-> IF repays /\ e \in Manager!InDebt(d)
                                         THEN Manager!Claw(d, e, left[d[e].position - 1])
                                         ELSE [fee |-> 0, loan |-> 0]]
             doc == [e \in Counter |->
                      IF e = c THEN [NewCounter(d, c) EXCEPT
                                !.balance = IF repays THEN Greatest(left[NumCounters], 0) ELSE @]
                       ELSE [d[e] EXCEPT !.loan = @ - mine[e].loan, !.fee  = @ - mine[e].fee]]
             hdoc == [e \in Manager!Counter |->
                      IF e = c THEN [Manager!NewCounter(d, c) EXCEPT
                                !.balance = IF repays THEN Manager!Greatest(left[NumCounters], 0) ELSE @]
                       ELSE [d[e] EXCEPT !.loan = @ - hers[e].loan, !.fee  = @ - hers[e].fee]]
             repaid == IF repays THEN Initial[c] - left[NumCounters] ELSE 0
  <2>1. hers = mine
    BY <1>1, <1>25, <1>26
  <2>2. hdoc = doc
    <3> HIDE DEF hers, mine, left
    <3> QED BY <1>1, <1>6, <1>29, <2>1
  <2>3. AddCounter(d, c) = [doc |-> doc, repaid |-> repaid]
    BY DEF AddCounter
  <2>4. Manager!AddCounter(d, c) = [doc |-> hdoc, repaid |-> repaid]
    BY <1>27 DEF Manager!AddCounter
  <2> HIDE DEF hers, mine, doc, hdoc, repaid
  <2> QED BY <2>1, <2>2, <2>3, <2>4
<1>31. \A s : Manager!Held(s) = Held(s)
  BY <1>1 DEF Manager!Held, Held
<1>32. /\ \A c, s, t : Manager!Kept(c, s, t) = Kept(c, s, t)
       /\ \A c, s, t : Manager!WrittenOff(c, s, t) = WrittenOff(c, s, t)
  BY <1>6, <1>31 DEF Manager!Kept, Kept, Manager!WrittenOff, WrittenOff
<1>33. \A d, k, c : Manager!Place(d, k, c) = Place(d, k, c)
  BY <1>1, <1>5 DEF Manager!Place, Place
<1>34. \A d, t : Manager!Expire(d, t) = Expire(d, t)
  <2> SUFFICES ASSUME NEW d, NEW t PROVE Manager!Expire(d, t) = Expire(d, t)
    OBVIOUS
  <2> DEFINE pruned == Tabulated([c \in Counter |-> Pruned(d[c], t)])
             hpruned == Manager!Tabulated([c \in Manager!Counter |-> Manager!Pruned(d[c], t)])
             kept == {c \in Counter : Kept(c, pruned[c], t)}
             hkept == {c \in Manager!Counter : Manager!Kept(c, hpruned[c], t)}
             table == [c \in Counter |->
                   IF c \in kept
                     THEN [pruned[c] EXCEPT
                             !.position = Place(d, kept, c),
                             !.balance  = @ - WrittenOff(c, pruned[c], t)]
                     ELSE Absent]
             htable == [c \in Manager!Counter |->
                   IF c \in hkept
                     THEN [hpruned[c] EXCEPT
                             !.position = Manager!Place(d, hkept, c),
                             !.balance  = @ - Manager!WrittenOff(c, hpruned[c], t)]
                     ELSE Manager!Absent]
             off == [c \in Counter |-> WrittenOff(c, pruned[c], t)]
             hoff == [c \in Manager!Counter |-> Manager!WrittenOff(c, hpruned[c], t)]
  <2>1. hpruned = pruned
    BY <1>1, <1>6, <1>11
  <2>2. hkept = kept
    <3> HIDE DEF hpruned, pruned
    <3> QED BY <1>1, <1>32, <2>1
  <2>3. htable = table
    <3> HIDE DEF hpruned, pruned, kept, hkept
    <3> QED BY <1>1, <1>3, <1>32, <1>33, <2>1, <2>2
  <2>4. hoff = off
    <3> HIDE DEF hpruned, pruned
    <3> QED BY <1>1, <1>32, <2>1
  <2>5. Expire(d, t) = [doc |-> Tabulated(table), expired |-> off]
    BY DEF Expire
  <2>6. Manager!Expire(d, t) = [doc |-> Manager!Tabulated(htable), expired |-> hoff]
    BY DEF Manager!Expire
  <2> HIDE DEF table, htable, off, hoff
  <2> QED BY <1>6, <2>3, <2>4, <2>5, <2>6
<1>35. \A f, d, e, a, t : Manager!Call(f, d, e, a, t) = Call(f, d, e, a, t)
  BY <1>1, <1>6, <1>34 DEF Manager!Call, Call
<1>36. \A d, r, u, t : Manager!ReserveCall(d, r, u, t) = ReserveCall(d, r, u, t)
  BY <1>2, <1>20, <1>34, <1>35 DEF Manager!ReserveCall, ReserveCall
<1>37. \A d, r, u, b, t : Manager!DebitCall(d, r, u, b, t) = DebitCall(d, r, u, b, t)
  BY <1>1, <1>23, <1>34, <1>35 DEF Manager!DebitCall, DebitCall
<1>38. \A d, r, t : Manager!ReleaseCall(d, r, t) = ReleaseCall(d, r, t)
  BY <1>2, <1>24, <1>34, <1>35 DEF Manager!ReleaseCall, ReleaseCall
<1>39. \A d, c, t : Manager!ProvisionCall(d, c, t) = ProvisionCall(d, c, t)
  BY <1>1, <1>2, <1>6, <1>30, <1>34, <1>35 DEF Manager!ProvisionCall, ProvisionCall
<1>40. \A d, t : Manager!ExpireCall(d, t) = ExpireCall(d, t)
  BY <1>2, <1>34, <1>35 DEF Manager!ExpireCall, ExpireCall
<1>41. /\ Manager!EmptyDocument = EmptyDocument /\ Manager!EmptyJournal = EmptyJournal
  BY <1>1, <1>3 DEF Manager!EmptyDocument, EmptyDocument, Manager!EmptyJournal, EmptyJournal
<1>42. /\ \A j, e : Manager!PostEarly(j, e) = PostEarly(j, e)
       /\ \A j, l : Manager!PostLate(j, l) = PostLate(j, l)
       BY <1>1 DEF Manager!PostEarly, PostEarly, Manager!PostLate, PostLate
<1>43. Manager!NoGrant = NoGrant
  BY DEF Manager!NoGrant, NoGrant
<1> QED BY <1>1, <1>43, <1>36, <1>37, <1>38, <1>39, <1>40, <1>41, <1>42

-----------------------------------------------------------------------------
\* A debit takes no more than the bound on one use.
WithinBound(todo) == \A i \in DOMAIN todo : todo[i].units <= MaxUnits

SmallCharges == \A q \in Request : WithinBound(ctx[q].todo)

\* A container that is within the bound adds debits that are.
LEMMA ContainerSmall ==
  ASSUME NEW group \in Group, NEW plan \in Plan, NEW container \in UsedUnit,
         NormaliseUnits(group, container.units) <= MaxUnits, WithinBound(plan.todo)
  PROVE  WithinBound(ChargeContainer(group, plan, container).todo)
<1>1. PICK grants \in Seq(Grant), todo \in Seq(Charge), fits \in BOOLEAN :
        plan = [grants |-> grants, todo |-> todo, fits |-> fits]
  BY DEF Plan
<1>2. PICK taken \in Nat : taken = Taken(group, container.units)
  BY NormaliseNat DEF UsedUnit
<1>3. group \notin Free => taken <= MaxUnits
  BY <1>2 DEF Taken
<1>4. PICK bad : bad = {i \in DOMAIN grants : grants[i].units < taken}
  OBVIOUS
<1>5. PICK least : least = CHOOSE i \in bad : \A j \in bad : i <= j
  OBVIOUS
<1>6. PICK until : until = IF bad = {} THEN Len(grants) ELSE least - 1
  OBVIOUS
<1>7. until \in 0..Len(grants)
  <2>1. bad \subseteq Nat /\ bad \subseteq 1..Len(grants) /\ Len(grants) \in Nat
    BY <1>4
  <2>2. CASE bad # {}
    <3>1. PICK m \in bad : \A y \in bad : m <= y
      BY <2>1, <2>2, LeastOf
    <3>2. least \in bad
      BY <1>5, <3>1
    <3>3. least \in 1..Len(grants)
      BY <2>1, <3>2
    <3> QED BY <1>6, <2>1, <2>2, <3>3
  <2>3. CASE bad = {}
    BY <1>6, <2>1, <2>3
  <2> QED BY <2>2, <2>3
<1>8. ChargeContainer(group, plan, container).todo =
        IF ~fits \/ container.units = 0
          THEN todo ELSE todo \o Charges(group, grants, until, container, taken)
  BY <1>1, <1>2, <1>4, <1>5, <1>6 DEF ChargeContainer
<1>9. PICK more \in Seq(Charge) : more = Charges(group, grants, until, container, taken)
  <2>1. /\ GrantOf(Ref \union {NoRef}) = Grant /\ ChargeOf(Ref \union {NoRef}) = Charge
    BY DEF GrantOf, Grant, ChargeOf, Charge
  <2> QED BY <1>7, <2>1, ChargesFact
<1>10. WithinBound(more)
  <2>1. CASE group \in Free
    BY <1>9, <2>1 DEF Charges, WithinBound
  <2>2. CASE group \notin Free
    <3>1. more = [i \in 1..until |->
                    [ref |-> grants[i].ref, reclaim |-> container.reclaim, units |-> taken]]
      BY <1>9, <2>2 DEF Charges
    <3> QED BY <1>3, <2>2, <3>1 DEF WithinBound
  <2> QED BY <2>1, <2>2
<1>11. WithinBound(todo)
  BY <1>1
<1>12. WithinBound(todo \o more)
  <2>1. ASSUME NEW i \in 1..(Len(todo) + Len(more)) PROVE (todo \o more)[i].units <= MaxUnits
    <3>1. CASE i <= Len(todo)
      BY <1>11, <3>1 DEF WithinBound
    <3>2. CASE i > Len(todo)
      <4>1. i - Len(todo) \in DOMAIN more /\ (todo \o more)[i] = more[i - Len(todo)]
        BY <3>2
      <4> QED BY <1>10, <4>1 DEF WithinBound
    <3> QED BY <3>1, <3>2
  <2>2. DOMAIN (todo \o more) = 1..(Len(todo) + Len(more))
    OBVIOUS
  <2> QED BY <2>1, <2>2 DEF WithinBound
<1> QED BY <1>8, <1>9, <1>11, <1>12

\* So a usage is charged in debits within the bound.
LEMMA UsageSmall ==
  ASSUME NEW q \in Request, NEW context \in Context, context.done < Len(Requests[q].usage)
  PROVE  WithinBound(NextUsage(q, context).todo)
<1>1. PICK at : PlanRun(q, context, at) /\ Planned(q, context, at, NextUsage(q, context))
  BY PlanRunFact, PlanPut
<1>2. PICK usage, n : usage = Requests[q].usage[context.done + 1] /\ n = Len(usage.used)
  OBVIOUS
<1>3. /\ context.done + 1 \in DOMAIN Requests[q].usage
      /\ usage.group \in Group /\ usage.used \in Seq(UsedUnit)
  <2>1. context.done + 1 \in 1..Len(Requests[q].usage)
    BY RequestFact DEF Context
  <2>2. context.done + 1 \in DOMAIN Requests[q].usage
    <3>1. PICK sent \in Seq(Usage) : sent = Requests[q].usage
      BY RequestFact
    <3> QED BY <2>1, <3>1
  <2>3. usage.group \in Group /\ usage.used \in Seq(UsedUnit)
    BY <1>2, <2>1, RequestFact
  <2> QED BY <2>2, <2>3
<1>4. n \in Nat /\ \A k \in 1..n : usage.used[k] \in UsedUnit
  <2>1. PICK used \in Seq(UsedUnit) : used = usage.used /\ n = Len(used)
    BY <1>2, <1>3
  <2>2. n \in Nat /\ \A k \in 1..n : used[k] \in UsedUnit
    BY ONLY <2>1
  <2> QED BY <2>1, <2>2
<1>5. \A k \in 1..n : NormaliseUnits(usage.group, usage.used[k].units) <= MaxUnits
  <2>1. DOMAIN usage.used = 1..n
    BY ONLY <1>2, <1>3
  <2>2. \A j \in DOMAIN usage.used : NormaliseUnits(usage.group, usage.used[j].units) <= MaxUnits
    BY ONLY UnitsAssumption, <1>2, <1>3, q \in Request
  <2> QED BY ONLY <2>1, <2>2
<1>6. /\ at \in [0..n -> Plan] /\ at[0].todo = <<>>
      /\ \A k \in 1..n : at[k] = ChargeContainer(usage.group, at[k - 1], usage.used[k])
  <2>1. /\ at \in [0..n -> Plan]
        /\ at[0] = [grants |-> ValidGrants(context, usage.group), todo |-> <<>>,
                    fits   |-> usage.group \in context.groups \/ usage.used = <<>>]
        /\ \A k \in 1..n : at[k] = ChargeContainer(usage.group, at[k - 1], usage.used[k])
    BY ONLY <1>1, <1>2 DEF PlanRun
  <2> QED BY <2>1
<1>7. PICK S : S = {k \in 0..n : WithinBound(at[k].todo)}
  OBVIOUS
<1>8. 0 \in S
  BY <1>4, <1>6, <1>7 DEF WithinBound
<1>9. ASSUME NEW k \in 1..n, k - 1 \in S PROVE k \in S
  <2>1. at[k - 1] \in Plan /\ WithinBound(at[k - 1].todo)
    BY <1>6, <1>7, <1>9
  <2>2. WithinBound(at[k].todo)
    BY <1>3, <1>4, <1>5, <1>6, <2>1, ContainerSmall
  <2> QED BY <1>7, <2>2
<1>10. \A k \in 0..n : k \in S
  BY ONLY <1>4, <1>8, <1>9, UpTo
<1>11. WithinBound(at[n].todo)
  BY <1>4, <1>7, <1>10
<1>12. NextUsage(q, context).todo = at[n].todo
  BY <1>1, <1>2 DEF Planned
<1> QED BY <1>11, <1>12

\* A handler that plans no debit beyond the bound keeps them within it.
LEMMA PutSmall ==
  ASSUME SessionTypeOK, SmallCharges, NEW q \in Request, NEW c, WithinBound(c.todo),
         Put(q, c) \/ UNCHANGED ctx
  PROVE  SmallCharges'
<1>1. ASSUME NEW p \in Request PROVE WithinBound(ctx'[p].todo)
  BY DEF SmallCharges, SessionTypeOK, Put
<1> QED BY <1>1 DEF SmallCharges, WithinBound

\* A clean-up, or an end, has no debits ahead.
LEMMA AbandonSmall ==
  ASSUME SessionTypeOK, SmallCharges, NEW q \in Request, Abandon(q, ctx[q])
  PROVE  SmallCharges'
<1>1. WithinBound(<<>>)
  BY DEF WithinBound
<1>2. NoContext.todo = <<>>
  BY DEF NoContext
<1>3. CASE Kind(q) = "create"
  <2>1. Put(q, NoContext)
    BY <1>3 DEF Abandon, ReleaseFirst
  <2> QED BY <1>1, <1>2, <2>1, PutSmall
<1>4. CASE Kind(q) # "create"
  <2>1. PICK due : Put(q, [ctx[q] EXCEPT !.todo = <<>>, !.due = due])
    BY <1>4 DEF Abandon, ReleaseFirst
  <2>2. ctx[q] \in Context
    BY DEF SessionTypeOK
  <2>3. [ctx[q] EXCEPT !.todo = <<>>, !.due = due].todo = <<>>
    BY <2>2 DEF Context
  <2> QED BY <1>1, <2>1, <2>3, PutSmall
<1> QED BY <1>3, <1>4

\* No step plans a debit beyond the bound.
LEMMA NextSmall ==
  ASSUME SessionInv, SmallCharges, [Next]_vars
  PROVE  SmallCharges'
<1>1. WithinBound(NoContext.todo)
  BY DEF WithinBound, NoContext
<1>2. SessionTypeOK
  BY DEF SessionInv
<1>3. ASSUME UNCHANGED ctx PROVE SmallCharges'
  BY <1>3 DEF SmallCharges, WithinBound
<1>4. ASSUME NEW q \in Request, Serve(q) PROVE SmallCharges'
  <2>1. PICK c \in Context : c = ctx[q] /\ WithinBound(c.todo) /\ Carries(q, pc[q], c)
    BY <1>2 DEF SmallCharges, SessionTypeOK, SessionInv, HandlerInv
  <2>2. CASE Begin(q)
    <3>1. Put(q, [NoContext EXCEPT !.at = now])
      BY <2>2 DEF Begin
    <3>2. WithinBound([NoContext EXCEPT !.at = now].todo)
      BY DEF WithinBound, NoContext
    <3> QED BY <1>2, <3>1, <3>2, PutSmall
  <2>3. CASE Resend(q)
    BY <1>3, <2>3 DEF Resend
  <2>4. CASE LoadNone(q)
    <3>1. PICK groups : UNCHANGED ctx \/ Put(q, [c EXCEPT !.groups = groups])
      BY <2>1, <2>4 DEF LoadNone
    <3>2. [c EXCEPT !.groups = groups].todo = c.todo
      BY DEF Context
    <3> QED BY <1>2, <2>1, <3>1, <3>2, PutSmall
  <2>5. CASE LoadRecord(q)
    <3>1. PICK grants, groups :
            UNCHANGED ctx \/ Put(q, [c EXCEPT !.grants = grants, !.groups = groups])
      BY <2>1, <2>5 DEF LoadRecord
    <3>2. [c EXCEPT !.grants = grants, !.groups = groups].todo = c.todo
      BY DEF Context
    <3> QED BY <1>2, <2>1, <3>1, <3>2, PutSmall
  <2>6. CASE AccountUsage(q)
    <3>1. /\ pc[q] = "account" /\ c.done < Len(Requests[q].usage)
          /\ Put(q, NextUsage(q, Settled(q, c)))
      BY <2>1, <2>6 DEF AccountUsage
    <3>2. PICK M \in SUBSET Ref : M = MayHold(q)
      BY DEF MayHold
    <3>3. Settled(q, c) \in Context /\ Settled(q, c).done = c.done
      <4>1. /\ c.grants \in GrantsOf(M) /\ c.done <= Len(Requests[q].usage)
            /\ c.done > 0 => c.kept \in Seq(GrantOf(RefsOf(UsageGroup(q, c), M)))
        BY <2>1, <3>1, <3>2 DEF Carries
      <4> QED BY <4>1, SettledFact
    <3>4. WithinBound(NextUsage(q, Settled(q, c)).todo)
      BY <3>1, <3>3, UsageSmall
    <3> QED BY <1>2, <3>1, <3>4, PutSmall
  <2>7. CASE DebitUsed(q)
    <3>1. PICK todo \in Seq(Charge) : todo = c.todo /\ todo # <<>>
      BY <2>1, <2>7 DEF DebitUsed, Context
    <3>2. PICK rest : rest = Tail(todo)
      OBVIOUS
    <3>3. Put(q, [c EXCEPT !.todo = rest])
      BY <2>1, <2>7, <3>1, <3>2 DEF DebitUsed
    <3>4. WithinBound(rest)
      <4>1. /\ DOMAIN rest = 1..(Len(todo) - 1) /\ Len(todo) \in Nat
            /\ \A i \in 1..(Len(todo) - 1) : rest[i] = todo[i + 1]
        BY <3>1, <3>2
      <4>2. \A i \in 1..(Len(todo) - 1) : i + 1 \in DOMAIN todo
        BY <3>1
      <4> QED BY <2>1, <3>1, <4>1, <4>2 DEF WithinBound
    <3>5. [c EXCEPT !.todo = rest].todo = rest
      BY DEF Context
    <3> QED BY <1>2, <3>3, <3>4, <3>5, PutSmall
  <2>8. CASE AccountDone(q)
    <3>1. CASE ~c.fits
      BY <1>2, <2>1, <2>8, <3>1, AbandonSmall DEF AccountDone
    <3>2. CASE c.fits
      <4>1. PICK M \in SUBSET Ref : M = MayHold(q)
        BY DEF MayHold
      <4>2. PICK new \in Context : new = Settled(q, c) /\ new.todo = c.todo
        <5>1. /\ c.grants \in GrantsOf(M) /\ c.done <= Len(Requests[q].usage)
              /\ c.done > 0 => c.kept \in Seq(GrantOf(RefsOf(UsageGroup(q, c), M)))
          BY <2>1, <2>8, <4>1 DEF Carries, AccountDone
        <5> QED BY <5>1, SettledFact
      <4>3. PICK groups : Put(q, new) \/ Put(q, [new EXCEPT !.groups = groups, !.done = 0])
        BY <2>1, <2>8, <3>2, <4>2 DEF AccountDone
      <4>4. [new EXCEPT !.groups = groups, !.done = 0].todo = new.todo
        BY DEF Context
      <4> QED BY <1>2, <2>1, <4>2, <4>3, <4>4, PutSmall
    <3> QED BY <3>1, <3>2
  <2>9. CASE RateUnit(q)
    <3>1. PICK group, grant : Put(q, Granted(c, group, grant))
      BY <2>1, <2>9 DEF RateUnit
    <3>2. Granted(c, group, grant).todo = c.todo
      BY DEF Granted, Context
    <3> QED BY <1>2, <2>1, <3>1, <3>2, PutSmall
  <2>10. CASE RateDone(q)
    <3>1. Put(q, [c EXCEPT !.grants = c.fresh, !.fresh = NoGrants, !.done = 0])
      BY <2>1, <2>10 DEF RateDone
    <3>2. [c EXCEPT !.grants = c.fresh, !.fresh = NoGrants, !.done = 0].todo = c.todo
      BY DEF Context
    <3> QED BY <1>2, <2>1, <3>1, <3>2, PutSmall
  <2>11. CASE SaveRecord(q)
    <3>1. Abandon(q, ctx[q]) \/ UNCHANGED ctx
      BY <2>11 DEF SaveRecord
    <3> QED BY <1>2, <1>3, <3>1, AbandonSmall
  <2>12. CASE CreateTrace(q)
    BY <1>1, <1>2, <2>12, PutSmall DEF CreateTrace
  <2>13. CASE CleanUp(q)
    <3>1. Put(q, NoContext) \/ Put(q, [c EXCEPT !.due = Tail(@)])
      BY <2>1, <2>13 DEF CleanUp
    <3>2. [c EXCEPT !.due = Tail(@)].todo = c.todo
      BY DEF Context
    <3> QED BY <1>1, <1>2, <2>1, <3>1, <3>2, PutSmall
  <2> QED BY <1>4, <2>2, <2>3, <2>4, <2>5, <2>6, <2>7, <2>8, <2>9, <2>10, <2>11, <2>12,
             <2>13 DEF Serve
<1>5. ASSUME NEW q \in Request, Fault(q) \/ Crash(q) PROVE SmallCharges'
  <2>1. Abandon(q, ctx[q]) \/ Put(q, NoContext)
    BY <1>5 DEF Fault, Crash
  <2> QED BY <1>1, <1>2, <2>1, AbandonSmall, PutSmall
<1>8. ASSUME NEW q \in Request, LookUpFails(q) \/ ReleaseFails(q) PROVE SmallCharges'
  <2>1. PICK c \in Context : c = ctx[q] /\ WithinBound(c.todo)
    BY <1>2 DEF SmallCharges, SessionTypeOK
  <2>2. PICK groups : \/ Put(q, [c EXCEPT !.groups = groups])
                      \/ Put(q, [c EXCEPT !.due = Tail(@)])
    BY <1>8, <2>1 DEF LookUpFails, ReleaseFails
  <2>3. /\ [c EXCEPT !.groups = groups].todo = c.todo
        /\ [c EXCEPT !.due = Tail(@)].todo = c.todo
    BY DEF Context
  <2> QED BY <1>2, <2>1, <2>2, <2>3, PutSmall
<1>6. ASSUME NEW c \in Counter, Provision(c) PROVE SmallCharges'
  BY <1>3, <1>6 DEF Provision, handler
<1>7. CASE ExpireQuota \/ CleanStaleSessions \/ Tick \/ UNCHANGED vars
  BY <1>3, <1>7 DEF ExpireQuota, CleanStaleSessions, Tick, vars, handler
<1> QED BY <1>4, <1>5, <1>6, <1>7, <1>8 DEF Next

\* Nobody plans anything at first.
LEMMA InitSmall == Init => SmallCharges
BY DEF Init, SmallCharges, WithinBound, NoContext

-----------------------------------------------------------------------------
\* The grant ids drawn so far.
Drawn == {r \in Ref : drawn[r] # 0}

\* A clock reading of a handler, or the clock itself, is one the manager takes.
LEMMA ReadingRecent ==
  ASSUME SessionInv, NEW t \in Nat, t <= now
  PROVE  t \in Manager!Recent
<1>1. now \in 0..MaxTime /\ MaxTime \in Nat
  BY NumberFact DEF SessionInv, SessionTypeOK
<1>2. t \in 0..now /\ now <= t + MaxTime
  BY <1>1
<1> QED BY <1>2 DEF Manager!Recent

\* A call that is applied here is applied there.
LEMMA SameApply == ASSUME NEW call, Apply(call) PROVE Manager!Apply(call)
BY SameCalls DEF Apply, Manager!Apply

\* Initially both are empty.
LEMMA InitMapsGrants == Init => Manager!GrantsInit
<1> SUFFICES ASSUME Init PROVE Manager!GrantsInit
  OBVIOUS
<1>1. Drawn = {}
  BY DEF Init, Drawn
<1>2. Manager!Init
  BY <1>1, SameCalls DEF Init, Drawn, Manager!Init
<1>3. book = [r \in Manager!Ref |-> Manager!NoGrant]
  BY SameCalls DEF Init
<1> QED BY <1>2, <1>3 DEF Manager!GrantsInit

\* Rating a usage is a reservation, unless the group is free of charge.
LEMMA RateUnitMaps ==
  ASSUME SessionInv, NEW q \in Request, RateUnit(q)
  PROVE  Manager!GrantsNext \/ UNCHANGED <<quota, now, journal, drawn, delivered, book>>
<1>1. PICK c \in Context : c = ctx[q] /\ c.at \in Nat /\ c.at <= now
                           /\ c.done \in 0..Len(Requests[q].usage)
  BY HandlerFact DEF Carries
<1>2. PICK usage : usage = Requests[q].usage[c.done + 1]
  OBVIOUS
<1>3. /\ c.done < Len(Requests[q].usage) /\ c.done + 1 \in DOMAIN Requests[q].usage
      /\ usage.group \in Group /\ usage.wanted \in Nat
  <2>1. c.done < Len(Requests[q].usage)
    BY <1>1 DEF RateUnit
  <2>2. PICK sent \in Seq(Usage) : sent = Requests[q].usage
    BY RequestFact
  <2>3. c.done + 1 \in DOMAIN sent
    BY <1>1, <2>1, <2>2
  <2>4. sent[c.done + 1] \in Usage
    BY <2>3
  <2> QED BY <1>2, <2>1, <2>2, <2>3, <2>4 DEF Usage
<1>4. PICK wanted \in 0..MaxUnits : wanted = NormaliseUnits(usage.group, usage.wanted)
  <2>1. NormaliseUnits(usage.group, usage.wanted) \in Nat
    BY <1>3, NormaliseNat
  <2>2. NormaliseUnits(usage.group, usage.wanted) <= MaxUnits
    BY ONLY UnitsAssumption, <1>2, <1>3, q \in Request
  <2>3. MaxUnits \in Nat
    BY SessionAssumption
  <2> QED BY <2>1, <2>2, <2>3
<1>5. CASE UNCHANGED <<credit, drawn>>
  BY <1>5 DEF RateUnit, credit, world
<1>6. ASSUME NEW r \in Ref, drawn[r] = 0, Apply(ReserveCall(quota, r, wanted, c.at)),
             drawn' = [drawn EXCEPT ![r] = q],
             book' = [book EXCEPT ![r] = [units |-> ReserveCall(quota, r, wanted, c.at).answer,
                                          until |-> c.at + Validity]]
      PROVE  Manager!GrantsNext
  <2>1. PICK call : /\ call = ReserveCall(quota, r, wanted, c.at)
                    /\ call = Manager!ReserveCall(quota, r, wanted, c.at)
    BY SameCalls
  <2>2. Manager!Apply(call)
    BY <1>6, <2>1, SameApply
  <2>3. r \notin Drawn /\ Drawn' = Drawn \union {r}
    <3>1. drawn \in [Ref -> Request \union {0}] /\ q # 0
      BY NumberFact DEF SessionInv, SessionTypeOK
    <3> QED BY <1>6, <3>1 DEF Drawn
  <2>4. UNCHANGED <<now, delivered>>
    BY DEF RateUnit, world
  <2>5. Manager!Reserve(r, wanted, c.at)
    BY <2>1, <2>2, <2>3, <2>4 DEF Manager!Reserve, Drawn
  <2>6. Manager!ReserveGrant(r, wanted, c.at)
    BY <1>6, <2>1, <2>5 DEF Manager!ReserveGrant
  <2>7. c.at \in Manager!Recent
    BY <1>1, ReadingRecent
  <2>8. r \in Manager!Ref
    BY SameCalls
  <2> QED BY <2>6, <2>7, <2>8 DEF Manager!GrantsNext
<1>7. \/ UNCHANGED <<credit, drawn>>
      \/ \E r \in Ref :
           /\ drawn[r] = 0 /\ Apply(ReserveCall(quota, r, wanted, c.at))
           /\ drawn' = [drawn EXCEPT ![r] = q]
           /\ book' = [book EXCEPT ![r] = [units |-> ReserveCall(quota, r, wanted, c.at).answer,
                                           until |-> c.at + Validity]]
  BY <1>1, <1>2, <1>4 DEF RateUnit
<1> QED BY <1>5, <1>6, <1>7

\* A debit is a use of a grant that is valid and covers it.
LEMMA DebitUsedMaps ==
  ASSUME SessionInv, FitInv, SmallCharges, NEW q \in Request, DebitUsed(q)
  PROVE  Manager!GrantsNext
<1>1. PICK c \in Context : /\ c = ctx[q] /\ c.at \in Nat /\ c.at <= now
                           /\ Carries(q, "account", c) /\ pc[q] = "account" /\ c.todo # <<>>
  BY HandlerFact DEF Carries, DebitUsed
<1>2. PICK M \in SUBSET Ref : M = MayHold(q)
  BY MineHeld
<1>3. PICK todo \in Seq(ChargeOf(M)) : todo = c.todo /\ todo # <<>>
  BY <1>1, <1>2 DEF Carries
<1>4. PICK d \in ChargeOf(M) : d = Head(todo) /\ d = todo[1] /\ 1 \in DOMAIN todo
  BY <1>3
<1>5. d.ref \in Ref /\ d.ref \in Drawn /\ d.units \in Nat /\ d.reclaim \in BOOLEAN
  <2>1. d.ref \in M /\ d.units \in Nat /\ d.reclaim \in BOOLEAN
    BY DEF ChargeOf
  <2> QED BY <1>2, <2>1, NumberFact DEF MayHold, Drawn
<1>6. d.units > 0
  BY <1>1, <1>3, <1>4 DEF FitInv, HandlerFits, Fits, Accounting
<1>7. d.units <= MaxUnits
  BY <1>1, <1>3, <1>4 DEF SmallCharges, WithinBound
<1>8. d.units \in 1..MaxUnits
  BY <1>5, <1>6, <1>7, SessionAssumption
<1>9. book[d.ref].until > c.at /\ d.units <= book[d.ref].units
  BY <1>1, <1>3, <1>4, FitDebits DEF DebitsCovered
<1>10. /\ Apply(DebitCall(quota, d.ref, d.units, d.reclaim, c.at))
       /\ book' = [book EXCEPT
                     ![d.ref] = IF d.reclaim \/ d.units = book[d.ref].units
                                  THEN NoGrant
                                  ELSE [units |-> book[d.ref].units - d.units,
                                        until |-> book[d.ref].until]]
       /\ UNCHANGED <<now, drawn, delivered>>
  BY <1>1, <1>3, <1>4 DEF DebitUsed, world
<1>11. PICK call : /\ call = DebitCall(quota, d.ref, d.units, d.reclaim, c.at)
                   /\ call = Manager!DebitCall(quota, d.ref, d.units, d.reclaim, c.at)
  BY SameCalls
<1>12. Manager!Apply(call)
  BY <1>10, <1>11, SameApply
<1>13. Manager!DebitUnits(d.ref, d.units, d.reclaim, c.at)
  BY <1>5, <1>10, <1>11, <1>12 DEF Manager!DebitUnits, Drawn
<1>14. Manager!UseGrant(d.ref, d.units, d.reclaim, c.at)
  BY <1>9, <1>10, <1>13, SameCalls DEF Manager!UseGrant, Manager!Valid
<1>15. c.at \in Manager!Recent
  BY <1>1, ReadingRecent
<1>16. d.ref \in Manager!Ref
  BY <1>5, SameCalls
<1> QED BY <1>5, <1>8, <1>14, <1>15, <1>16 DEF Manager!GrantsNext

\* What is cleaned up is given back; a grant that reserved nothing has the
\* counters looked over for what expired.
LEMMA CleanUpMaps ==
  ASSUME SessionInv, NEW q \in Request, CleanUp(q)
  PROVE  Manager!GrantsNext \/ UNCHANGED <<quota, now, journal, drawn, delivered, book>>
<1>1. PICK c \in Context : c = ctx[q] /\ Carries(q, "cleanup", c)
  BY HandlerFact DEF CleanUp
<1>2. UNCHANGED <<now, drawn, delivered>>
  BY DEF CleanUp, world
<1>3. now \in Nat /\ now <= now
  BY NumberFact DEF SessionInv, SessionTypeOK
<1>4. now \in Manager!Recent
  BY <1>3, ReadingRecent
<1>5. CASE c.due = <<>>
  BY <1>1, <1>2, <1>5 DEF CleanUp, credit
<1>6. CASE c.due # <<>>
  <2>1. PICK M \in SUBSET Ref : M = MayHold(q)
    BY MineHeld
  <2>2. PICK due \in Seq(M \union {NoRef}) : due = c.due /\ due # <<>>
    BY <1>1, <1>6, <2>1 DEF Carries
  <2>3. PICK r \in M \union {NoRef} : r = Head(due)
    BY <2>2
  <2>4. /\ Apply(IF r = NoRef THEN ExpireCall(quota, now) ELSE ReleaseCall(quota, r, now))
        /\ book' = [s \in Ref |-> IF s = r THEN NoGrant ELSE book[s]]
    BY <1>1, <1>6, <2>2, <2>3 DEF CleanUp
  <2>5. book \in [Ref -> [units : Int, until : Nat]]
    BY DEF SessionInv, SessionTypeOK
  <2>6. CASE r = NoRef
    <3>1. book' = book
      BY <2>4, <2>5, <2>6, NumberFact
    <3>2. Manager!Apply(Manager!ExpireCall(quota, now))
      BY <2>4, <2>6, SameApply, SameCalls
    <3>3. Manager!ProcessExpired(now)
      BY <1>2, <3>2 DEF Manager!ProcessExpired
    <3> QED BY <1>4, <3>1, <3>3 DEF Manager!GrantsNext, Manager!ManagerStep
  <2>7. CASE r # NoRef
    <3>1. r \in Ref /\ r \in Drawn
      BY <2>1, <2>7, NumberFact DEF MayHold, Drawn
    <3>2. book' = [book EXCEPT ![r] = NoGrant]
      BY <2>4, <2>5, <3>1
    <3>3. Manager!Apply(Manager!ReleaseCall(quota, r, now))
      BY <2>4, <2>7, SameApply, SameCalls
    <3>4. Manager!ReleaseUnits(r, now)
      BY <1>2, <3>1, <3>3 DEF Manager!ReleaseUnits, Drawn
    <3>5. Manager!GiveBack(r, now)
      BY <3>2, <3>4, SameCalls DEF Manager!GiveBack
    <3>6. r \in Manager!Ref
      BY <3>1, SameCalls
    <3> QED BY <1>4, <3>5, <3>6 DEF Manager!GrantsNext
  <2> QED BY <2>6, <2>7
<1> QED BY <1>5, <1>6

\* A counter that arrives, the housekeeping job and the clock are the manager's.
LEMMA OutsideMaps ==
  ASSUME SessionInv, (\E c \in Counter : Provision(c)) \/ ExpireQuota \/ Tick
  PROVE  Manager!GrantsNext
<1>1. now \in Nat /\ now <= now
  BY NumberFact DEF SessionInv, SessionTypeOK
<1>2. now \in Manager!Recent
  BY <1>1, ReadingRecent
<1>3. ASSUME NEW c \in Counter, Provision(c) PROVE Manager!GrantsNext
  <2>1. /\ delivered[c] = 0 /\ delivered' = [delivered EXCEPT ![c] = 1]
        /\ Apply(ProvisionCall(quota, c, now)) /\ UNCHANGED <<now, drawn, book>>
    BY <1>3 DEF Provision
  <2>2. Manager!Apply(Manager!ProvisionCall(quota, c, now))
    BY <2>1, SameApply, SameCalls
  <2>3. delivered[c] < 1 /\ delivered' = [delivered EXCEPT ![c] = @ + 1]
    BY <2>1
  <2>4. Manager!Provision(c, now)
    BY <2>1, <2>2, <2>3 DEF Manager!Provision
  <2>5. c \in Manager!Counter
    BY SameCalls
  <2> QED BY <1>2, <2>1, <2>4, <2>5 DEF Manager!GrantsNext, Manager!ManagerStep
<1>4. CASE ExpireQuota
  <2>1. Apply(ExpireCall(quota, now)) /\ UNCHANGED <<now, drawn, delivered, book>>
    BY <1>4 DEF ExpireQuota
  <2>2. Manager!Apply(Manager!ExpireCall(quota, now))
    BY <2>1, SameApply, SameCalls
  <2>3. Manager!ProcessExpired(now)
    BY <2>1, <2>2 DEF Manager!ProcessExpired
  <2> QED BY <1>2, <2>1, <2>3 DEF Manager!GrantsNext, Manager!ManagerStep
<1>5. CASE Tick
  <2>1. /\ now < MaxTime /\ now' = now + 1
        /\ UNCHANGED <<quota, journal, drawn, delivered, book>>
    BY <1>5 DEF Tick, credit
  <2>2. Manager!Tick
    BY <2>1 DEF Manager!Tick
  <2> QED BY <2>1, <2>2 DEF Manager!GrantsNext, Manager!ManagerStep
<1> QED BY <1>3, <1>4, <1>5

\* Every step of the handlers is a step of the manager or none: rating reserves,
\* accounting uses, cleaning up gives back, all else is a stutter.
LEMMA NextMapsGrants ==
  ASSUME SessionInv, FitInv, SmallCharges, [Next]_vars
  PROVE  [Manager!GrantsNext]_(Manager!grantVars)
<1> SUFFICES Manager!GrantsNext \/ UNCHANGED Manager!grantVars
  OBVIOUS
<1>1. ASSUME UNCHANGED <<quota, now, journal, drawn, delivered, book>>
      PROVE  UNCHANGED Manager!grantVars
  BY <1>1 DEF Manager!grantVars, Manager!vars
<1>2. ASSUME NEW q \in Request, Serve(q)
      PROVE  Manager!GrantsNext \/ UNCHANGED Manager!grantVars
  <2>1. CASE Begin(q) \/ Resend(q) \/ LoadNone(q) \/ LoadRecord(q)
    BY <1>1, <2>1 DEF Begin, Resend, LoadNone, LoadRecord, credit, world
  <2>2. CASE AccountUsage(q) \/ AccountDone(q)
    BY <1>1, <2>2 DEF AccountUsage, AccountDone, credit, world
  <2>3. CASE RateDone(q) \/ SaveRecord(q) \/ CreateTrace(q)
    BY <1>1, <2>3 DEF RateDone, SaveRecord, CreateTrace, credit, world
  <2>4. CASE DebitUsed(q)
    BY <2>4, DebitUsedMaps
  <2>5. CASE RateUnit(q)
    BY <1>1, <2>5, RateUnitMaps
  <2>6. CASE CleanUp(q)
    BY <1>1, <2>6, CleanUpMaps
  <2> QED BY <1>2, <2>1, <2>2, <2>3, <2>4, <2>5, <2>6 DEF Serve
<1>3. ASSUME NEW q \in Request, LookUpFails(q) \/ Fault(q) \/ ReleaseFails(q) \/ Crash(q)
      PROVE  UNCHANGED Manager!grantVars
  BY <1>1, <1>3 DEF LookUpFails, Fault, ReleaseFails, Crash, credit
<1>4. CASE (\E c \in Counter : Provision(c)) \/ ExpireQuota \/ Tick
  BY <1>4, OutsideMaps
<1>5. CASE CleanStaleSessions \/ UNCHANGED vars
  BY <1>1, <1>5 DEF CleanStaleSessions, vars, credit, world
<1> QED BY <1>2, <1>3, <1>4, <1>5 DEF Next

\* The handlers implement the manager's interface as QuotaGrants states it: to
\* the quota they are engines that grant what a reservation answers, use it while
\* it is valid and within what is left, and give back what they gave up -
\* although reservation, record and answer are saved one after the other by
\* handlers that overlap, fail and die.  The hypotheses are those of DebitsFit.
THEOREM SessionImplementsGrants ==
  ASSUME InSequence, "trace" \notin Failing
  PROVE  Spec /\ []ReportsWithinGrants => ImplementsGrants
<1>1. Init => SessionInv /\ FitInv /\ SmallCharges
  BY InitSessionInv, InitFit, InitSmall
<1>2. SessionInv /\ FitInv /\ SmallCharges /\ ReportsWithinGrants /\ [Next]_vars
        => (SessionInv /\ FitInv /\ SmallCharges)'
  BY NextSessionInv, NextFit, NextSmall
<1>3. Init => Manager!GrantsInit
  BY InitMapsGrants
<1>4. SessionInv /\ FitInv /\ SmallCharges /\ [Next]_vars
        => [Manager!GrantsNext]_(Manager!grantVars)
  BY NextMapsGrants
<1> QED BY <1>1, <1>2, <1>3, <1>4, PTL DEF Spec, ImplementsGrants, Manager!GrantsSpec

-----------------------------------------------------------------------------
\* What the book still grants is backed by reservations while it is valid.
BookBacked ==
  \A r \in Ref : Plain(r) /\ book[r].units > 0 /\ book[r].until > now
                   => Backed(quota, r, book[r])

\* A call that keeps the grant of an id leaves what the book has of it backed.
LEMMA OthersBacked ==
  ASSUME SessionInv, FitInv, BookBacked, NEW q \in Ref, NEW t \in Nat, t <= now,
         NEW doc, KeepsGrant(quota, doc, q, t)
  PROVE  Plain(q) /\ book[q].units > 0 /\ book[q].until > now => Backed(doc, q, book[q])
<1>1. book[q] \in Promise /\ now \in Nat
  BY NumberFact DEF FitInv, Left, Promise, SessionInv, SessionTypeOK
<1>2. book[q].until > now => book[q].until > t
  BY <1>1 DEF Promise
<1> QED BY <1>1, <1>2 DEF BookBacked, KeepsGrant

\* The quota after a call of the manager.
LEMMA AppliedDoc == \A call : Manager!Apply(call) => quota' = call.doc
BY DEF Manager!Apply

\* A call of the manager that the book does not notice keeps its grants.
LEMMA KeptBacked ==
  ASSUME SessionInv, FitInv, BookBacked, NEW t \in Nat, t <= now, book' = book, now' = now,
         \A q \in Ref : KeepsGrant(quota, quota', q, t)
  PROVE  BookBacked'
BY OthersBacked DEF BookBacked

\* Every step of the manager keeps what the book grants backed.
LEMMA ReserveBacksBook ==
  ASSUME SessionInv, FitInv, BookBacked, NEW r \in Ref, NEW units \in Nat,
         NEW t \in Manager!Recent, Manager!ReserveGrant(r, units, t)
  PROVE  BookBacked'
<1>1. /\ quota \in SoundDocument /\ now \in Nat /\ t \in Nat /\ t <= now
      /\ book \in [Ref -> [units : Int, until : Nat]]
      /\ \A q \in Ref : q \notin Drawn => Unheld(quota, q)
  BY NumberFact DEF SessionInv, SessionTypeOK, BooksInv, Manager!Recent, Drawn
<1>2. PICK call : /\ call = ReserveCall(quota, r, units, t)
                  /\ call = Manager!ReserveCall(quota, r, units, t)
  BY SameCalls
<1>3. PICK grant : grant = [units |-> call.answer, until |-> t + Validity]
  OBVIOUS
<1>4. /\ r \notin Drawn /\ now' = now /\ book' = [book EXCEPT ![r] = grant]
      /\ Manager!Apply(call)
  BY <1>2, <1>3 DEF Manager!ReserveGrant, Manager!Reserve, Drawn
<1>5. quota' = call.doc
  BY <1>4, AppliedDoc
<1>6. /\ grant.until = t + Validity /\ t + Validity \in Nat
      /\ Plain(r) /\ t + Validity > t => Backed(quota', r, grant)
  <2>1. Unheld(quota, r)
    BY <1>1, <1>4
  <2>2. Plain(r) /\ t + Validity > t => Backed(call.doc, r, grant)
    BY <1>1, <1>2, <1>3, <2>1, ReserveCallBacked
  <2>3. grant.until = t + Validity /\ t + Validity \in Nat
    BY <1>1, <1>3, ValidityAssumption
  <2> QED BY <1>5, <2>2, <2>3
<1>7. ASSUME NEW q \in Ref, q # r PROVE KeepsGrant(quota, quota', q, t)
  BY <1>1, <1>2, <1>5, <1>7, CallsKeepOthers
<1>8. ASSUME NEW q \in Ref, Plain(q), book'[q].units > 0, book'[q].until > now'
      PROVE  Backed(quota', q, book'[q])
  <2>1. CASE q = r
    <3>1. book'[q] = grant
      BY <1>1, <1>4, <2>1
    <3>2. t + Validity > t
      BY <1>1, <1>4, <1>6, <1>8, <3>1
    <3> QED BY <1>6, <1>8, <2>1, <3>1, <3>2
  <2>2. CASE q # r
    <3>1. book'[q] = book[q]
      BY <1>1, <1>4, <2>2
    <3> QED BY <1>1, <1>4, <1>7, <1>8, <2>2, <3>1, OthersBacked
  <2> QED BY <2>1, <2>2
<1> QED BY <1>8 DEF BookBacked

LEMMA UseBacksBook ==
  ASSUME SessionInv, FitInv, BookBacked, NEW r \in Ref, NEW used \in Nat, used > 0,
         NEW reclaim \in BOOLEAN, NEW t \in Manager!Recent,
         Manager!UseGrant(r, used, reclaim, t)
  PROVE  BookBacked'
<1>1. /\ quota \in SoundDocument /\ now \in Nat /\ t \in Nat /\ t <= now
      /\ book \in [Ref -> [units : Int, until : Nat]] /\ book[r] \in Promise
  BY NumberFact DEF SessionInv, SessionTypeOK, BooksInv, Manager!Recent, FitInv, Left, Promise
<1>2. PICK call : /\ call = DebitCall(quota, r, used, reclaim, t)
                  /\ call = Manager!DebitCall(quota, r, used, reclaim, t)
  BY SameCalls
<1>3. PICK rest : rest = [units |-> book[r].units - used, until |-> book[r].until]
  OBVIOUS
<1>4. PICK over \in BOOLEAN : over = (reclaim \/ used = book[r].units)
  OBVIOUS
<1>5. /\ now' = now /\ Manager!Apply(call)
      /\ book[r].until > t /\ used <= book[r].units
      /\ book' = [book EXCEPT ![r] = IF over THEN NoGrant ELSE rest]
  BY <1>2, <1>3, <1>4, SameCalls
  DEF Manager!UseGrant, Manager!DebitUnits, Manager!Valid
<1>6. quota' = call.doc
  BY <1>5, AppliedDoc
<1>7. ASSUME NEW q \in Ref, q # r PROVE KeepsGrant(quota, quota', q, t)
  BY <1>1, <1>2, <1>6, <1>7, CallsKeepOthers
<1>8. ASSUME ~over, Plain(r), book[r].until > now PROVE Backed(quota', r, rest)
  <2>1. Backed(quota, r, book[r])
    <3>1. book[r].units > 0
      BY <1>1, <1>5 DEF Promise
    <3> QED BY <1>8, <3>1 DEF BookBacked
  <2>2. PICK grant \in Promise : grant = book[r]
    BY <1>1
  <2>3. used \in 1..grant.units /\ [grant EXCEPT !.units = @ - used] = rest
    BY <1>1, <1>3, <1>5, <2>2 DEF Promise
  <2>4. reclaim = FALSE
    BY <1>4, <1>8
  <2>5. Backed(DebitCall(quota, r, used, FALSE, t).doc, r, [grant EXCEPT !.units = @ - used])
    BY <1>1, <1>5, <1>8, <2>1, <2>2, <2>3, DebitCallBacked
  <2> QED BY <1>2, <1>6, <2>3, <2>4, <2>5
<1>9. ASSUME NEW q \in Ref, Plain(q), book'[q].units > 0, book'[q].until > now'
      PROVE  Backed(quota', q, book'[q])
  <2>1. CASE q = r
    <3>1. book'[q] = IF over THEN NoGrant ELSE rest
      BY <1>1, <1>5, <2>1
    <3>2. ~over
      BY <1>9, <3>1 DEF NoGrant
    <3> QED BY <1>3, <1>5, <1>8, <1>9, <2>1, <3>1, <3>2
  <2>2. CASE q # r
    <3>1. book'[q] = book[q]
      BY <1>1, <1>5, <2>2
    <3> QED BY <1>1, <1>5, <1>7, <1>9, <2>2, <3>1, OthersBacked
  <2> QED BY <2>1, <2>2
<1> QED BY <1>9 DEF BookBacked

LEMMA GiveBackBacksBook ==
  ASSUME SessionInv, FitInv, BookBacked, NEW r \in Ref, NEW t \in Manager!Recent,
         Manager!GiveBack(r, t)
  PROVE  BookBacked'
<1>1. /\ quota \in SoundDocument /\ now \in Nat /\ t \in Nat /\ t <= now
      /\ book \in [Ref -> [units : Int, until : Nat]]
  BY NumberFact DEF SessionInv, SessionTypeOK, BooksInv, Manager!Recent
<1>2. /\ now' = now /\ Manager!Apply(ReleaseCall(quota, r, t))
      /\ book' = [book EXCEPT ![r] = NoGrant]
  BY SameCalls DEF Manager!GiveBack, Manager!ReleaseUnits
<1>3. quota' = ReleaseCall(quota, r, t).doc
  BY <1>2, AppliedDoc
<1>4. ASSUME NEW q \in Ref, q # r PROVE KeepsGrant(quota, quota', q, t)
  BY <1>1, <1>3, <1>4, CallsKeepOthers
<1>5. ASSUME NEW q \in Ref, Plain(q), book'[q].units > 0, book'[q].until > now'
      PROVE  Backed(quota', q, book'[q])
  <2>1. q # r
    BY <1>1, <1>2, <1>5 DEF NoGrant
  <2>2. book'[q] = book[q]
    BY <1>1, <1>2, <2>1
  <2> QED BY <1>1, <1>2, <1>4, <1>5, <2>1, <2>2, OthersBacked
<1> QED BY <1>5 DEF BookBacked

LEMMA ManagerBacksBook ==
  ASSUME SessionInv, FitInv, BookBacked, Manager!ManagerStep
  PROVE  BookBacked'
<1>1. /\ quota \in SoundDocument /\ now \in Nat /\ book' = book
      /\ \A t \in Manager!Recent : t \in Nat /\ t <= now
  BY NumberFact DEF SessionInv, SessionTypeOK, BooksInv, Manager!Recent, Manager!ManagerStep
<1>2. CASE Manager!Tick
  <2>1. now' = now + 1 /\ quota' = quota
    BY <1>2 DEF Manager!Tick
  <2>2. \A r \in Ref : book[r].until > now + 1 => book[r].until > now
    BY <1>1 DEF FitInv, Left
  <2> QED BY <1>1, <2>1, <2>2 DEF BookBacked
<1>3. ASSUME NEW c \in Counter, NEW t \in Manager!Recent, Manager!Provision(c, t)
      PROVE  BookBacked'
  <2>1. now' = now /\ Manager!Apply(ProvisionCall(quota, c, t))
    BY <1>3, SameCalls DEF Manager!Provision
  <2>2. quota' = ProvisionCall(quota, c, t).doc
    BY <2>1, AppliedDoc
  <2>3. \A q \in Ref : KeepsGrant(quota, quota', q, t)
    BY <1>1, <2>2, CallsKeepOthers
  <2> QED BY <1>1, <2>1, <2>3, KeptBacked
<1>4. ASSUME NEW t \in Manager!Recent, Manager!ProcessExpired(t)
      PROVE  BookBacked'
  <2>1. now' = now /\ Manager!Apply(ExpireCall(quota, t))
    BY <1>4, SameCalls DEF Manager!ProcessExpired
  <2>2. quota' = ExpireCall(quota, t).doc
    BY <2>1, AppliedDoc
  <2>3. \A q \in Ref : KeepsGrant(quota, quota', q, t)
    BY <1>1, <2>2, CallsKeepOthers
  <2> QED BY <1>1, <2>1, <2>3, KeptBacked
<1>5. Manager!Counter = Counter
  BY SameCalls
<1> QED BY <1>2, <1>3, <1>4, <1>5 DEF Manager!ManagerStep

\* Every step does, because it is one of the manager's or leaves it alone.
LEMMA NextBacked ==
  ASSUME SessionInv, FitInv, SmallCharges, BookBacked, [Next]_vars
  PROVE  BookBacked'
<1>1. Manager!GrantsNext \/ UNCHANGED Manager!grantVars
  BY NextMapsGrants
<1>2. Manager!Ref = Ref /\ MaxUnits \in Nat
  BY SameCalls, SessionAssumption
<1>3. ASSUME NEW r \in Ref, NEW units \in 0..MaxUnits, NEW t \in Manager!Recent,
             Manager!ReserveGrant(r, units, t)
      PROVE  BookBacked'
  BY <1>2, <1>3, ReserveBacksBook
<1>4. ASSUME NEW r \in Ref, NEW used \in 1..MaxUnits, NEW reclaim \in BOOLEAN,
             NEW t \in Manager!Recent, Manager!UseGrant(r, used, reclaim, t)
      PROVE  BookBacked'
  BY <1>2, <1>4, UseBacksBook
<1>5. ASSUME NEW r \in Ref, NEW t \in Manager!Recent, Manager!GiveBack(r, t)
      PROVE  BookBacked'
  BY <1>5, GiveBackBacksBook
<1>6. CASE Manager!ManagerStep
  BY <1>6, ManagerBacksBook
<1>7. CASE UNCHANGED Manager!grantVars
  BY <1>7 DEF Manager!grantVars, Manager!vars, BookBacked
<1> QED BY <1>1, <1>2, <1>3, <1>4, <1>5, <1>6, <1>7 DEF Manager!GrantsNext

\* What the monetary counters leave unpaid depends on them alone.
LEMMA MonetaryReclaim ==
  ASSUME NEW r \in Ref, NEW a, NEW b, NEW units, \A c \in Monetary : a[c] = b[c]
  PROVE  DebitMonetary(a, r, units, TRUE).left = DebitMonetary(b, r, units, FALSE).left
<1>1. Holding(a, r, TRUE) = Holding(b, r, TRUE)
  BY DEF Holding
<1>2. \A c \in Counter : \A value : ValueAccount(a, r, c, value) = ValueAccount(b, r, c, value)
  BY <1>1 DEF ValueAccount, Holding
<1>3. ValueUnspent(a, r, units) = ValueUnspent(b, r, units)
  <2>1. [c \in Counter |-> [value \in Int |-> value - ValueAccount(a, r, c, value)]]
          = [c \in Counter |-> [value \in Int |-> value - ValueAccount(b, r, c, value)]]
    BY <1>2
  <2> QED BY <2>1 DEF ValueUnspent
<1> QED BY <1>1, <1>3 DEF DebitMonetary

\* What a debit does not pay does not depend on whether the rest is reclaimed:
\* reclaiming takes reservations of service counters only, and those of monetary
\* counters when they have paid.
LEMMA ReclaimPays ==
  ASSUME NEW doc, NEW r \in Ref, NEW units, NEW t
  PROVE  DebitCall(doc, r, units, TRUE, t).answer = DebitCall(doc, r, units, FALSE, t).answer
<1>1. PICK fresh : fresh = Expire(doc, t).doc
  OBVIOUS
<1>2. PICK serviceT, serviceF :
        /\ serviceT = DebitService(fresh, r, units, TRUE)
        /\ serviceF = DebitService(fresh, r, units, FALSE)
        /\ serviceT.left = serviceF.left
        /\ \A c \in Monetary : serviceT.doc[c] = serviceF.doc[c]
  <2>1. DebitService(fresh, r, units, TRUE).left = DebitService(fresh, r, units, FALSE).left
    BY DEF DebitService
  <2>2. ASSUME NEW c \in Monetary
        PROVE  DebitService(fresh, r, units, TRUE).doc[c] = DebitService(fresh, r, units, FALSE).doc[c]
    <3>1. c \in Counter /\ c \notin Holding(fresh, r, FALSE)
      BY CounterAssumption DEF Holding
    <3> QED BY <3>1 DEF DebitService
  <2> QED BY <2>1, <2>2
<1>3. Debit(fresh, r, units, TRUE).unaccounted = Debit(fresh, r, units, FALSE).unaccounted
  <2>1. CASE Tariff[r].money
    <3>1. DebitMonetary(fresh, r, units, TRUE).left = DebitMonetary(fresh, r, units, FALSE).left
      BY MonetaryReclaim, Zenon
    <3> QED BY <2>1, <3>1 DEF Debit
  <2>2. CASE ~Tariff[r].money
    <3>1. PICK a, b, left : /\ a = serviceT.doc /\ b = serviceF.doc
                            /\ left = serviceT.left /\ left = serviceF.left
                            /\ \A c \in Monetary : a[c] = b[c]
      BY <1>2
    <3>2. \A c \in Monetary : a[c] = b[c]
      BY <3>1
    <3>3. DebitMonetary(a, r, left, TRUE).left = DebitMonetary(b, r, left, FALSE).left
      BY <3>2, MonetaryReclaim, Zenon
    <3> QED BY <1>2, <2>2, <3>1, <3>3 DEF Debit
  <2> QED BY <2>1, <2>2
<1>4. \A b \in BOOLEAN : DebitCall(doc, r, units, b, t).answer = Debit(fresh, r, units, b).unaccounted
  BY <1>1 DEF DebitCall, Call
<1> QED BY <1>3, <1>4

\* A debit the book covers is paid.
LEMMA CoveredPaid ==
  ASSUME SessionInv, FitInv, BookBacked, NEW r \in Ref, Plain(r), NEW units \in Nat,
         units > 0, units <= book[r].units, NEW reclaim \in BOOLEAN, NEW t \in Nat,
         book[r].until > t, book[r].until > now
  PROVE  DebitCall(quota, r, units, reclaim, t).answer = 0
<1>1. PICK grant \in Promise : grant = book[r]
  BY DEF FitInv, Left, Promise
<1>2. quota \in SoundDocument /\ units \in 1..grant.units /\ grant.units > 0
  BY <1>1 DEF SessionInv, BooksInv, Promise
<1>3. Backed(quota, r, grant)
  BY <1>1, <1>2 DEF BookBacked
<1>4. DebitCall(quota, r, units, FALSE, t).answer = 0
  BY <1>1, <1>2, <1>3, DebitCallBacked
<1> QED BY <1>4, ReclaimPays

\* Nothing is granted at first.
LEMMA InitBacked == Init => BookBacked
BY DEF Init, BookBacked, NoGrant

\* The next debit is covered, and with the book backed it is paid.
LEMMA FitPaid == ASSUME SessionInv, FitInv, BookBacked PROVE DebitsFitGrants
<1> SUFFICES ASSUME NEW q \in Request, pc[q] = "account", ctx[q].todo # <<>>,
                    NEW d, d = Head(ctx[q].todo)
             PROVE  /\ book[d.ref].until > ctx[q].at /\ d.units <= book[d.ref].units
                    /\ Plain(d.ref) /\ book[d.ref].until > now =>
                         DebitCall(quota, d.ref, d.units, d.reclaim, ctx[q].at).answer = 0
  BY DEF DebitsFitGrants
<1>1. PICK c \in Context : c = ctx[q] /\ c.at \in Nat /\ Carries(q, "account", c)
  BY HandlerFact
<1>2. PICK M \in SUBSET Ref : M = MayHold(q)
  BY MineHeld
<1>3. PICK todo \in Seq(ChargeOf(M)) : todo = c.todo /\ todo # <<>>
  BY <1>1, <1>2 DEF Carries
<1>4. d \in ChargeOf(M) /\ d = todo[1] /\ 1 \in DOMAIN todo
  BY <1>1, <1>3
<1>5. d.ref \in Ref /\ d.units \in Nat /\ d.reclaim \in BOOLEAN
  BY <1>2, <1>4 DEF ChargeOf
<1>6. d.units > 0
  BY <1>1, <1>3, <1>4 DEF FitInv, HandlerFits, Fits, Accounting
<1>7. book[d.ref].until > c.at /\ d.units <= book[d.ref].units
  BY <1>1, FitDebits DEF DebitsCovered
<1> QED BY <1>1, <1>5, <1>6, <1>7, CoveredPaid

\* The engine keeps to the bargain of the quota manager: a debit of the handlers
\* is within what is left of its grant and made while it is valid, whatever
\* fails or dies half way and although the grant is read from a record; and under
\* a plain tariff the manager keeps to its own and has it paid in full.  The
\* requests of a session follow one another, the last step before the answer
\* does not fail, and a report that arrives at a record which an earlier report
\* was charged to and did not replace is, together with that, within its grants.
THEOREM DebitsFit ==
  ASSUME InSequence, "trace" \notin Failing
  PROVE  Spec /\ []ReportsWithinGrants => []DebitsFitGrants
<1>1. Init => SessionInv /\ FitInv /\ SmallCharges /\ BookBacked
  BY InitSessionInv, InitFit, InitSmall, InitBacked
<1>2. SessionInv /\ FitInv /\ SmallCharges /\ BookBacked /\ ReportsWithinGrants /\ [Next]_vars
        => (SessionInv /\ FitInv /\ SmallCharges /\ BookBacked)'
  BY NextSessionInv, NextFit, NextSmall, NextBacked
<1>3. SessionInv /\ FitInv /\ SmallCharges /\ BookBacked => DebitsFitGrants
  BY FitPaid
<1> QED BY <1>1, <1>2, <1>3, PTL DEF Spec

=============================================================================
