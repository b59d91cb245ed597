----------------------------- MODULE SessionProofs -----------------------------
(***************************************************************************)
(* The charging engine's handlers keep their documents in agreement, for   *)
(* any requests in any order, any number of faults and any number of       *)
(* counters.  The invariant follows a grant id from the handler that draws *)
(* it to the record and the answer: who may hold it, and that nobody else  *)
(* debits or releases it while the answer may still be relied on.          *)
(***************************************************************************)
EXTENDS ChargingSession, QuotaDocumentProofs

-----------------------------------------------------------------------------
\* The requests that leave a record with grants behind.
Opening == {"create", "update"}

\* The grant ids drawn for request q, and those drawn for the requests of
\* session s that have the number n.
Mine(q) == {r \in Ref : drawn[r] = q}

Under(s, n) ==
  {r \in Ref : /\ drawn[r] \in Request
               /\ Requests[drawn[r]].session = s /\ Requests[drawn[r]].seq = n}

\* The grant ids the handler of q may hold: those drawn for it and, if it goes
\* on from a record, those drawn for earlier requests of its session.
MayHold(q) ==
  {r \in Ref : /\ drawn[r] \in Request
               /\ Requests[drawn[r]].session = Requests[q].session
               /\ \/ drawn[r] = q
                  \/ /\ Requests[q].kind \in {"update", "release"}
                     /\ Requests[drawn[r]].seq < Requests[q].seq}

\* A group that is free of charge has no grant ids.
RefsOf(group, R) == IF group \in Free THEN {NoRef} ELSE R

\* Grants, and debits, under the ids R.
GrantOf(R) == [ref : R, seq : Nat, units : Nat, until : Nat]

GrantsOf(R) ==
  {m \in Grants : \A group \in Group : m[group] \in Seq(GrantOf(RefsOf(group, R)))}

ChargeOf(R) == [ref : R, reclaim : BOOLEAN, units : Nat]

\* Where the handler of q is, and the context it carries there.
Carries(q, place, c) ==
  /\ Requests[q].resent => place \in {"idle", "resend", "answered", "failed"}
  /\ place = "resend" => Requests[q].resent
  /\ place = "account" => Kind(q) # "create"
  /\ c.at <= now /\ c.done <= Len(Requests[q].usage)
  /\ c.grants \in GrantsOf(MayHold(q)) /\ c.fresh \in GrantsOf(Mine(q))
  /\ place \in {"load", "account"} => c.fresh = NoGrants
  /\ place = "load" => c.done = 0
  /\ place = "account" /\ c.done > 0 =>
       c.kept \in Seq(GrantOf(RefsOf(UsageGroup(q, c), MayHold(q))))
  /\ c.todo \in Seq(ChargeOf(MayHold(q)))
  /\ c.due \in Seq(MayHold(q) \union {NoRef})
  /\ place \in {"save", "trace"} /\ Kind(q) \in Opening => c.grants \in GrantsOf(Mine(q))

HandlerInv(q) == Carries(q, pc[q], ctx[q])

\* A record was saved by a request of its number that is under way or done, and
\* its grants were made by requests of that number.
RecordInv(s) ==
  LET row == records[s]
  IN  row.there =>
        /\ \E p \in Request :
             /\ Requests[p].session = s /\ Requests[p].seq = row.seq
             /\ ~Requests[p].resent /\ Kind(p) \in Opening /\ pc[p] # "idle"
        /\ row.grants \in GrantsOf(Under(s, row.seq))

\* The units of a grant and how long they last.
Worth(grant) == [units |-> grant.units, until |-> grant.until]

\* Grants that are reserved on a document while they are valid.
Covered(doc, t) ==
  {m \in Grants :
     \A group \in Group \ Free : \A i \in DOMAIN m[group] :
       LET grant == m[group][i]
       IN  Plain(grant.ref) /\ grant.until > t => Backed(doc, grant.ref, Worth(grant))}

CoveredGrants == Covered(quota, now)

\* The record is the one request q left.
Recorded(q) == Row(q).there /\ Row(q).seq = Requests[q].seq

\* From the reservation to the answer, and on: what request q was granted is
\* covered.
Stands(q, place, c, answer) ==
  /\ place = "rate" => c.fresh \in CoveredGrants
  /\ place \in {"save", "trace"} /\ Kind(q) \in Opening => c.grants \in CoveredGrants
  /\ place = "trace" /\ Kind(q) \in Opening /\ Recorded(q) => Row(q).grants = c.grants
  /\ place = "answered" /\ ~Requests[q].resent /\ Kind(q) \in Opening /\ Recorded(q) =>
       /\ Row(q).grants \in GrantsOf(Mine(q)) /\ Row(q).grants \in CoveredGrants
       /\ answer = Answer(q, Row(q).grants)

\* It stands as long as no other request of its number or a later one has begun.
PromiseInv(q) == Later(q) = {} => Stands(q, pc[q], ctx[q], reply[q])

\* The books of the quota, and no reservation under an id that was not drawn.
BooksInv ==
  /\ quota \in SoundDocument /\ journal \in [Counter -> Totals]
  /\ Balanced(quota, journal)
  /\ \A r \in Ref : drawn[r] = 0 => Unheld(quota, r)

\* The inductive invariant.  AnswerIsBacked itself is not inductive: it speaks
\* of requests that were answered and not of what led there, and a debit by
\* another handler would break it if that handler could hold the grant.
SessionInv ==
  /\ SessionTypeOK
  /\ BooksInv
  /\ \A q \in Request : HandlerInv(q)
  /\ \A s \in Session : RecordInv(s)
  /\ \A q \in Request : PromiseInv(q)

-----------------------------------------------------------------------------
\* What is sent, and the numbers of the instance.
LEMMA RequestFact ==
  ASSUME NEW q \in Request
  PROVE  /\ Requests[q].kind \in {"create", "update", "release", "event"}
         /\ Requests[q].session \in Session /\ Requests[q].seq \in Nat
         /\ Requests[q].resent \in BOOLEAN /\ Requests[q].usage \in Seq(Usage)
         /\ Len(Requests[q].usage) \in Nat
         /\ \A i \in 1..Len(Requests[q].usage) :
              /\ Requests[q].usage[i].group \in Group
              /\ Requests[q].usage[i].wanted \in Nat
              /\ Requests[q].usage[i].used \in Seq(UsedUnit)
<1>1. Requests[q].usage \in Seq(Usage)
  BY SessionAssumption
<1>2. \A i \in 1..Len(Requests[q].usage) : Requests[q].usage[i] \in Usage
  BY <1>1
<1>3. Len(Requests[q].usage) \in Nat
  BY <1>1
<1> QED BY <1>1, <1>2, <1>3, SessionAssumption DEF Usage

\* Clocks, counters and bounds are numbers, and no request is number 0.
LEMMA NumberFact ==
  /\ NumRequests \in Nat /\ NumRefs \in Nat /\ MaxTime \in Nat /\ MaxFaults \in Nat
  /\ Validity \in Nat /\ Free \subseteq Group /\ NoRef \notin Ref /\ 0 \notin Request
  /\ \A r \in Ref : r \in Nat
  /\ \A q \in Request : q \in Nat
BY SessionAssumption, SizeAssumption, ValidityAssumption DEF NoRef, Ref, Request

\* A number of units stays one when it is rounded up.
LEMMA NormaliseNat ==
  ASSUME NEW group \in Group, NEW units \in Nat
  PROVE  NormaliseUnits(group, units) \in Nat /\ Taken(group, units) \in Nat
<1>1. PICK least \in Nat, step \in Nat :
        least = Greatest(units, Minimum[group]) /\ step = Increment[group]
  BY SessionAssumption DEF Greatest
<1>2. ASSUME step > 1 PROVE least % step \in Nat /\ least % step <= step
  BY <1>2
<1>3. NormaliseUnits(group, units) =
        IF step <= 1 \/ least % step = 0 THEN least ELSE least + step - (least % step)
  BY <1>1 DEF NormaliseUnits
<1>4. NormaliseUnits(group, units) \in Nat
  <2>1. CASE step <= 1 \/ least % step = 0
    BY <1>3, <2>1
  <2>2. CASE ~(step <= 1 \/ least % step = 0)
    <3>1. step > 1
      BY <2>2
    <3>2. PICK over \in Nat : over = least % step /\ over <= step
      BY <1>2, <3>1
    <3> QED BY <1>3, <2>2, <3>2
  <2> QED BY <2>1, <2>2
<1> QED BY <1>4 DEF Taken

\* Sequences, grants and debits over fewer ids are ones over more.
LEMMA MoreIds ==
  ASSUME NEW R, NEW T, R \subseteq T
  PROVE  /\ Seq(R) \subseteq Seq(T)
         /\ Seq(GrantOf(R)) \subseteq Seq(GrantOf(T))
         /\ Seq(ChargeOf(R)) \subseteq Seq(ChargeOf(T))
         /\ GrantsOf(R) \subseteq GrantsOf(T)
         /\ \A group : Seq(GrantOf(RefsOf(group, R))) \subseteq Seq(GrantOf(RefsOf(group, T)))
<1>1. GrantOf(R) \subseteq GrantOf(T) /\ ChargeOf(R) \subseteq ChargeOf(T)
  BY DEF GrantOf, ChargeOf
<1>2. \A A, B : A \subseteq B => Seq(A) \subseteq Seq(B)
  OBVIOUS
<1>3. ASSUME NEW group
      PROVE  Seq(GrantOf(RefsOf(group, R))) \subseteq Seq(GrantOf(RefsOf(group, T)))
  <2>1. RefsOf(group, R) \subseteq RefsOf(group, T)
    BY DEF RefsOf
  <2>2. GrantOf(RefsOf(group, R)) \subseteq GrantOf(RefsOf(group, T))
    BY <2>1 DEF GrantOf
  <2> QED BY <1>2, <2>2
<1>4. GrantsOf(R) \subseteq GrantsOf(T)
  BY <1>3 DEF GrantsOf
<1> QED BY <1>1, <1>2, <1>3, <1>4

-----------------------------------------------------------------------------
\* What is chosen from a sequence are elements of it, at the indices asked for.
LEMMA ChosenFact ==
  ASSUME NEW S, NEW s \in Seq(S), NEW I \in SUBSET DOMAIN s
  PROVE  /\ Chosen(s, I) \in Seq({s[i] : i \in I})
         /\ Chosen(s, I) \in Seq(S)
<1>0. Len(s) \in Nat
  OBVIOUS
<1>1. PICK X, n : X = Seq({s[i] : i \in I}) /\ n = Len(s) /\ n \in Nat
  BY <1>0
<1>2. PICK body :
        body = [i \in 1..n |-> [rest \in X |-> IF i \in I THEN Append(rest, s[i]) ELSE rest]]
  OBVIOUS
<1>3. <<>> \in X
  BY <1>1
<1>4. body \in [1..n -> [X -> X]]
  <2>1. ASSUME NEW i \in 1..n, NEW rest \in X, i \in I PROVE Append(rest, s[i]) \in X
    BY <1>1, <2>1
  <2> QED BY <1>2, <2>1
<1>5. Loop(n, <<>>, body) \in [0..n -> X]
  BY ONLY <1>1, <1>3, <1>4, LoopRule
<1>6. Chosen(s, I) = Loop(n, <<>>, body)[n]
  <2>1. DOMAIN s = 1..n
    BY <1>1
  <2> QED BY <1>1, <1>2, <2>1 DEF Chosen
<1>7. Chosen(s, I) \in Seq({s[i] : i \in I})
  BY <1>1, <1>5, <1>6
<1>8. {s[i] : i \in I} \subseteq S
  OBVIOUS
<1>9. \A A, B : A \subseteq B => Seq(A) \subseteq Seq(B)
  OBVIOUS
<1> QED BY <1>7, <1>8, <1>9

\* Grants that cover what is taken from each stay grants under the same ids.
LEMMA RestFact ==
  ASSUME NEW R, NEW grants \in Seq(GrantOf(R)), NEW container, NEW taken \in Nat,
         \A i \in DOMAIN grants : grants[i].units >= taken
  PROVE  Rest(grants, container, taken) \in Seq(GrantOf(R))
<1> DEFINE I == {i \in DOMAIN grants : grants[i].units # taken}
<1>1. PICK S, left :
        S = {grants[i] : i \in I} /\ left = Chosen(grants, I) /\ left \in Seq(S)
  BY ChosenFact
<1> HIDE DEF I
<1>2. ASSUME NEW grant \in S
      PROVE  [grant EXCEPT !.units = @ - taken] \in GrantOf(R)
  <2>1. PICK i \in DOMAIN grants : grant = grants[i]
    BY <1>1 DEF I
  <2>2. grant \in GrantOf(R) /\ grant.units >= taken
    BY <2>1
  <2>3. grant.units - taken \in Nat
    BY <2>2 DEF GrantOf
  <2> QED BY <2>2, <2>3 DEF GrantOf
<1>3. [i \in DOMAIN left |-> [left[i] EXCEPT !.units = @ - taken]] \in Seq(GrantOf(R))
  <2>0. left \in Seq(S)
    BY <1>1
  <2>1. \A i \in 1..Len(left) : left[i] \in S
    BY ONLY <2>0
  <2>2. Len(left) \in Nat /\ DOMAIN left = 1..Len(left)
    BY ONLY <2>0
  <2>3. [i \in 1..Len(left) |-> [left[i] EXCEPT !.units = @ - taken]]
          \in [1..Len(left) -> GrantOf(R)]
    BY <1>2, <2>1
  <2> QED BY <2>2, <2>3
<1> QED BY <1>1, <1>3 DEF Rest, I

\* The debits are made under the ids of the grants.
LEMMA ChargesFact ==
  ASSUME NEW R, NEW T, NEW group, group \notin Free => R \subseteq T,
         NEW grants \in Seq(GrantOf(R)), NEW n \in 0..Len(grants),
         NEW container \in UsedUnit, NEW taken \in Nat
  PROVE  Charges(group, grants, n, container, taken) \in Seq(ChargeOf(T))
<1>1. ASSUME group \notin Free, NEW i \in 1..n
      PROVE  [ref |-> grants[i].ref, reclaim |-> container.reclaim, units |-> taken]
               \in ChargeOf(T)
  <2>1. grants[i] \in GrantOf(R)
    OBVIOUS
  <2>2. grants[i].ref \in T
    BY <1>1, <2>1 DEF GrantOf
  <2> QED BY <2>2 DEF ChargeOf, UsedUnit
<1>2. n \in Nat
  OBVIOUS
<1>3. CASE group \notin Free
  <2>1. [i \in 1..n |-> [ref |-> grants[i].ref, reclaim |-> container.reclaim, units |-> taken]]
          \in [1..n -> ChargeOf(T)]
    BY <1>1, <1>3
  <2> QED BY <1>2, <1>3, <2>1 DEF Charges
<1>4. CASE group \in Free
  BY <1>4 DEF Charges
<1> QED BY <1>3, <1>4

\* What the loop over the used containers carries.
PlanOf(R, T) == [grants : Seq(GrantOf(R)), todo : Seq(ChargeOf(T)), fits : BOOLEAN]

\* A container leaves grants under the ids it found, never below zero.
LEMMA ContainerFact ==
  ASSUME NEW R, NEW T, NEW group \in Group, group \notin Free => R \subseteq T,
         NEW plan \in PlanOf(R, T), NEW container \in UsedUnit
  PROVE  ChargeContainer(group, plan, container) \in PlanOf(R, T)
<1>1. PICK grants \in Seq(GrantOf(R)), todo \in Seq(ChargeOf(T)), fits \in BOOLEAN :
        plan = [grants |-> grants, todo |-> todo, fits |-> fits]
  BY DEF PlanOf
<1>2. PICK taken \in Nat : taken = Taken(group, container.units)
  BY NormaliseNat DEF UsedUnit
<1>3. PICK bad : bad = {i \in DOMAIN grants : grants[i].units < taken}
  OBVIOUS
<1>4. PICK least : least = CHOOSE i \in bad : \A j \in bad : i <= j
  OBVIOUS
<1>a. PICK until : until = IF bad = {} THEN Len(grants) ELSE least - 1
  OBVIOUS
<1>5. until \in 0..Len(grants)
  <2>1. bad \subseteq Nat /\ bad \subseteq 1..Len(grants) /\ Len(grants) \in Nat
    BY <1>3
  <2>2. CASE bad # {}
    <3>1. PICK m \in bad : \A y \in bad : m <= y
      BY <2>1, <2>2, LeastOf
    <3>2. least \in bad
      BY <1>4, <3>1
    <3>3. least \in 1..Len(grants)
      BY <2>1, <3>2
    <3> QED BY <1>a, <2>1, <2>2, <3>3
  <2>3. CASE bad = {}
    BY <1>a, <2>1, <2>3
  <2> QED BY <2>2, <2>3
<1>6. ChargeContainer(group, plan, container) =
        IF ~fits \/ container.units = 0
          THEN plan
          ELSE [grants |-> IF bad = {} THEN Rest(grants, container, taken) ELSE grants,
                todo   |-> todo \o Charges(group, grants, until, container, taken),
                fits   |-> bad = {}]
  BY <1>1, <1>2, <1>3, <1>4, <1>a DEF ChargeContainer
<1>7. Charges(group, grants, until, container, taken) \in Seq(ChargeOf(T))
  BY <1>5, ChargesFact
<1>8. ASSUME bad = {} PROVE Rest(grants, container, taken) \in Seq(GrantOf(R))
  <2>1. \A i \in DOMAIN grants : grants[i].units >= taken
    <3>1. \A i \in DOMAIN grants : grants[i] \in GrantOf(R)
      OBVIOUS
    <3> QED BY <1>3, <1>8, <3>1 DEF GrantOf
  <2> QED BY <2>1, RestFact
<1>9. todo \o Charges(group, grants, until, container, taken) \in Seq(ChargeOf(T))
  BY <1>7
<1> QED BY <1>6, <1>8, <1>9 DEF PlanOf

\* One group's grants replaced by others under the same ids.
LEMMA PutGrants ==
  ASSUME NEW M \in SUBSET Ref, NEW m \in GrantsOf(M), NEW group \in Group,
         NEW s \in Seq(GrantOf(RefsOf(group, M)))
  PROVE  [m EXCEPT ![group] = s] \in GrantsOf(M)
<1>1. GrantOf(RefsOf(group, M)) \subseteq Grant
  BY DEF GrantOf, Grant, RefsOf
<1>2. Seq(GrantOf(RefsOf(group, M))) \subseteq Seq(Grant)
  BY <1>1
<1>3. m \in [Group -> Seq(Grant)]
  BY DEF GrantsOf, Grants
<1>4. [m EXCEPT ![group] = s] \in [Group -> Seq(Grant)]
  BY <1>2, <1>3
<1> QED BY <1>3, <1>4 DEF GrantsOf, Grants

\* Going on to the next usage keeps its valid grants and plans its debits, all
\* under the ids the handler had.
LEMMA UsageFact ==
  ASSUME NEW q \in Request, NEW context \in Context, NEW M \in SUBSET Ref,
         context.grants \in GrantsOf(M), context.done < Len(Requests[q].usage)
  PROVE  LET new == NextUsage(q, context)
         IN  /\ new \in Context /\ new.at = context.at /\ new.done = context.done + 1
             /\ new.fresh = context.fresh /\ new.due = context.due
             /\ new.grants \in GrantsOf(M) /\ new.todo \in Seq(ChargeOf(M))
             /\ new.kept \in Seq(GrantOf(RefsOf(UsageGroup(q, new), M)))
<1>1. PICK usage : usage = Requests[q].usage[context.done + 1]
  OBVIOUS
<1>a. /\ usage.group \in Group /\ usage.used \in Seq(UsedUnit)
  <2>1. context.done + 1 \in 1..Len(Requests[q].usage)
    BY RequestFact DEF Context
  <2> QED BY <1>1, <2>1, RequestFact
<1>2. PICK group \in Group : group = usage.group
  BY <1>a
<1>3. PICK n \in Nat, used \in Seq(UsedUnit) :
        n = Len(usage.used) /\ used = usage.used
  <2>1. usage.used \in Seq(UsedUnit)
    BY <1>a
  <2>2. Len(usage.used) \in Nat
    BY <2>1
  <2> QED BY <2>1, <2>2
<1>4. PICK R : R = RefsOf(group, M)
  OBVIOUS
<1>5. PICK valid \in Seq(GrantOf(R)) : valid = ValidGrants(context, group)
  <2>1. context.grants[group] \in Seq(GrantOf(R))
    BY <1>4 DEF GrantsOf
  <2>2. ValidGrants(context, group) \in Seq(GrantOf(R))
    <3> DEFINE grants == context.grants[group]
               I == {i \in DOMAIN grants : grants[i].until > context.at}
    <3>1. I \in SUBSET DOMAIN grants
      OBVIOUS
    <3>2. Chosen(grants, I) \in Seq(GrantOf(R))
      <4> HIDE DEF grants, I
      <4> QED BY <2>1, <3>1, ChosenFact DEF grants
    <3> QED BY <3>2 DEF ValidGrants
  <2> QED BY <2>2
<1>6. PICK first : first = [grants |-> valid, todo |-> <<>>,
                            fits   |-> group \in context.groups \/ usage.used = <<>>]
  OBVIOUS
<1>7. PICK body : body = [i \in 1..n |-> [plan \in Plan |->
                            ChargeContainer(group, plan, used[i])]]
  OBVIOUS
<1>8. GrantOf(Ref \union {NoRef}) = Grant /\ ChargeOf(Ref \union {NoRef}) = Charge
  BY DEF GrantOf, Grant, ChargeOf, Charge
<1>9. Plan = PlanOf(Ref \union {NoRef}, Ref \union {NoRef})
  BY <1>8 DEF Plan, PlanOf
<1>10. \A i \in 1..n : used[i] \in UsedUnit
  <2>1. n = Len(used)
    BY <1>3
  <2>2. \A i \in 1..Len(used) : used[i] \in UsedUnit
    OBVIOUS
  <2> QED BY <2>1, <2>2
<1>11. body \in [1..n -> [Plan -> Plan]]
  <2>1. ASSUME NEW i \in 1..n, NEW plan \in Plan
        PROVE  ChargeContainer(group, plan, used[i]) \in Plan
    BY <1>9, <1>10, ContainerFact
  <2> QED BY <1>7, <2>1
<1>12. PICK P : P = PlanOf(R, M)
  OBVIOUS
<1>13. P \subseteq Plan
  <2>1. R \subseteq Ref \union {NoRef} /\ M \subseteq Ref \union {NoRef}
    BY <1>4 DEF RefsOf
  <2>2. Seq(GrantOf(R)) \subseteq Seq(Grant) /\ Seq(ChargeOf(M)) \subseteq Seq(Charge)
    BY <1>8, <2>1, MoreIds
  <2> QED BY <1>12, <2>2 DEF PlanOf, Plan
<1>14. first \in P
  <2>1. <<>> \in Seq(ChargeOf(M))
    OBVIOUS
  <2>2. (group \in context.groups \/ usage.used = <<>>) \in BOOLEAN
    OBVIOUS
  <2> QED BY <1>6, <1>12, <2>1, <2>2 DEF PlanOf
<1>15. PICK at \in [0..n -> Plan] :
         /\ at = Loop(n, first, body) /\ at[0] = first
         /\ \A k \in 1..n : at[k] = body[k][at[k - 1]]
  <2>1. first \in Plan
    BY <1>13, <1>14
  <2>2. n \in Nat
    OBVIOUS
  <2>3. Loop(n, first, body) \in [0..n -> Plan]
    BY ONLY <1>11, <2>1, <2>2, LoopRule
  <2>4. Loop(n, first, body)[0] = first
    BY ONLY <1>11, <2>1, <2>2, LoopRule
  <2>5. \A k \in 1..n : Loop(n, first, body)[k] = body[k][Loop(n, first, body)[k - 1]]
    BY ONLY <1>11, <2>1, <2>2, LoopRule
  <2> QED BY <2>3, <2>4, <2>5
<1>16. at[n] \in P
  <2> DEFINE S == {k \in 0..n : at[k] \in P}
  <2>1. 0 \in S
    BY <1>14, <1>15
  <2>2. ASSUME NEW k \in 1..n, k - 1 \in S PROVE k \in S
    <3>1. at[k - 1] \in P /\ at[k - 1] \in Plan
      BY <1>13, <2>2
    <3>2. at[k] = ChargeContainer(group, at[k - 1], used[k])
      BY <1>7, <1>15, <3>1
    <3>3. group \notin Free => R \subseteq M
      BY <1>4 DEF RefsOf
    <3>4. at[k] \in P
      BY <1>10, <1>12, <3>1, <3>2, <3>3, ContainerFact
    <3> QED BY <3>4
  <2>3. \A k \in 0..n : k \in S
    <3> HIDE DEF S
    <3> QED BY <2>1, <2>2, UpTo
  <2> QED BY <2>3
<1>17. PICK grants \in GrantsOf(M) : grants = [context.grants EXCEPT ![group] = valid]
  BY <1>4, PutGrants
<1>18. NextUsage(q, context) =
         [context EXCEPT !.done = @ + 1, !.grants = grants, !.todo = at[n].todo,
                         !.kept = at[n].grants, !.fits = at[n].fits]
  <2>1. DOMAIN usage.used = 1..n
    BY <1>3
  <2>2. [i \in DOMAIN usage.used |-> [plan \in Plan |->
           ChargeContainer(usage.group, plan, usage.used[i])]] = body
    BY <1>2, <1>3, <1>7, <2>1
  <2>3. [grants |-> ValidGrants(context, usage.group), todo |-> <<>>,
         fits   |-> usage.group \in context.groups \/ usage.used = <<>>] = first
    BY <1>2, <1>5, <1>6
  <2>4. NextUsage(q, context) =
          [context EXCEPT !.done = @ + 1,
                          !.grants[usage.group] = ValidGrants(context, usage.group),
                          !.todo = Loop(Len(usage.used), first, body)[Len(usage.used)].todo,
                          !.kept = Loop(Len(usage.used), first, body)[Len(usage.used)].grants,
                          !.fits = Loop(Len(usage.used), first, body)[Len(usage.used)].fits]
    BY <1>1, <2>2, <2>3 DEF NextUsage
  <2>5. Loop(Len(usage.used), first, body)[Len(usage.used)] = at[n]
    BY <1>3, <1>15
  <2> QED BY <1>2, <1>5, <1>17, <2>4, <2>5
<1>19. PICK todo \in Seq(ChargeOf(M)), kept \in Seq(GrantOf(R)), fits \in BOOLEAN :
         todo = at[n].todo /\ kept = at[n].grants /\ fits = at[n].fits
  BY <1>12, <1>16 DEF PlanOf
<1>20. PICK done \in Nat : done = context.done + 1
  BY DEF Context
<1>21. grants \in Grants /\ todo \in Seq(Charge) /\ kept \in Seq(Grant)
  <2>1. M \subseteq Ref \union {NoRef} /\ R \subseteq Ref \union {NoRef}
    BY <1>4 DEF RefsOf
  <2>2. Seq(GrantOf(R)) \subseteq Seq(Grant) /\ Seq(ChargeOf(M)) \subseteq Seq(Charge)
    BY <1>8, <2>1, MoreIds
  <2> QED BY <2>2 DEF GrantsOf
<1>22. PICK new : new = [context EXCEPT !.done = done, !.grants = grants, !.todo = todo,
                                       !.kept = kept, !.fits = fits]
  OBVIOUS
<1>23. new = NextUsage(q, context)
  BY <1>18, <1>19, <1>20, <1>22
<1>24. new \in Context
  BY <1>21, <1>22 DEF Context
<1>25. /\ new.at = context.at /\ new.done = done /\ new.fresh = context.fresh
       /\ new.due = context.due /\ new.grants = grants /\ new.todo = todo
       /\ new.kept = kept
  BY <1>22 DEF Context
<1>26. UsageGroup(q, new) = group
  BY <1>1, <1>2, <1>20, <1>25 DEF UsageGroup
<1> QED BY <1>4, <1>20, <1>23, <1>24, <1>25, <1>26

\* When the debits of a usage are done, its grants are those the plan left.
LEMMA SettledFact ==
  ASSUME NEW q \in Request, NEW context \in Context, NEW M \in SUBSET Ref,
         context.grants \in GrantsOf(M), context.done <= Len(Requests[q].usage),
         context.done > 0 => context.kept \in Seq(GrantOf(RefsOf(UsageGroup(q, context), M)))
  PROVE  LET new == Settled(q, context)
         IN  /\ new \in Context /\ new.at = context.at /\ new.done = context.done
             /\ new.fresh = context.fresh /\ new.due = context.due
             /\ new.todo = context.todo /\ new.grants \in GrantsOf(M)
<1>1. CASE context.done = 0
  BY <1>1 DEF Settled
<1>2. CASE context.done # 0
  <2>1. UsageGroup(q, context) \in Group
    BY <1>2, RequestFact DEF UsageGroup, Context
  <2>2. context.kept \in Seq(GrantOf(RefsOf(UsageGroup(q, context), M)))
    BY <1>2 DEF Context
  <2>3. PICK grants \in GrantsOf(M) :
          grants = [context.grants EXCEPT ![UsageGroup(q, context)] = context.kept]
    BY <2>1, <2>2, PutGrants
  <2>a. <<>> \in Seq(Grant)
    OBVIOUS
  <2>4. PICK kept \in Seq(Grant) : kept = <<>>
    BY <2>a
  <2>5. grants \in Grants
    BY DEF GrantsOf
  <2>6. PICK new : new = [context EXCEPT !.grants = grants, !.kept = kept]
    OBVIOUS
  <2>7. new = Settled(q, context)
    BY <1>2, <2>3, <2>4, <2>6 DEF Settled
  <2>8. new \in Context
    BY <2>5, <2>6 DEF Context
  <2>9. /\ new.at = context.at /\ new.done = context.done /\ new.fresh = context.fresh
        /\ new.due = context.due /\ new.todo = context.todo /\ new.grants = grants
    BY <2>6 DEF Context
  <2> QED BY <2>7, <2>8, <2>9
<1> QED BY <1>1, <1>2

\* What is to be released are ids the handler had.
LEMMA DueFact ==
  ASSUME NEW q \in Request, NEW M \in SUBSET Ref, NEW grants \in GrantsOf(M),
         NEW I \in SUBSET DOMAIN Requests[q].usage,
         \A i \in I : grants[Requests[q].usage[i].group] # <<>>
  PROVE  LET released == Chosen(Requests[q].usage, I)
         IN  [i \in DOMAIN released |-> grants[released[i].group][1].ref]
               \in Seq(M \union {NoRef})
<1>1. PICK usage \in Seq(Usage) : usage = Requests[q].usage
  BY RequestFact
<1>2. PICK S : S = {usage[i] : i \in I}
  OBVIOUS
<1>a. I \in SUBSET DOMAIN usage /\ \A i \in I : usage[i].group \in Group
  <2>1. I \in SUBSET DOMAIN usage
    BY <1>1
  <2>2. \A i \in DOMAIN usage : usage[i] \in Usage
    OBVIOUS
  <2> QED BY <2>1, <2>2 DEF Usage
<1>3. PICK released \in Seq(S) : released = Chosen(usage, I)
  <2>1. Chosen(usage, I) \in Seq({usage[i] : i \in I})
    BY <1>a, ChosenFact
  <2> QED BY <1>2, <2>1
<1>4. ASSUME NEW u \in S PROVE grants[u.group][1].ref \in M \union {NoRef}
  <2>1. PICK i \in I : u = usage[i]
    BY <1>2
  <2>2. u.group \in Group
    BY <1>a, <2>1
  <2>3. grants[u.group] # <<>>
    BY <1>1, <2>1
  <2>4. grants[u.group] \in Seq(GrantOf(RefsOf(u.group, M)))
    BY <2>2 DEF GrantsOf
  <2>5. grants[u.group][1] \in GrantOf(RefsOf(u.group, M))
    BY <2>3, <2>4
  <2> QED BY <2>5 DEF GrantOf, RefsOf
<1>5. \A i \in 1..Len(released) : released[i] \in S
  OBVIOUS
<1>6. Len(released) \in Nat /\ DOMAIN released = 1..Len(released)
  OBVIOUS
<1>7. [i \in 1..Len(released) |-> grants[released[i].group][1].ref]
        \in [1..Len(released) -> M \union {NoRef}]
  BY <1>4, <1>5
<1>8. [i \in 1..Len(released) |-> grants[released[i].group][1].ref] \in Seq(M \union {NoRef})
  BY <1>6, <1>7
<1> QED BY <1>1, <1>3, <1>6, <1>8

-----------------------------------------------------------------------------
\* What every step has in common: a handler that was begun stays begun, a
\* grant id stays with the request it was drawn for, and time does not go back.
Progress ==
  /\ \A p \in Request : pc[p] # "idle" => pc'[p] # "idle"
  /\ \A r \in Ref : drawn[r] # 0 => drawn'[r] = drawn[r]
  /\ now <= now'

\* With a step, a handler may hold more ids and has more handlers after it.
LEMMA MoreHeld ==
  ASSUME SessionTypeOK, Progress, NEW q \in Request
  PROVE  /\ Mine(q) \subseteq Mine(q)' /\ MayHold(q) \subseteq MayHold(q)'
         /\ \A s, n : Under(s, n) \subseteq Under(s, n)'
         /\ Later(q) \subseteq Later(q)'
<1>1. \A r \in Ref : drawn[r] \in Request => drawn'[r] = drawn[r]
  BY NumberFact DEF Progress
<1>2. Mine(q) \subseteq Mine(q)'
  BY <1>1 DEF Mine
<1>3. MayHold(q) \subseteq MayHold(q)'
  BY <1>1 DEF MayHold
<1>4. ASSUME NEW s, NEW n PROVE Under(s, n) \subseteq Under(s, n)'
  BY <1>1 DEF Under
<1>5. Later(q) \subseteq Later(q)'
  BY DEF Later, Progress
<1> QED BY <1>2, <1>3, <1>4, <1>5

\* The ids drawn for a request are ids its handler may hold and ids of its
\* number, and all are grant ids.
LEMMA MineHeld ==
  ASSUME NEW q \in Request
  PROVE  /\ Mine(q) \subseteq MayHold(q) /\ MayHold(q) \subseteq Ref
         /\ Mine(q) \subseteq Under(Requests[q].session, Requests[q].seq)
         /\ \A s, n : Under(s, n) \subseteq Ref
BY DEF Mine, MayHold, Under

\* A handler that does not move holds what it may hold.
LEMMA HandlerStays ==
  ASSUME SessionTypeOK, SessionTypeOK', Progress, NEW q \in Request, HandlerInv(q),
         pc'[q] = pc[q], ctx'[q] = ctx[q]
  PROVE  HandlerInv(q)'
<1>1. PICK c \in Context : c = ctx[q] /\ c = ctx'[q]
  BY DEF SessionTypeOK
<1>2. c.at <= now'
  <2>1. c.at \in Nat /\ now \in Nat /\ now' \in Nat
    BY NumberFact DEF SessionTypeOK, Context
  <2> QED BY <1>1, <2>1 DEF HandlerInv, Carries, Progress
<1>3. Mine(q) \subseteq Mine(q)' /\ MayHold(q) \subseteq MayHold(q)'
  BY MoreHeld
<1>4. PICK A, B : A = MayHold(q) /\ B = MayHold(q)' /\ A \subseteq B
  BY <1>3
<1>5. PICK D, E : D = Mine(q) /\ E = Mine(q)' /\ D \subseteq E
  BY <1>3
<1>6. GrantsOf(A) \subseteq GrantsOf(B) /\ GrantsOf(D) \subseteq GrantsOf(E)
  BY <1>4, <1>5, MoreIds
<1>7. Seq(ChargeOf(A)) \subseteq Seq(ChargeOf(B))
  BY <1>4, MoreIds
<1>8. Seq(A \union {NoRef}) \subseteq Seq(B \union {NoRef})
  <2>1. A \union {NoRef} \subseteq B \union {NoRef}
    BY <1>4
  <2> QED BY <2>1, MoreIds
<1>9. \A group : Seq(GrantOf(RefsOf(group, A))) \subseteq Seq(GrantOf(RefsOf(group, B)))
  BY <1>4, MoreIds
<1>10. c.grants \in GrantsOf(MayHold(q)') /\ c.fresh \in GrantsOf(Mine(q)')
  BY <1>1, <1>4, <1>5, <1>6 DEF HandlerInv, Carries
<1>11. pc[q] = "account" /\ c.done > 0 =>
         c.kept \in Seq(GrantOf(RefsOf(UsageGroup(q, c), MayHold(q)')))
  BY <1>1, <1>4, <1>9 DEF HandlerInv, Carries
<1>12. c.todo \in Seq(ChargeOf(MayHold(q)')) /\ c.due \in Seq(MayHold(q)' \union {NoRef})
  BY <1>1, <1>4, <1>7, <1>8 DEF HandlerInv, Carries
<1>13. pc[q] \in {"save", "trace"} /\ Kind(q) \in Opening => c.grants \in GrantsOf(Mine(q)')
  BY <1>1, <1>5, <1>6 DEF HandlerInv, Carries
<1>14. /\ Requests[q].resent => pc[q] \in {"idle", "resend", "answered", "failed"}
       /\ pc[q] = "resend" => Requests[q].resent
       /\ pc[q] = "account" => Kind(q) # "create"
       /\ pc[q] \in {"load", "account"} => c.fresh = NoGrants
       /\ pc[q] = "load" => c.done = 0
       /\ c.done <= Len(Requests[q].usage)
  BY <1>1 DEF HandlerInv, Carries
<1> QED BY <1>1, <1>2, <1>10, <1>11, <1>12, <1>13, <1>14 DEF HandlerInv, Carries

\* A record that is not touched keeps its writer and its ids.
LEMMA RecordStays ==
  ASSUME SessionTypeOK, SessionTypeOK', Progress, NEW s \in Session, RecordInv(s),
         records'[s] = records[s] \/ ~records'[s].there
  PROVE  RecordInv(s)'
<1>1. CASE ~records'[s].there
  BY <1>1 DEF RecordInv
<1>2. CASE records'[s] = records[s] /\ records[s].there
  <2>1. PICK row : row = records[s] /\ row = records'[s]
    BY <1>2
  <2>2. Under(s, row.seq) \subseteq Under(s, row.seq)'
    <3>1. \A r \in Ref : drawn[r] \in Request => drawn'[r] = drawn[r]
      BY NumberFact DEF Progress
    <3> QED BY <3>1 DEF Under
  <2>3. GrantsOf(Under(s, row.seq)) \subseteq GrantsOf(Under(s, row.seq)')
    BY <2>2, MoreIds
  <2>4. row.grants \in GrantsOf(Under(s, row.seq)')
    BY <1>2, <2>1, <2>3 DEF RecordInv
  <2>5. \E p \in Request :
          /\ Requests[p].session = s /\ Requests[p].seq = row.seq
          /\ ~Requests[p].resent /\ Kind(p) \in Opening /\ pc'[p] # "idle"
    BY <1>2, <2>1 DEF RecordInv, Progress
  <2> QED BY <2>1, <2>4, <2>5 DEF RecordInv
<1> QED BY <1>1, <1>2

\* The grants of request q are reserved after the step as they were before it,
\* if no other request has begun that could draw on them.
KeepsMine(q) ==
  Later(q)' = {} =>
    \A r \in Mine(q), grant \in Promise :
      grant.until > now' /\ Backed(quota, r, grant) => Backed(quota', r, grant)

\* Grants of q that were covered still are.
LEMMA CoveredStays ==
  ASSUME SessionTypeOK, SessionTypeOK', Progress, NEW q \in Request, KeepsMine(q),
         Later(q)' = {}, NEW m \in GrantsOf(Mine(q)), m \in CoveredGrants
  PROVE  m \in CoveredGrants'
<1>1. now \in Nat /\ now' \in Nat /\ now <= now'
  BY NumberFact DEF SessionTypeOK, Progress
<1>2. ASSUME NEW group \in Group \ Free, NEW i \in DOMAIN m[group],
             NEW grant, grant = m[group][i], Plain(grant.ref), grant.until > now'
      PROVE  Backed(quota', grant.ref, Worth(grant))
  <2>1. m[group] \in Seq(GrantOf(Mine(q)))
    BY DEF GrantsOf, RefsOf
  <2>2. grant \in GrantOf(Mine(q))
    BY <1>2, <2>1
  <2>3. grant.ref \in Mine(q) /\ grant.units \in Nat /\ grant.until \in Nat
    BY <2>2 DEF GrantOf
  <2>4. Worth(grant) \in Promise /\ Worth(grant).until = grant.until
    BY <2>3 DEF Worth, Promise
  <2>5. grant.until > now
    BY <1>1, <1>2, <2>3
  <2>6. Backed(quota, grant.ref, Worth(grant))
    BY <1>2, <2>5 DEF CoveredGrants, Covered
  <2> QED BY <1>2, <2>3, <2>4, <2>6 DEF KeepsMine
<1> QED BY <1>2 DEF CoveredGrants, Covered

\* A handler that does not move keeps its promise if its grants are kept and
\* its record, as long as it is the one it left, is not touched.
LEMMA PromiseStays ==
  ASSUME SessionTypeOK, SessionTypeOK', Progress, NEW q \in Request,
         HandlerInv(q), PromiseInv(q), KeepsMine(q),
         pc'[q] = pc[q], ctx'[q] = ctx[q], reply'[q] = reply[q],
         Later(q)' = {} /\ Recorded(q)' => Row(q)' = Row(q)
  PROVE  PromiseInv(q)'
<1> SUFFICES ASSUME Later(q)' = {} PROVE PromiseInv(q)'
  BY DEF PromiseInv, Stands
<1>1. Later(q) = {} /\ Mine(q) \subseteq Mine(q)'
  BY MoreHeld
<1>2. GrantsOf(Mine(q)) \subseteq GrantsOf(Mine(q)')
  BY <1>1, MoreIds
<1>3. pc'[q] = "rate" => ctx'[q].fresh \in CoveredGrants'
  BY <1>1, CoveredStays DEF HandlerInv, Carries, PromiseInv, Stands
<1>4. pc'[q] \in {"save", "trace"} /\ Kind(q) \in Opening => ctx'[q].grants \in CoveredGrants'
  BY <1>1, CoveredStays DEF HandlerInv, Carries, PromiseInv, Stands
<1>5. Recorded(q)' => Row(q)' = Row(q) /\ Recorded(q)
  BY DEF Recorded
<1>6. pc'[q] = "trace" /\ Kind(q) \in Opening /\ Recorded(q)' => Row(q)'.grants = ctx'[q].grants
  BY <1>1, <1>5 DEF PromiseInv, Stands
<1>7. ASSUME pc'[q] = "answered", ~Requests[q].resent, Kind(q) \in Opening, Recorded(q)'
      PROVE  /\ Row(q)'.grants \in GrantsOf(Mine(q)') /\ Row(q)'.grants \in CoveredGrants'
             /\ reply'[q] = Answer(q, Row(q)'.grants)
  <2>1. /\ Row(q).grants \in GrantsOf(Mine(q)) /\ Row(q).grants \in CoveredGrants
        /\ reply[q] = Answer(q, Row(q).grants)
    BY <1>1, <1>5, <1>7 DEF PromiseInv, Stands
  <2>2. Row(q).grants \in CoveredGrants'
    BY <2>1, CoveredStays
  <2> QED BY <1>2, <1>5, <1>7, <2>1, <2>2
<1> QED BY <1>3, <1>4, <1>6, <1>7 DEF PromiseInv, Stands

\* What is left to show of a step: the handlers it moves, the record it
\* writes, the books, and that it keeps what the other handlers granted.
LEMMA StepInv ==
  ASSUME SessionInv, SessionTypeOK', Progress, BooksInv', NEW Q \in SUBSET Request,
         \A p \in Q : HandlerInv(p)' /\ PromiseInv(p)',
         \A p \in Request \ Q :
           /\ pc'[p] = pc[p] /\ ctx'[p] = ctx[p] /\ reply'[p] = reply[p]
           /\ KeepsMine(p)
           /\ Later(p)' = {} /\ Recorded(p)' => Row(p)' = Row(p),
         \A s \in Session :
           records'[s] = records[s] \/ ~records'[s].there \/ RecordInv(s)'
  PROVE  SessionInv'
<1>1. \A p \in Request : HandlerInv(p)'
  BY HandlerStays DEF SessionInv
<1>2. \A s \in Session : RecordInv(s)'
  BY RecordStays DEF SessionInv
<1>3. \A p \in Request : PromiseInv(p)'
  BY PromiseStays DEF SessionInv
<1> QED BY <1>1, <1>2, <1>3 DEF SessionInv

\* A step of a handler that does not call the quota and leaves the records.
LEMMA HandlerStep ==
  ASSUME SessionInv, SessionTypeOK', NEW q \in Request,
         UNCHANGED <<quota, journal, drawn, records, now>>,
         \A p \in Request \ {q} :
           pc'[p] = pc[p] /\ ctx'[p] = ctx[p] /\ reply'[p] = reply[p],
         pc'[q] # "idle", HandlerInv(q)', PromiseInv(q)'
  PROVE  SessionInv'
<1>1. Progress
  BY NumberFact DEF Progress, SessionInv, SessionTypeOK
<1>2. BooksInv'
  BY DEF SessionInv, BooksInv
<1>3. \A p \in Request : KeepsMine(p)
  BY DEF KeepsMine
<1>4. \A p \in Request : Row(p)' = Row(p)
  BY DEF Row
<1>5. PICK Q \in SUBSET Request : Q = {q}
  OBVIOUS
<1>6. \A p \in Q : HandlerInv(p)' /\ PromiseInv(p)'
  BY <1>5
<1>7. \A p \in Request \ Q :
        /\ pc'[p] = pc[p] /\ ctx'[p] = ctx[p] /\ reply'[p] = reply[p]
        /\ KeepsMine(p)
        /\ Later(p)' = {} /\ Recorded(p)' => Row(p)' = Row(p)
  BY <1>3, <1>4, <1>5
<1>8. \A s \in Session :
        records'[s] = records[s] \/ ~records'[s].there \/ RecordInv(s)'
  OBVIOUS
<1> QED BY <1>1, <1>2, <1>6, <1>7, <1>8, StepInv

\* A call on the quota keeps the books.
LEMMA CallBooks ==
  ASSUME BooksInv, NEW call, Accounts(quota, call), Apply(call),
         \A r \in Ref : drawn'[r] = 0 =>
           drawn[r] = 0 /\ (Unheld(quota, r) => Unheld(call.doc, r))
  PROVE  BooksInv'
<1>1. /\ quota \in SoundDocument /\ journal \in [Counter -> Totals]
      /\ Balanced(quota, journal)
  BY DEF BooksInv
<1>2. /\ PostLate(PostEarly(journal, call.early), call.late) \in [Counter -> Totals]
      /\ Balanced(call.doc, PostLate(PostEarly(journal, call.early), call.late))
  BY <1>1, PostBalanced
<1>3. /\ quota' = call.doc /\ call.doc \in SoundDocument
      /\ journal' = PostLate(PostEarly(journal, call.early), call.late)
  BY DEF Apply, Accounts
<1>4. \A r \in Ref : drawn'[r] = 0 => Unheld(quota', r)
  BY <1>3 DEF BooksInv
<1> QED BY <1>2, <1>3, <1>4 DEF BooksInv

-----------------------------------------------------------------------------
\* The handler of q moves to a place with a context and an answer.
Moves(q, place, c, answer) ==
  /\ pc' = [pc EXCEPT ![q] = place]
  /\ ctx' = [ctx EXCEPT ![q] = c]
  /\ reply' = [reply EXCEPT ![q] = answer]

Places ==
  Steps \union {"idle", "resend", "cleanup", "answered", "failed", "crashed"}

\* Where a move leaves the handlers.
LEMMA MoveFact ==
  ASSUME SessionTypeOK, NEW q \in Request, NEW place \in Places, NEW c \in Context,
         NEW answer \in Seq(Nat), Moves(q, place, c, answer)
  PROVE  /\ pc' \in [Request -> Places] /\ ctx' \in [Request -> Context]
         /\ reply' \in [Request -> Seq(Nat)]
         /\ pc'[q] = place /\ ctx'[q] = c /\ reply'[q] = answer
         /\ \A p \in Request \ {q} :
              pc'[p] = pc[p] /\ ctx'[p] = ctx[p] /\ reply'[p] = reply[p]
BY DEF SessionTypeOK, Places, Moves

\* A step of a handler that does not call the quota and leaves the records: the
\* context it goes on with and the answer it gives are all there is to look at.
LEMMA HandlerMove ==
  ASSUME SessionInv, NEW q \in Request, NEW place \in Places \ {"idle"}, NEW c \in Context,
         NEW answer \in Seq(Nat), Moves(q, place, c, answer),
         UNCHANGED <<quota, journal, book, drawn, records, now, pass>>,
         faults' \in 0..MaxFaults,
         \A t \in traces' : t.session \in Session /\ t.seq \in Nat /\ t.answer \in Seq(Nat),
         Carries(q, place, c), Later(q) = {} => Stands(q, place, c, answer)
  PROVE  SessionInv'
<1>1. SessionTypeOK
  BY DEF SessionInv
<1>2. /\ pc' \in [Request -> Places] /\ ctx' \in [Request -> Context]
      /\ reply' \in [Request -> Seq(Nat)]
      /\ pc'[q] = place /\ ctx'[q] = c /\ reply'[q] = answer
      /\ \A p \in Request \ {q} :
           pc'[p] = pc[p] /\ ctx'[p] = ctx[p] /\ reply'[p] = reply[p]
  BY <1>1, MoveFact
<1>3. SessionTypeOK'
  BY <1>1, <1>2 DEF SessionTypeOK, Places
<1>4. Progress
  BY <1>1, <1>2, NumberFact DEF Progress, SessionTypeOK
<1>5. Mine(q)' = Mine(q) /\ MayHold(q)' = MayHold(q)
  BY DEF Mine, MayHold
<1>6. HandlerInv(q)'
  BY <1>2, <1>5 DEF HandlerInv, Carries
<1>7. PromiseInv(q)'
  <2>1. Later(q)' = {} => Later(q) = {}
    BY <1>1, <1>4, MoreHeld
  <2>2. CoveredGrants' = CoveredGrants /\ Row(q)' = Row(q) /\ (Recorded(q)' <=> Recorded(q))
    BY DEF CoveredGrants, Covered, Recorded, Row
  <2> QED BY <1>2, <1>5, <2>1, <2>2 DEF PromiseInv, Stands
<1> QED BY <1>2, <1>3, <1>6, <1>7, HandlerStep

\* A call keeps the grants of request p unless it is made under one of its ids.
LEMMA CallKeepsMine ==
  ASSUME SessionInv, NEW R \in SUBSET Ref, NEW t \in Nat, t <= now, now' = now,
         NEW call, Apply(call),
         \A r \in Ref \ R : KeepsGrant(quota, call.doc, r, t),
         NEW p \in Request, Later(p)' = {} => R \intersect Mine(p) = {}
  PROVE  KeepsMine(p)
<1> SUFFICES ASSUME Later(p)' = {}, NEW r \in Mine(p), NEW grant \in Promise,
                    grant.until > now', Backed(quota, r, grant)
             PROVE  Backed(quota', r, grant)
  BY DEF KeepsMine
<1>1. r \in Ref \ R
  BY DEF Mine
<1>2. grant.until > t
  <2>1. grant.until \in Nat /\ now \in Nat
    BY NumberFact DEF Promise, SessionInv, SessionTypeOK
  <2> QED BY <2>1
<1>3. quota' = call.doc
  BY DEF Apply
<1> QED BY <1>1, <1>2, <1>3 DEF KeepsGrant

\* A call on the quota on behalf of the handlers Q, under the ids R, at t: the
\* handlers that are relied on have none of them.
LEMMA CallStep ==
  ASSUME SessionInv, SessionTypeOK', Progress, NEW Q \in SUBSET Request,
         NEW R \in SUBSET Ref, NEW t \in Nat, t <= now,
         NEW call, Accounts(quota, call), Apply(call),
         \A r \in Ref \ R : KeepsGrant(quota, call.doc, r, t),
         \A r \in Ref : drawn'[r] = 0 => drawn[r] = 0 /\ r \notin R,
         UNCHANGED <<records, now>>,
         \A p \in Q : HandlerInv(p)' /\ PromiseInv(p)',
         \A p \in Request \ Q :
           /\ pc'[p] = pc[p] /\ ctx'[p] = ctx[p] /\ reply'[p] = reply[p]
           /\ Later(p)' = {} => R \intersect Mine(p) = {}
  PROVE  SessionInv'
<1>1. BooksInv'
  BY CallBooks DEF KeepsGrant, SessionInv
<1>2. ASSUME NEW p \in Request \ Q PROVE KeepsMine(p)
  BY CallKeepsMine
<1>3. \A p \in Request \ Q :
        /\ pc'[p] = pc[p] /\ ctx'[p] = ctx[p] /\ reply'[p] = reply[p]
        /\ KeepsMine(p)
        /\ Later(p)' = {} /\ Recorded(p)' => Row(p)' = Row(p)
  BY <1>2 DEF Row
<1>4. \A s \in Session :
        records'[s] = records[s] \/ ~records'[s].there \/ RecordInv(s)'
  OBVIOUS
<1> QED BY <1>1, <1>3, <1>4, StepInv

-----------------------------------------------------------------------------
\* What stays is what it was; the parts of a handler that a step does not name.
LEMMA StayFact ==
  ASSUME SessionTypeOK, NEW q \in Request
  PROVE  /\ pc[q] \in Places /\ ctx[q] \in Context /\ reply[q] \in Seq(Nat)
         /\ pc' = pc => Goto(q, pc[q])
         /\ ctx' = ctx => Put(q, ctx[q])
         /\ \A place, c : Goto(q, place) /\ Put(q, c) /\ reply' = reply
                            => Moves(q, place, c, reply[q])
BY DEF SessionTypeOK, Places, Goto, Put, Moves

\* No grants are grants under any ids, and they are covered.
LEMMA EmptyFact ==
  /\ \A M : NoGrants \in GrantsOf(M)
  /\ NoGrants \in CoveredGrants /\ NoContext \in Context
<1>1. NoGrants \in Grants
  BY DEF NoGrants, Grants
<1>2. \A group \in Group : NoGrants[group] = <<>>
  BY DEF NoGrants
<1>3. ASSUME NEW M PROVE NoGrants \in GrantsOf(M)
  <2>1. ASSUME NEW group \in Group PROVE NoGrants[group] \in Seq(GrantOf(RefsOf(group, M)))
    <3>1. <<>> \in Seq(GrantOf(RefsOf(group, M)))
      OBVIOUS
    <3> QED BY <1>2, <3>1
  <2> QED BY <1>1, <2>1 DEF GrantsOf
<1>4. NoGrants \in CoveredGrants
  BY <1>1, <1>2 DEF CoveredGrants, Covered
<1>5. NoContext \in Context
  BY <1>1, NumberFact DEF NoContext, Context
<1> QED BY <1>3, <1>4, <1>5

\* A context without grants can be carried to any place where nothing is debited.
LEMMA CarriesNothing ==
  ASSUME SessionTypeOK, NEW q \in Request, NEW place,
         NEW c, c = NoContext \/ c = [NoContext EXCEPT !.at = now],
         Requests[q].resent => place \in {"idle", "resend", "answered", "failed"},
         place = "resend" => Requests[q].resent, place # "account"
  PROVE  c \in Context /\ Carries(q, place, c)
<1>1. now \in 0..MaxTime /\ now \in Nat /\ 0 \in 0..MaxTime /\ 0 <= now
  BY NumberFact DEF SessionTypeOK
<1>2. /\ c.at = 0 \/ c.at = now
      /\ c.grants = NoGrants /\ c.fresh = NoGrants /\ c.done = 0
      /\ c.todo = <<>> /\ c.due = <<>>
  BY DEF NoContext
<1>3. c \in Context
  BY <1>1, EmptyFact DEF NoContext, Context
<1>4. 0 <= Len(Requests[q].usage)
  BY RequestFact
<1>5. Carries(q, place, c)
  BY <1>1, <1>2, <1>4, EmptyFact DEF Carries
<1> QED BY <1>3, <1>5

\* A handler that begins holds nothing.
LEMMA BeginInv ==
  ASSUME SessionInv, NEW q \in Request, Begin(q)
  PROVE  SessionInv'
<1>1. SessionTypeOK /\ now \in 0..MaxTime /\ now \in Nat
  BY NumberFact DEF SessionInv, SessionTypeOK
<1>2. PICK place : /\ place = IF Requests[q].resent THEN "resend" ELSE "load"
                   /\ place \in Places \ {"idle"}
  BY DEF Places, Steps
<1>3. PICK c : c = [NoContext EXCEPT !.at = now]
  OBVIOUS
<1>4. c \in Context /\ Carries(q, place, c)
  BY <1>1, <1>2, <1>3, CarriesNothing
<1>5. Moves(q, place, c, reply[q]) /\ reply[q] \in Seq(Nat)
  BY <1>1, <1>2, <1>3, StayFact DEF Begin
<1>6. Stands(q, place, c, reply[q])
  BY <1>2 DEF Stands
<1>7. /\ UNCHANGED <<quota, journal, book, drawn, records, now, pass>>
      /\ faults' \in 0..MaxFaults
      /\ \A t \in traces' : t.session \in Session /\ t.seq \in Nat /\ t.answer \in Seq(Nat)
  BY <1>1 DEF Begin, credit, store, world, SessionTypeOK
<1> QED BY <1>2, <1>4, <1>5, <1>6, <1>7, HandlerMove

\* A request that was sent again gets the old answer and holds nothing.
LEMMA ResendInv ==
  ASSUME SessionInv, NEW q \in Request, Resend(q)
  PROVE  SessionInv'
<1>1. SessionTypeOK /\ Carries(q, "resend", ctx[q])
  BY DEF SessionInv, HandlerInv, Resend
<1>2. /\ UNCHANGED <<quota, journal, book, drawn, records, now, pass>>
      /\ faults' \in 0..MaxFaults /\ ctx' = ctx
      /\ \A t \in traces' : t.session \in Session /\ t.seq \in Nat /\ t.answer \in Seq(Nat)
  BY <1>1 DEF Resend, credit, store, world, SessionTypeOK
<1>3. PICK c \in Context : c = ctx[q] /\ Put(q, c)
  BY <1>1, <1>2, StayFact
<1>4. \E place \in {"answered", "failed"}, answer \in Seq(Nat) : Moves(q, place, c, answer)
  <2>1. CASE Goto(q, "failed") /\ UNCHANGED reply
    BY <1>1, <1>3, <2>1, StayFact
  <2>2. CASE \E t \in traces : /\ reply' = [reply EXCEPT ![q] = t.answer]
                               /\ Goto(q, "answered")
    <3>1. PICK t \in traces : /\ reply' = [reply EXCEPT ![q] = t.answer]
                              /\ Goto(q, "answered")
      BY <2>2
    <3>2. t.answer \in Seq(Nat)
      BY <1>1 DEF SessionTypeOK
    <3> QED BY <1>3, <3>1, <3>2 DEF Moves, Goto, Put
  <2> QED BY <2>1, <2>2 DEF Resend
<1>5. PICK place \in {"answered", "failed"}, answer \in Seq(Nat) : Moves(q, place, c, answer)
  BY <1>4
<1>6. place \in Places \ {"idle"}
  BY DEF Places
<1>7. Carries(q, place, c)
  BY <1>1, <1>3 DEF Carries
<1>8. Stands(q, place, c, answer)
  BY <1>1 DEF Stands, Carries
<1> QED BY <1>2, <1>5, <1>6, <1>7, <1>8, HandlerMove

\* Without a record the handler goes on with nothing, or fails.
LEMMA LoadNoneInv ==
  ASSUME SessionInv, NEW q \in Request, LoadNone(q)
  PROVE  SessionInv'
<1>1. SessionTypeOK /\ Carries(q, "load", ctx[q])
  BY DEF SessionInv, HandlerInv, LoadNone
<1>2. /\ UNCHANGED <<quota, journal, book, drawn, records, now, pass, reply>>
      /\ faults' \in 0..MaxFaults
      /\ \A t \in traces' : t.session \in Session /\ t.seq \in Nat /\ t.answer \in Seq(Nat)
  BY <1>1 DEF LoadNone, credit, store, world, SessionTypeOK
<1>3. ctx[q] \in Context /\ reply[q] \in Seq(Nat)
  BY <1>1, StayFact
<1>4. \E place \in {"failed", "rate"}, groups \in SUBSET Group :
        Moves(q, place, [ctx[q] EXCEPT !.groups = groups], reply[q])
  <2>1. CASE Goto(q, "failed") /\ UNCHANGED ctx
    <3>1. ctx[q] = [ctx[q] EXCEPT !.groups = ctx[q].groups] /\ ctx[q].groups \in SUBSET Group
      BY <1>3 DEF Context
    <3>2. Moves(q, "failed", ctx[q], reply[q])
      BY <1>1, <1>2, <2>1, StayFact
    <3> QED BY <3>1, <3>2
  <2>2. CASE Goto(q, "rate") /\ Put(q, [ctx[q] EXCEPT !.groups = GroupsAsked(q)])
    <3>1. GroupsAsked(q) \in SUBSET Group
      <4>1. \A i \in DOMAIN Requests[q].usage : Requests[q].usage[i].group \in Group
        BY RequestFact
      <4> QED BY <4>1 DEF GroupsAsked
    <3> QED BY <1>1, <1>2, <2>2, <3>1, StayFact
  <2> QED BY <2>1, <2>2 DEF LoadNone
<1>5. PICK place \in {"failed", "rate"}, groups \in SUBSET Group :
        Moves(q, place, [ctx[q] EXCEPT !.groups = groups], reply[q])
  BY <1>4
<1>6. PICK c \in Context : c = [ctx[q] EXCEPT !.groups = groups]
  BY <1>3 DEF Context
<1>7. place \in Places \ {"idle"}
  BY DEF Places, Steps
<1>8. Carries(q, place, c)
  BY <1>1, <1>3, <1>6 DEF Carries, Context
<1>9. Stands(q, place, c, reply[q])
  <2>1. c.fresh = NoGrants
    BY <1>1, <1>3, <1>6 DEF Carries, Context
  <2> QED BY <2>1, EmptyFact DEF Stands
<1> QED BY <1>2, <1>3, <1>5, <1>6, <1>7, <1>8, <1>9, HandlerMove

\* Nor does the handler hold anything after a look-up that failed.
LEMMA LookUpFailsInv ==
  ASSUME SessionInv, NEW q \in Request, LookUpFails(q)
  PROVE  SessionInv'
<1>1. SessionTypeOK /\ Carries(q, "load", ctx[q])
  BY DEF SessionInv, HandlerInv, LookUpFails
<1>2. /\ UNCHANGED <<quota, journal, book, drawn, records, now, pass, reply>>
      /\ faults' \in 0..MaxFaults
      /\ \A t \in traces' : t.session \in Session /\ t.seq \in Nat /\ t.answer \in Seq(Nat)
  BY <1>1, NumberFact DEF LookUpFails, credit, store, SessionTypeOK
<1>3. ctx[q] \in Context /\ reply[q] \in Seq(Nat)
  BY <1>1, StayFact
<1>4. GroupsAsked(q) \in SUBSET Group
  <2>1. \A i \in DOMAIN Requests[q].usage : Requests[q].usage[i].group \in Group
    BY RequestFact
  <2> QED BY <2>1 DEF GroupsAsked
<1>5. PICK c \in Context : c = [ctx[q] EXCEPT !.groups = GroupsAsked(q)]
  BY <1>3, <1>4 DEF Context
<1>6. Moves(q, "rate", c, reply[q])
  BY <1>1, <1>2, <1>5, StayFact DEF LookUpFails
<1>7. "rate" \in Places \ {"idle"}
  BY DEF Places, Steps
<1>8. Carries(q, "rate", c)
  BY <1>1, <1>3, <1>5 DEF Carries, Context
<1>9. Stands(q, "rate", c, reply[q])
  <2>1. c.fresh = NoGrants
    BY <1>1, <1>3, <1>5 DEF Carries, Context
  <2> QED BY <2>1, EmptyFact DEF Stands
<1> QED BY <1>2, <1>3, <1>5, <1>6, <1>7, <1>8, <1>9, HandlerMove

\* The ids of a record with an earlier number are ids the handler may hold.
LEMMA RecordHeld ==
  ASSUME NEW q \in Request, Kind(q) \in {"update", "release"},
         NEW n \in Nat, n < Requests[q].seq
  PROVE  Under(Requests[q].session, n) \subseteq MayHold(q)
BY DEF Under, MayHold, Kind

\* The grants of a record are ones the handler of a later number may hold.
LEMMA LoadRecordInv ==
  ASSUME SessionInv, NEW q \in Request, LoadRecord(q)
  PROVE  SessionInv'
<1>1. SessionTypeOK /\ Carries(q, "load", ctx[q])
  BY DEF SessionInv, HandlerInv, LoadRecord
<1>2. /\ UNCHANGED <<quota, journal, book, drawn, records, now, pass, reply>>
      /\ faults' \in 0..MaxFaults
      /\ \A t \in traces' : t.session \in Session /\ t.seq \in Nat /\ t.answer \in Seq(Nat)
  BY <1>1 DEF LoadRecord, credit, store, world, SessionTypeOK
<1>3. ctx[q] \in Context /\ reply[q] \in Seq(Nat) /\ Requests[q].session \in Session
  BY <1>1, StayFact, RequestFact
<1>4. Row(q) \in [there : BOOLEAN, seq : Nat, at : Nat, groups : SUBSET Group, grants : Grants]
  BY <1>1, <1>3 DEF Row, SessionTypeOK
<1>5. CASE Goto(q, "failed") /\ UNCHANGED ctx
  <2>1. Moves(q, "failed", ctx[q], reply[q])
    BY <1>1, <1>2, <1>5, StayFact
  <2>2. "failed" \in Places \ {"idle"}
    BY DEF Places
  <2>3. Carries(q, "failed", ctx[q])
    BY <1>1 DEF Carries
  <2>4. Stands(q, "failed", ctx[q], reply[q])
    BY DEF Stands
  <2> QED BY <1>2, <1>3, <2>1, <2>2, <2>3, <2>4, HandlerMove
<1>6. CASE /\ Row(q).there /\ Row(q).seq < Requests[q].seq /\ Goto(q, "account")
           /\ Put(q, [ctx[q] EXCEPT !.grants = Row(q).grants, !.groups = Row(q).groups])
  <2>1. PICK c \in Context :
          c = [ctx[q] EXCEPT !.grants = Row(q).grants, !.groups = Row(q).groups]
    BY <1>3, <1>4 DEF Context
  <2>2. Moves(q, "account", c, reply[q])
    BY <1>1, <1>2, <1>6, <2>1, StayFact
  <2>3. "account" \in Places \ {"idle"}
    BY DEF Places, Steps
  <2>4. c.grants \in GrantsOf(MayHold(q))
    <3>1. Row(q).grants \in GrantsOf(Under(Requests[q].session, Row(q).seq))
      BY <1>3, <1>6 DEF SessionInv, RecordInv, Row
    <3>2. Under(Requests[q].session, Row(q).seq) \subseteq MayHold(q)
      BY <1>4, <1>6, RecordHeld DEF LoadRecord
    <3>3. c.grants = Row(q).grants
      BY <1>3, <2>1 DEF Context
    <3> QED BY <3>1, <3>2, <3>3, MoreIds
  <2>5. Carries(q, "account", c)
    <3>1. ~Requests[q].resent /\ Kind(q) # "create"
      BY <1>1 DEF Carries, LoadRecord
    <3>2. /\ c.at = ctx[q].at /\ c.done = ctx[q].done /\ c.fresh = ctx[q].fresh
          /\ c.todo = ctx[q].todo /\ c.due = ctx[q].due /\ c.kept = ctx[q].kept
      BY <1>3, <2>1 DEF Context
    <3> QED BY <1>1, <2>4, <3>1, <3>2 DEF Carries
  <2>6. Stands(q, "account", c, reply[q])
    BY DEF Stands
  <2> QED BY <1>2, <1>3, <2>2, <2>3, <2>5, <2>6, HandlerMove
<1> QED BY <1>5, <1>6 DEF LoadRecord

\* The steps of a handler that are not interrupted leave the rest alone.
Quiet ==
  /\ UNCHANGED <<quota, journal, book, drawn, records, now, pass>>
  /\ faults' \in 0..MaxFaults
  /\ \A t \in traces' : t.session \in Session /\ t.seq \in Nat /\ t.answer \in Seq(Nat)

\* An error leads to the answer, or to the release of ids the handler has.
LEMMA AbandonInv ==
  ASSUME SessionInv, NEW q \in Request, pc[q] \in Steps, Abandon(q, ctx[q]),
         Quiet, reply' = reply
  PROVE  SessionInv'
<1>1. SessionTypeOK /\ Carries(q, pc[q], ctx[q])
  BY DEF SessionInv, HandlerInv
<1>2. ctx[q] \in Context /\ reply[q] \in Seq(Nat)
  BY <1>1, StayFact
<1>3. PICK M \in SUBSET Ref : M = MayHold(q) /\ ctx[q].grants \in GrantsOf(M)
  BY <1>1, MineHeld DEF Carries
<1>4. PICK I : I = {i \in DOMAIN Requests[q].usage :
                      LET grants == ctx[q].grants[Requests[q].usage[i].group]
                      IN  grants # <<>> /\ grants[1].seq = Requests[q].seq}
  OBVIOUS
<1>5. ReleaseFirst(q, ctx[q], I)
  BY <1>4 DEF Abandon
<1>6. PICK due : due = LET released == Chosen(Requests[q].usage, I)
                       IN  [i \in DOMAIN released |-> ctx[q].grants[released[i].group][1].ref]
  OBVIOUS
<1>7. due \in Seq(M \union {NoRef})
  <2>1. /\ I \in SUBSET DOMAIN Requests[q].usage
        /\ \A i \in I : ctx[q].grants[Requests[q].usage[i].group] # <<>>
    BY <1>4
  <2> QED BY <1>3, <1>6, <2>1, DueFact
<1>8. ~Requests[q].resent
  BY <1>1 DEF Carries, Steps
<1>9. CASE Goto(q, "failed") /\ Put(q, NoContext)
  <2>1. NoContext \in Context /\ Carries(q, "failed", NoContext)
    BY <1>1, CarriesNothing
  <2>2. Stands(q, "failed", NoContext, reply[q])
    BY DEF Stands
  <2>3. "failed" \in Places \ {"idle"} /\ Moves(q, "failed", NoContext, reply[q])
    BY <1>1, <1>9, StayFact DEF Places
  <2> QED BY <1>2, <2>1, <2>2, <2>3, HandlerMove DEF Quiet
<1>10. CASE /\ Goto(q, "cleanup")
            /\ Put(q, [ctx[q] EXCEPT !.todo = <<>>, !.due = due])
  <2>0. <<>> \in Seq(Charge)
    OBVIOUS
  <2>a. PICK todo \in Seq(Charge) : todo = <<>>
    BY <2>0
  <2>1. PICK c : c = [ctx[q] EXCEPT !.todo = todo, !.due = due]
    OBVIOUS
  <2>2. due \in Seq(Ref \union {NoRef})
    BY <1>3, <1>7, MoreIds
  <2>3. c \in Context
    BY <1>2, <2>1, <2>2 DEF Context
  <2>4. /\ c.at = ctx[q].at /\ c.done = ctx[q].done /\ c.fresh = ctx[q].fresh
        /\ c.todo = todo /\ c.due = due /\ c.grants = ctx[q].grants
    BY <1>2, <2>1 DEF Context
  <2>b. todo \in Seq(ChargeOf(M))
    BY <2>a
  <2>5. Carries(q, "cleanup", c)
    BY <1>1, <1>3, <1>7, <1>8, <2>4, <2>b DEF Carries
  <2>6. Stands(q, "cleanup", c, reply[q])
    BY DEF Stands
  <2>7. "cleanup" \in Places \ {"idle"} /\ Moves(q, "cleanup", c, reply[q])
    BY <1>1, <1>10, <2>a, <2>1, StayFact DEF Places
  <2> QED BY <1>2, <2>3, <2>5, <2>6, <2>7, HandlerMove DEF Quiet
<1> QED BY <1>5, <1>6, <1>9, <1>10 DEF ReleaseFirst

\* A step that fails leads to the clean-up or to the answer.
LEMMA FaultInv ==
  ASSUME SessionInv, NEW q \in Request, Fault(q)
  PROVE  SessionInv'
<1>1. SessionTypeOK
  BY DEF SessionInv
<1>2. pc[q] \in Steps /\ Abandon(q, ctx[q]) /\ reply' = reply
  BY SessionAssumption DEF Fault
<1>3. Quiet
  BY <1>1, NumberFact DEF Quiet, Fault, credit, store, SessionTypeOK
<1> QED BY <1>2, <1>3, AbandonInv

\* A handler that died leaves what it reserved, and nothing relies on it.
LEMMA CrashInv ==
  ASSUME SessionInv, NEW q \in Request, Crash(q)
  PROVE  SessionInv'
<1>1. SessionTypeOK /\ Carries(q, pc[q], ctx[q])
  BY DEF SessionInv, HandlerInv
<1>2. Quiet /\ reply' = reply
  BY <1>1, NumberFact DEF Quiet, Crash, credit, store, SessionTypeOK
<1>3. ~Requests[q].resent
  BY <1>1 DEF Crash, Carries, Steps
<1>4. NoContext \in Context /\ Carries(q, "crashed", NoContext)
  BY <1>1, <1>3, CarriesNothing
<1>5. Stands(q, "crashed", NoContext, reply[q])
  BY DEF Stands
<1>6. /\ "crashed" \in Places \ {"idle"} /\ reply[q] \in Seq(Nat)
      /\ Moves(q, "crashed", NoContext, reply[q])
  BY <1>1, <1>2, StayFact DEF Places, Crash
<1> QED BY <1>2, <1>4, <1>5, <1>6, HandlerMove DEF Quiet

\* Head and tail of a sequence are made of its elements.
LEMMA RestOfSeq ==
  ASSUME NEW S, NEW s \in Seq(S), s # <<>>
  PROVE  Head(s) \in S /\ Tail(s) \in Seq(S)
OBVIOUS

\* A failed release leaves the reservation, and the handler goes on with the rest.
LEMMA ReleaseFailsInv ==
  ASSUME SessionInv, NEW q \in Request, ReleaseFails(q)
  PROVE  SessionInv'
<1>1. SessionTypeOK /\ Carries(q, "cleanup", ctx[q]) /\ pc[q] = "cleanup"
  BY DEF SessionInv, HandlerInv, ReleaseFails
<1>2. Quiet /\ reply' = reply
  BY <1>1, NumberFact DEF Quiet, ReleaseFails, credit, store, SessionTypeOK
<1>3. PICK b \in Context : b = ctx[q]
  BY <1>1, StayFact
<1>4. PICK M \in SUBSET Ref : M = MayHold(q)
  BY MineHeld
<1>5. PICK D : D = M \union {NoRef} /\ D \subseteq Ref \union {NoRef}
  OBVIOUS
<1>6. PICK rest \in Seq(D) : rest = Tail(b.due)
  <2>1. b.due \in Seq(D) /\ b.due # <<>>
    BY <1>1, <1>3, <1>4, <1>5 DEF Carries, ReleaseFails
  <2> QED BY <2>1, RestOfSeq
<1>7. rest \in Seq(Ref \union {NoRef})
  BY <1>5, <1>6, MoreIds
<1>8. PICK c \in Context : c = [b EXCEPT !.due = rest]
  BY <1>7 DEF Context
<1>9. /\ c.at = b.at /\ c.done = b.done /\ c.fresh = b.fresh /\ c.todo = b.todo
      /\ c.due = rest /\ c.grants = b.grants /\ c.kept = b.kept
  BY <1>8 DEF Context
<1>10. Carries(q, "cleanup", c)
  BY <1>1, <1>3, <1>4, <1>5, <1>9 DEF Carries
<1>11. Stands(q, "cleanup", c, reply[q])
  BY DEF Stands
<1>12. /\ "cleanup" \in Places \ {"idle"} /\ reply[q] \in Seq(Nat)
       /\ Moves(q, "cleanup", c, reply[q])
  <2>1. Put(q, c) /\ pc' = pc
    BY <1>3, <1>6, <1>8 DEF ReleaseFails
  <2> QED BY <1>1, <1>2, <2>1, StayFact DEF Places
<1> QED BY <1>2, <1>8, <1>10, <1>11, <1>12, HandlerMove DEF Quiet

\* Planning the debits of a usage touches nothing but the context.
LEMMA AccountUsageInv ==
  ASSUME SessionInv, NEW q \in Request, AccountUsage(q)
  PROVE  SessionInv'
<1>1. SessionTypeOK /\ Carries(q, "account", ctx[q])
  BY DEF SessionInv, HandlerInv, AccountUsage
<1>2. Quiet /\ reply' = reply /\ pc' = pc
  BY <1>1 DEF Quiet, AccountUsage, credit, store, world, SessionTypeOK
<1>3. PICK b \in Context : b = ctx[q]
  BY <1>1, StayFact
<1>4. PICK M \in SUBSET Ref : M = MayHold(q)
  BY MineHeld
<1>5. /\ b.grants \in GrantsOf(M) /\ b.done \in Nat /\ b.done < Len(Requests[q].usage)
      /\ b.done > 0 => b.kept \in Seq(GrantOf(RefsOf(UsageGroup(q, b), M)))
  BY <1>1, <1>3, <1>4 DEF Carries, AccountUsage, Context
<1>6. PICK d \in Context :
        /\ d = Settled(q, b) /\ d.at = b.at /\ d.done = b.done /\ d.fresh = b.fresh
        /\ d.due = b.due /\ d.grants \in GrantsOf(M)
  <2>1. b.done <= Len(Requests[q].usage)
    BY <1>5, RequestFact
  <2> QED BY <1>5, <2>1, SettledFact
<1>7. d.done < Len(Requests[q].usage)
  BY <1>5, <1>6
<1>8. PICK c \in Context :
         /\ c = NextUsage(q, d) /\ c.at = b.at /\ c.done = b.done + 1
         /\ c.fresh = b.fresh /\ c.due = b.due
         /\ c.grants \in GrantsOf(M) /\ c.todo \in Seq(ChargeOf(M))
         /\ c.kept \in Seq(GrantOf(RefsOf(UsageGroup(q, c), M)))
  BY <1>6, <1>7, UsageFact
<1>9. Carries(q, "account", c)
  <2>1. c.done <= Len(Requests[q].usage)
    BY <1>5, <1>8, RequestFact
  <2> QED BY <1>1, <1>3, <1>4, <1>8, <2>1 DEF Carries
<1>10. Stands(q, "account", c, reply[q])
  BY DEF Stands
<1>11. /\ "account" \in Places \ {"idle"} /\ reply[q] \in Seq(Nat)
       /\ Moves(q, "account", c, reply[q])
  <2>1. pc[q] = "account" /\ Put(q, c)
    BY <1>3, <1>6, <1>8 DEF AccountUsage
  <2> QED BY <1>1, <1>2, <2>1, StayFact DEF Places, Steps
<1> QED BY <1>2, <1>8, <1>9, <1>10, <1>11, HandlerMove DEF Quiet

\* After the last usage the handler rates, saves, or gives up.
LEMMA AccountDoneInv ==
  ASSUME SessionInv, NEW q \in Request, AccountDone(q)
  PROVE  SessionInv'
<1>1. SessionTypeOK /\ Carries(q, "account", ctx[q]) /\ pc[q] = "account"
  BY DEF SessionInv, HandlerInv, AccountDone
<1>2. Quiet /\ reply' = reply
  BY <1>1 DEF Quiet, AccountDone, credit, store, world, SessionTypeOK
<1>3. CASE ~ctx[q].fits
  <2>1. Abandon(q, ctx[q]) /\ pc[q] \in Steps
    BY <1>1, <1>3 DEF AccountDone, Steps
  <2> QED BY <1>2, <2>1, AbandonInv
<1>4. CASE ctx[q].fits
  <2>1. PICK b \in Context : b = ctx[q]
    BY <1>1, StayFact
  <2>2. PICK M \in SUBSET Ref : M = MayHold(q)
    BY MineHeld
  <2>3. PICK d \in Context :
          /\ d = Settled(q, b) /\ d.at = b.at /\ d.done = b.done /\ d.fresh = b.fresh
          /\ d.due = b.due /\ d.todo = b.todo /\ d.grants \in GrantsOf(M)
    BY <1>1, <2>1, <2>2, SettledFact DEF Carries
  <2>4. reply[q] \in Seq(Nat)
    BY <1>1, StayFact
  <2>5. Kind(q) # "create" /\ ~Requests[q].resent
    BY <1>1 DEF Carries
  <2>6. CASE Kind(q) = "update"
    <3>1. GroupsAsked(q) \in SUBSET Group
      <4>1. \A i \in DOMAIN Requests[q].usage : Requests[q].usage[i].group \in Group
        BY RequestFact
      <4> QED BY <4>1 DEF GroupsAsked
    <3>2. PICK c \in Context : c = [d EXCEPT !.groups = GroupsAsked(q), !.done = 0]
      BY <3>1 DEF Context
    <3>3. /\ c.at = d.at /\ c.done = 0 /\ c.fresh = d.fresh /\ c.todo = d.todo
          /\ c.due = d.due /\ c.grants = d.grants
      BY <3>2 DEF Context
    <3>4. 0 <= Len(Requests[q].usage)
      BY RequestFact
    <3>5. Carries(q, "rate", c)
      BY <1>1, <2>1, <2>2, <2>3, <2>5, <3>3, <3>4 DEF Carries
    <3>6. Stands(q, "rate", c, reply[q])
      <4>1. c.fresh = NoGrants
        BY <1>1, <2>1, <2>3, <3>3 DEF Carries
      <4> QED BY <4>1, EmptyFact DEF Stands
    <3>7. Moves(q, "rate", c, reply[q]) /\ "rate" \in Places \ {"idle"}
      BY <1>1, <1>2, <1>4, <2>1, <2>3, <2>6, <3>2, StayFact DEF AccountDone, Places, Steps
    <3> QED BY <1>2, <2>4, <3>5, <3>6, <3>7, HandlerMove DEF Quiet
  <2>7. CASE Kind(q) # "update"
    <3>1. Carries(q, "save", d)
      BY <1>1, <2>1, <2>2, <2>3, <2>5, <2>7 DEF Carries, Opening
    <3>2. Stands(q, "save", d, reply[q])
      BY <2>5, <2>7 DEF Stands, Opening
    <3>3. Moves(q, "save", d, reply[q]) /\ "save" \in Places \ {"idle"}
      BY <1>1, <1>2, <1>4, <2>1, <2>3, <2>7, StayFact DEF AccountDone, Places, Steps
    <3> QED BY <1>2, <2>4, <3>1, <3>2, <3>3, HandlerMove DEF Quiet
  <2> QED BY <2>6, <2>7
<1> QED BY <1>3, <1>4

\* After the last usage the fresh grants replace those of the record.
LEMMA RateDoneInv ==
  ASSUME SessionInv, NEW q \in Request, RateDone(q)
  PROVE  SessionInv'
<1>1. SessionTypeOK /\ Carries(q, "rate", ctx[q])
  BY DEF SessionInv, HandlerInv, RateDone
<1>2. Quiet /\ reply' = reply
  BY <1>1 DEF Quiet, RateDone, credit, store, world, SessionTypeOK
<1>3. PICK b \in Context : b = ctx[q]
  BY <1>1, StayFact
<1>4. PICK c : c = [b EXCEPT !.grants = b.fresh, !.fresh = NoGrants, !.done = 0]
  OBVIOUS
<1>5. /\ c.at = b.at /\ c.done = 0 /\ c.grants = b.fresh /\ c.fresh = NoGrants
      /\ c.todo = b.todo /\ c.due = b.due
  BY <1>4 DEF Context
<1>6. c \in Context
  <2>1. NoGrants \in Grants
    BY EmptyFact DEF GrantsOf
  <2> QED BY <1>4, <2>1 DEF Context
<1>7. PICK place \in {"account", "save"} :
        place = IF Kind(q) = "event" THEN "account" ELSE "save"
  OBVIOUS
<1>8. Carries(q, place, c)
  <2>1. b.fresh \in GrantsOf(Mine(q)) /\ b.fresh \in GrantsOf(MayHold(q))
    BY <1>1, <1>3, MineHeld, MoreIds DEF Carries
  <2>2. 0 <= Len(Requests[q].usage)
    BY RequestFact
  <2> QED BY <1>1, <1>3, <1>5, <1>7, <2>1, <2>2, EmptyFact DEF Carries
<1>9. Later(q) = {} => Stands(q, place, c, reply[q])
  <2>1. Later(q) = {} => b.fresh \in CoveredGrants
    BY <1>3 DEF SessionInv, PromiseInv, Stands, RateDone
  <2> QED BY <1>5, <1>7, <2>1 DEF Stands
<1>10. /\ Moves(q, place, c, reply[q]) /\ reply[q] \in Seq(Nat)
       /\ place \in Places \ {"idle"}
  BY <1>1, <1>2, <1>3, <1>4, <1>7, StayFact DEF RateDone, Places, Steps
<1> QED BY <1>2, <1>6, <1>8, <1>9, <1>10, HandlerMove DEF Quiet

\* The units answered for a group are those of one of its grants, or none.
LEMMA UnitsFact ==
  ASSUME NEW q \in Request, NEW given \in Seq(Grant)
  PROVE  /\ UnitsGranted(q, given) \in Nat
         /\ UnitsGranted(q, given) > 0 =>
              \E i \in DOMAIN given : given[i].units = UnitsGranted(q, given)
<1>1. PICK mine : mine = {i \in DOMAIN given : given[i].seq = Requests[q].seq}
  OBVIOUS
<1>2. PICK least : least = CHOOSE i \in mine : \A j \in mine : i <= j
  OBVIOUS
<1>3. UnitsGranted(q, given) = IF mine = {} THEN NoUnits ELSE given[least].units
  BY <1>1, <1>2 DEF UnitsGranted
<1>4. ASSUME mine # {} PROVE least \in DOMAIN given
  <2>1. mine \subseteq Nat
    BY <1>1
  <2>2. PICK m \in mine : \A y \in mine : m <= y
    BY <1>4, <2>1, LeastOf
  <2>3. least \in mine
    BY <1>2, <2>2
  <2> QED BY <1>1, <2>3
<1>5. ASSUME NEW i \in DOMAIN given PROVE given[i].units \in Nat
  <2>1. given[i] \in Grant
    OBVIOUS
  <2> QED BY <2>1 DEF Grant
<1> QED BY <1>3, <1>4, <1>5 DEF NoUnits

\* An answer has as many entries as the request has usages.
LEMMA AnswerFact ==
  ASSUME NEW q \in Request, NEW grants \in Grants
  PROVE  /\ Answer(q, grants) \in Seq(Nat)
         /\ DOMAIN Answer(q, grants) = 1..Len(Requests[q].usage)
         /\ \A n \in 1..Len(Requests[q].usage) :
              Answer(q, grants)[n] = UnitsGranted(q, grants[Requests[q].usage[n].group])
<1>1. PICK L \in Nat : L = Len(Requests[q].usage) /\ DOMAIN Requests[q].usage = 1..L
  BY RequestFact
<1>2. ASSUME NEW n \in 1..L
      PROVE  UnitsGranted(q, grants[Requests[q].usage[n].group]) \in Nat
  <2>1. Requests[q].usage[n].group \in Group
    BY <1>1, RequestFact
  <2>2. grants[Requests[q].usage[n].group] \in Seq(Grant)
    BY <2>1 DEF Grants
  <2> QED BY <2>2, UnitsFact
<1>3. Answer(q, grants) \in [1..L -> Nat]
  BY <1>1, <1>2 DEF Answer
<1>4. Answer(q, grants) \in Seq(Nat)
  BY <1>3
<1>5. \A n \in 1..L : Answer(q, grants)[n] = UnitsGranted(q, grants[Requests[q].usage[n].group])
  BY <1>1 DEF Answer
<1> QED BY <1>1, <1>3, <1>4, <1>5

\* The trace is written and the answer given from the grants just saved.
LEMMA CreateTraceInv ==
  ASSUME SessionInv, NEW q \in Request, CreateTrace(q)
  PROVE  SessionInv'
<1>1. SessionTypeOK /\ Carries(q, "trace", ctx[q])
  BY DEF SessionInv, HandlerInv, CreateTrace
<1>2. PICK answer : answer = Answer(q, ctx[q].grants)
  OBVIOUS
<1>3. answer \in Seq(Nat)
  <2>1. ctx[q].grants \in Grants
    BY <1>1, StayFact DEF Context
  <2> QED BY <1>2, <2>1, AnswerFact
<1>4. Quiet
  <2>1. Requests[q].session \in Session /\ Requests[q].seq \in Nat
    BY RequestFact
  <2>2. \A t \in traces' : t.session \in Session /\ t.seq \in Nat /\ t.answer \in Seq(Nat)
    BY <1>1, <1>2, <1>3, <2>1 DEF CreateTrace, SessionTypeOK
  <2> QED BY <1>1, <2>2 DEF Quiet, CreateTrace, credit, world, SessionTypeOK
<1>5. ~Requests[q].resent
  BY <1>1 DEF Carries
<1>6. NoContext \in Context /\ Carries(q, "answered", NoContext)
  BY <1>1, <1>5, CarriesNothing
<1>7. Later(q) = {} => Stands(q, "answered", NoContext, answer)
  <2> SUFFICES ASSUME Later(q) = {}, Kind(q) \in Opening, Recorded(q)
               PROVE  /\ Row(q).grants \in GrantsOf(Mine(q)) /\ Row(q).grants \in CoveredGrants
                      /\ answer = Answer(q, Row(q).grants)
    BY DEF Stands
  <2>1. Stands(q, "trace", ctx[q], reply[q])
    BY DEF SessionInv, PromiseInv, CreateTrace
  <2>2. Row(q).grants = ctx[q].grants /\ ctx[q].grants \in CoveredGrants
    BY <2>1 DEF Stands
  <2>3. ctx[q].grants \in GrantsOf(Mine(q))
    BY <1>1 DEF Carries
  <2> QED BY <1>2, <2>2, <2>3
<1>8. Moves(q, "answered", NoContext, answer) /\ "answered" \in Places \ {"idle"}
  BY <1>2 DEF CreateTrace, Moves, Goto, Put, Places
<1> QED BY <1>3, <1>4, <1>6, <1>7, <1>8, HandlerMove DEF Quiet

-----------------------------------------------------------------------------
\* One more grant for a group, under an id the handler holds.
LEMMA GrantedFact ==
  ASSUME NEW context \in Context, NEW M \in SUBSET Ref, context.fresh \in GrantsOf(M),
         NEW group \in Group, NEW grant \in GrantOf(RefsOf(group, M))
  PROVE  LET new == Granted(context, group, grant)
         IN  /\ new \in Context /\ new.at = context.at /\ new.done = context.done + 1
             /\ new.grants = context.grants /\ new.todo = context.todo
             /\ new.due = context.due /\ new.fresh \in GrantsOf(M)
             /\ new.fresh[group] = Append(context.fresh[group], grant)
             /\ \A other \in Group \ {group} : new.fresh[other] = context.fresh[other]
<1>1. context.fresh[group] \in Seq(GrantOf(RefsOf(group, M)))
  BY DEF GrantsOf
<1>2. Append(context.fresh[group], grant) \in Seq(GrantOf(RefsOf(group, M)))
  BY <1>1
<1>3. PICK fresh \in GrantsOf(M) :
        fresh = [context.fresh EXCEPT ![group] = Append(context.fresh[group], grant)]
  BY <1>2, PutGrants
<1>4. PICK done \in Nat : done = context.done + 1
  BY DEF Context
<1>5. fresh \in Grants
  BY DEF GrantsOf
<1>6. PICK new : new = [context EXCEPT !.fresh = fresh, !.done = done]
  OBVIOUS
<1>7. new = Granted(context, group, grant)
  BY <1>3, <1>4, <1>6 DEF Granted
<1>8. new \in Context
  BY <1>5, <1>6 DEF Context
<1>9. /\ new.at = context.at /\ new.done = done /\ new.grants = context.grants
      /\ new.todo = context.todo /\ new.due = context.due /\ new.fresh = fresh
  BY <1>6 DEF Context
<1>10. /\ fresh[group] = Append(context.fresh[group], grant)
       /\ \A other \in Group \ {group} : fresh[other] = context.fresh[other]
  BY <1>3 DEF GrantsOf, Grants
<1> QED BY <1>3, <1>4, <1>7, <1>8, <1>9, <1>10

\* Covered grants and one more that is covered.
LEMMA CoveredMore ==
  ASSUME NEW doc, NEW t, NEW m \in Covered(doc, t), NEW group \in Group, NEW grant \in Grant,
         group \notin Free /\ Plain(grant.ref) /\ grant.until > t
           => Backed(doc, grant.ref, Worth(grant)),
         NEW new \in Grants, new[group] = Append(m[group], grant),
         \A other \in Group \ {group} : new[other] = m[other]
  PROVE  new \in Covered(doc, t)
<1>1. ASSUME NEW other \in Group \ Free, NEW i \in DOMAIN new[other],
             Plain(new[other][i].ref), new[other][i].until > t
      PROVE  Backed(doc, new[other][i].ref, Worth(new[other][i]))
  <2>1. CASE other # group
    <3>1. new[other] = m[other]
      BY <2>1
    <3> QED BY <1>1, <3>1 DEF Covered
  <2>2. CASE other = group
    <3>1. new[other] = Append(m[group], grant) /\ m[group] \in Seq(Grant)
      BY <2>2 DEF Covered, Grants
    <3>2. CASE i = Len(m[group]) + 1
      <4>1. new[other][i] = grant
        BY <3>1, <3>2
      <4> QED BY <1>1, <2>2, <4>1
    <3>3. CASE i # Len(m[group]) + 1
      <4>1. i \in DOMAIN m[group] /\ new[other][i] = m[group][i]
        BY <3>1, <3>3
      <4> QED BY <1>1, <2>2, <4>1 DEF Covered
    <3> QED BY <3>2, <3>3
  <2> QED BY <2>1, <2>2
<1> QED BY <1>1 DEF Covered

\* The usage Rate is at, and what is granted for it.
LEMMA RateFact ==
  ASSUME SessionInv, NEW q \in Request, RateUnit(q)
  PROVE  /\ SessionTypeOK /\ ctx[q] \in Context /\ Carries(q, "rate", ctx[q])
         /\ ctx[q].at \in Nat /\ ctx[q].at <= now
         /\ ctx[q].done + 1 <= Len(Requests[q].usage)
         /\ Requests[q].usage[ctx[q].done + 1].group \in Group
         /\ \A units \in Nat :
              NormaliseUnits(Requests[q].usage[ctx[q].done + 1].group, units) \in Nat
         /\ Requests[q].usage[ctx[q].done + 1].wanted \in Nat
<1>1. SessionTypeOK /\ Carries(q, "rate", ctx[q])
  BY DEF SessionInv, HandlerInv, RateUnit
<1>2. ctx[q] \in Context /\ ctx[q].done < Len(Requests[q].usage)
  BY <1>1, StayFact DEF RateUnit
<1>3. ctx[q].at \in Nat /\ ctx[q].at <= now
  BY <1>1, <1>2, NumberFact DEF Carries, Context
<1>4. ctx[q].done + 1 \in 1..Len(Requests[q].usage)
  BY <1>2, RequestFact DEF Context
<1>5. /\ Requests[q].usage[ctx[q].done + 1].group \in Group
      /\ Requests[q].usage[ctx[q].done + 1].wanted \in Nat
  BY <1>4, RequestFact
<1>6. ctx[q].done + 1 <= Len(Requests[q].usage)
  BY <1>4, RequestFact
<1> QED BY <1>1, <1>2, <1>3, <1>5, <1>6, NormaliseNat

\* A group that is free of charge gets a grant without an id.
LEMMA RateFreeInv ==
  ASSUME SessionInv, NEW q \in Request, RateUnit(q),
         Requests[q].usage[ctx[q].done + 1].group \in Free
  PROVE  SessionInv'
<1>1. /\ SessionTypeOK /\ ctx[q] \in Context /\ Carries(q, "rate", ctx[q])
      /\ ctx[q].done + 1 <= Len(Requests[q].usage)
  BY RateFact
<1>2. PICK group \in Group : group = Requests[q].usage[ctx[q].done + 1].group /\ group \in Free
  BY RateFact
<1>3. PICK grant : grant =
        [ref |-> NoRef, seq |-> Requests[q].seq,
         units |-> NormaliseUnits(group, Requests[q].usage[ctx[q].done + 1].wanted),
         until |-> ctx[q].at + Validity]
  OBVIOUS
<1>4. grant \in GrantOf(RefsOf(group, Mine(q))) /\ grant \in Grant
  <2>1. NormaliseUnits(group, Requests[q].usage[ctx[q].done + 1].wanted) \in Nat
    BY <1>2, RateFact
  <2>2. ctx[q].at + Validity \in Nat /\ Requests[q].seq \in Nat
    <3>1. ctx[q].at \in Nat /\ Requests[q].seq \in Nat /\ Validity \in Nat
      BY RateFact, RequestFact, NumberFact
    <3> QED BY <3>1
  <2> QED BY <1>2, <1>3, <2>1, <2>2 DEF GrantOf, Grant, RefsOf
<1>5. PICK M \in SUBSET Ref : M = Mine(q) /\ ctx[q].fresh \in GrantsOf(M)
  BY <1>1, MineHeld DEF Carries
<1>6. PICK c \in Context :
        /\ c = Granted(ctx[q], group, grant) /\ c.at = ctx[q].at /\ c.done = ctx[q].done + 1
        /\ c.grants = ctx[q].grants /\ c.todo = ctx[q].todo
        /\ c.due = ctx[q].due /\ c.fresh \in GrantsOf(M)
        /\ c.fresh[group] = Append(ctx[q].fresh[group], grant)
        /\ \A other \in Group \ {group} : c.fresh[other] = ctx[q].fresh[other]
  BY <1>1, <1>4, <1>5, GrantedFact
<1>7. Carries(q, "rate", c)
  BY <1>1, <1>5, <1>6 DEF Carries
<1>8. Later(q) = {} => Stands(q, "rate", c, reply[q])
  <2> SUFFICES ASSUME Later(q) = {} PROVE c.fresh \in CoveredGrants
    BY DEF Stands
  <2>1. PICK doc, t : doc = quota /\ t = now
    OBVIOUS
  <2>2. PICK m \in Covered(doc, t) : m = ctx[q].fresh
    BY <2>1 DEF SessionInv, PromiseInv, Stands, RateUnit, CoveredGrants
  <2>3. PICK new \in Grants : new = c.fresh
    BY <1>6 DEF GrantsOf
  <2>4. /\ new[group] = Append(m[group], grant)
        /\ \A other \in Group \ {group} : new[other] = m[other]
    BY <1>6, <2>2, <2>3
  <2>5. new \in Covered(doc, t)
    BY <1>2, <1>4, <2>4, CoveredMore
  <2> QED BY <2>1, <2>3, <2>5 DEF CoveredGrants
<1>9. Put(q, c) /\ Quiet /\ reply' = reply /\ pc' = pc
  BY <1>1, <1>2, <1>3, <1>6 DEF RateUnit, Quiet, credit, store, world, SessionTypeOK
<1>10. /\ Moves(q, "rate", c, reply[q]) /\ reply[q] \in Seq(Nat)
       /\ "rate" \in Places \ {"idle"}
  <2>1. pc[q] = "rate"
    BY DEF RateUnit
  <2> QED BY <1>1, <1>9, <2>1, StayFact DEF Places, Steps
<1> QED BY <1>6, <1>7, <1>8, <1>9, <1>10, HandlerMove DEF Quiet

\* A group that is charged gets a grant under a new id.
LEMMA RatePaidInv ==
  ASSUME SessionInv, NEW q \in Request, RateUnit(q),
         Requests[q].usage[ctx[q].done + 1].group \notin Free
  PROVE  SessionInv'
<1>1. /\ SessionTypeOK /\ ctx[q] \in Context /\ Carries(q, "rate", ctx[q])
      /\ ctx[q].done + 1 <= Len(Requests[q].usage)
  BY RateFact
<1>2. PICK group \in Group : group = Requests[q].usage[ctx[q].done + 1].group /\ group \notin Free
  BY RateFact
<1>3. PICK wanted \in Nat :
        wanted = NormaliseUnits(group, Requests[q].usage[ctx[q].done + 1].wanted)
  BY <1>2, RateFact
<1>4. PICK t \in Nat : t = ctx[q].at /\ t <= now
  BY RateFact
<1>5. PICK until \in Nat : until = t + Validity
  BY NumberFact
<1>6. PICK r \in Ref :
        /\ drawn[r] = 0 /\ drawn' = [drawn EXCEPT ![r] = q]
        /\ Apply(ReserveCall(quota, r, wanted, t))
        /\ Put(q, Granted(ctx[q], group,
                          [ref |-> r, seq |-> Requests[q].seq,
                           units |-> ReserveCall(quota, r, wanted, t).answer,
                           until |-> until]))
        /\ book' = [book EXCEPT ![r] = [units |-> ReserveCall(quota, r, wanted, t).answer,
                                        until |-> until]]
  BY <1>2, <1>3, <1>4, <1>5 DEF RateUnit
<1>7. PICK call : call = ReserveCall(quota, r, wanted, t)
  OBVIOUS
<1>8. quota \in SoundDocument /\ Unheld(quota, r)
  BY <1>6 DEF SessionInv, BooksInv
<1>9. Accounts(quota, call) /\ call.answer \in Nat
  BY <1>7, <1>8, ReserveAccounts, ReserveCallBacked DEF Promise
<1>10. \A s \in Ref \ {r} : KeepsGrant(quota, call.doc, s, t)
  BY <1>7, <1>8, CallsKeepOthers
<1>11. PICK grant : grant = [ref |-> r, seq |-> Requests[q].seq, units |-> call.answer,
                             until |-> until]
  OBVIOUS
<1>12. Requests[q].seq \in Nat
  BY RequestFact
<1>13. drawn' \in [Ref -> Request \union {0}] /\ drawn'[r] = q
         /\ \A s \in Ref \ {r} : drawn'[s] = drawn[s]
  BY <1>1, <1>6 DEF SessionTypeOK
<1>14. PICK M \in SUBSET Ref : M = Mine(q)' /\ Mine(q) \subseteq M /\ r \in M /\ r \notin Mine(q)
  <2>1. Mine(q)' \subseteq Ref /\ Mine(q) \subseteq Mine(q)' /\ r \in Mine(q)' /\ r \notin Mine(q)
    BY <1>6, <1>13, NumberFact DEF Mine
  <2> QED BY <2>1
<1>15. grant \in GrantOf(RefsOf(group, M)) /\ grant \in Grant
  BY <1>2, <1>9, <1>11, <1>12, <1>14 DEF GrantOf, Grant, RefsOf
<1>16. ctx[q].fresh \in GrantsOf(M)
  <2>1. PICK D : D = Mine(q) /\ D \subseteq M
    BY <1>14
  <2>2. GrantsOf(D) \subseteq GrantsOf(M)
    BY <2>1, MoreIds
  <2> QED BY <1>1, <2>1, <2>2 DEF Carries
<1>17. PICK c \in Context :
        /\ c = Granted(ctx[q], group, grant) /\ c.at = ctx[q].at /\ c.done = ctx[q].done + 1
        /\ c.grants = ctx[q].grants /\ c.todo = ctx[q].todo
        /\ c.due = ctx[q].due /\ c.fresh \in GrantsOf(M)
        /\ c.fresh[group] = Append(ctx[q].fresh[group], grant)
        /\ \A other \in Group \ {group} : c.fresh[other] = ctx[q].fresh[other]
  BY <1>1, <1>15, <1>16, GrantedFact
<1>18. /\ UNCHANGED <<records, traces, now, faults, pass>> /\ reply' = reply /\ pc' = pc
       /\ pc[q] = "rate"
  BY DEF RateUnit, store, world
<1>19. /\ Moves(q, "rate", c, reply[q]) /\ reply[q] \in Seq(Nat) /\ "rate" \in Places
  <2>1. Put(q, c)
    BY <1>6, <1>7, <1>11, <1>17
  <2> QED BY <1>1, <1>18, <2>1, StayFact DEF Places, Steps
<1>20. /\ pc' \in [Request -> Places] /\ ctx' \in [Request -> Context]
       /\ reply' \in [Request -> Seq(Nat)]
       /\ pc'[q] = "rate" /\ ctx'[q] = c /\ reply'[q] = reply[q]
       /\ \A p \in Request \ {q} :
            pc'[p] = pc[p] /\ ctx'[p] = ctx[p] /\ reply'[p] = reply[p]
  BY <1>1, <1>17, <1>19, MoveFact
<1>21. SessionTypeOK'
  <2>1. [units |-> call.answer, until |-> until] \in [units : Int, until : Nat]
    BY <1>9
  <2>2. book' \in [Ref -> [units : Int, until : Nat]]
    BY <1>1, <1>6, <1>7, <2>1 DEF SessionTypeOK
  <2> QED BY <1>1, <1>13, <1>18, <1>20, <2>2 DEF SessionTypeOK, Places
<1>22. Progress
  <2>1. \A s \in Ref : drawn[s] # 0 => drawn'[s] = drawn[s]
    BY <1>6, <1>13
  <2>2. now <= now'
    BY <1>1, <1>18, NumberFact DEF SessionTypeOK
  <2> QED BY <1>18, <2>1, <2>2 DEF Progress
<1>23. HandlerInv(q)'
  <2>1. MayHold(q) \subseteq MayHold(q)'
    BY <1>1, <1>22, MoreHeld
  <2>2. PICK H : H = MayHold(q)' /\ MayHold(q) \subseteq H
    BY <2>1
  <2>3. MayHold(q) \union {NoRef} \subseteq H \union {NoRef}
    BY <2>2
  <2>4. c.grants \in GrantsOf(H) /\ c.todo \in Seq(ChargeOf(H))
    BY <1>1, <1>17, <2>2, MoreIds DEF Carries
  <2>5. c.due \in Seq(H \union {NoRef})
    BY <1>1, <1>17, <2>3, MoreIds DEF Carries
  <2>6. /\ ~Requests[q].resent /\ c.at <= now' /\ c.done <= Len(Requests[q].usage)
        /\ c.fresh \in GrantsOf(Mine(q)')
    BY <1>1, <1>14, <1>17, <1>18 DEF Carries
  <2> QED BY <1>20, <2>2, <2>4, <2>5, <2>6 DEF HandlerInv, Carries
<1>24. \A p \in Request : {r} \intersect Mine(p) = {}
  BY <1>6, NumberFact DEF Mine
<1>25. PICK R \in SUBSET Ref : R = {r}
  OBVIOUS
<1>26. Apply(call) /\ \A s \in Ref \ R : KeepsGrant(quota, call.doc, s, t)
  BY <1>6, <1>7, <1>10, <1>25
<1>27. PromiseInv(q)'
  <2> SUFFICES ASSUME Later(q)' = {} PROVE c.fresh \in CoveredGrants'
    BY <1>20 DEF PromiseInv, Stands
  <2>1. Later(q) = {}
    BY <1>1, <1>22, MoreHeld
  <2>2. KeepsMine(q)
    BY <1>4, <1>18, <1>24, <1>25, <1>26, CallKeepsMine
  <2>3. PICK m \in GrantsOf(Mine(q)) : m = ctx[q].fresh /\ m \in CoveredGrants
    BY <1>1, <1>18, <2>1 DEF SessionInv, PromiseInv, Stands, Carries
  <2>4. m \in CoveredGrants'
    BY <1>1, <1>21, <1>22, <2>2, <2>3, CoveredStays
  <2>5. PICK doc, n : doc = quota' /\ n = now' /\ m \in Covered(doc, n)
    BY <2>4 DEF CoveredGrants
  <2>6. PICK new \in Grants : new = c.fresh
    BY <1>17 DEF GrantsOf
  <2>7. /\ new[group] = Append(m[group], grant)
        /\ \A other \in Group \ {group} : new[other] = m[other]
    BY <1>17, <2>3, <2>6
  <2>8. ASSUME Plain(r), until > n PROVE Backed(doc, r, [units |-> call.answer, until |-> until])
    <3>1. t + Validity > t
      <4>1. now \in Nat /\ n = now
        BY <1>1, <1>18, <2>5, NumberFact DEF SessionTypeOK
      <4> QED BY <1>4, <1>5, <2>8, <4>1
    <3>2. doc = call.doc
      BY <1>26, <2>5 DEF Apply
    <3> QED BY <1>5, <1>7, <1>8, <2>8, <3>1, <3>2, ReserveCallBacked
  <2>9. grant.ref = r /\ grant.until = until
          /\ Worth(grant) = [units |-> call.answer, until |-> until]
    BY <1>11 DEF Worth
  <2>10. new \in Covered(doc, n)
    BY <1>15, <2>5, <2>7, <2>8, <2>9, CoveredMore
  <2> QED BY <2>5, <2>6, <2>10 DEF CoveredGrants
<1>28. PICK Q \in SUBSET Request : Q = {q}
  OBVIOUS
<1>29. \A p \in Request \ Q :
         /\ pc'[p] = pc[p] /\ ctx'[p] = ctx[p] /\ reply'[p] = reply[p]
         /\ Later(p)' = {} => R \intersect Mine(p) = {}
  BY <1>20, <1>24, <1>25, <1>28
<1>30. \A s \in Ref : drawn'[s] = 0 => drawn[s] = 0 /\ s \notin R
  BY <1>13, <1>25, NumberFact
<1>31. \A p \in Q : HandlerInv(p)' /\ PromiseInv(p)'
  BY <1>23, <1>27, <1>28
<1> QED BY <1>4, <1>9, <1>18, <1>21, <1>22, <1>26, <1>29, <1>30, <1>31, CallStep

\* A handler that may hold a grant of another request was begun after it.
LEMMA HeldByLater ==
  ASSUME NEW q \in Request, NEW p \in Request \ {q}, pc[q] # "idle", ~Requests[q].resent,
         NEW r \in MayHold(q), r \in Mine(p)
  PROVE  q \in Later(p)
<1>1. /\ Requests[p].session = Requests[q].session
      /\ Requests[p].seq < Requests[q].seq
  BY DEF Mine, MayHold
<1>2. Requests[q].seq >= Requests[p].seq
  BY <1>1, RequestFact
<1> QED BY <1>1, <1>2 DEF Later

\* A call of a handler under an id it may hold, while nothing of its own is
\* promised: the grants of the others are kept.
LEMMA HeldCall ==
  ASSUME SessionInv, NEW q \in Request, pc[q] \in {"account", "cleanup"},
         NEW c \in Context, Moves(q, pc[q], c, reply[q]), Carries(q, pc[q], c),
         book' \in [Ref -> [units : Int, until : Nat]],
         UNCHANGED <<drawn, records, traces, now, faults, pass>>,
         NEW t \in Nat, t <= now, NEW R \in SUBSET Ref, R \subseteq MayHold(q),
         NEW call, Accounts(quota, call), Apply(call),
         \A r \in Ref \ R : KeepsGrant(quota, call.doc, r, t)
  PROVE  SessionInv'
<1>1. SessionTypeOK /\ pc[q] \in Places /\ reply[q] \in Seq(Nat)
  BY StayFact DEF SessionInv
<1>2. /\ pc' \in [Request -> Places] /\ ctx' \in [Request -> Context]
      /\ reply' \in [Request -> Seq(Nat)]
      /\ pc'[q] = pc[q] /\ ctx'[q] = c /\ reply'[q] = reply[q]
      /\ \A p \in Request \ {q} :
           pc'[p] = pc[p] /\ ctx'[p] = ctx[p] /\ reply'[p] = reply[p]
  BY <1>1, MoveFact
<1>3. SessionTypeOK'
  BY <1>1, <1>2 DEF SessionTypeOK, Places
<1>4. Progress
  BY <1>1, <1>2, NumberFact DEF Progress, SessionTypeOK
<1>5. Mine(q)' = Mine(q) /\ MayHold(q)' = MayHold(q)
  BY DEF Mine, MayHold
<1>6. HandlerInv(q)'
  BY <1>2, <1>5 DEF HandlerInv, Carries
<1>7. PromiseInv(q)'
  BY <1>2 DEF PromiseInv, Stands
<1>8. PICK Q \in SUBSET Request : Q = {q}
  OBVIOUS
<1>9. ASSUME NEW p \in Request \ Q, Later(p)' = {} PROVE R \intersect Mine(p) = {}
  <2>1. Later(p) = {}
    BY <1>1, <1>4, <1>9, MoreHeld
  <2>2. ~Requests[q].resent
    BY DEF Carries
  <2>3. p \in Request \ {q}
    BY <1>8
  <2> QED BY <2>1, <2>2, <2>3, HeldByLater
<1>10. \A p \in Request \ Q :
         /\ pc'[p] = pc[p] /\ ctx'[p] = ctx[p] /\ reply'[p] = reply[p]
         /\ Later(p)' = {} => R \intersect Mine(p) = {}
  BY <1>2, <1>8, <1>9
<1>11. \A r \in Ref : drawn'[r] = 0 => drawn[r] = 0 /\ r \notin R
  <2>1. \A r \in MayHold(q) : drawn[r] # 0
    BY NumberFact DEF MayHold
  <2> QED BY <2>1
<1>12. \A p \in Q : HandlerInv(p)' /\ PromiseInv(p)'
  BY <1>6, <1>7, <1>8
<1> QED BY <1>3, <1>4, <1>10, <1>11, <1>12, CallStep

\* Accounting debits a grant its handler may hold.
LEMMA DebitUsedInv ==
  ASSUME SessionInv, NEW q \in Request, DebitUsed(q)
  PROVE  SessionInv'
<1>1. SessionTypeOK /\ Carries(q, "account", ctx[q]) /\ pc[q] = "account"
  BY DEF SessionInv, HandlerInv, DebitUsed
<1>2. PICK b \in Context : b = ctx[q]
  BY <1>1, StayFact
<1>3. PICK M \in SUBSET Ref : M = MayHold(q)
  BY MineHeld
<1>4. PICK todo \in Seq(ChargeOf(M)) : todo = b.todo /\ todo # <<>>
  BY <1>1, <1>2, <1>3 DEF Carries, DebitUsed
<1>5. PICK d \in ChargeOf(M) : d = Head(todo)
  BY <1>4
<1>6. d.ref \in M /\ d.ref \in Ref /\ d.units \in Nat /\ d.reclaim \in BOOLEAN
  BY DEF ChargeOf
<1>7. PICK t \in Nat : t = b.at /\ t <= now
  BY <1>1, <1>2, NumberFact DEF Carries, Context
<1>8. PICK call : call = DebitCall(quota, d.ref, d.units, d.reclaim, t)
  OBVIOUS
<1>9. quota \in SoundDocument
  BY DEF SessionInv, BooksInv
<1>10. Accounts(quota, call)
  BY <1>6, <1>8, <1>9, DebitAccounts
<1>11. PICK R \in SUBSET Ref : R = {d.ref}
  BY <1>6
<1>12. \A r \in Ref \ R : KeepsGrant(quota, call.doc, r, t)
  BY <1>6, <1>8, <1>9, <1>11, CallsKeepOthers
<1>13. PICK rest \in Seq(ChargeOf(M)) : rest = Tail(todo)
  BY <1>4, RestOfSeq
<1>14. rest \in Seq(Charge)
  <2>1. ChargeOf(Ref \union {NoRef}) = Charge /\ M \subseteq Ref \union {NoRef}
    BY DEF ChargeOf, Charge
  <2> QED BY <2>1, MoreIds
<1>15. PICK c \in Context : c = [b EXCEPT !.todo = rest]
  BY <1>14 DEF Context
<1>16. /\ c.at = b.at /\ c.done = b.done /\ c.fresh = b.fresh /\ c.todo = rest
       /\ c.due = b.due /\ c.grants = b.grants /\ c.kept = b.kept
  BY <1>15 DEF Context
<1>17. Carries(q, "account", c)
  <2>1. UsageGroup(q, c) = UsageGroup(q, b)
    BY <1>16 DEF UsageGroup
  <2> QED BY <1>1, <1>2, <1>3, <1>16, <2>1 DEF Carries
<1>18. /\ Apply(call) /\ Put(q, c) /\ pc' = pc /\ reply' = reply
       /\ UNCHANGED <<drawn, records, traces, now, faults, pass>>
  BY <1>2, <1>4, <1>5, <1>7, <1>8, <1>13, <1>15 DEF DebitUsed, store, world
<1>19. book' \in [Ref -> [units : Int, until : Nat]]
  <2>1. book \in [Ref -> [units : Int, until : Nat]]
    BY <1>1 DEF SessionTypeOK
  <2>2. book' = [book EXCEPT
                   ![d.ref] = IF d.reclaim \/ d.units = book[d.ref].units
                                THEN NoGrant
                                ELSE [units |-> book[d.ref].units - d.units,
                                      until |-> book[d.ref].until]]
    BY <1>2, <1>4, <1>5 DEF DebitUsed
  <2>3. [units |-> book[d.ref].units - d.units, until |-> book[d.ref].until]
          \in [units : Int, until : Nat]
    BY <1>6, <2>1
  <2>4. NoGrant \in [units : Int, until : Nat]
    BY DEF NoGrant
  <2> QED BY <2>1, <2>2, <2>3, <2>4
<1>20. Moves(q, pc[q], c, reply[q])
  BY <1>1, <1>18, StayFact
<1>21. R \subseteq MayHold(q)
  BY <1>3, <1>6, <1>11
<1>22. pc[q] \in {"account", "cleanup"} /\ Carries(q, pc[q], c)
  BY <1>1, <1>17
<1> QED BY <1>7, <1>10, <1>12, <1>18, <1>19, <1>20, <1>21, <1>22, HeldCall

\* What an error leads to releases grants the handler may hold.
LEMMA CleanUpInv ==
  ASSUME SessionInv, NEW q \in Request, CleanUp(q)
  PROVE  SessionInv'
<1>1. SessionTypeOK /\ Carries(q, "cleanup", ctx[q]) /\ pc[q] = "cleanup"
  BY DEF SessionInv, HandlerInv, CleanUp
<1>2. CASE ctx[q].due = <<>>
  <2>1. /\ Goto(q, "failed") /\ Put(q, NoContext) /\ reply' = reply
        /\ UNCHANGED <<quota, journal, book, drawn, records, now, pass>>
        /\ faults' \in 0..MaxFaults
        /\ \A t \in traces' : t.session \in Session /\ t.seq \in Nat /\ t.answer \in Seq(Nat)
    BY <1>1, <1>2 DEF CleanUp, credit, store, world, SessionTypeOK
  <2>2. NoContext \in Context /\ Carries(q, "failed", NoContext)
    BY <1>1, CarriesNothing
  <2>3. Stands(q, "failed", NoContext, reply[q])
    BY DEF Stands
  <2>4. /\ "failed" \in Places \ {"idle"} /\ reply[q] \in Seq(Nat)
        /\ Moves(q, "failed", NoContext, reply[q])
    BY <1>1, <2>1, StayFact DEF Places
  <2> QED BY <2>1, <2>2, <2>3, <2>4, HandlerMove
<1>3. CASE ctx[q].due # <<>>
  <2>1. PICK b \in Context : b = ctx[q]
    BY <1>1, StayFact
  <2>2. PICK M \in SUBSET Ref : M = MayHold(q)
    BY MineHeld
  <2>3. PICK D : D = M \union {NoRef} /\ D \subseteq Ref \union {NoRef}
    OBVIOUS
  <2>4. PICK due \in Seq(D) : due = b.due /\ due # <<>>
    BY <1>1, <1>3, <2>1, <2>2, <2>3 DEF Carries
  <2>5. PICK r \in D, rest \in Seq(D) : r = Head(due) /\ rest = Tail(due)
    BY <2>4, RestOfSeq
  <2>6. PICK t \in Nat : t = now /\ t <= now
    BY <1>1, NumberFact DEF SessionTypeOK
  <2>7. PICK call : call = IF r = NoRef THEN ExpireCall(quota, t) ELSE ReleaseCall(quota, r, t)
    OBVIOUS
  <2>8. PICK R \in SUBSET Ref : R = {r} \ {NoRef} /\ R \subseteq M
    BY <2>3
  <2>9. r = NoRef \/ r \in Ref
    BY <2>3
  <2>10. quota \in SoundDocument
    BY DEF SessionInv, BooksInv
  <2>11. Accounts(quota, call)
    <3>1. CASE r = NoRef
      BY <2>7, <2>10, <3>1, ExpireAccounts
    <3>2. CASE r # NoRef
      BY <2>7, <2>9, <2>10, <3>2, ReleaseAccounts
    <3> QED BY <3>1, <3>2
  <2>12. ASSUME NEW s \in Ref \ R PROVE KeepsGrant(quota, call.doc, s, t)
    <3>1. CASE r = NoRef
      BY <2>7, <2>10, <3>1, CallsKeepOthers
    <3>2. CASE r # NoRef
      <4>1. s # r /\ r \in Ref
        BY <2>8, <2>9, <3>2
      <4> QED BY <2>7, <2>10, <3>2, <4>1, CallsKeepOthers
    <3> QED BY <3>1, <3>2
  <2>13. rest \in Seq(Ref \union {NoRef})
    BY <2>3, MoreIds
  <2>14. PICK c \in Context : c = [b EXCEPT !.due = rest]
    BY <2>13 DEF Context
  <2>15. /\ c.at = b.at /\ c.done = b.done /\ c.fresh = b.fresh /\ c.todo = b.todo
         /\ c.due = rest /\ c.grants = b.grants /\ c.kept = b.kept
    BY <2>14 DEF Context
  <2>16. Carries(q, "cleanup", c)
    BY <1>1, <2>1, <2>2, <2>3, <2>15 DEF Carries
  <2>17. /\ Apply(call) /\ Put(q, c) /\ pc' = pc /\ reply' = reply
         /\ book' = [s \in Ref |-> IF s = r THEN NoGrant ELSE book[s]]
         /\ UNCHANGED <<drawn, records, traces, now, faults, pass>>
    BY <1>3, <2>1, <2>4, <2>5, <2>6, <2>7, <2>14 DEF CleanUp, store, world
  <2>18. book' \in [Ref -> [units : Int, until : Nat]]
    <3>1. book \in [Ref -> [units : Int, until : Nat]] /\ NoGrant \in [units : Int, until : Nat]
      BY <1>1 DEF SessionTypeOK, NoGrant
    <3> QED BY <2>17, <3>1
  <2>19. Moves(q, pc[q], c, reply[q])
    BY <1>1, <2>17, StayFact
  <2>20. pc[q] \in {"account", "cleanup"} /\ Carries(q, pc[q], c) /\ R \subseteq MayHold(q)
    BY <1>1, <2>2, <2>8, <2>16
  <2> QED BY <2>6, <2>11, <2>12, <2>17, <2>18, <2>19, <2>20, HeldCall
<1> QED BY <1>2, <1>3

\* Rating a usage, free of charge or not, grants under the handler's own ids.
LEMMA RateUnitInv ==
  ASSUME SessionInv, NEW q \in Request, RateUnit(q)
  PROVE  SessionInv'
BY RateFreeInv, RatePaidInv

-----------------------------------------------------------------------------
\* The record of a request is saved: it holds grants of that request only, and
\* it is not the record any other request is still relying on.
LEMMA SaveRecordInv ==
  ASSUME SessionInv, NEW q \in Request, SaveRecord(q)
  PROVE  SessionInv'
<1>1. SessionTypeOK /\ Carries(q, "save", ctx[q]) /\ pc[q] = "save"
  BY DEF SessionInv, HandlerInv, SaveRecord
<1>2. CASE Kind(q) = "create" /\ Row(q).there
  <2>1. Abandon(q, ctx[q]) /\ Quiet /\ reply' = reply /\ pc[q] \in Steps
    BY <1>1, <1>2 DEF SaveRecord, Quiet, credit, world, SessionTypeOK, Steps
  <2> QED BY <2>1, AbandonInv
<1>3. CASE ~(Kind(q) = "create" /\ Row(q).there)
  <2>1. PICK c \in Context : c = ctx[q]
    BY <1>1, StayFact
  <2>2. PICK s \in Session, n \in Nat : s = Requests[q].session /\ n = Requests[q].seq
    BY RequestFact
  <2>3. PICK old : old = records[s] /\ old = Row(q)
    BY <2>2 DEF Row
  <2>4. PICK row : row = [there |-> TRUE, seq |-> n, at |-> now, groups |-> c.groups,
                          grants |-> c.grants]
    OBVIOUS
  <2>5. PICK new : new = IF Kind(q) \in {"release", "event"} THEN NoRecord
                         ELSE IF Kind(q) = "create" \/ old.there THEN row ELSE old
    OBVIOUS
  <2>6. /\ Goto(q, "trace") /\ ctx' = ctx /\ reply' = reply
        /\ UNCHANGED <<quota, journal, book, drawn, traces, now, faults, pass>>
    BY <1>3 DEF SaveRecord, credit, world
  <2>a. records' = [records EXCEPT ![s] = new]
    BY <1>3, <2>1, <2>2, <2>3, <2>4, <2>5 DEF SaveRecord
  <2>7. new \in [there : BOOLEAN, seq : Nat, at : Nat, groups : SUBSET Group, grants : Grants]
    <3>1. old \in [there : BOOLEAN, seq : Nat, at : Nat, groups : SUBSET Group, grants : Grants]
      <4>1. \A other \in Session :
              records[other] \in [there : BOOLEAN, seq : Nat, at : Nat,
                                  groups : SUBSET Group, grants : Grants]
        BY <1>1 DEF SessionTypeOK
      <4> QED BY <2>3, <4>1
    <3>2. now \in Nat
      BY <1>1, NumberFact DEF SessionTypeOK
    <3>3. row \in [there : BOOLEAN, seq : Nat, at : Nat, groups : SUBSET Group, grants : Grants]
      BY <2>4, <3>2 DEF Context
    <3>4. NoRecord \in [there : BOOLEAN, seq : Nat, at : Nat, groups : SUBSET Group, grants : Grants]
      BY EmptyFact DEF NoRecord, GrantsOf
    <3> QED BY <2>5, <3>1, <3>3, <3>4
  <2>8. /\ records' \in [Session -> [there : BOOLEAN, seq : Nat, at : Nat,
                                     groups : SUBSET Group, grants : Grants]]
        /\ records'[s] = new /\ \A other \in Session \ {s} : records'[other] = records[other]
    BY <1>1, <2>a, <2>7 DEF SessionTypeOK
  <2>9. /\ Moves(q, "trace", c, reply[q]) /\ reply[q] \in Seq(Nat)
        /\ "trace" \in Places
    BY <1>1, <2>1, <2>6, StayFact DEF Places, Steps
  <2>10. /\ pc' \in [Request -> Places] /\ ctx' \in [Request -> Context]
         /\ reply' \in [Request -> Seq(Nat)]
         /\ pc'[q] = "trace" /\ ctx'[q] = c /\ reply'[q] = reply[q]
         /\ \A p \in Request \ {q} :
              pc'[p] = pc[p] /\ ctx'[p] = ctx[p] /\ reply'[p] = reply[p]
    BY <1>1, <2>9, MoveFact
  <2>11. SessionTypeOK'
    BY <1>1, <2>6, <2>8, <2>10 DEF SessionTypeOK, Places
  <2>12. Progress
    BY <1>1, <2>6, <2>10, NumberFact DEF Progress, SessionTypeOK
  <2>13. BooksInv'
    BY <2>6 DEF SessionInv, BooksInv
  <2>14. /\ Mine(q)' = Mine(q) /\ MayHold(q)' = MayHold(q)
         /\ Under(s, n)' = Under(s, n) /\ CoveredGrants' = CoveredGrants
    BY <2>6 DEF Mine, MayHold, Under, CoveredGrants, Covered
  <2>15. Carries(q, "trace", c)
    BY <1>1, <2>1 DEF Carries
  <2>16. HandlerInv(q)'
    BY <2>6, <2>10, <2>14, <2>15 DEF HandlerInv, Carries
  <2>17. ~Requests[q].resent /\ (Kind(q) \in Opening => c.grants \in GrantsOf(Mine(q)))
    BY <1>1, <2>1 DEF Carries
  <2>18. new = old \/ ~new.there \/ (new = row /\ Kind(q) \in Opening)
    <3>1. Kind(q) \in {"create", "update", "release", "event"}
      BY RequestFact DEF Kind
    <3>2. ~NoRecord.there
      BY DEF NoRecord
    <3>3. CASE Kind(q) \in {"release", "event"}
      BY <2>5, <3>2, <3>3
    <3>4. CASE Kind(q) \in Opening
      <4>1. new = row \/ new = old
        BY <2>5, <3>4 DEF Opening
      <4> QED BY <3>4, <4>1
    <3> QED BY <3>1, <3>3, <3>4 DEF Opening
  <2>b. Kind(q) \in Opening /\ new.there => new = row
    <3>1. CASE Kind(q) = "create"
      BY <2>5, <3>1
    <3>2. CASE Kind(q) = "update" /\ old.there
      BY <2>5, <3>2
    <3>3. CASE Kind(q) = "update" /\ ~old.there
      BY <2>5, <3>3
    <3> QED BY <3>1, <3>2, <3>3 DEF Opening
  <2>19. PromiseInv(q)'
    <3> SUFFICES ASSUME Later(q)' = {}, Kind(q) \in Opening
                 PROVE  c.grants \in CoveredGrants /\ (Recorded(q)' => Row(q)'.grants = c.grants)
      BY <2>10, <2>14 DEF PromiseInv, Stands
    <3>1. Later(q) = {}
      BY <1>1, <2>12, MoreHeld
    <3>2. c.grants \in CoveredGrants
      BY <1>1, <2>1, <3>1 DEF SessionInv, PromiseInv, Stands
    <3>3. Row(q)' = new
      BY <2>2, <2>8 DEF Row
    <3>4. Recorded(q)' => Row(q)'.grants = c.grants
      BY <2>4, <2>b, <3>3 DEF Recorded
    <3> QED BY <3>2, <3>4
  <2>20. ASSUME new = row, Kind(q) \in Opening PROVE RecordInv(s)'
    <3>1. c.grants \in GrantsOf(Under(s, n))
      BY <2>2, <2>17, <2>20, MineHeld, MoreIds
    <3>2. records'[s].seq = n /\ records'[s].grants = c.grants
      BY <2>4, <2>8, <2>20
    <3>3. \E p \in Request :
            /\ Requests[p].session = s /\ Requests[p].seq = n
            /\ ~Requests[p].resent /\ Kind(p) \in Opening /\ pc'[p] # "idle"
      BY <2>2, <2>10, <2>17, <2>20
    <3> QED BY <2>14, <3>1, <3>2, <3>3 DEF RecordInv
  <2>21. \A other \in Session :
           records'[other] = records[other] \/ ~records'[other].there \/ RecordInv(other)'
    BY <2>3, <2>8, <2>18, <2>20
  <2>22. ASSUME NEW p \in Request \ {q}, Later(p)' = {}, Recorded(p)'
         PROVE  Row(p)' = Row(p)
    <3>1. Requests[p].session \in Session
      BY RequestFact
    <3>2. CASE Requests[p].session # s
      BY <2>8, <3>1, <3>2 DEF Row
    <3>3. CASE Requests[p].session = s
      <4>1. Row(p)' = new /\ Row(p) = old /\ new.there /\ new.seq = Requests[p].seq
        BY <2>3, <2>8, <2>22, <3>3 DEF Row, Recorded
      <4>2. ASSUME new = row PROVE FALSE
        <5>1. Requests[q].seq = Requests[p].seq
          BY <2>2, <2>4, <4>1, <4>2
        <5>2. Requests[q].seq >= Requests[p].seq
          BY <5>1, RequestFact
        <5>3. q \in Later(p)'
          BY <2>2, <2>10, <2>17, <3>3, <5>2 DEF Later
        <5> QED BY <2>22, <5>3
      <4> QED BY <2>18, <4>1, <4>2
    <3> QED BY <3>2, <3>3
  <2>23. \A p \in Request : KeepsMine(p)
    BY <2>6 DEF KeepsMine
  <2>24. PICK Q \in SUBSET Request : Q = {q}
    OBVIOUS
  <2>25. \A p \in Q : HandlerInv(p)' /\ PromiseInv(p)'
    BY <2>16, <2>19, <2>24
  <2>26. \A p \in Request \ Q :
           /\ pc'[p] = pc[p] /\ ctx'[p] = ctx[p] /\ reply'[p] = reply[p]
           /\ KeepsMine(p)
           /\ Later(p)' = {} /\ Recorded(p)' => Row(p)' = Row(p)
    BY <2>10, <2>22, <2>23, <2>24
  <2> QED BY <2>11, <2>12, <2>13, <2>21, <2>25, <2>26, StepInv
<1> QED BY <1>2, <1>3

-----------------------------------------------------------------------------
\* The job that expires the quota, and a provisioning event, spare the grants
\* that are still valid.
LEMMA BackgroundCall ==
  ASSUME SessionInv, NEW call, Accounts(quota, call), Apply(call),
         \A r \in Ref : KeepsGrant(quota, call.doc, r, now),
         pass' \in BOOLEAN,
         UNCHANGED <<records, traces, pc, ctx, reply, now, drawn, faults, book>>
  PROVE  SessionInv'
<1>1. SessionTypeOK'
  BY DEF SessionInv, SessionTypeOK
<1>2. now \in Nat /\ now <= now
  BY NumberFact DEF SessionInv, SessionTypeOK
<1>3. Progress
  BY <1>2 DEF Progress
<1>4. PICK Q \in SUBSET Request : Q = {}
  OBVIOUS
<1>5. PICK R \in SUBSET Ref : R = {}
  OBVIOUS
<1>6. PICK t \in Nat : t = now /\ t <= now
  BY <1>2
<1>7. \A r \in Ref \ R : KeepsGrant(quota, call.doc, r, t)
  BY <1>6
<1>8. \A r \in Ref : drawn'[r] = 0 => drawn[r] = 0 /\ r \notin R
  BY <1>5
<1>9. \A p \in Q : HandlerInv(p)' /\ PromiseInv(p)'
  BY <1>4
<1>10. \A p \in Request \ Q :
         /\ pc'[p] = pc[p] /\ ctx'[p] = ctx[p] /\ reply'[p] = reply[p]
         /\ Later(p)' = {} => R \intersect Mine(p) = {}
  BY <1>5
<1> QED BY <1>1, <1>3, <1>6, <1>7, <1>8, <1>9, <1>10, CallStep

\* A provisioning call keeps every grant.
LEMMA ProvisionInv ==
  ASSUME SessionInv, NEW c \in Counter, Provision(c)
  PROVE  SessionInv'
<1>1. quota \in SoundDocument /\ now \in Nat /\ pass \in BOOLEAN
  BY NumberFact DEF SessionInv, BooksInv, SessionTypeOK
<1>2. PICK call : call = ProvisionCall(quota, c, now)
  OBVIOUS
<1>3. Accounts(quota, call) /\ \A r \in Ref : KeepsGrant(quota, call.doc, r, now)
  BY <1>1, <1>2, ProvisionAccounts, CallsKeepOthers
<1>4. /\ Apply(call) /\ pass' \in BOOLEAN
      /\ UNCHANGED <<records, traces, pc, ctx, reply, now, drawn, faults, book>>
  BY <1>1, <1>2 DEF Provision, store, handler
<1> QED BY <1>3, <1>4, BackgroundCall

\* Housekeeping prunes no reservation that is still valid.
LEMMA ExpireQuotaInv ==
  ASSUME SessionInv, ExpireQuota
  PROVE  SessionInv'
<1>1. quota \in SoundDocument /\ now \in Nat /\ pass \in BOOLEAN
  BY NumberFact DEF SessionInv, BooksInv, SessionTypeOK
<1>2. PICK call : call = ExpireCall(quota, now)
  OBVIOUS
<1>3. Accounts(quota, call) /\ \A r \in Ref : KeepsGrant(quota, call.doc, r, now)
  BY <1>1, <1>2, ExpireAccounts, CallsKeepOthers
<1>4. /\ Apply(call) /\ pass' \in BOOLEAN
      /\ UNCHANGED <<records, traces, pc, ctx, reply, now, drawn, faults, book>>
  BY <1>1, <1>2 DEF ExpireQuota, store, handler
<1> QED BY <1>3, <1>4, BackgroundCall

\* A step that moves no handler and leaves the quota and the ids alone: some
\* records go, and time may pass.
LEMMA OutsideStep ==
  ASSUME SessionInv, UNCHANGED <<quota, journal, book, drawn, traces, pc, ctx, reply, faults, pass>>,
         now' \in 0..MaxTime, now <= now',
         \A s \in Session : records'[s] = records[s] \/ records'[s] = NoRecord,
         records' = [s \in Session |-> records'[s]]
  PROVE  SessionInv'
<1>1. SessionTypeOK
  BY DEF SessionInv
<1>2. SessionTypeOK'
  <2>1. NoRecord \in [there : BOOLEAN, seq : Nat, at : Nat, groups : SUBSET Group, grants : Grants]
    BY EmptyFact DEF NoRecord, GrantsOf
  <2>2. \A s \in Session :
          records'[s] \in [there : BOOLEAN, seq : Nat, at : Nat,
                           groups : SUBSET Group, grants : Grants]
    BY <1>1, <2>1 DEF SessionTypeOK
  <2>3. records' \in [Session -> [there : BOOLEAN, seq : Nat, at : Nat,
                                  groups : SUBSET Group, grants : Grants]]
    BY <2>2
  <2> QED BY <1>1, <2>3 DEF SessionTypeOK
<1>3. Progress
  BY DEF Progress
<1>4. BooksInv'
  BY DEF SessionInv, BooksInv
<1>5. \A p \in Request : KeepsMine(p)
  BY DEF KeepsMine
<1>6. ASSUME NEW p \in Request, Recorded(p)' PROVE Row(p)' = Row(p)
  <2>1. Requests[p].session \in Session
    BY RequestFact
  <2> QED BY <1>6, <2>1 DEF Recorded, Row, NoRecord
<1>7. \A s \in Session :
        records'[s] = records[s] \/ ~records'[s].there \/ RecordInv(s)'
  BY DEF NoRecord
<1>8. PICK Q \in SUBSET Request : Q = {}
  OBVIOUS
<1>9. \A p \in Q : HandlerInv(p)' /\ PromiseInv(p)'
  BY <1>8
<1>10. \A p \in Request \ Q :
         /\ pc'[p] = pc[p] /\ ctx'[p] = ctx[p] /\ reply'[p] = reply[p]
         /\ KeepsMine(p)
         /\ Later(p)' = {} /\ Recorded(p)' => Row(p)' = Row(p)
  BY <1>5, <1>6
<1> QED BY <1>2, <1>3, <1>4, <1>7, <1>9, <1>10, StepInv

\* A stale record is dropped; nothing is then told to be in it.
LEMMA CleanStaleInv ==
  ASSUME SessionInv, CleanStaleSessions
  PROVE  SessionInv'
<1>1. /\ UNCHANGED <<quota, journal, book, drawn, traces, pc, ctx, reply, faults, pass, now>>
      /\ records' = [s \in Session |->
                       IF records[s].at + StaleAfter < now THEN NoRecord ELSE records[s]]
  BY DEF CleanStaleSessions, credit, handler, world
<1>2. now' \in 0..MaxTime /\ now <= now'
  BY <1>1, NumberFact DEF SessionInv, SessionTypeOK
<1>3. /\ \A s \in Session : records'[s] = records[s] \/ records'[s] = NoRecord
      /\ records' = [s \in Session |-> records'[s]]
  BY <1>1
<1> QED BY <1>1, <1>2, <1>3, OutsideStep

\* Time only takes validity away.
LEMMA TickInv ==
  ASSUME SessionInv, Tick
  PROVE  SessionInv'
<1>1. /\ UNCHANGED <<quota, journal, book, drawn, traces, pc, ctx, reply, faults, pass, records>>
      /\ now' = now + 1 /\ now < MaxTime
  BY DEF Tick, credit, store, handler
<1>2. SessionTypeOK
  BY DEF SessionInv
<1>3. now' \in 0..MaxTime /\ now <= now'
  BY <1>1, <1>2, NumberFact DEF SessionTypeOK
<1>4. records' = [s \in Session |-> records'[s]]
  BY <1>1, <1>2 DEF SessionTypeOK
<1> QED BY <1>1, <1>3, <1>4, OutsideStep

-----------------------------------------------------------------------------
\* Initially nothing is reserved, recorded or held.
LEMMA InitSessionInv == Init => SessionInv
<1> SUFFICES ASSUME Init PROVE SessionInv
  OBVIOUS
<1>1. SessionTypeOK
  <2>1. NoRecord \in [there : BOOLEAN, seq : Nat, at : Nat, groups : SUBSET Group, grants : Grants]
    BY EmptyFact DEF NoRecord, GrantsOf
  <2>2. <<>> \in Seq(Nat)
    OBVIOUS
  <2>3. NoContext \in Context /\ NoGrant \in [units : Int, until : Nat]
    BY EmptyFact DEF NoGrant
  <2>4. now \in 0..MaxTime /\ faults \in 0..MaxFaults /\ pass \in BOOLEAN
    <3>1. now = 0 /\ faults = 0 /\ pass = FALSE
      BY DEF Init
    <3>2. 0 \in 0..MaxTime /\ 0 \in 0..MaxFaults
      BY NumberFact
    <3> QED BY <3>1, <3>2
  <2>5. /\ drawn \in [Ref -> Request \union {0}]
        /\ book \in [Ref -> [units : Int, until : Nat]]
    BY <2>3 DEF Init
  <2>6. records \in [Session -> [there : BOOLEAN, seq : Nat, at : Nat,
                                 groups : SUBSET Group, grants : Grants]]
    BY <2>1 DEF Init
  <2>7. pc \in [Request -> Places] /\ ctx \in [Request -> Context]
    BY <2>3 DEF Init, Places
  <2>8. reply \in [Request -> Seq(Nat)] /\ traces = {}
    BY <2>2 DEF Init
  <2> QED BY <2>4, <2>5, <2>6, <2>7, <2>8 DEF SessionTypeOK, Places
<1>2. BooksInv
  <2>1. quota \in SoundDocument
    BY EmptySound DEF Init
  <2>2. journal \in [Counter -> Totals] /\ Balanced(quota, journal)
    BY DEF Init, EmptyJournal, Totals, Balanced, EmptyDocument, Absent
  <2>3. \A r \in Ref : Unheld(quota, r)
    BY DEF Init, EmptyDocument, Absent, Unreserved, NoReservation, Unheld, Amount
  <2> QED BY <2>1, <2>2, <2>3 DEF BooksInv
<1>3. ASSUME NEW q \in Request PROVE HandlerInv(q) /\ PromiseInv(q)
  <2>1. pc[q] = "idle" /\ ctx[q] = NoContext
    BY DEF Init
  <2>2. Carries(q, "idle", NoContext)
    BY <1>1, CarriesNothing
  <2>3. Stands(q, "idle", NoContext, reply[q])
    BY DEF Stands
  <2> QED BY <2>1, <2>2, <2>3 DEF HandlerInv, PromiseInv
<1>4. \A s \in Session : RecordInv(s)
  BY DEF Init, RecordInv, NoRecord
<1> QED BY <1>1, <1>2, <1>3, <1>4 DEF SessionInv

\* Every step keeps the inductive invariant.
LEMMA NextSessionInv == SessionInv /\ [Next]_vars => SessionInv'
<1> SUFFICES ASSUME SessionInv, [Next]_vars PROVE SessionInv'
  OBVIOUS
<1>1. CASE \E q \in Request : Serve(q)
  <2>1. PICK q \in Request : Serve(q)
    BY <1>1
  <2>2. CASE Begin(q) \/ Resend(q) \/ LoadNone(q) \/ LoadRecord(q)
    BY <2>2, BeginInv, ResendInv, LoadNoneInv, LoadRecordInv
  <2>3. CASE AccountUsage(q) \/ DebitUsed(q) \/ AccountDone(q)
    BY <2>3, AccountUsageInv, DebitUsedInv, AccountDoneInv
  <2>4. CASE RateUnit(q) \/ RateDone(q)
    BY <2>4, RateUnitInv, RateDoneInv
  <2>5. CASE SaveRecord(q) \/ CreateTrace(q) \/ CleanUp(q)
    BY <2>5, SaveRecordInv, CreateTraceInv, CleanUpInv
  <2> QED BY <2>1, <2>2, <2>3, <2>4, <2>5 DEF Serve
<1>2. CASE \E q \in Request : LookUpFails(q) \/ Fault(q) \/ ReleaseFails(q) \/ Crash(q)
  BY <1>2, LookUpFailsInv, FaultInv, ReleaseFailsInv, CrashInv
<1>3. CASE \E c \in Counter : Provision(c)
  BY <1>3, ProvisionInv
<1>4. CASE ExpireQuota \/ CleanStaleSessions \/ Tick
  BY <1>4, ExpireQuotaInv, CleanStaleInv, TickInv
<1>5. CASE UNCHANGED vars
  <2>1. /\ UNCHANGED <<quota, journal, book, drawn, traces, pc, ctx, reply, faults, pass>>
        /\ records' = records /\ now' = now
    BY <1>5 DEF vars, credit, store, handler, world
  <2>2. SessionTypeOK
    BY DEF SessionInv
  <2>3. now' \in 0..MaxTime /\ now <= now' /\ records' = [s \in Session |-> records'[s]]
    BY <2>1, <2>2, NumberFact DEF SessionTypeOK
  <2> QED BY <2>1, <2>3, OutsideStep
<1> QED BY <1>1, <1>2, <1>3, <1>4, <1>5 DEF Next

-----------------------------------------------------------------------------
\* What backs a grant of a plain tariff is at least as many units or cents.
LEMMA BackedAmount ==
  ASSUME NEW doc \in SoundDocument, NEW r \in Ref, NEW grant, Backed(doc, r, grant),
         grant.units \in Nat
  PROVE  Total([c \in Counter |-> doc[c].reserved[r].amount], NumCounters) >= grant.units
<1>1. PICK n \in Nat : n = NumCounters /\ Counter = 1..n
  BY SizeAssumption DEF Counter
<1>2. PICK f \in [1..n -> Nat] : f = [c \in Counter |-> Amount(doc, r, c)]
  <2>1. \A c \in Counter : Amount(doc, r, c) \in Nat
    BY DEF SoundDocument, Sound, CounterState, Reservation, Amount
  <2> QED BY <1>1, <2>1
<1>3. PICK g \in [1..n -> Nat] : g = ServiceAmounts(doc, r)
  <2>1. \A c \in 1..n : (IF c \in Monetary THEN 0 ELSE Amount(doc, r, c)) \in Nat
    BY <1>1, <1>2
  <2> QED BY <1>1, <2>1 DEF ServiceAmounts
<1>4. PICK x \in Nat : /\ grant.units <= Bundle(doc, r) + x
                       /\ x > 0 => Paying(r) # {}
                       /\ Priced(doc, r, x)
  BY DEF Backed
<1>5. Total(g, n) \in Nat /\ Total(f, n) \in Nat
  BY TotalNat
<1>6. Bundle(doc, r) \in Nat /\ Bundle(doc, r) <= Total(g, n)
  BY <1>1, <1>3, <1>5 DEF Bundle
<1>7. \A c \in 1..n : g[c] = IF c \in Monetary THEN 0 ELSE f[c]
  BY <1>1, <1>2, <1>3 DEF ServiceAmounts
<1>8. CASE x = 0
  <2>1. \A c \in 1..n : g[c] <= f[c]
    BY <1>7
  <2>2. Total(g, n) <= Total(f, n)
    BY <2>1, TotalMono
  <2> QED BY <1>1, <1>2, <1>4, <1>5, <1>6, <1>8, <2>2 DEF Amount
<1>9. CASE x > 0
  <2>1. PICK p \in Paying(r) : TRUE
    BY <1>4, <1>9
  <2>2. p \in Monetary /\ p \in 1..n
    BY <1>1, <2>1, CounterAssumption DEF Paying
  <2>3. PICK taxed \in Nat \ {0} : taxed = Tariff[r].taxed
    BY TermsFact
  <2>4. f[p] = taxed * x
    BY <1>1, <1>2, <1>4, <2>1, <2>2, <2>3 DEF Priced
  <2>5. f[p] >= x
    <3>1. PICK k \in Nat : taxed = k + 1
      <4>1. taxed - 1 \in Nat /\ taxed = (taxed - 1) + 1
        OBVIOUS
      <4> QED BY <4>1
    <3>2. PICK y \in Nat : y = k * x
      BY ONLY k \in Nat, x \in Nat
    <3>3. f[p] = y + x
      BY <2>4, <3>1, <3>2
    <3> QED BY ONLY <3>3, x \in Nat, y \in Nat
  <2>6. PICK h \in [1..n -> Nat] : h = [g EXCEPT ![p] = f[p]]
    BY <2>2
  <2>7. h[p] = f[p] /\ \A c \in 1..n : c # p => h[c] = g[c]
    BY <2>2, <2>6
  <2>a. f \in [1..n -> Int] /\ g \in [1..n -> Int] /\ h \in [1..n -> Int]
    OBVIOUS
  <2>8. Total(h, n) = Total(g, n) - g[p] + h[p]
    BY ONLY <2>2, <2>7, <2>a, n \in Nat, TotalUpdate
  <2>9. Total(h, n) <= Total(f, n)
    <3>1. ASSUME NEW c \in 1..n PROVE h[c] <= f[c]
      <4>1. f[c] \in Nat
        OBVIOUS
      <4>2. CASE c = p
        BY <2>7, <4>1, <4>2
      <4>3. CASE c # p
        <5>1. h[c] = g[c] /\ (g[c] = 0 \/ g[c] = f[c])
          BY <1>7, <2>7, <4>3
        <5> QED BY <4>1, <5>1
      <4> QED BY <4>2, <4>3
    <3>2. \A c \in 1..n : h[c] <= f[c]
      BY <3>1
    <3> QED BY ONLY <2>a, <3>2, n \in Nat, TotalMono
  <2>10. g[p] = 0
    BY <1>7, <2>2
  <2>11. Total(f, n) >= grant.units
    <3>1. Total(h, n) = Total(g, n) + f[p] /\ f[p] \in Nat
      BY ONLY <1>5, <2>2, <2>7, <2>8, <2>10, f \in [1..n -> Nat]
    <3> QED BY ONLY <1>4, <1>5, <1>6, <2>5, <2>9, <3>1, x \in Nat, grant.units \in Nat
  <2> QED BY <1>1, <1>2, <2>11 DEF Amount
<1> QED BY <1>4, <1>8, <1>9

\* The books of the handlers: every context, record and answer is well formed,
\* and no debit leaves a grant with less than nothing.
THEOREM SessionTypeCorrect == Spec => []SessionTypeOK
<1>1. SessionInv => SessionTypeOK
  BY DEF SessionInv
<1> QED BY <1>1, InitSessionInv, NextSessionInv, PTL DEF Spec

\* What a network element was told it may use is in the record and reserved on
\* the counters while it is valid, as long as no other request of its number or
\* a later one has begun: whatever handlers run beside, fail or die.
THEOREM AnswerBacked == Spec => []AnswerIsBacked
<1>1. ASSUME SessionInv PROVE AnswerIsBacked
  <2> SUFFICES ASSUME NEW q \in Request, pc[q] = "answered", ~Requests[q].resent,
                      Recorded(q), Later(q) = {},
                      NEW n \in DOMAIN reply[q], reply[q][n] > 0
               PROVE  LET group == Requests[q].usage[n].group
                      IN  \E i \in DOMAIN Row(q).grants[group] :
                            LET g == Row(q).grants[group][i]
                            IN  /\ g.units = reply[q][n]
                                /\ group \notin Free /\ Plain(g.ref) /\ g.until > now =>
                                     Total([c \in Counter |-> quota[c].reserved[g.ref].amount],
                                           NumCounters) >= g.units
    BY DEF AnswerIsBacked, Recorded, Row
  <2>1. Kind(q) \in Opening
    <3>1. Requests[q].session \in Session
      BY RequestFact
    <3>2. RecordInv(Requests[q].session)
      BY <1>1, <3>1 DEF SessionInv
    <3>3. PICK p \in Request :
            /\ Requests[p].session = Requests[q].session /\ Requests[p].seq = Requests[q].seq
            /\ ~Requests[p].resent /\ Kind(p) \in Opening /\ pc[p] # "idle"
      BY <3>2 DEF RecordInv, Recorded, Row
    <3>4. Requests[p].seq >= Requests[q].seq
      BY <3>3, RequestFact
    <3>5. p = q
      BY <3>3, <3>4 DEF Later
    <3> QED BY <3>3, <3>5
  <2>2. Stands(q, "answered", ctx[q], reply[q])
    BY <1>1 DEF SessionInv, PromiseInv
  <2>3. PICK grants \in GrantsOf(Mine(q)) :
          grants = Row(q).grants /\ grants \in CoveredGrants /\ reply[q] = Answer(q, grants)
    BY <2>1, <2>2 DEF Stands
  <2>4. grants \in Grants
    BY DEF GrantsOf
  <2>5. n \in 1..Len(Requests[q].usage)
    BY <2>3, <2>4, AnswerFact
  <2>6. PICK group \in Group : group = Requests[q].usage[n].group
    BY <2>5, RequestFact
  <2>7. reply[q][n] = UnitsGranted(q, grants[group])
    BY <2>3, <2>4, <2>5, <2>6, AnswerFact
  <2>8. PICK i \in DOMAIN grants[group] : grants[group][i].units = reply[q][n]
    <3>1. grants[group] \in Seq(Grant)
      BY <2>4 DEF Grants
    <3> QED BY <2>7, <3>1, UnitsFact
  <2>9. PICK g : g = grants[group][i]
    OBVIOUS
  <2>10. ASSUME group \notin Free, Plain(g.ref), g.until > now
         PROVE  Total([c \in Counter |-> quota[c].reserved[g.ref].amount], NumCounters)
                  >= g.units
    <3>1. grants[group] \in Seq(GrantOf(Mine(q)))
      BY <2>10 DEF GrantsOf, RefsOf
    <3>2. g \in GrantOf(Mine(q))
      BY <2>9, <3>1
    <3>3. g.ref \in Ref /\ g.units \in Nat
      BY <3>2 DEF GrantOf, Mine
    <3>4. Backed(quota, g.ref, Worth(g))
      BY <2>3, <2>9, <2>10 DEF CoveredGrants, Covered
    <3>5. Worth(g).units = g.units
      BY DEF Worth
    <3>6. quota \in SoundDocument
      BY <1>1 DEF SessionInv, BooksInv
    <3> QED BY <3>3, <3>4, <3>5, <3>6, BackedAmount
  <2> QED BY <2>3, <2>6, <2>8, <2>9, <2>10
<1> QED BY <1>1, InitSessionInv, NextSessionInv, PTL DEF Spec

\* The engine uses the quota as the ledger lets it: what it does keeps the
\* books of the quota, and reserves no more than is there.
THEOREM SessionKeepsBooks ==
  Spec => []/\ Balanced(quota, journal)
            /\ \A c \in Counter : Reserved(quota[c]) <= quota[c].balance
<1>1. SessionInv => /\ Balanced(quota, journal)
                    /\ \A c \in Counter : Reserved(quota[c]) <= quota[c].balance
  BY DEF SessionInv, BooksInv, SoundDocument, Sound
<1> QED BY <1>1, InitSessionInv, NextSessionInv, PTL DEF Spec

=============================================================================
