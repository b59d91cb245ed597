--------------------------- MODULE QuotaStoreProofs ---------------------------
(***************************************************************************)
(* The quota store for every number of requests, rows, retries and crashes:*)
(* its types, the one publication of every write-off, and - where a        *)
(* subscriber has one row and a request makes one call - that every save   *)
(* is one atomic call of the ledger.                                       *)
(***************************************************************************)
EXTENDS QuotaStore, QuotaDocumentProofs

\* What a call leaves to be saved and published, of a sound document.
SoundOutcomes ==
  [doc : SoundDocument, early : [Counter -> Early], late : [Counter -> Nat], answer : Int]

\* Requests whose current call is not saved yet.
Pending == {"idle", "load", "create", "save"}

\* The types, with sound documents, and the attempts that are left.
TypeInv ==
  /\ rows \in [Row -> [there : BOOLEAN, doc : SoundDocument, version : 0..MaxTime]]
  /\ now \in 0..MaxTime
  /\ pc \in [Request -> {"idle", "load", "create", "save", "publish"} \union Ended]
  /\ step \in [Request -> Nat]
  /\ \A q \in Request : step[q] \in 1..Len(Program[q])
  /\ at \in [Request -> 0..MaxTime]
  /\ work \in [Request -> [row : 0..NumRows, version : 0..MaxTime, call : SoundOutcomes]]
  /\ \A q \in Request : pc[q] = "save" => work[q].row \in Row
  /\ tries \in [Request -> 0..RetryLimit]
  /\ \A q \in Request : pc[q] \in Pending => tries[q] < RetryLimit
  /\ topic \in [Counter -> Totals] /\ settled \in [Counter -> Totals]
  /\ crashes \in 0..MaxCrashes
  /\ drawn \in SUBSET Ref
  /\ delivered \in [Counter -> Nat]

\* The assumption on the sizes, one by one.
LEMMA Sizes ==
  /\ NumRequests \in Nat /\ NumRows \in Nat /\ RetryLimit \in Nat /\ RetryLimit > 0
  /\ MaxTime \in Nat /\ MaxUnits \in Nat /\ MaxCrashes \in Nat
BY RequestAssumption

\* The call a request is at is one of the manager's calls.
LEMMA CallsOfRequests ==
  ASSUME NEW q \in Request, NEW i \in 1..Len(Program[q])
  PROVE  Program[q][i] \in QuotaCall /\ Len(Program[q]) \in Nat
BY RequestAssumption

\* The empty document is sound, and a request without work carries nothing.
LEMMA NothingSound ==
  /\ EmptyDocument \in SoundDocument
  /\ NoCall \in SoundOutcomes
  /\ EmptyJournal \in [Counter -> Totals]
<1>1. NoCall \in SoundOutcomes
  BY EmptySound, NoEntriesFact DEF NoCall, SoundOutcomes
<1>2. EmptyJournal \in [Counter -> Totals]
  BY DEF EmptyJournal, Totals
<1> QED BY <1>1, <1>2, EmptySound

\* Every call of the manager, on a sound document, leaves a sound outcome and
\* accounts for the balance.
LEMMA OutcomeSound ==
  ASSUME NEW op \in QuotaCall, NEW doc \in SoundDocument, NEW t \in Nat
  PROVE  /\ Outcome(op, doc, t) \in SoundOutcomes
         /\ Accounts(doc, Outcome(op, doc, t))
<1> DEFINE out == Outcome(op, doc, t)
<1>1. ASSUME Accounts(doc, out),
             NEW f, NEW d, NEW e, NEW a \in Int, out = Call(f, d, e, a, t)
      PROVE  out \in SoundOutcomes
  <2>1. /\ out = [doc |-> out.doc, early |-> out.early, late |-> out.late, answer |-> a]
    BY <1>1 DEF Call
  <2>2. out.doc \in SoundDocument /\ out.early \in [Counter -> Early] /\ out.late \in [Counter -> Nat]
    BY <1>1 DEF Accounts
  <2> HIDE DEF out
  <2> QED BY <1>1, <2>1, <2>2 DEF SoundOutcomes
<1>2. 0 \in Int
  OBVIOUS
<1>3. Expire(doc, t).doc \in SoundDocument
  BY ExpireSound
<1>4. CASE op.kind = "reserve"
  <2>1. op.ref \in Ref /\ op.units \in Nat
    BY <1>4, Sizes DEF QuotaCall
  <2>2. out = ReserveCall(doc, op.ref, op.units, t)
    BY <1>4 DEF Outcome
  <2>3. Accounts(doc, out)
    BY <2>1, <2>2, ReserveAccounts
  <2>4. ReserveQuota(Expire(doc, t).doc, op.ref, op.units, t).granted \in Int
    BY <1>3, <2>1, ReserveQuotaSound
  <2> HIDE DEF out
  <2> QED BY <1>1, <2>2, <2>3, <2>4 DEF ReserveCall, out
<1>5. CASE op.kind = "debit"
  <2>1. op.ref \in Ref /\ op.units \in Nat /\ op.reclaim \in BOOLEAN
    BY <1>5, Sizes DEF QuotaCall
  <2>2. out = DebitCall(doc, op.ref, op.units, op.reclaim, t)
    BY <1>5 DEF Outcome
  <2>3. Accounts(doc, out)
    BY <2>1, <2>2, DebitAccounts
  <2>4. Debit(Expire(doc, t).doc, op.ref, op.units, op.reclaim).unaccounted \in Int
    BY <1>3, <2>1, DebitSound
  <2> HIDE DEF out
  <2> QED BY <1>1, <2>2, <2>3, <2>4 DEF DebitCall, out
<1>6. CASE op.kind = "release"
  <2>1. op.ref \in Ref
    BY <1>6 DEF QuotaCall
  <2>2. out = ReleaseCall(doc, op.ref, t)
    BY <1>6 DEF Outcome
  <2>3. Accounts(doc, out)
    BY <2>1, <2>2, ReleaseAccounts
  <2> HIDE DEF out
  <2> QED BY <1>1, <1>2, <2>2, <2>3 DEF ReleaseCall, out
<1>7. CASE op.kind = "provision"
  <2>1. op.counter \in Counter
    BY <1>7 DEF QuotaCall
  <2>2. out = ProvisionCall(doc, op.counter, t)
    BY <1>7 DEF Outcome
  <2>3. Accounts(doc, out)
    BY <2>1, <2>2, ProvisionAccounts
  <2> HIDE DEF out
  <2> QED BY <1>1, <1>2, <2>2, <2>3 DEF ProvisionCall, out
<1>8. CASE op.kind = "expire"
  <2>1. out = ExpireCall(doc, t)
    BY <1>8 DEF Outcome
  <2>2. Accounts(doc, out)
    BY <2>1, ExpireAccounts
  <2> HIDE DEF out
  <2> QED BY <1>1, <1>2, <2>1, <2>2 DEF ExpireCall, out
<1>9. op.kind \in {"reserve", "debit", "release", "provision", "expire"}
  BY DEF QuotaCall
<1> QED BY <1>1, <1>4, <1>5, <1>6, <1>7, <1>8, <1>9

\* Posting adds entries to the totals and leaves them totals.
LEMMA PostTotals ==
  ASSUME NEW journal \in [Counter -> Totals]
  PROVE  /\ \A early \in [Counter -> Early] :
              /\ PostEarly(journal, early) \in [Counter -> Totals]
              /\ \A c \in Counter : PostEarly(journal, early)[c].expired = journal[c].expired
         /\ \A late \in [Counter -> Nat] :
              /\ PostLate(journal, late) \in [Counter -> Totals]
              /\ \A c \in Counter :
                   PostLate(journal, late)[c].expired = journal[c].expired + late[c]
<1>1. ASSUME NEW early \in [Counter -> Early], NEW c \in Counter
      PROVE  /\ PostEarly(journal, early)[c] \in Totals
             /\ PostEarly(journal, early)[c].expired = journal[c].expired
  <2>1. PICK p \in Nat, s \in Nat, r \in Nat, x \in Nat :
          journal[c] = [provisioned |-> p, spent |-> s, repaid |-> r, expired |-> x]
    BY DEF Totals
  <2>2. PICK dp \in Nat, ds \in Nat, dr \in Nat :
          early[c] = [provisioned |-> dp, spent |-> ds, repaid |-> dr]
    BY DEF Early
  <2>3. PostEarly(journal, early)[c]
          = [provisioned |-> p + dp, spent |-> s + ds, repaid |-> r + dr, expired |-> x]
    BY <2>1, <2>2 DEF PostEarly
  <2> QED BY <2>1, <2>3 DEF Totals
<1>2. ASSUME NEW late \in [Counter -> Nat], NEW c \in Counter
      PROVE  /\ PostLate(journal, late)[c] \in Totals
             /\ PostLate(journal, late)[c].expired = journal[c].expired + late[c]
  <2>1. PICK p \in Nat, s \in Nat, r \in Nat, x \in Nat :
          journal[c] = [provisioned |-> p, spent |-> s, repaid |-> r, expired |-> x]
    BY DEF Totals
  <2>2. PostLate(journal, late)[c]
          = [provisioned |-> p, spent |-> s, repaid |-> r, expired |-> x + late[c]]
    BY <2>1 DEF PostLate
  <2> QED BY <2>1, <2>2 DEF Totals
<1>3. \A early \in [Counter -> Early] : PostEarly(journal, early) \in [Counter -> Totals]
  <2> SUFFICES ASSUME NEW early \in [Counter -> Early]
               PROVE  PostEarly(journal, early) \in [Counter -> Totals]
    OBVIOUS
  <2>1. PostEarly(journal, early) = [c \in Counter |-> PostEarly(journal, early)[c]]
    BY DEF PostEarly
  <2> QED BY <1>1, <2>1
<1>4. \A late \in [Counter -> Nat] : PostLate(journal, late) \in [Counter -> Totals]
  <2> SUFFICES ASSUME NEW late \in [Counter -> Nat]
               PROVE  PostLate(journal, late) \in [Counter -> Totals]
    OBVIOUS
  <2>1. PostLate(journal, late) = [c \in Counter |-> PostLate(journal, late)[c]]
    BY DEF PostLate
  <2> QED BY <1>2, <2>1
<1> QED BY <1>1, <1>2, <1>3, <1>4

-----------------------------------------------------------------------------
\* At the start nothing is stored, published or saved.
LEMMA InitTypes == Init => TypeInv
<1> SUFFICES ASSUME Init PROVE TypeInv
  OBVIOUS
<1>1. \A q \in Request : 1 \in 1..Len(Program[q])
  BY RequestAssumption
<1>2. /\ rows \in [Row -> [there : BOOLEAN, doc : SoundDocument, version : 0..MaxTime]]
      /\ work \in [Request -> [row : 0..NumRows, version : 0..MaxTime, call : SoundOutcomes]]
  BY NothingSound, Sizes DEF Init, NoRow, NoWork
<1>3. delivered \in [Counter -> Nat]
  BY DEF Init
<1> QED BY <1>1, <1>2, <1>3, NothingSound, Sizes DEF Init, TypeInv, Ended

\* The operation of a request leaves a sound outcome to be saved, and publishes
\* no expiry entry.
LEMMA OperateTypes ==
  ASSUME TypeInv, NEW q \in Request, NEW i \in Row, NEW doc \in SoundDocument,
         NEW version \in 0..MaxTime, pc[q] \in Pending, now' \in 0..MaxTime,
         rows' \in [Row -> [there : BOOLEAN, doc : SoundDocument, version : 0..MaxTime]],
         Operate(q, i, doc, version)
  PROVE  /\ TypeInv'
         /\ \A c \in Counter : topic'[c].expired = topic[c].expired
<1> DEFINE call == Outcome(Call0(q), doc, at[q])
<1>1. call \in SoundOutcomes
  <2>1. Call0(q) \in QuotaCall
    BY CallsOfRequests DEF TypeInv, Call0
  <2>2. at[q] \in Nat
    BY DEF TypeInv
  <2> QED BY <2>1, <2>2, OutcomeSound
<1>2. /\ work' = [work EXCEPT ![q] = [row |-> i, version |-> version, call |-> call]]
      /\ topic' = PostEarly(topic, call.early)
      /\ pc' = [pc EXCEPT ![q] = "save"]
      /\ UNCHANGED <<step, at, tries, crashes, settled, drawn, delivered>>
  BY DEF Operate, Goto, history
<1> HIDE DEF call
<1>3. work' \in [Request -> [row : 0..NumRows, version : 0..MaxTime, call : SoundOutcomes]]
  BY <1>1, <1>2, Sizes DEF TypeInv, Row
<1>4. call.early \in [Counter -> Early]
  BY <1>1 DEF SoundOutcomes
<1>5. /\ topic' \in [Counter -> Totals]
      /\ \A c \in Counter : topic'[c].expired = topic[c].expired
  BY <1>2, <1>4, PostTotals DEF TypeInv
<1>6. \A p \in Request : /\ pc'[p] = "save" => work'[p].row \in Row
                         /\ pc'[p] \in Pending => tries'[p] < RetryLimit
  BY <1>2 DEF TypeInv, Pending
<1>7. pc' \in [Request -> {"idle", "load", "create", "save", "publish"} \union Ended]
  BY <1>2 DEF TypeInv
<1> QED BY <1>2, <1>3, <1>5, <1>6, <1>7 DEF TypeInv

\* No step of any request breaks the types, crash and conflict included.
LEMMA NextTypes == TypeInv /\ [Next]_vars => TypeInv'
<1> SUFFICES ASSUME TypeInv, [Next]_vars PROVE TypeInv'
  OBVIOUS
<1>1. ASSUME NEW q \in Request, Begin(q) PROVE TypeInv'
  <2>1. now' \in 0..MaxTime /\ at' \in [Request -> 0..MaxTime]
    BY <1>1, Sizes DEF Begin, TypeInv
  <2>2. /\ pc' \in [Request -> {"idle", "load", "create", "save", "publish"} \union Ended]
        /\ \A p \in Request : /\ pc'[p] = "save" => work[p].row \in Row
                              /\ pc'[p] \in Pending => tries[p] < RetryLimit
    BY <1>1 DEF Begin, Goto, TypeInv, Pending
  <2> QED BY <1>1, <2>1, <2>2 DEF Begin, TypeInv, history
<1>2. ASSUME NEW q \in Request, Load(q) PROVE TypeInv'
  <2>1. PICK i \in Row : rows[i].there /\ Operate(q, i, rows[i].doc, rows[i].version)
    BY <1>2 DEF Load
  <2>2. rows[i].doc \in SoundDocument /\ rows[i].version \in 0..MaxTime
    BY DEF TypeInv
  <2>3. now' \in 0..MaxTime /\ pc[q] \in Pending
        /\ rows' \in [Row -> [there : BOOLEAN, doc : SoundDocument, version : 0..MaxTime]]
    BY <1>2 DEF Load, TypeInv, Pending
  <2> QED BY <2>1, <2>2, <2>3, OperateTypes
<1>3. ASSUME NEW q \in Request, LoadNothing(q) PROVE TypeInv'
  <2>1. /\ pc' \in [Request -> {"idle", "load", "create", "save", "publish"} \union Ended]
        /\ \A p \in Request : /\ pc'[p] = "save" => work[p].row \in Row
                              /\ pc'[p] \in Pending => tries[p] < RetryLimit
    BY <1>3 DEF LoadNothing, Goto, TypeInv, Pending
  <2> QED BY <1>3, <2>1 DEF LoadNothing, TypeInv, history
<1>4. ASSUME NEW q \in Request, Create(q) PROVE TypeInv'
  <2>1. PICK i \in Row :
          /\ rows' = [rows EXCEPT ![i] = [there |-> TRUE, doc |-> EmptyDocument,
                                          version |-> now']]
          /\ Operate(q, i, EmptyDocument, now')
    BY <1>4 DEF Create
  <2>2. now' \in 0..MaxTime /\ pc[q] \in Pending
    BY <1>4, Sizes DEF Create, TypeInv, Pending
  <2>3. rows' \in [Row -> [there : BOOLEAN, doc : SoundDocument, version : 0..MaxTime]]
    BY <2>1, <2>2, NothingSound DEF TypeInv
  <2> QED BY <2>1, <2>2, <2>3, NothingSound, OperateTypes
<1>5. ASSUME NEW q \in Request, Save(q) PROVE TypeInv'
  <2>1. PICK i \in Row : i = work[q].row
    BY <1>5 DEF Save, TypeInv
  <2>2. /\ work[q].call.doc \in SoundDocument /\ work[q].call.early \in [Counter -> Early]
        /\ work[q].call.late \in [Counter -> Nat] /\ at[q] \in 0..MaxTime
    BY DEF TypeInv, SoundOutcomes
  <2>3. rows' \in [Row -> [there : BOOLEAN, doc : SoundDocument, version : 0..MaxTime]]
    <3>1. rows' = [rows EXCEPT ![i] =
                    [there |-> TRUE, doc |-> work[q].call.doc, version |-> at[q]]]
      BY <1>5, <2>1 DEF Save, TypeInv
    <3> QED BY <2>2, <3>1 DEF TypeInv
  <2>4. settled' \in [Counter -> Totals]
    <3>1. PostEarly(settled, work[q].call.early) \in [Counter -> Totals]
      BY <2>2, PostTotals DEF TypeInv
    <3>2. PostLate(PostEarly(settled, work[q].call.early), work[q].call.late)
            \in [Counter -> Totals]
      BY <2>2, <3>1, PostTotals
    <3> QED BY <1>5, <3>2 DEF Save
  <2>5. Call0(q) \in QuotaCall
    BY CallsOfRequests DEF TypeInv, Call0
  <2>6. drawn' \in SUBSET Ref
    BY <1>5, <2>5 DEF Save, TypeInv, QuotaCall
  <2>7. delivered' \in [Counter -> Nat]
    <3>1. CASE Call0(q).kind = "provision"
      <4>1. Call0(q).counter \in Counter
        BY <2>5, <3>1 DEF QuotaCall
      <4> QED BY <1>5, <3>1, <4>1 DEF Save, TypeInv
    <3>2. CASE Call0(q).kind # "provision"
      BY <1>5, <3>2 DEF Save, TypeInv
    <3> QED BY <3>1, <3>2
  <2>8. /\ pc' \in [Request -> {"idle", "load", "create", "save", "publish"} \union Ended]
        /\ \A p \in Request : /\ pc'[p] = "save" => work[p].row \in Row
                              /\ pc'[p] \in Pending => tries[p] < RetryLimit
    BY <1>5 DEF Save, Goto, TypeInv, Pending
  <2> QED BY <1>5, <2>3, <2>4, <2>6, <2>7, <2>8 DEF Save, TypeInv
<1>6. ASSUME NEW q \in Request, SaveConflict(q) PROVE TypeInv'
  <2>1. tries' \in [Request -> 0..RetryLimit] /\ \A p \in Request : p # q => tries'[p] = tries[p]
    BY <1>6, Sizes DEF SaveConflict, TypeInv, Pending
  <2>2. /\ pc' \in [Request -> {"idle", "load", "create", "save", "publish"} \union Ended]
        /\ pc'[q] \in {"load", "conflict"} /\ (pc'[q] = "load" => tries'[q] < RetryLimit)
        /\ \A p \in Request : p # q => pc'[p] = pc[p]
    BY <1>6 DEF SaveConflict, Goto, TypeInv, Ended
  <2>3. /\ work' \in [Request -> [row : 0..NumRows, version : 0..MaxTime, call : SoundOutcomes]]
        /\ \A p \in Request : p # q => work'[p] = work[p]
    BY <1>6, NothingSound, Sizes DEF SaveConflict, TypeInv, NoWork
  <2>4. \A p \in Request : /\ pc'[p] = "save" => work'[p].row \in Row
                           /\ pc'[p] \in Pending => tries'[p] < RetryLimit
    BY <2>1, <2>2, <2>3 DEF TypeInv, Pending
  <2> QED BY <1>6, <2>1, <2>2, <2>3, <2>4 DEF SaveConflict, TypeInv, history
<1>7. ASSUME NEW q \in Request, Publish(q) PROVE TypeInv'
  <2>1. topic' \in [Counter -> Totals]
    <3>1. work[q].call.late \in [Counter -> Nat]
      BY DEF TypeInv, SoundOutcomes
    <3> QED BY <1>7, <3>1, PostTotals DEF Publish, TypeInv
  <2>2. /\ tries' \in [Request -> 0..RetryLimit] /\ tries'[q] = 0
        /\ \A p \in Request : p # q => tries'[p] = tries[p]
    BY <1>7, Sizes DEF Publish, TypeInv
  <2>3. /\ pc' \in [Request -> {"idle", "load", "create", "save", "publish"} \union Ended]
        /\ pc'[q] \in {"load", "done"}
        /\ \A p \in Request : p # q => pc'[p] = pc[p]
    BY <1>7 DEF Publish, Goto, TypeInv, Ended
  <2>4. /\ work' \in [Request -> [row : 0..NumRows, version : 0..MaxTime, call : SoundOutcomes]]
        /\ \A p \in Request : p # q => work'[p] = work[p]
    BY <1>7, NothingSound, Sizes DEF Publish, TypeInv, NoWork
  <2>5. \A p \in Request : /\ pc'[p] = "save" => work'[p].row \in Row
                           /\ pc'[p] \in Pending => tries'[p] < RetryLimit
    BY <2>2, <2>3, <2>4, Sizes DEF TypeInv, Pending
  <2>6. step' \in [Request -> Nat] /\ \A p \in Request : step'[p] \in 1..Len(Program[p])
    <3>1. Len(Program[q]) \in Nat
      BY RequestAssumption
    <3>2. CASE step[q] < Len(Program[q])
      <4>1. step[q] + 1 \in 1..Len(Program[q]) /\ step[q] + 1 \in Nat
        BY <3>1, <3>2 DEF TypeInv
      <4>2. step' = [step EXCEPT ![q] = step[q] + 1]
        BY <1>7, <3>2 DEF Publish
      <4> QED BY <4>1, <4>2 DEF TypeInv
    <3>3. CASE ~(step[q] < Len(Program[q]))
      BY <1>7, <3>3 DEF Publish, TypeInv
    <3> QED BY <3>2, <3>3
  <2> QED BY <1>7, <2>1, <2>2, <2>3, <2>4, <2>5, <2>6 DEF Publish, TypeInv, history
<1>8. ASSUME NEW q \in Request, Crash(q) PROVE TypeInv'
  <2>1. /\ pc' \in [Request -> {"idle", "load", "create", "save", "publish"} \union Ended]
        /\ pc'[q] = "crashed" /\ \A p \in Request : p # q => pc'[p] = pc[p]
    BY <1>8 DEF Crash, Goto, TypeInv, Ended
  <2>2. /\ work' \in [Request -> [row : 0..NumRows, version : 0..MaxTime, call : SoundOutcomes]]
        /\ \A p \in Request : p # q => work'[p] = work[p]
    BY <1>8, NothingSound, Sizes DEF Crash, TypeInv, NoWork
  <2>3. \A p \in Request : /\ pc'[p] = "save" => work'[p].row \in Row
                           /\ pc'[p] \in Pending => tries[p] < RetryLimit
    BY <2>1, <2>2 DEF TypeInv, Pending
  <2>4. crashes' \in 0..MaxCrashes
    BY <1>8, Sizes DEF Crash, TypeInv
  <2> QED BY <1>8, <2>1, <2>2, <2>3, <2>4 DEF Crash, TypeInv, history
<1>9. ASSUME UNCHANGED vars PROVE TypeInv'
  BY <1>9 DEF vars, history, TypeInv
<1> QED BY <1>1, <1>2, <1>3, <1>4, <1>5, <1>6, <1>7, <1>8, <1>9 DEF Next

\* Stored and pending documents are documents.
LEMMA TypeInvImplies == TypeInv => StoreTypeOK
<1> SUFFICES ASSUME TypeInv PROVE StoreTypeOK
  OBVIOUS
<1>1. SoundDocument \subseteq Document
  BY DEF SoundDocument, Document, Sound
<1>2. SoundOutcomes \subseteq Outcomes
  BY <1>1 DEF SoundOutcomes, Outcomes
<1>3. rows \in [Row -> [there : BOOLEAN, doc : Document, version : 0..MaxTime]]
  BY <1>1 DEF TypeInv
<1>4. work \in [Request -> [row : 0..NumRows, version : 0..MaxTime, call : Outcomes]]
  BY <1>2 DEF TypeInv
<1> QED BY <1>3, <1>4 DEF TypeInv, StoreTypeOK

\* Rows, clock, requests and journals stay well formed: no balance, loan or fee
\* falls below zero in any row, whatever the interleaving of the requests.
THEOREM StoreTypeCorrect == Spec => []StoreTypeOK
BY InitTypes, NextTypes, TypeInvImplies, PTL DEF Spec

-----------------------------------------------------------------------------
\* What a request has written off in its save and not published yet.
Owing(q, c) == IF pc[q] = "publish" THEN work[q].call.late[c] ELSE 0

Unposted(c) == Total([q \in Request |-> Owing(q, c)], NumRequests)

\* Every write-off that was saved is published or about to be, unless the
\* request that saved it crashed.
ExpiryInv ==
  \A c \in Counter :
    /\ topic[c].expired + Unposted(c) <= settled[c].expired
    /\ crashes = 0 => topic[c].expired + Unposted(c) = settled[c].expired

\* The write-offs to be published are natural numbers.
LEMMA OwingNat ==
  ASSUME TypeInv, NEW c \in Counter
  PROVE  /\ \A q \in Request : Owing(q, c) \in Nat
         /\ [q \in Request |-> Owing(q, c)] \in [1..NumRequests -> Nat]
         /\ Unposted(c) \in Nat
<1>1. \A q \in Request : Owing(q, c) \in Nat
  BY DEF TypeInv, SoundOutcomes, Owing
<1>2. [q \in Request |-> Owing(q, c)] \in [1..NumRequests -> Nat]
  BY <1>1 DEF Request
<1> QED BY <1>1, <1>2, Sizes, TotalNat DEF Unposted

\* The same in the state a step leads to.
LEMMA OwingNatNext ==
  ASSUME TypeInv', NEW c \in Counter
  PROVE  \A q \in Request : Owing(q, c)' \in Nat
<1>1. work' \in [Request -> [row : 0..NumRows, version : 0..MaxTime, call : SoundOutcomes]]
  BY DEF TypeInv
<1>2. \A q \in Request : work'[q].call.late \in [Counter -> Nat]
  BY <1>1 DEF SoundOutcomes
<1> QED BY <1>2 DEF Owing

\* A step of one request changes what that one has to publish.
LEMMA UnpostedStep ==
  ASSUME TypeInv, TypeInv', NEW q \in Request, NEW c \in Counter,
         \A p \in Request : p # q => Owing(p, c)' = Owing(p, c)
  PROVE  Unposted(c)' = Unposted(c) - Owing(q, c) + Owing(q, c)'
<1> DEFINE f == [p \in Request |-> Owing(p, c)]
           g == [p \in Request |-> Owing(p, c)']
<1>1. f \in [1..NumRequests -> Nat]
  BY OwingNat
<1>2. g \in [1..NumRequests -> Nat]
  <2>1. \A p \in Request : Owing(p, c)' \in Nat
    BY OwingNatNext
  <2> QED BY <2>1 DEF Request
<1>3. f[q] = Owing(q, c) /\ g[q] = Owing(q, c)' /\ \A p \in Request : p # q => g[p] = f[p]
  OBVIOUS
<1>4. Unposted(c) = Total(f, NumRequests) /\ Unposted(c)' = Total(g, NumRequests)
  BY DEF Unposted
<1> HIDE DEF f, g
<1>5. f \in [1..NumRequests -> Int] /\ g \in [1..NumRequests -> Int] /\ q \in 1..NumRequests
      /\ \A p \in 1..NumRequests : p # q => g[p] = f[p]
  BY <1>1, <1>2, <1>3 DEF Request
<1>6. Total(g, NumRequests) = Total(f, NumRequests) - f[q] + g[q]
  BY <1>5, Sizes, TotalUpdate
<1> QED BY <1>3, <1>4, <1>6

\* The expiry totals of a journal are natural numbers.
LEMMA ExpiredNat ==
  ASSUME NEW journal \in [Counter -> Totals], NEW c \in Counter
  PROVE  journal[c].expired \in Nat
BY DEF Totals

\* At the start nothing is written off.
LEMMA InitExpiry == Init => ExpiryInv
<1> SUFFICES ASSUME Init, NEW c \in Counter
             PROVE  topic[c].expired + Unposted(c) = settled[c].expired
  BY DEF ExpiryInv, Init, EmptyJournal
<1> DEFINE f == [q \in Request |-> Owing(q, c)]
<1>1. f \in [1..NumRequests -> Int] /\ \A q \in 1..NumRequests : f[q] = 0
  BY DEF Init, Owing, Request
<1>2. Unposted(c) = Total(f, NumRequests)
  BY DEF Unposted
<1> HIDE DEF f
<1>3. Unposted(c) = 0
  BY <1>1, <1>2, Sizes, TotalZero
<1> QED BY <1>3 DEF Init, EmptyJournal

\* A save adds to both sides, a publication moves an entry, a crash loses one.
LEMMA NextExpiry == TypeInv /\ TypeInv' /\ ExpiryInv /\ [Next]_vars => ExpiryInv'
<1> SUFFICES ASSUME TypeInv, TypeInv', ExpiryInv, [Next]_vars, NEW c \in Counter
             PROVE  /\ topic'[c].expired + Unposted(c)' <= settled'[c].expired
                    /\ crashes' = 0
                         => topic'[c].expired + Unposted(c)' = settled'[c].expired
  BY DEF ExpiryInv
<1>1. PICK x \in Nat, u \in Nat, s \in Nat :
        /\ x = topic[c].expired /\ u = Unposted(c) /\ s = settled[c].expired
        /\ x + u <= s /\ (crashes = 0 => x + u = s)
  BY OwingNat, ExpiredNat DEF TypeInv, ExpiryInv
<1>2. \A q \in Request : Owing(q, c) \in Nat /\ Owing(q, c)' \in Nat
  BY OwingNat, OwingNatNext
<1>3. ASSUME NEW q \in Request, pc[q] # "publish", pc'[q] # "publish",
             \A p \in Request : p # q => pc'[p] = pc[p] /\ work'[p] = work[p],
             topic'[c].expired = topic[c].expired, UNCHANGED settled,
             crashes' = 0 => crashes = 0
      PROVE  /\ topic'[c].expired + Unposted(c)' <= settled'[c].expired
             /\ crashes' = 0
                  => topic'[c].expired + Unposted(c)' = settled'[c].expired
  <2>1. \A p \in Request : p # q => Owing(p, c)' = Owing(p, c)
    BY <1>3 DEF Owing
  <2>2. Owing(q, c) = 0 /\ Owing(q, c)' = 0
    BY <1>3 DEF Owing
  <2>3. Unposted(c)' = u - 0 + 0
    BY <1>1, <2>1, <2>2, UnpostedStep
  <2> QED BY <1>1, <1>3, <2>3
<1>4. ASSUME NEW q \in Request, NEW i \in Row, NEW doc \in SoundDocument,
             NEW version \in 0..MaxTime, pc[q] \in Pending, Operate(q, i, doc, version)
      PROVE  /\ pc'[q] # "publish"
             /\ \A p \in Request : p # q => pc'[p] = pc[p] /\ work'[p] = work[p]
             /\ topic'[c].expired = topic[c].expired
             /\ UNCHANGED <<settled, crashes>>
  <2>1. /\ now' \in 0..MaxTime
        /\ rows' \in [Row -> [there : BOOLEAN, doc : SoundDocument, version : 0..MaxTime]]
    BY DEF TypeInv
  <2>2. topic'[c].expired = topic[c].expired
    BY <1>4, <2>1, OperateTypes
  <2> QED BY <1>4, <2>2 DEF Operate, Goto, history, TypeInv
<1>5. CASE \E q \in Request : Begin(q) \/ LoadNothing(q)
  <2>1. PICK q \in Request : Begin(q) \/ LoadNothing(q)
    BY <1>5
  <2>2. pc[q] # "publish" /\ pc'[q] # "publish"
        /\ (\A p \in Request : p # q => pc'[p] = pc[p] /\ work'[p] = work[p])
        /\ UNCHANGED <<topic, settled, crashes>>
    BY <2>1 DEF Begin, LoadNothing, Goto, history, TypeInv
  <2> QED BY <1>3, <2>2
<1>6. CASE \E q \in Request : Load(q)
  <2>1. PICK q \in Request, i \in Row :
          pc[q] = "load" /\ Operate(q, i, rows[i].doc, rows[i].version)
    BY <1>6 DEF Load
  <2>2. rows[i].doc \in SoundDocument /\ rows[i].version \in 0..MaxTime
    BY DEF TypeInv
  <2> QED BY <1>3, <1>4, <2>1, <2>2 DEF Pending
<1>7. CASE \E q \in Request : Create(q)
  <2>1. PICK q \in Request, i \in Row :
          pc[q] = "create" /\ Operate(q, i, EmptyDocument, now')
    BY <1>7 DEF Create
  <2>2. now' \in 0..MaxTime
    BY DEF TypeInv
  <2> QED BY <1>3, <1>4, <2>1, <2>2, NothingSound DEF Pending
<1>8. CASE \E q \in Request : Save(q)
  <2>1. PICK q \in Request : Save(q)
    BY <1>8
  <2>2. /\ pc[q] = "save" /\ pc'[q] = "publish" /\ UNCHANGED <<topic, crashes, work>>
        /\ \A p \in Request : p # q => pc'[p] = pc[p]
    BY <2>1 DEF Save, Goto, TypeInv
  <2>3. PICK e \in Nat : e = work[q].call.late[c]
    BY DEF TypeInv, SoundOutcomes
  <2>4. settled'[c].expired = s + e
    <3>1. work[q].call.early \in [Counter -> Early] /\ work[q].call.late \in [Counter -> Nat]
      BY DEF TypeInv, SoundOutcomes
    <3>2. /\ PostEarly(settled, work[q].call.early) \in [Counter -> Totals]
          /\ PostEarly(settled, work[q].call.early)[c].expired = s
      BY <1>1, <3>1, PostTotals DEF TypeInv
    <3>3. settled' = PostLate(PostEarly(settled, work[q].call.early), work[q].call.late)
      BY <2>1 DEF Save
    <3> QED BY <2>3, <3>1, <3>2, <3>3, PostTotals
  <2>5. /\ Owing(q, c) = 0 /\ Owing(q, c)' = e
        /\ \A p \in Request : p # q => Owing(p, c)' = Owing(p, c)
    BY <2>2, <2>3 DEF Owing
  <2>6. Unposted(c)' = u - 0 + e
    BY <1>1, <2>5, UnpostedStep
  <2> QED BY <1>1, <2>2, <2>4, <2>6
<1>9. CASE \E q \in Request : SaveConflict(q)
  <2>1. PICK q \in Request : SaveConflict(q)
    BY <1>9
  <2>2. pc[q] # "publish" /\ pc'[q] # "publish"
        /\ (\A p \in Request : p # q => pc'[p] = pc[p] /\ work'[p] = work[p])
        /\ UNCHANGED <<topic, settled, crashes>>
    BY <2>1 DEF SaveConflict, Goto, history, TypeInv
  <2> QED BY <1>3, <2>2
<1>10. CASE \E q \in Request : Publish(q)
  <2>1. PICK q \in Request : Publish(q)
    BY <1>10
  <2>2. /\ pc[q] = "publish" /\ pc'[q] # "publish" /\ UNCHANGED <<settled, crashes>>
        /\ topic' = PostLate(topic, work[q].call.late)
        /\ \A p \in Request : p # q => pc'[p] = pc[p] /\ work'[p] = work[p]
    BY <2>1 DEF Publish, Goto, history, TypeInv
  <2>3. PICK e \in Nat : e = work[q].call.late[c]
    BY DEF TypeInv, SoundOutcomes
  <2>4. topic'[c].expired = x + e
    <3>1. work[q].call.late \in [Counter -> Nat]
      BY DEF TypeInv, SoundOutcomes
    <3> QED BY <1>1, <2>2, <2>3, <3>1, PostTotals DEF TypeInv
  <2>5. /\ Owing(q, c) = e /\ Owing(q, c)' = 0
        /\ \A p \in Request : p # q => Owing(p, c)' = Owing(p, c)
    BY <2>2, <2>3 DEF Owing
  <2>6. Unposted(c)' = u - e + 0
    BY <1>1, <2>5, UnpostedStep
  <2>7. (x + e) + (u - e + 0) = x + u
    OBVIOUS
  <2> QED BY <1>1, <2>2, <2>4, <2>6, <2>7
<1>11. CASE \E q \in Request : Crash(q)
  <2>1. PICK q \in Request : Crash(q)
    BY <1>11
  <2>2. /\ pc'[q] # "publish" /\ UNCHANGED <<topic, settled>>
        /\ crashes' # 0
        /\ \A p \in Request : p # q => pc'[p] = pc[p] /\ work'[p] = work[p]
    BY <2>1, Sizes DEF Crash, Goto, history, TypeInv
  <2>3. PICK e \in Nat : e = Owing(q, c)
    BY <1>2
  <2>4. /\ Owing(q, c)' = 0
        /\ \A p \in Request : p # q => Owing(p, c)' = Owing(p, c)
    BY <2>2 DEF Owing
  <2>5. Unposted(c)' = u - e + 0
    BY <1>1, <2>3, <2>4, UnpostedStep
  <2>6. x + (u - e + 0) <= s
    BY <1>1
  <2> QED BY <1>1, <2>2, <2>5, <2>6
<1>12. CASE UNCHANGED vars
  <2>1. \A q \in Request : Owing(q, c)' = Owing(q, c)
    BY <1>12 DEF vars, Owing
  <2>2. Unposted(c)' = Unposted(c)
    BY <2>1 DEF Unposted
  <2> QED BY <1>1, <1>12, <2>2 DEF vars, history
<1> QED BY <1>5, <1>6, <1>7, <1>8, <1>9, <1>10, <1>11, <1>12 DEF Next

\* With no request between its save and its publications, all is published.
LEMMA ExpiryInvImplies == TypeInv /\ ExpiryInv => ExpiryPostedOnce
<1> SUFFICES ASSUME TypeInv, ExpiryInv, NEW c \in Counter
             PROVE  /\ topic[c].expired <= settled[c].expired
                    /\ crashes = 0 /\ (\A q \in Request : pc[q] # "publish")
                         => topic[c].expired = settled[c].expired
  BY DEF ExpiryPostedOnce
<1>1. PICK x \in Nat, u \in Nat, s \in Nat :
        /\ x = topic[c].expired /\ u = Unposted(c) /\ s = settled[c].expired
        /\ x + u <= s /\ (crashes = 0 => x + u = s)
  BY OwingNat, ExpiredNat DEF TypeInv, ExpiryInv
<1>2. ASSUME \A q \in Request : pc[q] # "publish" PROVE u = 0
  <2> DEFINE f == [q \in Request |-> Owing(q, c)]
  <2>1. f \in [1..NumRequests -> Int] /\ \A q \in 1..NumRequests : f[q] = 0
    BY <1>2 DEF Owing, Request
  <2>2. Unposted(c) = Total(f, NumRequests)
    BY DEF Unposted
  <2> HIDE DEF f
  <2> QED BY <1>1, <2>1, <2>2, Sizes, TotalZero
<1> QED BY <1>1, <1>2

\* Expiry entries are published after the save that wrote the balance off and
\* at most once, whichever of the racing requests wrote it off; without a crash
\* exactly once.
THEOREM ExpiryPublishedOnce == Spec => []ExpiryPostedOnce
<1>1. TypeInv /\ ExpiryInv /\ [Next]_vars => TypeInv' /\ ExpiryInv'
  BY NextTypes, NextExpiry
<1>2. Init => TypeInv /\ ExpiryInv
  BY InitTypes, InitExpiry
<1> QED BY <1>1, <1>2, ExpiryInvImplies, PTL DEF Spec

-----------------------------------------------------------------------------
\* The ledger's operators are the document's: the instance substitutes only
\* variables and bounds.  Operator by operator, from the helpers up.
LEMMA SameOperators ==
  /\ \A d, r, u, t : Ledger!ReserveCall(d, r, u, t) = ReserveCall(d, r, u, t)
  /\ \A d, r, u, b, t : Ledger!DebitCall(d, r, u, b, t) = DebitCall(d, r, u, b, t)
  /\ \A d, r, t : Ledger!ReleaseCall(d, r, t) = ReleaseCall(d, r, t)
  /\ \A d, c, t : Ledger!ProvisionCall(d, c, t) = ProvisionCall(d, c, t)
  /\ \A d, t : Ledger!ExpireCall(d, t) = ExpireCall(d, t)
  /\ Ledger!Counter = Counter /\ Ledger!Ref = Ref
  /\ Ledger!EmptyDocument = EmptyDocument /\ Ledger!EmptyJournal = EmptyJournal
  /\ \A j, e : Ledger!PostEarly(j, e) = PostEarly(j, e)
  /\ \A j, l : Ledger!PostLate(j, l) = PostLate(j, l)
  /\ \A d, j : Ledger!Balanced(d, j) = Balanced(d, j)
<1>1. /\ Ledger!Counter = Counter /\ Ledger!Ref = Ref
      /\ Ledger!NoReservation = NoReservation
      /\ Ledger!NoEntry = NoEntry
  BY DEF Ledger!Counter, Counter, Ledger!Ref, Ref, Ledger!NoReservation, NoReservation,
         Ledger!NoEntry, NoEntry
<1>2. /\ Ledger!Unreserved = Unreserved /\ Ledger!NoEntries = NoEntries
  BY <1>1 DEF Ledger!Unreserved, Unreserved, Ledger!NoEntries, NoEntries
<1>3. Ledger!Absent = Absent
  BY <1>2 DEF Ledger!Absent, Absent
<1>4. \A n, f, b : Ledger!Loop(n, f, b) = Loop(n, f, b)
  BY DEF Ledger!Loop, Loop
<1>5. \A f, n : Ledger!Total(f, n) = Total(f, n)
  BY <1>4 DEF Ledger!Total, Total
<1>6. /\ \A f : Ledger!Tabulated(f) = Tabulated(f)
      /\ \A a, b : Ledger!Least(a, b) = Least(a, b)
      /\ \A a, b : Ledger!Greatest(a, b) = Greatest(a, b)
      /\ \A s : Ledger!Live(s) = Live(s)
  BY DEF Ledger!Tabulated, Tabulated, Ledger!Least, Least, Ledger!Greatest, Greatest, Ledger!Live, Live
<1>7. \A s : Ledger!Reserved(s) = Reserved(s)
  BY <1>1, <1>5 DEF Ledger!Reserved, Reserved
<1>8. \A s : Ledger!Available(s) = Available(s)
  BY <1>7 DEF Ledger!Available, Available
<1>9. /\ \A r, u : Ledger!Up(r, u) = Up(r, u)
      /\ \A r, u : Ledger!Down(r, u) = Down(r, u)
      /\ \A r, u : Ledger!Cost(r, u) = Cost(r, u)
  BY DEF Ledger!Up, Up, Ledger!Down, Down, Ledger!Cost, Cost
<1>10. /\ \A d, r, m : Ledger!Matching(d, r, m) = Matching(d, r, m)
       /\ \A d, r, m : Ledger!Holding(d, r, m) = Holding(d, r, m)
  BY <1>1, <1>6 DEF Ledger!Matching, Matching, Ledger!Holding, Holding
<1>11. /\ \A s, r, a, t : Ledger!Hold(s, r, a, t) = Hold(s, r, a, t)
       /\ \A s, r, a, b : Ledger!Spend(s, r, a, b) = Spend(s, r, a, b)
       /\ \A s, t : Ledger!Pruned(s, t) = Pruned(s, t)
  BY <1>1, <1>6 DEF Ledger!Hold, Hold, Ledger!Spend, Spend, Ledger!Pruned, Pruned
<1>12. /\ \A d, r, c, w : Ledger!ServiceTake(d, r, c, w) = ServiceTake(d, r, c, w)
       /\ \A d, r, c, w : Ledger!ValueTake(d, r, c, w) = ValueTake(d, r, c, w)
       /\ \A d, r, c, w : Ledger!ServiceAccount(d, r, c, w) = ServiceAccount(d, r, c, w)
       /\ \A d, r, c, w : Ledger!ValueAccount(d, r, c, w) = ValueAccount(d, r, c, w)
  BY <1>6, <1>8, <1>9, <1>10 
     DEF Ledger!ServiceTake, ServiceTake, Ledger!ValueTake, ValueTake,
         Ledger!ServiceAccount, ServiceAccount, Ledger!ValueAccount, ValueAccount
<1>13. \A d, r, u : Ledger!ServiceGranted(d, r, u) = ServiceGranted(d, r, u)
  BY <1>1, <1>4, <1>12 DEF Ledger!ServiceGranted, ServiceGranted
<1>14. \A d, r : Ledger!Affordable(d, r) = Affordable(d, r)
  BY <1>1, <1>5, <1>8, <1>10 DEF Ledger!Affordable, Affordable
<1>15. \A d, r, u : Ledger!ValueWanted(d, r, u) = ValueWanted(d, r, u)
  BY <1>1, <1>4, <1>9, <1>12 DEF Ledger!ValueWanted, ValueWanted
<1>16. \A d, r, u : Ledger!ServiceUnspent(d, r, u) = ServiceUnspent(d, r, u)
  BY <1>1, <1>4, <1>9, <1>10, <1>12 DEF Ledger!ServiceUnspent, ServiceUnspent
<1>17. \A d, r, u : Ledger!ValueUnspent(d, r, u) = ValueUnspent(d, r, u)
  BY <1>1, <1>4, <1>9, <1>12 DEF Ledger!ValueUnspent, ValueUnspent
<1>18. \A d, r, u, t : Ledger!ReserveService(d, r, u, t) = ReserveService(d, r, u, t)
  BY <1>1, <1>11, <1>12, <1>13 DEF Ledger!ReserveService, ReserveService
<1>19. \A d, r, u, t : Ledger!ReserveMonetary(d, r, u, t) = ReserveMonetary(d, r, u, t)
  BY <1>1, <1>6, <1>11, <1>12, <1>14, <1>15 DEF Ledger!ReserveMonetary, ReserveMonetary
<1>20. \A d, r, u, t : Ledger!ReserveQuota(d, r, u, t) = ReserveQuota(d, r, u, t)
  BY <1>18, <1>19 DEF Ledger!ReserveQuota, ReserveQuota
<1>21. \A d, r, u, b : Ledger!DebitService(d, r, u, b) = DebitService(d, r, u, b)
  <2> SUFFICES ASSUME NEW d, NEW r, NEW u, NEW b
               PROVE  Ledger!DebitService(d, r, u, b) = DebitService(d, r, u, b)
    OBVIOUS
  <2> DEFINE left == ServiceUnspent(d, r, u)
             mine == [c \in Counter |-> ServiceAccount(d, r, c, left[c - 1])]
             hers == [c \in Ledger!Counter |-> Ledger!ServiceAccount(d, r, c, left[c - 1])]
             doc  == [c \in Counter |-> IF c \in Holding(d, r, FALSE)
                                          THEN Spend(d[c], r, mine[c], b) ELSE d[c]]
             hdoc == [c \in Ledger!Counter |-> IF c \in Ledger!Holding(d, r, FALSE)
                                          THEN Ledger!Spend(d[c], r, hers[c], b) ELSE d[c]]
  <2>1. hers = mine
    BY <1>1, <1>12
  <2>2. hdoc = doc
    <3> HIDE DEF hers, mine
    <3> QED BY <1>1, <1>10, <1>11, <2>1
  <2>3. DebitService(d, r, u, b) = [doc |-> doc, spent |-> mine, left |-> left[NumCounters]]
    BY DEF DebitService
  <2>4. Ledger!DebitService(d, r, u, b) = [doc |-> hdoc, spent |-> hers, left |-> left[NumCounters]]
    BY <1>16 DEF Ledger!DebitService
  <2> HIDE DEF hers, mine, doc, hdoc
  <2> QED BY <2>1, <2>2, <2>3, <2>4
<1>22. \A d, r, u, b : Ledger!DebitMonetary(d, r, u, b) = DebitMonetary(d, r, u, b)
  <2> SUFFICES ASSUME NEW d, NEW r, NEW u, NEW b
               PROVE  Ledger!DebitMonetary(d, r, u, b) = DebitMonetary(d, r, u, b)
    OBVIOUS
  <2> DEFINE left == ValueUnspent(d, r, u)
             mine == [c \in Counter |-> ValueAccount(d, r, c, left[c - 1])]
             hers == [c \in Ledger!Counter |-> Ledger!ValueAccount(d, r, c, left[c - 1])]
             doc  == [c \in Counter |-> IF c \in Holding(d, r, TRUE)
                                          THEN Spend(d[c], r, mine[c], b \/ left[c - 1] <= 0) ELSE d[c]]
             hdoc == [c \in Ledger!Counter |-> IF c \in Ledger!Holding(d, r, TRUE)
                                          THEN Ledger!Spend(d[c], r, hers[c], b \/ left[c - 1] <= 0) ELSE d[c]]
             rest == IF Holding(d, r, TRUE) = {}
                       THEN u
                       ELSE (left[NumCounters] * Tariff[r].den) \div (Tariff[r].num * Tariff[r].price)
  <2>1. hers = mine
    BY <1>1, <1>12
  <2>2. hdoc = doc
    <3> HIDE DEF hers, mine
    <3> QED BY <1>1, <1>10, <1>11, <2>1
  <2>3. DebitMonetary(d, r, u, b) = [doc |-> doc, spent |-> mine, left |-> rest]
    BY DEF DebitMonetary
  <2>4. Ledger!DebitMonetary(d, r, u, b) = [doc |-> hdoc, spent |-> hers, left |-> rest]
    BY <1>10, <1>17 DEF Ledger!DebitMonetary
  <2> HIDE DEF hers, mine, doc, hdoc, rest
  <2> QED BY <2>1, <2>2, <2>3, <2>4
<1>23. \A d, r, u, b : Ledger!Debit(d, r, u, b) = Debit(d, r, u, b)
  BY <1>1, <1>21, <1>22 DEF Ledger!Debit, Debit
<1>24. \A d, r : Ledger!Release(d, r) = Release(d, r)
  BY <1>1 DEF Ledger!Release, Release
<1>25. /\ \A s, l, v : Ledger!Clawback(s, l, v) = Clawback(s, l, v)
       /\ \A d : Ledger!InDebt(d) = InDebt(d)
  <2>1. \A v, p : Ledger!PercentOf(v, p) = PercentOf(v, p)
    BY DEF Ledger!PercentOf, PercentOf
  <2> QED BY <1>1, <1>6, <2>1 DEF Ledger!Clawback, Clawback, Ledger!InDebt, InDebt
<1>26. \A d, c, v : Ledger!Claw(d, c, v) = Claw(d, c, v)
  BY <1>25 DEF Ledger!Claw, Claw
<1>27. \A d, v : Ledger!LoanValue(d, v) = LoanValue(d, v)
  <2> SUFFICES ASSUME NEW d, NEW v PROVE Ledger!LoanValue(d, v) = LoanValue(d, v)
    OBVIOUS
  <2> DEFINE Rest(c, left) == left - Claw(d, c, left).fee - Claw(d, c, left).loan
             mine == [p \in Counter |-> [left \in 0..v |->
                        IF \E c \in InDebt(d) : d[c].position = p
                          THEN Rest(CHOOSE c \in InDebt(d) : d[c].position = p, left)
                          ELSE left]]
             hers == [p \in Ledger!Counter |-> [left \in 0..v |->
                        IF \E c \in Ledger!InDebt(d) : d[c].position = p
                          THEN LET c == CHOOSE e \in Ledger!InDebt(d) : d[e].position = p
                               IN  left - Ledger!Claw(d, c, left).fee - Ledger!Claw(d, c, left).loan
                          ELSE left]]
  <2>1. hers = mine
    BY <1>1, <1>25, <1>26
  <2>2. LoanValue(d, v) = Loop(NumCounters, v, mine)
    BY DEF LoanValue
  <2>3. Ledger!LoanValue(d, v) = Ledger!Loop(NumCounters, v, hers)
    BY DEF Ledger!LoanValue
  <2> HIDE DEF mine, hers
  <2> QED BY <1>4, <2>1, <2>2, <2>3
<1>28. \A d : Ledger!Size(d) = Size(d)
  BY <1>1, <1>5, <1>6 DEF Ledger!Size, Size
<1>29. \A d, c : Ledger!NewCounter(d, c) = NewCounter(d, c)
  BY <1>2, <1>28 DEF Ledger!NewCounter, NewCounter
<1>30. \A d, c : Ledger!AddCounter(d, c) = AddCounter(d, c)
  <2> SUFFICES ASSUME NEW d, NEW c PROVE Ledger!AddCounter(d, c) = AddCounter(d, c)
    OBVIOUS
  <2> DEFINE repays == c \in Repays /\ ~LoanTerms[c].given
             left == LoanValue(d, Initial[c])
             mine == [e \in Counter |-> IF repays /\ e \in InDebt(d)
                                         THEN Claw(d, e, left[d[e].position - 1])
                                         ELSE [fee |-> 0, loan |-> 0]]
             hers == [e \in Ledger!Counter |-> IF repays /\ e \in Ledger!InDebt(d)
                                         THEN Ledger!Claw(d, e, left[d[e].position - 1])
                                         ELSE [fee |-> 0, loan |-> 0]]
             doc == [e \in Counter |->
                      IF e = c THEN [NewCounter(d, c) EXCEPT
                                !.balance = IF repays THEN Greatest(left[NumCounters], 0) ELSE @]
                       ELSE [d[e] EXCEPT !.loan = @ - mine[e].loan, !.fee  = @ - mine[e].fee]]
             hdoc == [e \in Ledger!Counter |->
                      IF e = c THEN [Ledger!NewCounter(d, c) EXCEPT
                                !.balance = IF repays THEN Ledger!Greatest(left[NumCounters], 0) ELSE @]
                       ELSE [d[e] EXCEPT !.loan = @ - hers[e].loan, !.fee  = @ - hers[e].fee]]
             repaid == IF repays THEN Initial[c] - left[NumCounters] ELSE 0
  <2>1. hers = mine
    BY <1>1, <1>25, <1>26
  <2>2. hdoc = doc
    <3> HIDE DEF hers, mine, left
    <3> QED BY <1>1, <1>6, <1>29, <2>1
  <2>3. AddCounter(d, c) = [doc |-> doc, repaid |-> repaid]
    BY DEF AddCounter
  <2>4. Ledger!AddCounter(d, c) = [doc |-> hdoc, repaid |-> repaid]
    BY <1>27 DEF Ledger!AddCounter
  <2> HIDE DEF hers, mine, doc, hdoc, repaid
  <2> QED BY <2>1, <2>2, <2>3, <2>4
<1>31. \A s : Ledger!Held(s) = Held(s)
  BY <1>1 DEF Ledger!Held, Held
<1>32. /\ \A c, s, t : Ledger!Kept(c, s, t) = Kept(c, s, t)
       /\ \A c, s, t : Ledger!WrittenOff(c, s, t) = WrittenOff(c, s, t)
  BY <1>6, <1>31 DEF Ledger!Kept, Kept, Ledger!WrittenOff, WrittenOff
<1>33. \A d, k, c : Ledger!Place(d, k, c) = Place(d, k, c)
  BY <1>1, <1>5 DEF Ledger!Place, Place
<1>34. \A d, t : Ledger!Expire(d, t) = Expire(d, t)
  <2> SUFFICES ASSUME NEW d, NEW t PROVE Ledger!Expire(d, t) = Expire(d, t)
    OBVIOUS
  <2> DEFINE pruned == Tabulated([c \in Counter |-> Pruned(d[c], t)])
             hpruned == Ledger!Tabulated([c \in Ledger!Counter |-> Ledger!Pruned(d[c], t)])
             kept == {c \in Counter : Kept(c, pruned[c], t)}
             hkept == {c \in Ledger!Counter : Ledger!Kept(c, hpruned[c], t)}
             table == [c \in Counter |->
                   IF c \in kept
                     THEN [pruned[c] EXCEPT
                             !.position = Place(d, kept, c),
                             !.balance  = @ - WrittenOff(c, pruned[c], t)]
                     ELSE Absent]
             htable == [c \in Ledger!Counter |->
                   IF c \in hkept
                     THEN [hpruned[c] EXCEPT
                             !.position = Ledger!Place(d, hkept, c),
                             !.balance  = @ - Ledger!WrittenOff(c, hpruned[c], t)]
                     ELSE Ledger!Absent]
             off == [c \in Counter |-> WrittenOff(c, pruned[c], t)]
             hoff == [c \in Ledger!Counter |-> Ledger!WrittenOff(c, hpruned[c], t)]
  <2>1. hpruned = pruned
    BY <1>1, <1>6, <1>11
  <2>2. hkept = kept
    <3> HIDE DEF hpruned, pruned
    <3> QED BY <1>1, <1>32, <2>1
  <2>3. htable = table
    <3> HIDE DEF hpruned, pruned, kept, hkept
    <3> QED BY <1>1, <1>3, <1>32, <1>33, <2>1, <2>2
  <2>4. hoff = off
    <3> HIDE DEF hpruned, pruned
    <3> QED BY <1>1, <1>32, <2>1
  <2>5. Expire(d, t) = [doc |-> Tabulated(table), expired |-> off]
    BY DEF Expire
  <2>6. Ledger!Expire(d, t) = [doc |-> Ledger!Tabulated(htable), expired |-> hoff]
    BY DEF Ledger!Expire
  <2> HIDE DEF table, htable, off, hoff
  <2> QED BY <1>6, <2>3, <2>4, <2>5, <2>6
<1>35. \A f, d, e, a, t : Ledger!Call(f, d, e, a, t) = Call(f, d, e, a, t)
  BY <1>1, <1>6, <1>34 DEF Ledger!Call, Call
<1>36. \A d, r, u, t : Ledger!ReserveCall(d, r, u, t) = ReserveCall(d, r, u, t)
  BY <1>2, <1>20, <1>34, <1>35 DEF Ledger!ReserveCall, ReserveCall
<1>37. \A d, r, u, b, t : Ledger!DebitCall(d, r, u, b, t) = DebitCall(d, r, u, b, t)
  BY <1>1, <1>23, <1>34, <1>35 DEF Ledger!DebitCall, DebitCall
<1>38. \A d, r, t : Ledger!ReleaseCall(d, r, t) = ReleaseCall(d, r, t)
  BY <1>2, <1>24, <1>34, <1>35 DEF Ledger!ReleaseCall, ReleaseCall
<1>39. \A d, c, t : Ledger!ProvisionCall(d, c, t) = ProvisionCall(d, c, t)
  BY <1>1, <1>2, <1>6, <1>30, <1>34, <1>35 DEF Ledger!ProvisionCall, ProvisionCall
<1>40. \A d, t : Ledger!ExpireCall(d, t) = ExpireCall(d, t)
  BY <1>2, <1>34, <1>35 DEF Ledger!ExpireCall, ExpireCall
<1>41. /\ Ledger!EmptyDocument = EmptyDocument /\ Ledger!EmptyJournal = EmptyJournal
  BY <1>1, <1>3 DEF Ledger!EmptyDocument, EmptyDocument, Ledger!EmptyJournal, EmptyJournal
<1>42. /\ \A j, e : Ledger!PostEarly(j, e) = PostEarly(j, e)
       /\ \A j, l : Ledger!PostLate(j, l) = PostLate(j, l)
       /\ \A d, j : Ledger!Balanced(d, j) = Balanced(d, j)
  BY <1>1 DEF Ledger!PostEarly, PostEarly, Ledger!PostLate, PostLate, Ledger!Balanced, Balanced
<1> QED BY <1>1, <1>36, <1>37, <1>38, <1>39, <1>40, <1>41, <1>42

-----------------------------------------------------------------------------
\* Requests that carry a clock reading they have not saved yet.
Active == {"load", "create", "save"}

\* Requests with an unsaved call, counted.
Unsaved == Total([q \in Request |-> IF pc[q] \in Pending THEN 1 ELSE 0], NumRequests)

\* No version and no clock reading is ahead of the clock, and a row that is not
\* there is empty.
TimesPast ==
  /\ rows[1].version <= now
  /\ \A q \in Request : at[q] <= now /\ work[q].version <= now
  /\ ~rows[1].there => rows[1].doc = EmptyDocument

\* The clock reading of a request at work is its own: no other carries it, no
\* row has it for a version, nobody loaded it.
ReadingsOwned ==
  \A p \in Request : pc[p] \in Active =>
    /\ rows[1].version # at[p]
    /\ \A q \in Request : /\ pc[q] = "save" => work[q].version # at[p]
                          /\ pc[q] \in Active /\ at[q] = at[p] => q = p

\* What is about to be saved over the version it was computed from is a call on
\* the document that is stored.
CallsFresh ==
  \A q \in Request : pc[q] = "save" /\ rows[1].version = work[q].version =>
    work[q].call = Outcome(Call0(q), rows[1].doc, at[q])

\* A grant is drawn by its one reservation, and used after it.
GrantsInOrder ==
  \A q \in Request :
    /\ pc[q] \in Pending /\ Call0(q).kind = "reserve" => Call0(q).ref \notin drawn
    /\ pc[q] # "idle" => Needs(q) \subseteq drawn

\* Every delivery that was saved is a call of its own.
DeliveriesCounted == \A c \in Counter : delivered[c] + Unsaved <= NumRequests

LedgerInv == TimesPast /\ ReadingsOwned /\ CallsFresh /\ GrantsInOrder /\ DeliveriesCounted

\* The one row and the one call of a request.
LEMMA OneRowOneCall ==
  ASSUME SingleCalls, TypeInv
  PROVE  /\ Row = {1} /\ 1 \in Row
         /\ \A q \in Request : /\ step[q] = 1 /\ Len(Program[q]) = 1
                               /\ 1 \in 1..Len(Program[q])
                               /\ Call0(q) = Program[q][1] /\ Call0(q) \in QuotaCall
<1>1. Row = {1}
  BY DEF SingleCalls, Row
<1>2. ASSUME NEW q \in Request
      PROVE  step[q] = 1 /\ Len(Program[q]) = 1 /\ 1 \in 1..Len(Program[q])
  <2>1. Len(Program[q]) = 1
    BY DEF SingleCalls
  <2>2. step[q] \in 1..1
    BY <2>1 DEF TypeInv
  <2> QED BY <2>1, <2>2
<1>3. \A q \in Request : Program[q][1] \in QuotaCall
  BY <1>2, CallsOfRequests
<1> QED BY <1>1, <1>2, <1>3 DEF Call0

\* Versions and clock readings are natural numbers.
LEMMA TimesNat ==
  ASSUME SingleCalls, TypeInv
  PROVE  /\ now \in Nat /\ rows[1].version \in Nat
         /\ \A p \in Request : at[p] \in Nat /\ work[p].version \in Nat
<1>1. rows[1] \in [there : BOOLEAN, doc : SoundDocument, version : 0..MaxTime]
  BY OneRowOneCall DEF TypeInv
<1>2. \A p \in Request : at[p] \in 0..MaxTime /\ work[p].version \in 0..MaxTime
  BY DEF TypeInv
<1>3. now \in 0..MaxTime
  BY DEF TypeInv
<1> QED BY <1>1, <1>2, <1>3, Sizes

\* The count of unsaved calls is one of numbers.
LEMMA UnsavedFact ==
  /\ Unsaved \in Nat
  /\ \A q \in Request : pc[q] \in Pending => Unsaved >= 1
<1> DEFINE f == [q \in Request |-> IF pc[q] \in Pending THEN 1 ELSE 0]
<1>1. f \in [1..NumRequests -> Nat]
  BY DEF Request
<1>2. \A q \in 1..NumRequests : pc[q] \in Pending => f[q] = 1
  BY DEF Request
<1>3. Unsaved = Total(f, NumRequests)
  BY DEF Unsaved
<1> HIDE DEF f
<1>4. Total(f, NumRequests) \in Nat /\ \A q \in 1..NumRequests : f[q] <= Total(f, NumRequests)
  BY <1>1, Sizes, TotalNat
<1>5. \A q \in 1..NumRequests : f[q] \in Nat
  BY <1>1
<1> QED BY <1>2, <1>3, <1>4, <1>5 DEF Request

\* A step that makes no other request pending leaves no more unsaved calls, and
\* one less when its own call is saved.
LEMMA UnsavedStep ==
  ASSUME NEW q \in Request,
         \A p \in Request : p # q => pc'[p] = pc[p],
         pc'[q] \in Pending => pc[q] \in Pending
  PROVE  /\ Unsaved' \in Nat /\ Unsaved' <= Unsaved
         /\ pc[q] \in Pending /\ pc'[q] \notin Pending => Unsaved' = Unsaved - 1
<1> DEFINE f == [p \in Request |-> IF pc[p] \in Pending THEN 1 ELSE 0]
           g == [p \in Request |-> IF pc'[p] \in Pending THEN 1 ELSE 0]
<1>1. f \in [1..NumRequests -> Nat] /\ g \in [1..NumRequests -> Nat]
  BY DEF Request
<1>2. \A p \in 1..NumRequests : p # q => g[p] = f[p]
  BY DEF Request
<1>3. /\ f[q] \in Nat /\ g[q] \in Nat /\ g[q] <= f[q]
      /\ (pc[q] \in Pending /\ pc'[q] \notin Pending => f[q] = 1 /\ g[q] = 0)
  OBVIOUS
<1>4. Unsaved = Total(f, NumRequests) /\ Unsaved' = Total(g, NumRequests)
  BY DEF Unsaved
<1> HIDE DEF f, g
<1>5. Total(f, NumRequests) \in Nat /\ Total(g, NumRequests) \in Nat
  BY <1>1, Sizes, TotalNat
<1>6. f \in [1..NumRequests -> Int] /\ g \in [1..NumRequests -> Int] /\ q \in 1..NumRequests
  BY <1>1 DEF Request
<1>7. Total(g, NumRequests) = Total(f, NumRequests) - f[q] + g[q]
  BY <1>2, <1>6, Sizes, TotalUpdate
<1> QED BY <1>3, <1>4, <1>5, <1>7

\* At the start nothing is stored, carried or delivered.
LEMMA InitLedgerInv == ASSUME SingleCalls PROVE Init => LedgerInv
<1> SUFFICES ASSUME Init PROVE LedgerInv
  OBVIOUS
<1>1. rows[1] = NoRow
  BY DEF Init, SingleCalls, Row
<1>2. TimesPast
  BY <1>1 DEF Init, TimesPast, NoRow, NoWork
<1>3. ReadingsOwned /\ CallsFresh
  BY DEF Init, ReadingsOwned, CallsFresh, Active
<1>4. GrantsInOrder
  BY DEF Init, GrantsInOrder
<1>5. DeliveriesCounted
  <2>1. Unsaved = Total([q \in 1..NumRequests |-> 1], NumRequests)
    <3>1. [q \in Request |-> IF pc[q] \in Pending THEN 1 ELSE 0] = [q \in 1..NumRequests |-> 1]
      BY DEF Init, Pending, Request
    <3> QED BY <3>1 DEF Unsaved
  <2>2. Unsaved = NumRequests
    BY <2>1, Sizes, TotalOnes
  <2> QED BY <2>2, Sizes DEF Init, DeliveriesCounted
<1> QED BY <1>2, <1>3, <1>4, <1>5 DEF LedgerInv

\* A request that operates on the stored row, or on the one it has just put
\* there, carries a fresh call and nobody else's reading.
LEMMA OperateLedgerInv ==
  ASSUME SingleCalls, TypeInv, LedgerInv, NEW q \in Request,
         pc[q] \in Active, Operate(q, 1, rows'[1].doc, rows'[1].version),
         \/ rows' = rows /\ now' = now
         \/ /\ now' = now + 1 /\ rows'[1].version = now' /\ rows'[1].there
            /\ rows'[1].doc = EmptyDocument
  PROVE  LedgerInv'
<1> DEFINE call == Outcome(Call0(q), rows'[1].doc, at[q])
           loaded == [row |-> 1, version |-> rows'[1].version, call |-> call]
<1>1. /\ work' = [work EXCEPT ![q] = loaded]
      /\ pc' = [pc EXCEPT ![q] = "save"]
      /\ UNCHANGED <<step, at, drawn, delivered>>
  BY DEF Operate, Goto, history
<1>2. /\ loaded.version = rows'[1].version /\ loaded.call = call
  OBVIOUS
<1> HIDE DEF call, loaded
<1>3. /\ work'[q] = loaded /\ pc'[q] = "save"
      /\ \A p \in Request : p # q => work'[p] = work[p] /\ pc'[p] = pc[p]
      /\ pc[q] # "idle" /\ pc[q] \in Pending
  BY <1>1 DEF TypeInv, Active, Pending
<1>4. \A p \in Request : (pc'[p] \in Active <=> pc[p] \in Active)
                         /\ (pc'[p] \in Pending <=> pc[p] \in Pending)
  BY <1>3 DEF Active, Pending
<1>5. /\ now \in Nat /\ rows[1].version \in Nat
      /\ \A p \in Request : at[p] \in Nat /\ work[p].version \in Nat
  BY TimesNat
<1>6. TimesPast'
  <2>1. /\ rows'[1].version <= now' /\ now <= now'
        /\ (~rows'[1].there => rows'[1].doc = EmptyDocument)
    BY <1>5 DEF LedgerInv, TimesPast
  <2>2. \A p \in Request : at'[p] <= now'
    BY <1>1, <1>5, <2>1 DEF LedgerInv, TimesPast
  <2>3. \A p \in Request : work'[p].version <= now'
    BY <1>2, <1>3, <1>5, <2>1 DEF LedgerInv, TimesPast
  <2> QED BY <2>1, <2>2, <2>3 DEF TimesPast
<1>7. ReadingsOwned'
  <2>1. \A p \in Request : pc[p] \in Active => rows'[1].version # at[p]
    BY <1>5 DEF LedgerInv, TimesPast, ReadingsOwned
  <2>2. \A p, o \in Request : pc[p] \in Active /\ pc'[o] = "save" => work'[o].version # at[p]
    BY <1>2, <1>3, <2>1 DEF LedgerInv, ReadingsOwned
  <2> QED BY <1>1, <1>4, <2>1, <2>2 DEF LedgerInv, ReadingsOwned
<1>8. CallsFresh'
  <2> SUFFICES ASSUME NEW p \in Request, pc'[p] = "save", rows'[1].version = work'[p].version
               PROVE  work'[p].call = Outcome(Call0(p), rows'[1].doc, at[p])
    BY <1>1 DEF CallsFresh, Call0
  <2>1. CASE p = q
    BY <1>2, <1>3, <2>1 DEF call
  <2>2. CASE p # q
    <3>1. work'[p] = work[p] /\ pc[p] = "save"
      BY <1>3, <2>2
    <3>2. rows' = rows
      BY <1>5, <3>1 DEF LedgerInv, TimesPast
    <3> QED BY <3>1, <3>2 DEF LedgerInv, CallsFresh
  <2> QED BY <2>1, <2>2
<1>9. GrantsInOrder'
  BY <1>1, <1>3, <1>4 DEF LedgerInv, GrantsInOrder, Call0, Pending
<1>10. DeliveriesCounted'
  <2>1. Unsaved' = Unsaved
    <3>1. [p \in Request |-> IF pc'[p] \in Pending THEN 1 ELSE 0]
            = [p \in Request |-> IF pc[p] \in Pending THEN 1 ELSE 0]
      BY <1>4
    <3> QED BY <3>1 DEF Unsaved
  <2> QED BY <1>1, <2>1 DEF LedgerInv, DeliveriesCounted
<1> QED BY <1>6, <1>7, <1>8, <1>9, <1>10 DEF LedgerInv

\* Every step keeps the calls about to be saved fresh: a save moves the version
\* past every other request that loaded the row.
LEMMA NextLedgerInv ==
  ASSUME SingleCalls, GrantsDrawnOnce
  PROVE  TypeInv /\ LedgerInv /\ [Next]_vars => LedgerInv'
<1> SUFFICES ASSUME TypeInv, LedgerInv, [Next]_vars PROVE LedgerInv'
  OBVIOUS
<1>1. /\ now \in Nat /\ rows[1].version \in Nat
      /\ \A p \in Request : at[p] \in Nat /\ work[p].version \in Nat
  BY TimesNat
<1>2. /\ Row = {1} /\ 1 \in Row
      /\ \A q \in Request : Call0(q) = Program[q][1] /\ Len(Program[q]) = 1 /\ step[q] = 1
                            /\ 1 \in 1..Len(Program[q]) /\ Call0(q) \in QuotaCall
  BY OneRowOneCall
<1>3. TimesPast /\ ReadingsOwned /\ CallsFresh /\ GrantsInOrder /\ DeliveriesCounted
  BY DEF LedgerInv
\* Steps that leave the row, the readings and the clock alone and end the
\* request, or take it back to its load.
<1>4. ASSUME NEW q \in Request, UNCHANGED <<rows, now, step, at, drawn, delivered>>,
             \A p \in Request : p # q => pc'[p] = pc[p] /\ work'[p] = work[p],
             pc[q] # "idle", pc'[q] # "save",
             pc'[q] \in Pending => pc[q] \in Pending,
             pc'[q] \in Active => pc[q] \in Active,
             work'[q] \in {work[q], NoWork}
      PROVE  LedgerInv'
  <2>1. TimesPast'
    BY <1>1, <1>3, <1>4 DEF TimesPast, NoWork
  <2>2. ReadingsOwned'
    BY <1>3, <1>4 DEF ReadingsOwned
  <2>3. CallsFresh'
    BY <1>3, <1>4 DEF CallsFresh, Call0
  <2>4. GrantsInOrder'
    BY <1>3, <1>4 DEF GrantsInOrder, Call0
  <2>5. DeliveriesCounted'
    <3>1. Unsaved' \in Nat /\ Unsaved' <= Unsaved /\ Unsaved \in Nat
      BY <1>4, UnsavedStep, UnsavedFact
    <3>2. \A c \in Counter : delivered[c] \in Nat /\ delivered'[c] = delivered[c]
      BY <1>4 DEF TypeInv
    <3> QED BY <1>3, <3>1, <3>2, Sizes DEF DeliveriesCounted
  <2> QED BY <2>1, <2>2, <2>3, <2>4, <2>5 DEF LedgerInv
<1>5. ASSUME NEW q \in Request, Begin(q) PROVE LedgerInv'
  <2>1. /\ pc[q] = "idle" /\ pc'[q] = "load" /\ at'[q] = now + 1 /\ now' = now + 1
        /\ \A p \in Request : p # q => pc'[p] = pc[p] /\ at'[p] = at[p]
        /\ Needs(q) \subseteq drawn
        /\ UNCHANGED <<rows, step, work, drawn, delivered>>
    BY <1>5 DEF Begin, Goto, TypeInv, history
  <2>2. TimesPast'
    BY <1>1, <1>3, <2>1 DEF TimesPast
  <2>3. ReadingsOwned'
    <3> SUFFICES ASSUME NEW p \in Request, pc'[p] \in Active
                 PROVE  /\ rows[1].version # at'[p]
                        /\ \A o \in Request : /\ pc'[o] = "save" => work[o].version # at'[p]
                                              /\ pc'[o] \in Active /\ at'[o] = at'[p] => o = p
      BY <2>1 DEF ReadingsOwned
    <3>1. CASE p = q
      BY <1>1, <1>3, <2>1, <3>1 DEF TimesPast
    <3>2. CASE p # q
      <4>1. pc[p] \in Active /\ at'[p] = at[p] /\ at[p] < now + 1
        BY <1>1, <1>3, <2>1, <3>2 DEF TimesPast
      <4>2. ASSUME NEW o \in Request
            PROVE  /\ pc'[o] = "save" => work[o].version # at[p]
                   /\ pc'[o] \in Active /\ at'[o] = at[p] => o = p
        <5>1. CASE o = q
          BY <1>1, <2>1, <4>1, <5>1
        <5>2. CASE o # q
          BY <1>3, <2>1, <4>1, <5>2 DEF ReadingsOwned
        <5> QED BY <5>1, <5>2
      <4> QED BY <1>3, <4>1, <4>2 DEF ReadingsOwned
    <3> QED BY <3>1, <3>2
  <2>4. CallsFresh'
    <3> SUFFICES ASSUME NEW p \in Request, pc'[p] = "save", rows[1].version = work[p].version
                 PROVE  work[p].call = Outcome(Call0(p), rows[1].doc, at'[p])
      BY <2>1 DEF CallsFresh, Call0
    <3>1. p # q
      BY <2>1
    <3> QED BY <1>3, <2>1, <3>1 DEF CallsFresh
  <2>5. GrantsInOrder'
    <3>1. \A p \in Request : pc'[p] \in Pending => pc[p] \in Pending
      BY <2>1 DEF Pending
    <3> QED BY <1>3, <2>1, <3>1 DEF GrantsInOrder, Call0
  <2>6. DeliveriesCounted'
    <3>1. Unsaved' \in Nat /\ Unsaved' <= Unsaved /\ Unsaved \in Nat
      BY <2>1, UnsavedStep, UnsavedFact DEF Pending
    <3>2. \A c \in Counter : delivered[c] \in Nat /\ delivered'[c] = delivered[c]
      BY <2>1 DEF TypeInv
    <3> QED BY <1>3, <3>1, <3>2, Sizes DEF DeliveriesCounted
  <2> QED BY <2>2, <2>3, <2>4, <2>5, <2>6 DEF LedgerInv
<1>6. ASSUME NEW q \in Request, Load(q) PROVE LedgerInv'
  <2>1. /\ pc[q] \in Active /\ rows' = rows /\ now' = now
        /\ Operate(q, 1, rows'[1].doc, rows'[1].version)
    BY <1>2, <1>6 DEF Load, Active
  <2> QED BY <2>1, OperateLedgerInv
<1>7. ASSUME NEW q \in Request, LoadNothing(q) PROVE LedgerInv'
  <2>1. /\ pc[q] = "load" /\ pc'[q] = "create"
        /\ \A p \in Request : p # q => pc'[p] = pc[p]
        /\ UNCHANGED <<rows, now, step, at, work, drawn, delivered>>
    BY <1>7 DEF LoadNothing, Goto, TypeInv, history
  <2> QED BY <1>4, <2>1 DEF Pending, Active
<1>8. ASSUME NEW q \in Request, Create(q) PROVE LedgerInv'
  <2>1. /\ pc[q] \in Active /\ now' = now + 1
        /\ rows' = [rows EXCEPT ![1] = [there |-> TRUE, doc |-> EmptyDocument,
                                        version |-> now']]
        /\ Operate(q, 1, EmptyDocument, now')
    BY <1>2, <1>8 DEF Create, Active
  <2>2. rows'[1].there /\ rows'[1].version = now' /\ rows'[1].doc = EmptyDocument
    BY <1>2, <2>1 DEF TypeInv
  <2> QED BY <2>1, <2>2, OperateLedgerInv
<1>9. ASSUME NEW q \in Request, Save(q) PROVE LedgerInv'
  <2>1. /\ pc[q] = "save" /\ pc'[q] = "publish"
        /\ \A p \in Request : p # q => pc'[p] = pc[p]
        /\ UNCHANGED <<now, step, at, work>>
    BY <1>9 DEF Save, Goto, TypeInv
  <2>2. rows'[1].there /\ rows'[1].version = at[q]
    <3>1. work[q].row = 1
      BY <1>2, <2>1 DEF TypeInv
    <3> QED BY <1>2, <1>9, <3>1 DEF Save, TypeInv
  <2>3. \A p \in Request : /\ pc'[p] \in Active => pc[p] \in Active /\ p # q
                           /\ pc'[p] \in Pending => pc[p] \in Pending /\ p # q
                           /\ pc'[p] = "save" => pc[p] = "save" /\ p # q
    BY <2>1 DEF Active, Pending
  <2>4. pc[q] \in Active /\ pc[q] \in Pending
    BY <2>1 DEF Active, Pending
  <2>5. TimesPast'
    BY <1>1, <1>3, <2>1, <2>2 DEF TimesPast
  <2>6. ReadingsOwned'
    BY <1>3, <2>1, <2>2, <2>3, <2>4 DEF ReadingsOwned
  <2>7. CallsFresh'
    <3>1. \A p \in Request : pc'[p] = "save" => rows'[1].version # work'[p].version
      BY <1>3, <2>1, <2>2, <2>3, <2>4 DEF ReadingsOwned
    <3> QED BY <3>1 DEF CallsFresh
  <2>8. GrantsInOrder'
    <3>1. drawn \subseteq drawn' /\ Call0(q)' = Call0(q)
          /\ drawn' \subseteq drawn \union {Call0(q).ref}
          /\ (Call0(q).kind # "reserve" => drawn' = drawn)
      BY <1>9, <2>1 DEF Save, Call0
    <3>2. ASSUME NEW p \in Request, pc'[p] \in Pending, Call0(p).kind = "reserve"
          PROVE  Call0(p).ref \notin drawn'
      <4>1. Call0(p).ref \notin drawn /\ p # q
        BY <1>3, <2>3, <3>2 DEF GrantsInOrder
      <4>2. Call0(q).kind = "reserve" => Call0(p).ref # Call0(q).ref
        BY <1>2, <3>2, <4>1 DEF GrantsDrawnOnce
      <4> QED BY <3>1, <4>1, <4>2
    <3>3. ASSUME NEW p \in Request, pc'[p] # "idle" PROVE Needs(p) \subseteq drawn'
      <4>1. pc[p] # "idle"
        BY <2>1, <3>3
      <4> QED BY <1>3, <3>1, <4>1 DEF GrantsInOrder
    <3> QED BY <2>1, <3>2, <3>3 DEF GrantsInOrder, Call0
  <2>9. DeliveriesCounted'
    <3>1. Unsaved' \in Nat /\ Unsaved \in Nat /\ Unsaved' = Unsaved - 1
      BY <2>1, <2>3, <2>4, UnsavedStep, UnsavedFact
    <3>2. ASSUME NEW c \in Counter
          PROVE  /\ delivered[c] \in Nat /\ delivered'[c] \in Nat
                 /\ delivered'[c] <= delivered[c] + 1
      BY <1>9 DEF Save, TypeInv
    <3> QED BY <1>3, <3>1, <3>2, Sizes DEF DeliveriesCounted
  <2> QED BY <2>5, <2>6, <2>7, <2>8, <2>9 DEF LedgerInv
<1>10. ASSUME NEW q \in Request, SaveConflict(q) PROVE LedgerInv'
  <2>1. /\ pc[q] = "save" /\ pc'[q] \in {"load", "conflict"} /\ work'[q] = NoWork
        /\ \A p \in Request : p # q => pc'[p] = pc[p] /\ work'[p] = work[p]
        /\ UNCHANGED <<rows, now, step, at, drawn, delivered>>
    BY <1>10 DEF SaveConflict, Goto, TypeInv, history
  <2> QED BY <1>4, <2>1 DEF Pending, Active
<1>11. ASSUME NEW q \in Request, Publish(q) PROVE LedgerInv'
  <2>1. ~(step[q] < Len(Program[q]))
    <3>1. step[q] = 1 /\ Len(Program[q]) = 1
      BY <1>2
    <3> QED BY <3>1
  <2>2. /\ pc[q] = "publish" /\ pc'[q] = "done" /\ work'[q] = NoWork
        /\ \A p \in Request : p # q => pc'[p] = pc[p] /\ work'[p] = work[p]
        /\ UNCHANGED <<rows, now, step, at, drawn, delivered>>
    BY <1>11, <2>1 DEF Publish, Goto, TypeInv, history
  <2> QED BY <1>4, <2>2 DEF Pending, Active
<1>12. ASSUME NEW q \in Request, Crash(q) PROVE LedgerInv'
  <2>1. /\ pc[q] # "idle" /\ pc'[q] = "crashed" /\ work'[q] = NoWork
        /\ \A p \in Request : p # q => pc'[p] = pc[p] /\ work'[p] = work[p]
        /\ UNCHANGED <<rows, now, step, at, drawn, delivered>>
    BY <1>12 DEF Crash, Goto, TypeInv, history
  <2> QED BY <1>4, <2>1 DEF Pending, Active
<1>13. ASSUME UNCHANGED vars PROVE LedgerInv'
  <2>1. UNCHANGED <<rows, now, pc, step, at, work, drawn, delivered>>
    BY <1>13 DEF vars, history
  <2>2. Unsaved' = Unsaved
    BY <2>1 DEF Unsaved
  <2> QED BY <1>3, <2>1, <2>2 DEF LedgerInv, TimesPast, ReadingsOwned, CallsFresh,
                                  GrantsInOrder, DeliveriesCounted, Call0
<1> QED BY <1>5, <1>6, <1>7, <1>8, <1>9, <1>10, <1>11, <1>12, <1>13 DEF Next

\* The empty table is the ledger's empty quota.
LEMMA InitMaps == ASSUME SingleCalls PROVE Init => Ledger!Init
<1> SUFFICES ASSUME Init PROVE Ledger!Init
  OBVIOUS
<1>1. rows[1].doc = EmptyDocument
  BY DEF Init, SingleCalls, Row, NoRow
<1> QED BY <1>1, SameOperators DEF Init, Ledger!Init

\* A save is the ledger's call, with the reading the request carries.
LEMMA SaveMaps ==
  ASSUME SingleCalls, GrantsDrawnOnce, TypeInv, LedgerInv, NEW q \in Request, Save(q)
  PROVE  Ledger!Next
<1> DEFINE op == Call0(q)
           call == Outcome(op, rows[1].doc, at[q])
<1>1. Row = {1} /\ 1 \in Row /\ op \in QuotaCall /\ op = Program[q][1]
      /\ 1 \in 1..Len(Program[q])
  BY OneRowOneCall
<1>2. work[q].row = 1 /\ pc[q] = "save"
  BY <1>1 DEF Save, TypeInv
<1>3. work[q].call = call
  BY <1>2 DEF LedgerInv, CallsFresh, Save, Unchanged
<1>4. /\ rows'[1].doc = call.doc
      /\ settled' = PostLate(PostEarly(settled, call.early), call.late)
      /\ UNCHANGED now
  <2> HIDE DEF call
  <2>1. rows'[1] = [there |-> TRUE, doc |-> call.doc, version |-> at[q]]
    BY <1>1, <1>2, <1>3 DEF Save, TypeInv
  <2> QED BY <1>3, <2>1 DEF Save
<1>5. Ledger!Apply(call)
  <2> HIDE DEF call
  <2> QED BY <1>4, SameOperators DEF Ledger!Apply
<1>6. at[q] \in Ledger!Recent
  <2>1. now \in 0..MaxTime /\ at[q] \in Nat /\ at[q] <= now /\ now \in Nat
    BY TimesNat DEF TypeInv, LedgerInv, TimesPast
  <2> QED BY <2>1, Sizes DEF Ledger!Recent
<1>7. /\ pc[q] \in Pending /\ pc[q] # "idle"
      /\ drawn' = (IF op.kind = "reserve" THEN drawn \union {op.ref} ELSE drawn)
      /\ delivered' = (IF op.kind = "provision"
                         THEN [delivered EXCEPT ![op.counter] = delivered[op.counter] + 1]
                         ELSE delivered)
  BY <1>2 DEF Save, Pending
<1>8. op.kind \in {"debit", "release"} => op.ref \in drawn
  <2> SUFFICES ASSUME op.kind \in {"debit", "release"} PROVE op.ref \in drawn
    OBVIOUS
  <2>1. op.ref \in Needs(q)
    BY <1>1 DEF Needs
  <2> QED BY <1>7, <2>1 DEF LedgerInv, GrantsInOrder
<1>9. CASE op.kind = "reserve"
  <2>1. op.ref \in Ref /\ op.units \in 0..MaxUnits /\ op.ref \notin drawn
    BY <1>1, <1>7, <1>9 DEF QuotaCall, LedgerInv, GrantsInOrder
  <2>2. call = Ledger!ReserveCall(rows[1].doc, op.ref, op.units, at[q])
    BY <1>9, SameOperators DEF Outcome
  <2> HIDE DEF call, op
  <2>3. Ledger!Reserve(op.ref, op.units, at[q])
    BY <1>4, <1>5, <1>7, <1>9, <2>1, <2>2 DEF Ledger!Reserve
  <2> QED BY <1>6, <2>1, <2>3, SameOperators DEF Ledger!Next
<1>10. CASE op.kind = "debit"
  <2>1. op.ref \in Ref /\ op.units \in 1..MaxUnits /\ op.reclaim \in BOOLEAN /\ op.ref \in drawn
    BY <1>1, <1>8, <1>10 DEF QuotaCall
  <2>2. call = Ledger!DebitCall(rows[1].doc, op.ref, op.units, op.reclaim, at[q])
    BY <1>10, SameOperators DEF Outcome
  <2> HIDE DEF call, op
  <2>3. Ledger!DebitUnits(op.ref, op.units, op.reclaim, at[q])
    BY <1>4, <1>5, <1>7, <1>10, <2>1, <2>2 DEF Ledger!DebitUnits
  <2> QED BY <1>6, <2>1, <2>3, SameOperators DEF Ledger!Next
<1>11. CASE op.kind = "release"
  <2>1. op.ref \in Ref /\ op.ref \in drawn
    BY <1>1, <1>8, <1>11 DEF QuotaCall
  <2>2. call = Ledger!ReleaseCall(rows[1].doc, op.ref, at[q])
    BY <1>11, SameOperators DEF Outcome
  <2> HIDE DEF call, op
  <2>3. Ledger!ReleaseUnits(op.ref, at[q])
    BY <1>4, <1>5, <1>7, <1>11, <2>1, <2>2 DEF Ledger!ReleaseUnits
  <2> QED BY <1>6, <2>1, <2>3, SameOperators DEF Ledger!Next
<1>12. CASE op.kind = "provision"
  <2>1. op.counter \in Counter
    BY <1>1, <1>12 DEF QuotaCall
  <2>2. call = Ledger!ProvisionCall(rows[1].doc, op.counter, at[q])
    BY <1>12, SameOperators DEF Outcome
  <2> HIDE DEF call, op
  <2>3. delivered[op.counter] < NumRequests
    <3>1. delivered[op.counter] \in Nat /\ delivered[op.counter] + Unsaved <= NumRequests
      BY <2>1 DEF TypeInv, LedgerInv, DeliveriesCounted
    <3>2. Unsaved \in Nat /\ Unsaved >= 1
      BY <1>7, UnsavedFact
    <3> QED BY <3>1, <3>2, Sizes
  <2>4. Ledger!Provision(op.counter, at[q])
    BY <1>4, <1>5, <1>7, <1>12, <2>2, <2>3 DEF Ledger!Provision
  <2> QED BY <1>6, <2>1, <2>4, SameOperators DEF Ledger!Next
<1>13. CASE op.kind = "expire"
  <2>1. call = Ledger!ExpireCall(rows[1].doc, at[q])
    BY <1>13, SameOperators DEF Outcome
  <2> HIDE DEF call, op
  <2>2. Ledger!ProcessExpired(at[q])
    BY <1>4, <1>5, <1>7, <1>13, <2>1 DEF Ledger!ProcessExpired
  <2> QED BY <1>6, <2>2, SameOperators DEF Ledger!Next
<1>14. op.kind \in {"reserve", "debit", "release", "provision", "expire"}
  BY <1>1 DEF QuotaCall
<1> QED BY <1>9, <1>10, <1>11, <1>12, <1>13, <1>14

\* Every step of a request is a step of the ledger or none: reading the clock
\* is its tick, a save its call, all else a stutter.
LEMMA NextMaps ==
  ASSUME SingleCalls, GrantsDrawnOnce
  PROVE  TypeInv /\ LedgerInv /\ [Next]_vars => [Ledger!Next]_(Ledger!vars)
<1> SUFFICES ASSUME TypeInv, LedgerInv, [Next]_vars
             PROVE  Ledger!Next \/ UNCHANGED Ledger!vars
  OBVIOUS
<1>1. ASSUME UNCHANGED <<rows, now, settled, drawn, delivered>>
      PROVE  UNCHANGED Ledger!vars
  BY <1>1 DEF Ledger!vars
<1>2. ASSUME now < MaxTime, now' = now + 1, rows'[1].doc = rows[1].doc,
             UNCHANGED <<settled, drawn, delivered>>
      PROVE  Ledger!Next
  BY <1>2 DEF Ledger!Next, Ledger!Tick
<1>3. ASSUME NEW q \in Request, Begin(q) PROVE Ledger!Next
  BY <1>2, <1>3 DEF Begin, history
<1>4. ASSUME NEW q \in Request, Load(q) PROVE UNCHANGED Ledger!vars
  BY <1>1, <1>4 DEF Load, Operate, history
<1>5. ASSUME NEW q \in Request, LoadNothing(q) PROVE UNCHANGED Ledger!vars
  BY <1>1, <1>5 DEF LoadNothing, history
<1>6. ASSUME NEW q \in Request, Create(q) PROVE Ledger!Next
  <2>1. /\ ~rows[1].there
        /\ rows' = [rows EXCEPT ![1] = [there |-> TRUE, doc |-> EmptyDocument,
                                        version |-> now']]
        /\ UNCHANGED <<settled, drawn, delivered>>
    BY <1>6, OneRowOneCall DEF Create, Operate, history
  <2>2. rows'[1].doc = EmptyDocument /\ rows[1].doc = EmptyDocument
    BY <2>1, OneRowOneCall DEF TypeInv, LedgerInv, TimesPast
  <2> QED BY <1>2, <1>6, <2>1, <2>2 DEF Create
<1>7. ASSUME NEW q \in Request, Save(q) PROVE Ledger!Next
  BY <1>7, SaveMaps
<1>8. ASSUME NEW q \in Request, SaveConflict(q) PROVE UNCHANGED Ledger!vars
  BY <1>1, <1>8 DEF SaveConflict, history
<1>9. ASSUME NEW q \in Request, Publish(q) PROVE UNCHANGED Ledger!vars
  BY <1>1, <1>9 DEF Publish, history
<1>10. ASSUME NEW q \in Request, Crash(q) PROVE UNCHANGED Ledger!vars
  BY <1>1, <1>10 DEF Crash, history
<1>11. ASSUME UNCHANGED vars PROVE UNCHANGED Ledger!vars
  BY <1>1, <1>11 DEF vars, history
<1> QED BY <1>3, <1>4, <1>5, <1>6, <1>7, <1>8, <1>9, <1>10, <1>11 DEF Next

\* Where the subscriber has one row and every request makes one call, the
\* store implements the ledger: whatever requests race, conflict or crash, every
\* save is one atomic call on the document it replaces.
THEOREM StoreImplementsLedger ==
  ASSUME SingleCalls, GrantsDrawnOnce
  PROVE  Spec => ImplementsLedger
<1>1. Init => TypeInv /\ LedgerInv
  BY InitTypes, InitLedgerInv
<1>2. TypeInv /\ LedgerInv /\ [Next]_vars => TypeInv' /\ LedgerInv'
  BY NextTypes, NextLedgerInv
<1>3. Init => Ledger!Init
  BY InitMaps
<1>4. TypeInv /\ LedgerInv /\ [Next]_vars => [Ledger!Next]_(Ledger!vars)
  BY NextMaps
<1> QED BY <1>1, <1>2, <1>3, <1>4, PTL DEF Spec, ImplementsLedger, Ledger!Spec

\* Under the same hypotheses no save undoes another: the stored document is
\* what the saved calls add up to.  Without them it is not (the batch that
\* loses a debit), so the hypotheses are needed.
THEOREM NoSaveUndone ==
  ASSUME SingleCalls, GrantsDrawnOnce
  PROVE  Spec => []SavedCallsStay
<1>1. Init => SavedCallsStay
  <2> SUFFICES ASSUME Init PROVE SavedCallsStay
    OBVIOUS
  <2>1. rows[1].doc = EmptyDocument /\ settled = EmptyJournal
    BY DEF Init, SingleCalls, Row, NoRow
  <2> QED BY <2>1 DEF SavedCallsStay, Balanced, EmptyDocument, Absent, EmptyJournal
<1>2. TypeInv /\ LedgerInv /\ SavedCallsStay /\ [Next]_vars => SavedCallsStay'
  <2> SUFFICES ASSUME TypeInv, LedgerInv, SavedCallsStay, [Next]_vars PROVE SavedCallsStay'
    OBVIOUS
  <2>1. rows[1].doc \in SoundDocument /\ settled \in [Counter -> Totals]
    BY OneRowOneCall DEF TypeInv
  <2>2. CASE \E q \in Request : Save(q)
    <3>1. PICK q \in Request : Save(q)
      BY <2>2
    <3> DEFINE call == Outcome(Call0(q), rows[1].doc, at[q])
    <3>2. Accounts(rows[1].doc, call)
      BY <2>1, OneRowOneCall, TimesNat, OutcomeSound
    <3>3. work[q].call = call
      BY <3>1, OneRowOneCall DEF LedgerInv, CallsFresh, Save, Unchanged, TypeInv
    <3> HIDE DEF call
    <3>4. rows'[1] = [there |-> TRUE, doc |-> call.doc, version |-> at[q]]
      BY <3>1, <3>3, OneRowOneCall DEF Save, TypeInv
    <3>5. settled' = PostLate(PostEarly(settled, call.early), call.late)
      BY <3>1, <3>3 DEF Save
    <3>6. rows'[1].doc = call.doc
      BY <3>4
    <3>7. Balanced(call.doc, PostLate(PostEarly(settled, call.early), call.late))
      BY <2>1, <3>2, PostBalanced DEF SavedCallsStay
    <3> QED BY <3>5, <3>6, <3>7 DEF SavedCallsStay, Balanced
  <2>3. CASE ~\E q \in Request : Save(q)
    <3>1. rows'[1].doc = rows[1].doc /\ settled' = settled
      <4>1. CASE \E q \in Request : Create(q)
        <5>1. PICK q \in Request : Create(q)
          BY <4>1
        <5>2. /\ ~rows[1].there /\ settled' = settled
              /\ rows' = [rows EXCEPT ![1] = [there |-> TRUE, doc |-> EmptyDocument,
                                              version |-> now']]
          BY <5>1, OneRowOneCall DEF Create, Operate, history
        <5> QED BY <5>2, OneRowOneCall DEF TypeInv, LedgerInv, TimesPast
      <4>2. CASE ~\E q \in Request : Create(q)
        BY <2>3, <4>2 DEF Next, Begin, Load, LoadNothing, Operate, SaveConflict, Publish,
                          Crash, vars, history
      <4> QED BY <4>1, <4>2
    <3> QED BY <3>1 DEF SavedCallsStay, Balanced
  <2> QED BY <2>2, <2>3
<1>3. Init => TypeInv /\ LedgerInv
  BY InitTypes, InitLedgerInv
<1>4. TypeInv /\ LedgerInv /\ [Next]_vars => TypeInv' /\ LedgerInv'
  BY NextTypes, NextLedgerInv
<1> QED BY <1>1, <1>2, <1>3, <1>4, PTL DEF Spec

=============================================================================
