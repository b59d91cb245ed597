---------------------------- MODULE BackendProofs -----------------------------
(***************************************************************************)
(* The parts of the system beside the quotas and the sessions.  First the  *)
(* plans the engine charges by: RatePlans for every number of versions,    *)
(* editors and clean-up jobs, Classifications for every number of rows and *)
(* days, and Rating and Classifying, which charge by them.  Then what runs *)
(* beside the charging requests: TopUps for every partition and any number *)
(* of failed calls and restarts, Housekeeping for any set of subscribers,  *)
(* and Subscribers for all topics, failures and restarts.                  *)
(***************************************************************************)
EXTENDS RatePlans, Classifications, Rating, Classifying, TopUps, Housekeeping,
        Subscribers, LoopsProofs, FiniteSetTheorems, TLAPS

Approvable(row) == [plan |-> row.plan, effective |-> row.effective, lines |-> row.lines]

ActiveApproved ==
  \A v \in Version : IsActive(v) => Approvable(rateplan[v]) \in approved

(***************************************************************************)
(* Why no list empties a plan: a listed version that is still there has a  *)
(* newer active one, however many other lists have been worked off since.  *)
(* When that one goes, it was listed too and so had a newer one itself.    *)
(***************************************************************************)
ListedReplaced ==
  \A j \in Job : \A v \in superseded[j] :
    /\ v <= issued
    /\ rateplan[v] = NoVersion \/ IsActive(v)
    /\ IsActive(v) => \E u \in Version : Newer(u, v)

RatePlansInv ==
  RatePlansTypeOK /\ ActiveApproved /\ ListedReplaced /\ ChargedAsApproved

\* What every step does.
Kept == RatePlansInv' /\ Frozen /\ StillActive

LEMMA MomentIsInt == Moment \subseteq Int /\ MaxVersions \in Nat /\ MaxClock \in Nat
                     /\ Retention \in Nat
  BY RatePlansAssumption DEF Moment

LEMMA PlansInitially == RatePlansInit => RatePlansInv
  <1> SUFFICES ASSUME RatePlansInit PROVE RatePlansInv
    OBVIOUS
  <1>1. RatePlansTypeOK
    BY MomentIsInt DEF RatePlansInit, RatePlansTypeOK, Moment, Version
  <1>2. ActiveApproved /\ ListedReplaced /\ ChargedAsApproved
    BY DEF RatePlansInit, ActiveApproved, ListedReplaced, ChargedAsApproved, IsActive
  <1> QED
    BY <1>1, <1>2 DEF RatePlansInv

\* A call of an editor: it makes versions, changes or deletes those that are
\* not active, and approves.
LEMMA EditorStep ==
  ASSUME RatePlansInv,
         UNCHANGED <<superseded, ratePlans, clock>>,
         issued' \in issued..MaxVersions,
         rateplan' \in [Version -> RatePlanRow \union {NoVersion}],
         \A v \in Version : v > issued' => rateplan'[v] = NoVersion,
         \A v \in Version : v <= issued /\ rateplan[v] = NoVersion => rateplan'[v] = NoVersion,
         \A v \in Version : IsActive(v) => rateplan'[v] = rateplan[v],
         \A v \in Version : IsActive(v)' => IsActive(v) \/ Approvable(rateplan'[v]) \in approved',
         editing' \in [Editor -> Edit \union {NoVersion}],
         approved \subseteq approved',
         approved' \in SUBSET [plan : Plan, effective : Moment, lines : Lines]
  PROVE  Kept
  <1>1. RatePlansTypeOK'
    <2>1. issued \in 0..MaxVersions
      BY DEF RatePlansInv, RatePlansTypeOK
    <2>2. issued' \in 0..MaxVersions
      BY <2>1, MomentIsInt
    <2> QED
      BY <2>2 DEF RatePlansInv, RatePlansTypeOK
  <1>2. ActiveApproved'
    <2> SUFFICES ASSUME NEW v \in Version, IsActive(v)'
                 PROVE  Approvable(rateplan'[v]) \in approved'
      BY DEF ActiveApproved
    <2>1. CASE IsActive(v)
      BY <2>1 DEF RatePlansInv, ActiveApproved
    <2> QED
      BY <2>1
  <1>3. ListedReplaced'
    <2> SUFFICES ASSUME NEW j \in Job, NEW v \in superseded[j]
                 PROVE  /\ v <= issued'
                        /\ rateplan'[v] = NoVersion \/ IsActive(v)'
                        /\ IsActive(v)' => \E u \in Version : Newer(u, v)'
      BY DEF ListedReplaced
    <2>1. v \in Version /\ superseded[j] \subseteq Version
      BY DEF RatePlansInv, RatePlansTypeOK
    <2>2. /\ v <= issued
          /\ rateplan[v] = NoVersion \/ IsActive(v)
          /\ IsActive(v) => \E u \in Version : Newer(u, v)
      BY DEF RatePlansInv, ListedReplaced
    <2>3. issued \in Int /\ issued' \in Int /\ issued <= issued' /\ v \in Int
      BY <2>1, MomentIsInt DEF RatePlansInv, RatePlansTypeOK, Version
    <2>4. CASE rateplan[v] = NoVersion
      BY <2>1, <2>2, <2>3, <2>4 DEF IsActive
    <2>5. CASE IsActive(v)
      <3>1. PICK u \in Version : Newer(u, v)
        BY <2>2, <2>5
      <3>2. rateplan'[u] = rateplan[u] /\ rateplan'[v] = rateplan[v]
        BY <2>1, <2>5, <3>1 DEF Newer
      <3>3. Newer(u, v)' /\ IsActive(v)'
        BY <2>5, <3>1, <3>2 DEF Newer, IsActive
      <3> QED
        BY <2>2, <2>3, <3>3
    <2> QED
      BY <2>2, <2>4, <2>5
  <1>4. ChargedAsApproved'
    BY DEF RatePlansInv, ChargedAsApproved
  <1>5. Frozen
    BY DEF Frozen
  <1>6. StillActive
    BY DEF StillActive, Is, IsActive
  <1> QED
    BY <1>1, <1>2, <1>3, <1>4, <1>5, <1>6 DEF Kept, RatePlansInv

\* A new draft.
LEMMA InsertKeeps ==
  ASSUME RatePlansInv, NEW row \in RatePlanRow, row.status = "DRAFT", Inserted(row),
         editing' \in [Editor -> Edit \union {NoVersion}],
         UNCHANGED <<superseded, ratePlans, clock, approved>>
  PROVE  Kept
  <1>1. /\ issued \in Int /\ issued < MaxVersions /\ issued' = issued + 1
        /\ issued + 1 \in Version /\ rateplan[issued + 1] = NoVersion
        /\ issued' \in issued..MaxVersions
    BY MomentIsInt DEF RatePlansInv, RatePlansTypeOK, Inserted, Version
  <1>2. rateplan' = [rateplan EXCEPT ![issued + 1] = row]
    BY DEF Inserted
  <1>3. /\ rateplan' \in [Version -> RatePlanRow \union {NoVersion}]
        /\ rateplan'[issued + 1] = row
        /\ \A v \in Version : v # issued + 1 => rateplan'[v] = rateplan[v]
    BY <1>1, <1>2 DEF RatePlansInv, RatePlansTypeOK
  <1>4. \A v \in Version : v \in Int
    BY DEF Version
  <1>5. \A v \in Version : v > issued' => rateplan'[v] = NoVersion
    BY <1>1, <1>3, <1>4 DEF RatePlansInv, RatePlansTypeOK
  <1>6. \A v \in Version : v <= issued /\ rateplan[v] = NoVersion => rateplan'[v] = NoVersion
    BY <1>1, <1>3, <1>4
  <1>7. \A v \in Version : IsActive(v) => rateplan'[v] = rateplan[v]
    BY <1>1, <1>3 DEF IsActive
  <1>8. \A v \in Version : IsActive(v)' => IsActive(v)
    BY <1>1, <1>3 DEF IsActive
  <1>9. approved \in SUBSET [plan : Plan, effective : Moment, lines : Lines]
    BY DEF RatePlansInv, RatePlansTypeOK
  <1> QED
    BY <1>1, <1>3, <1>5, <1>6, <1>7, <1>8, <1>9, EditorStep

\* A statement that changes the versions of a plan in one status, or deletes
\* them, and does not make them active.
LEMMA ChangeKeeps ==
  ASSUME RatePlansInv,
         rateplan' \in [Version -> RatePlanRow \union {NoVersion}],
         \A v \in Version : \/ rateplan'[v] = rateplan[v]
                            \/ rateplan[v] # NoVersion /\ ~IsActive(v) /\ ~IsActive(v)',
         editing' \in [Editor -> Edit \union {NoVersion}],
         UNCHANGED <<issued, superseded, ratePlans, clock, approved>>
  PROVE  Kept
  <1>1. /\ rateplan \in [Version -> RatePlanRow \union {NoVersion}]
        /\ \A v \in Version : v > issued => rateplan[v] = NoVersion
        /\ approved \in SUBSET [plan : Plan, effective : Moment, lines : Lines]
    BY DEF RatePlansInv, RatePlansTypeOK
  <1>2. \A v \in Version : rateplan[v] = NoVersion => rateplan'[v] = NoVersion
    OBVIOUS
  <1>3. \A v \in Version : IsActive(v) => rateplan'[v] = rateplan[v]
    OBVIOUS
  <1>4. \A v \in Version : IsActive(v)' => IsActive(v)
    BY DEF IsActive
  <1>5. issued' \in issued..MaxVersions
    BY MomentIsInt DEF RatePlansInv, RatePlansTypeOK
  <1> QED
    BY <1>1, <1>2, <1>3, <1>4, <1>5, EditorStep

\* Submit and Decline.
LEMMA UpdateKeeps ==
  ASSUME RatePlansInv, NEW p, NEW status, status # "ACTIVE",
         NEW result \in {"DRAFT", "PENDING"},
         rateplan' = [v \in Version |-> IF Is(v, p, status)
                        THEN [rateplan[v] EXCEPT !.status = result] ELSE rateplan[v]],
         UNCHANGED <<issued, editing, superseded, ratePlans, clock, approved>>
  PROVE  Kept
  <1>1. rateplan \in [Version -> RatePlanRow \union {NoVersion}]
        /\ editing' \in [Editor -> Edit \union {NoVersion}]
    BY DEF RatePlansInv, RatePlansTypeOK
  <1>2. ASSUME NEW v \in Version, Is(v, p, status)
        PROVE  /\ rateplan'[v] \in RatePlanRow /\ rateplan'[v].status # "ACTIVE"
               /\ rateplan[v] # NoVersion /\ ~IsActive(v)
    <2>1. rateplan[v] \in RatePlanRow
      BY <1>1, <1>2 DEF Is
    <2>2. rateplan'[v] = [rateplan[v] EXCEPT !.status = result]
      BY <1>2
    <2> QED
      BY <1>2, <2>1, <2>2 DEF RatePlanRow, Is, IsActive
  <1>3. rateplan' \in [Version -> RatePlanRow \union {NoVersion}]
    <2>1. \A v \in Version : rateplan'[v] \in RatePlanRow \union {NoVersion}
      BY <1>1, <1>2
    <2> QED
      BY <2>1
  <1>4. \A v \in Version : \/ rateplan'[v] = rateplan[v]
                           \/ rateplan[v] # NoVersion /\ ~IsActive(v) /\ ~IsActive(v)'
    BY <1>2 DEF IsActive
  <1> QED
    BY <1>1, <1>3, <1>4, ChangeKeeps

\* New lines, and a new type and date, of the drafts.
LEMMA EnterKeeps ==
  ASSUME RatePlansInv, NEW p, NEW row,
         rateplan' = [v \in Version |-> IF Is(v, p, "DRAFT") THEN row[v] ELSE rateplan[v]],
         \A v \in Version : Is(v, p, "DRAFT") =>
           row[v] \in RatePlanRow /\ row[v].status = "DRAFT",
         editing' \in [Editor -> Edit \union {NoVersion}],
         UNCHANGED <<issued, superseded, ratePlans, clock, approved>>
  PROVE  Kept
  <1>1. rateplan \in [Version -> RatePlanRow \union {NoVersion}]
    BY DEF RatePlansInv, RatePlansTypeOK
  <1>2. ASSUME NEW v \in Version, Is(v, p, "DRAFT")
        PROVE  /\ rateplan'[v] \in RatePlanRow /\ rateplan'[v].status # "ACTIVE"
               /\ rateplan[v] # NoVersion /\ ~IsActive(v)
    <2>1. rateplan[v] \in RatePlanRow /\ rateplan[v].status = "DRAFT"
      BY <1>1, <1>2 DEF Is
    <2>2. rateplan'[v] = row[v] /\ row[v] \in RatePlanRow /\ row[v].status = "DRAFT"
      BY <1>2
    <2> QED
      BY <1>2, <2>1, <2>2 DEF Is, IsActive
  <1>3. rateplan' \in [Version -> RatePlanRow \union {NoVersion}]
    <2>1. \A v \in Version : rateplan'[v] \in RatePlanRow \union {NoVersion}
      BY <1>1, <1>2
    <2> QED
      BY <2>1
  <1>4. \A v \in Version : \/ rateplan'[v] = rateplan[v]
                           \/ rateplan[v] # NoVersion /\ ~IsActive(v) /\ ~IsActive(v)'
    BY <1>2 DEF IsActive
  <1> QED
    BY <1>3, <1>4, ChangeKeeps

LEMMA ApproveKeeps ==
  ASSUME RatePlansInv, NEW p \in Plan, Approve(p)
  PROVE  Kept
  <1> DEFINE entry(v) == [plan |-> p, effective |-> rateplan[v].effective,
                          lines |-> rateplan[v].lines]
             pending == {v \in Version : Is(v, p, "PENDING")}
  <1>1. /\ rateplan' = [v \in Version |-> IF Is(v, p, "PENDING")
                          THEN [rateplan[v] EXCEPT !.status = "ACTIVE"] ELSE rateplan[v]]
        /\ approved' = approved \union {entry(v) : v \in pending}
        /\ UNCHANGED <<issued, editing, superseded, ratePlans, clock>>
    BY DEF Approve, Moved
  <1>2. /\ rateplan \in [Version -> RatePlanRow \union {NoVersion}]
        /\ \A v \in Version : v > issued => rateplan[v] = NoVersion
        /\ approved \in SUBSET [plan : Plan, effective : Moment, lines : Lines]
        /\ editing' \in [Editor -> Edit \union {NoVersion}]
    BY <1>1 DEF RatePlansInv, RatePlansTypeOK
  <1>3. \A v \in pending : rateplan[v] \in RatePlanRow /\ rateplan[v].plan = p
    BY <1>2 DEF Is
  <1>4. \A v \in pending :
          /\ [rateplan[v] EXCEPT !.status = "ACTIVE"] \in RatePlanRow
          /\ entry(v) \in [plan : Plan, effective : Moment, lines : Lines]
          /\ Approvable([rateplan[v] EXCEPT !.status = "ACTIVE"]) = entry(v)
    BY <1>3 DEF RatePlanRow, Approvable
  <1>5. rateplan' \in [Version -> RatePlanRow \union {NoVersion}]
    BY <1>1, <1>2, <1>4
  <1>6. \A v \in Version : rateplan[v] = NoVersion => rateplan'[v] = NoVersion
    BY <1>1 DEF Is
  <1>7. \A v \in Version : IsActive(v) => rateplan'[v] = rateplan[v]
    BY <1>1 DEF Is, IsActive
  <1>8. \A v \in Version : IsActive(v)' => IsActive(v) \/ Approvable(rateplan'[v]) \in approved'
    <2> SUFFICES ASSUME NEW v \in Version, IsActive(v)', ~IsActive(v)
                 PROVE  Approvable(rateplan'[v]) \in approved'
      OBVIOUS
    <2>1. v \in pending
      BY <1>1 DEF IsActive
    <2>2. rateplan'[v] = [rateplan[v] EXCEPT !.status = "ACTIVE"]
      BY <1>1, <2>1
    <2>3. Approvable(rateplan'[v]) = entry(v)
      BY <1>4, <2>1, <2>2
    <2> QED
      BY <1>1, <2>1, <2>3
  <1>9. approved' \in SUBSET [plan : Plan, effective : Moment, lines : Lines]
    BY <1>1, <1>2, <1>4
  <1>10. issued' \in issued..MaxVersions
    BY <1>1, MomentIsInt DEF RatePlansInv, RatePlansTypeOK
  <1> HIDE DEF pending, entry
  <1>11. approved \subseteq approved'
    BY <1>1
  <1> QED
    BY <1>1, <1>2, <1>5, <1>6, <1>7, <1>8, <1>9, <1>10, <1>11, EditorStep

\* What the clean-up deletes had a newer active version, which stays.
LEMMA DeleteKeeps ==
  ASSUME RatePlansInv, NEW j \in Job, DeleteListed(j)
  PROVE  Kept
  <1> PICK x \in superseded[j] :
        /\ rateplan' = [rateplan EXCEPT ![x] = IF IsActive(x) THEN NoVersion ELSE @]
        /\ superseded' = [superseded EXCEPT ![j] = @ \ {x}]
    BY DEF DeleteListed
  <1>1. /\ UNCHANGED <<issued, editing, ratePlans, clock, approved>>
        /\ superseded \in [Job -> SUBSET Version] /\ x \in Version
        /\ rateplan \in [Version -> RatePlanRow \union {NoVersion}]
    BY DEF DeleteListed, RatePlansInv, RatePlansTypeOK
  <1>2. /\ \A v \in Version : v # x => rateplan'[v] = rateplan[v]
        /\ IsActive(x) => rateplan'[x] = NoVersion
        /\ ~IsActive(x) => rateplan'[x] = rateplan[x]
        /\ rateplan' \in [Version -> RatePlanRow \union {NoVersion}]
        /\ \A v \in Version : rateplan[v] = NoVersion => rateplan'[v] = NoVersion
    BY <1>1 DEF IsActive
  <1>3. \A i \in Job : superseded'[i] \subseteq superseded[i]
    BY <1>1
  <1>4. \A v \in Version : IsActive(v)' => IsActive(v) /\ rateplan'[v] = rateplan[v]
    BY <1>1, <1>2 DEF IsActive
  \* A newer active version of any version: of the two, x or its own newer one.
  <1>5. ASSUME NEW v \in Version, v # x, IsActive(v), NEW u \in Version, Newer(u, v)
        PROVE  \E w \in Version : Newer(w, v)'
    <2>1. /\ rateplan[u] \in RatePlanRow /\ rateplan[v] \in RatePlanRow
          /\ rateplan'[v] = rateplan[v]
      BY <1>1, <1>2, <1>5 DEF Newer, IsActive
    <2>2. CASE u # x
      <3>1. rateplan'[u] = rateplan[u]
        BY <1>2, <2>2
      <3> QED
        BY <1>5, <2>1, <3>1 DEF Newer, IsActive
    <2>3. CASE u = x
      <3>1. IsActive(x)
        BY <1>5, <2>3 DEF Newer
      <3>2. PICK w \in Version : Newer(w, x)
        BY <3>1 DEF RatePlansInv, ListedReplaced
      <3>3. rateplan[w] \in RatePlanRow /\ rateplan[x] \in RatePlanRow
        BY <1>1, <3>1, <3>2 DEF Newer, IsActive
      <3>4. /\ rateplan[w].effective \in Int /\ rateplan[x].effective \in Int
            /\ rateplan[v].effective \in Int
        BY <2>1, <3>3, MomentIsInt DEF RatePlanRow
      <3>5. w # x
        BY <3>2, <3>4 DEF Newer
      <3>6. Newer(w, v) /\ rateplan'[w] = rateplan[w]
        BY <1>2, <1>5, <2>3, <3>2, <3>4, <3>5 DEF Newer
      <3> QED
        BY <2>1, <3>6 DEF Newer, IsActive
    <2> QED
      BY <2>2, <2>3
  <1>6. RatePlansTypeOK'
    <2>1. \A v \in Version : v > issued' => rateplan'[v] = NoVersion
      BY <1>1, <1>2 DEF RatePlansInv, RatePlansTypeOK
    <2>2. superseded' \in [Job -> SUBSET Version]
      BY <1>1
    <2> QED
      BY <1>1, <1>2, <2>1, <2>2 DEF RatePlansInv, RatePlansTypeOK
  <1>7. ActiveApproved'
    BY <1>1, <1>4 DEF RatePlansInv, ActiveApproved
  <1>8. ListedReplaced'
    <2> SUFFICES ASSUME NEW i \in Job, NEW v \in superseded'[i]
                 PROVE  /\ v <= issued'
                        /\ rateplan'[v] = NoVersion \/ IsActive(v)'
                        /\ IsActive(v)' => \E u \in Version : Newer(u, v)'
      BY DEF ListedReplaced
    <2>1. v \in superseded[i] /\ v \in Version
      BY <1>1, <1>3
    <2>2. /\ v <= issued
          /\ rateplan[v] = NoVersion \/ IsActive(v)
          /\ IsActive(v) => \E u \in Version : Newer(u, v)
      BY <2>1 DEF RatePlansInv, ListedReplaced
    <2>3. rateplan'[v] = NoVersion \/ IsActive(v)'
      BY <1>2, <2>1, <2>2 DEF IsActive
    <2>4. ASSUME IsActive(v)' PROVE \E u \in Version : Newer(u, v)'
      <3>1. IsActive(v) /\ v # x
        BY <1>2, <1>4, <2>1, <2>4 DEF IsActive
      <3> QED
        BY <1>5, <2>1, <2>2, <3>1
    <2> QED
      BY <1>1, <2>2, <2>3, <2>4
  <1>9. ChargedAsApproved'
    BY <1>1 DEF RatePlansInv, ChargedAsApproved
  <1>10. Frozen
    BY <1>1, <1>2 DEF Frozen
  <1>11. StillActive
    <2> SUFFICES ASSUME NEW p \in Plan, NEW v \in Version, Is(v, p, "ACTIVE")
                 PROVE  \E w \in Version : Is(w, p, "ACTIVE")'
      BY DEF StillActive
    <2>1. CASE v # x
      BY <1>2, <2>1 DEF Is
    <2>2. CASE v = x
      <3>1. IsActive(x) /\ rateplan[x] \in RatePlanRow /\ rateplan[x].plan = p
        BY <1>1, <2>2 DEF Is, IsActive
      <3>2. PICK w \in Version : Newer(w, x)
        BY <3>1 DEF RatePlansInv, ListedReplaced
      <3>3. rateplan[w] \in RatePlanRow
        BY <1>1, <3>2 DEF Newer, IsActive
      <3>4. w # x
        <4>1. rateplan[w].effective \in Int /\ rateplan[x].effective \in Int
          BY <3>1, <3>3, MomentIsInt DEF RatePlanRow
        <4> QED
          BY <3>2, <4>1 DEF Newer
      <3>5. rateplan'[w] = rateplan[w]
        BY <1>2, <3>4
      <3> QED
        BY <3>1, <3>2, <3>5 DEF Newer, Is, IsActive
    <2> QED
      BY <2>1, <2>2
  <1> QED
    BY <1>6, <1>7, <1>8, <1>9, <1>10, <1>11 DEF Kept, RatePlansInv

\* Steps that leave the table alone.
LEMMA TableAlone ==
  ASSUME UNCHANGED rateplan
  PROVE  Frozen /\ StillActive
  BY DEF Frozen, StillActive, Is

LEMMA PlansPreserved ==
  ASSUME RatePlansInv, [RatePlansNext]_planVars
  PROVE  Kept
  <1> HIDE DEF Kept
  <1>t. /\ issued \in 0..MaxVersions
        /\ rateplan \in [Version -> RatePlanRow \union {NoVersion}]
        /\ editing \in [Editor -> Edit \union {NoVersion}]
        /\ superseded \in [Job -> SUBSET Version]
        /\ clock \in Moment
    BY DEF RatePlansInv, RatePlansTypeOK
  <1>1. ASSUME NEW p \in Plan, NEW type \in PlanType, NEW effective \in Moment,
               NEW lines \in Lines, Create(p, type, effective, lines)
        PROVE  Kept
    <2> DEFINE row == [plan |-> p, type |-> type, status |-> "DRAFT",
                       effective |-> effective, lines |-> lines]
    <2>1. row \in RatePlanRow /\ row.status = "DRAFT"
      BY DEF RatePlanRow
    <2>2. Inserted(row) /\ UNCHANGED <<editing, superseded, ratePlans, clock, approved>>
      BY <1>1 DEF Create
    <2> HIDE DEF row
    <2> QED
      BY <1>t, <2>1, <2>2, InsertKeeps
  <1>2. ASSUME NEW p \in Plan, NEW type \in PlanType, NEW effective \in Moment,
               NEW lines \in Lines, ChangeDraft(p, type, effective, lines)
        PROVE  Kept
    <2> DEFINE row == [v \in Version |->
          [rateplan[v] EXCEPT !.type = type, !.effective = effective, !.lines = lines]]
    <2>1. rateplan' = [v \in Version |-> IF Is(v, p, "DRAFT") THEN row[v] ELSE rateplan[v]]
      BY <1>2 DEF ChangeDraft
    <2>2. ASSUME NEW v \in Version, Is(v, p, "DRAFT")
          PROVE  row[v] \in RatePlanRow /\ row[v].status = "DRAFT"
      <3>1. rateplan[v] \in RatePlanRow /\ rateplan[v].status = "DRAFT"
        BY <1>t, <2>2 DEF Is
      <3> QED BY <3>1 DEF RatePlanRow
    <2>3. UNCHANGED <<issued, editing, superseded, ratePlans, clock, approved>>
      BY <1>2 DEF ChangeDraft
    <2> HIDE DEF row
    <2> QED
      BY <1>t, <2>1, <2>2, <2>3, EnterKeeps
  <1>3. ASSUME NEW e \in Editor, WriteRules(e) PROVE Kept
    <2>1. editing[e] \in Edit /\ editing[e].kind = "rules"
      BY <1>3, <1>t DEF WriteRules
    <2>2. editing[e].lines \in Lines
      BY <2>1 DEF Edit
    <2> DEFINE row == [v \in Version |-> [rateplan[v] EXCEPT !.lines = editing[e].lines]]
    <2>3. ASSUME NEW v \in Version, Is(v, editing[e].plan, "DRAFT")
          PROVE  row[v] \in RatePlanRow /\ row[v].status = "DRAFT"
      <3>1. rateplan[v] \in RatePlanRow /\ rateplan[v].status = "DRAFT"
        BY <1>t, <2>3 DEF Is
      <3> QED BY <2>2, <3>1 DEF RatePlanRow
    <2>4. rateplan' = [v \in Version |->
             IF Is(v, editing[e].plan, "DRAFT") THEN row[v] ELSE rateplan[v]]
      BY <1>3 DEF WriteRules
    <2>5. editing' \in [Editor -> Edit \union {NoVersion}]
      BY <1>3, <1>t DEF WriteRules
    <2>6. UNCHANGED <<issued, superseded, ratePlans, clock, approved>>
      BY <1>3 DEF WriteRules
    <2> HIDE DEF row
    <2> QED
      BY <2>3, <2>4, <2>5, <2>6, EnterKeeps
  <1>4. ASSUME NEW e \in Editor, WriteClone(e) PROVE Kept
    <2>1. editing[e] \in Edit /\ editing[e].kind = "clone"
      BY <1>4, <1>t DEF WriteClone
    <2>2. editing[e].source \in RatePlanRow
      BY <2>1 DEF Edit
    <2> DEFINE row == [editing[e].source EXCEPT !.status = "DRAFT"]
    <2>3. row \in RatePlanRow /\ row.status = "DRAFT"
      BY <2>2 DEF RatePlanRow
    <2>4. Inserted(row) /\ UNCHANGED <<superseded, ratePlans, clock, approved>>
      BY <1>4 DEF WriteClone
    <2>5. editing' \in [Editor -> Edit \union {NoVersion}]
      BY <1>4, <1>t DEF WriteClone
    <2> HIDE DEF row
    <2> QED
      BY <2>3, <2>4, <2>5, InsertKeeps
  <1>5. ASSUME NEW p \in Plan, Submit(p) \/ Decline(p) PROVE Kept
    <2>1. CASE Submit(p)
      <3>1. /\ rateplan' = [v \in Version |-> IF Is(v, p, "DRAFT")
                 THEN [rateplan[v] EXCEPT !.status = "PENDING"] ELSE rateplan[v]]
            /\ UNCHANGED <<issued, editing, superseded, ratePlans, clock, approved>>
        BY <2>1 DEF Submit, Moved
      <3> QED
        BY <3>1, UpdateKeeps
    <2>2. CASE Decline(p)
      <3>1. /\ rateplan' = [v \in Version |-> IF Is(v, p, "PENDING")
                 THEN [rateplan[v] EXCEPT !.status = "DRAFT"] ELSE rateplan[v]]
            /\ UNCHANGED <<issued, editing, superseded, ratePlans, clock, approved>>
        BY <2>2 DEF Decline, Moved
      <3> QED
        BY <3>1, UpdateKeeps
    <2> QED
      BY <1>5, <2>1, <2>2
  <1>6. ASSUME NEW p \in Plan, Approve(p) PROVE Kept
    BY <1>6, ApproveKeeps
  <1>7. ASSUME NEW p \in Plan, DeleteDraft(p) PROVE Kept
    <2>1. /\ rateplan' = [v \in Version |-> IF Is(v, p, "DRAFT") THEN NoVersion ELSE rateplan[v]]
          /\ UNCHANGED <<issued, editing, superseded, ratePlans, clock, approved>>
      BY <1>7 DEF DeleteDraft
    <2>2. rateplan' \in [Version -> RatePlanRow \union {NoVersion}]
      BY <1>t, <2>1
    <2>3. \A v \in Version : \/ rateplan'[v] = rateplan[v]
                             \/ rateplan[v] # NoVersion /\ ~IsActive(v) /\ ~IsActive(v)'
      BY <2>1 DEF Is, IsActive
    <2> QED
      BY <1>t, <2>1, <2>2, <2>3, ChangeKeeps
  <1>8. ASSUME NEW e \in Editor, NEW p \in Plan, NEW lines \in Lines, ReadForRules(e, p, lines)
        PROVE  Kept
    <2>1. [kind |-> "rules", plan |-> p, lines |-> lines] \in Edit
      BY DEF Edit
    <2>2. UNCHANGED <<rateplan, issued, superseded, ratePlans, clock, approved>>
          /\ editing' \in [Editor -> Edit \union {NoVersion}]
      BY <1>8, <1>t, <2>1 DEF ReadForRules
    <2>3. RatePlansInv'
      BY <2>2 DEF RatePlansInv, RatePlansTypeOK, ActiveApproved, ListedReplaced,
        ChargedAsApproved, IsActive, Newer
    <2> QED
      BY <2>2, <2>3, TableAlone DEF Kept
  <1>9. ASSUME NEW e \in Editor, NEW p \in Plan, ReadForClone(e, p) PROVE Kept
    <2> PICK v \in Latest(p) :
          editing' = [editing EXCEPT ![e] = [kind |-> "clone", source |-> rateplan[v]]]
      BY <1>9 DEF ReadForClone
    <2>1. v \in Version /\ rateplan[v] # NoVersion
      BY DEF Latest, Versions
    <2>2. [kind |-> "clone", source |-> rateplan[v]] \in Edit
      BY <1>t, <2>1 DEF Edit
    <2>3. UNCHANGED <<rateplan, issued, superseded, ratePlans, clock, approved>>
          /\ editing' \in [Editor -> Edit \union {NoVersion}]
      BY <1>9, <1>t, <2>2 DEF ReadForClone
    <2>4. RatePlansInv'
      BY <2>3 DEF RatePlansInv, RatePlansTypeOK, ActiveApproved, ListedReplaced,
        ChargedAsApproved, IsActive, Newer
    <2> QED
      BY <2>3, <2>4, TableAlone DEF Kept
  <1>10. ASSUME NEW j \in Job, List(j) PROVE Kept
    <2>1. /\ superseded' = [superseded EXCEPT ![j] = Superseded]
          /\ UNCHANGED <<rateplan, issued, editing, ratePlans, clock, approved>>
      BY <1>10 DEF List
    <2>2. \A v \in Superseded :
            /\ v \in Version /\ v <= issued /\ IsActive(v)
            /\ \E u \in Version : Newer(u, v)
      <3> SUFFICES ASSUME NEW v \in Superseded PROVE v <= issued
        BY DEF Superseded
      <3>1. v \in Version /\ rateplan[v] # NoVersion
        BY DEF Superseded, IsActive
      <3> QED
        BY <1>t, <3>1, MomentIsInt DEF RatePlansInv, RatePlansTypeOK, Version
    <2>3. superseded' \in [Job -> SUBSET Version]
      BY <1>t, <2>1, <2>2
    <2>4. RatePlansTypeOK'
      BY <2>1, <2>3 DEF RatePlansInv, RatePlansTypeOK
    <2>5. ListedReplaced'
      <3> SUFFICES ASSUME NEW i \in Job, NEW v \in superseded'[i]
                   PROVE  /\ v <= issued
                          /\ rateplan[v] = NoVersion \/ IsActive(v)
                          /\ IsActive(v) => \E u \in Version : Newer(u, v)
        BY <2>1 DEF ListedReplaced, IsActive, Newer
      <3>1. CASE i = j
        BY <1>t, <2>1, <2>2, <3>1
      <3>2. CASE i # j
        <4>1. v \in superseded[i]
          BY <1>t, <2>1, <3>2
        <4> QED
          BY <4>1 DEF RatePlansInv, ListedReplaced
      <3> QED
        BY <3>1, <3>2
    <2>6. ActiveApproved' /\ ChargedAsApproved'
      BY <2>1 DEF RatePlansInv, ActiveApproved, ChargedAsApproved, IsActive
    <2> QED
      BY <2>1, <2>4, <2>5, <2>6, TableAlone DEF Kept, RatePlansInv
  <1>11. ASSUME NEW j \in Job, DeleteListed(j) PROVE Kept
    BY <1>11, DeleteKeeps
  <1>12. ASSUME NEW j \in Job, StopCleanup(j) PROVE Kept
    <2>1. /\ superseded' \in [Job -> SUBSET Version]
          /\ \A i \in Job : superseded'[i] \subseteq superseded[i]
          /\ UNCHANGED <<rateplan, issued, editing, ratePlans, clock, approved>>
      BY <1>12, <1>t DEF StopCleanup
    <2>2. RatePlansTypeOK' /\ ActiveApproved' /\ ChargedAsApproved'
      BY <2>1 DEF RatePlansInv, RatePlansTypeOK, ActiveApproved, ChargedAsApproved, IsActive
    <2>3. ListedReplaced'
      <3> SUFFICES ASSUME NEW i \in Job, NEW v \in superseded[i]
                   PROVE  /\ v <= issued
                          /\ rateplan[v] = NoVersion \/ IsActive(v)
                          /\ IsActive(v) => \E u \in Version : Newer(u, v)
        BY <2>1 DEF ListedReplaced, IsActive, Newer
      <3> QED
        BY DEF RatePlansInv, ListedReplaced
    <2> QED
      BY <2>1, <2>2, <2>3, TableAlone DEF Kept, RatePlansInv
  <1>13. CASE Reload
    <2> PICK first \in [Plan -> Version] :
          /\ \A p \in Plan : InForce(p) # {} => first[p] \in Leading(p)
          /\ ratePlans' = [p \in Plan |->
               IF InForce(p) = {} THEN NoVersion
               ELSE [version |-> first[p], effective |-> rateplan[first[p]].effective,
                     lines |-> rateplan[first[p]].lines]]
      BY <1>13 DEF Reload
    <2>1. UNCHANGED <<rateplan, issued, editing, superseded, clock, approved>>
      BY <1>13 DEF Reload
    <2>2. ASSUME NEW p \in Plan, InForce(p) # {}
          PROVE  /\ first[p] \in Version /\ Is(first[p], p, "ACTIVE")
                 /\ rateplan[first[p]].effective < clock
                 /\ rateplan[first[p]] \in RatePlanRow
                 /\ ratePlans'[p] = [version |-> first[p],
                                     effective |-> rateplan[first[p]].effective,
                                     lines |-> rateplan[first[p]].lines]
      <3>1. first[p] \in InForce(p)
        BY <2>2 DEF Leading
      <3> QED
        BY <1>t, <2>2, <3>1 DEF InForce, Is
    <2>3. \A p \in Plan : InForce(p) = {} => ratePlans'[p] = NoVersion
      OBVIOUS
    <2>4. ratePlans' \in [Plan -> LoadedPlan \union {NoVersion}]
      <3>1. \A p \in Plan : ratePlans'[p] \in LoadedPlan \union {NoVersion}
        BY <2>2, <2>3 DEF LoadedPlan, RatePlanRow
      <3> QED
        BY <3>1
    <2>5. RatePlansTypeOK' /\ ActiveApproved' /\ ListedReplaced'
      BY <2>1, <2>4
      DEF RatePlansInv, RatePlansTypeOK, ActiveApproved, ListedReplaced, IsActive, Newer
    <2>6. ChargedAsApproved'
      <3> SUFFICES ASSUME NEW p \in Plan, ratePlans'[p] # NoVersion
                   PROVE  /\ [plan |-> p, effective |-> ratePlans'[p].effective,
                              lines |-> ratePlans'[p].lines] \in approved
                          /\ ratePlans'[p].effective < clock
        BY <2>1 DEF ChargedAsApproved
      <3>1. InForce(p) # {}
        BY <2>3
      <3>2. Approvable(rateplan[first[p]]) \in approved
        BY <2>2, <3>1 DEF RatePlansInv, ActiveApproved, Is, IsActive
      <3> QED
        BY <2>2, <3>1, <3>2 DEF Approvable, Is
    <2> QED
      BY <2>1, <2>5, <2>6, TableAlone DEF Kept, RatePlansInv
  <1>14. CASE Tick
    <2>1. /\ clock' \in Moment /\ clock' = clock + 1 /\ clock \in Int
          /\ UNCHANGED <<rateplan, issued, editing, superseded, ratePlans, approved>>
      BY <1>14, <1>t, MomentIsInt DEF Tick, Moment
    <2>2. RatePlansTypeOK' /\ ActiveApproved' /\ ListedReplaced'
      BY <2>1
      DEF RatePlansInv, RatePlansTypeOK, ActiveApproved, ListedReplaced, IsActive, Newer
    <2>3. ChargedAsApproved'
      <3> SUFFICES ASSUME NEW p \in Plan, ratePlans[p] # NoVersion
                   PROVE  /\ [plan |-> p, effective |-> ratePlans[p].effective,
                              lines |-> ratePlans[p].lines] \in approved
                          /\ ratePlans[p].effective < clock'
        BY <2>1 DEF ChargedAsApproved
      <3>1. ratePlans[p] \in LoadedPlan
        BY DEF RatePlansInv, RatePlansTypeOK
      <3>2. ratePlans[p].effective \in Int
        BY <3>1, MomentIsInt DEF LoadedPlan
      <3> QED
        BY <2>1, <3>2 DEF RatePlansInv, ChargedAsApproved
    <2> QED
      BY <2>1, <2>2, <2>3, TableAlone DEF Kept, RatePlansInv
  <1>15. CASE UNCHANGED planVars
    <2>1. RatePlansInv'
      BY <1>15 DEF planVars, RatePlansInv, RatePlansTypeOK, ActiveApproved, ListedReplaced,
        ChargedAsApproved, IsActive, Newer
    <2> QED
      BY <1>15, <2>1, TableAlone DEF Kept, planVars
  <1> QED
    BY <1>1, <1>2, <1>3, <1>4, <1>5, <1>6, <1>7, <1>8, <1>9, <1>10, <1>11, <1>12, <1>13,
      <1>14, <1>15 DEF RatePlansNext, Edited

LEMMA PlansInvariant == RatePlansSpec => []RatePlansInv
  <1>1. RatePlansInv /\ [RatePlansNext]_planVars => RatePlansInv'
    BY PlansPreserved DEF Kept
  <1> QED
    BY <1>1, PlansInitially, PTL DEF RatePlansSpec

\* The table, the lists and the engine's plans keep their types.
THEOREM RatePlansTypeCorrect == RatePlansSpec => []RatePlansTypeOK
  <1>1. RatePlansInv => RatePlansTypeOK
    BY DEF RatePlansInv
  <1> QED
    BY <1>1, PlansInvariant, PTL

\* The engine charges by approved lines, and not before their time.
THEOREM EngineChargesAsApproved == RatePlansSpec => []ChargedAsApproved
  <1>1. RatePlansInv => ChargedAsApproved
    BY DEF RatePlansInv
  <1> QED
    BY <1>1, PlansInvariant, PTL

\* No call of an editor reaches an active version, and however many clean-ups
\* run against each other, a plan keeps one.
THEOREM LastActiveStays == RatePlansSpec => ActivePlanStays
  <1>1. RatePlansInv /\ [RatePlansNext]_planVars =>
          [Frozen /\ StillActive]_planVars
    BY PlansPreserved DEF Kept
  <1> QED
    BY <1>1, PlansInvariant, PTL DEF RatePlansSpec, ActivePlanStays

-----------------------------------------------------------------------------
(***************************************************************************)
(* What is loaded stays backed: its row is still active, with the contents *)
(* it was loaded with, because no statement changes or deletes an active   *)
(* row.                                                                    *)
(***************************************************************************)
ActiveAgreed ==
  \A c \in Row : HasStatus(c, "ACTIVE") =>
    [effective |-> classification[c].effective, rules |-> classification[c].rules] \in agreed

LoadedStands ==
  classified # NoRow =>
    /\ HasStatus(classified.row, "ACTIVE")
    /\ classification[classified.row].effective = classified.effective
    /\ classification[classified.row].rules = classified.rules
    /\ classified.effective < today

ClassificationsInv == ClassificationsTypeOK /\ ActiveAgreed /\ LoadedStands

LEMMA ClassificationsInitially == ClassificationsInit => ClassificationsInv
  <1> SUFFICES ASSUME ClassificationsInit PROVE ClassificationsInv
    OBVIOUS
  <1>1. ClassificationsTypeOK
    BY ClassificationsAssumption
    DEF ClassificationsInit, ClassificationsTypeOK, Day, Row
  <1>2. ActiveAgreed /\ LoadedStands
    BY DEF ClassificationsInit, ActiveAgreed, LoadedStands, HasStatus
  <1> QED
    BY <1>1, <1>2 DEF ClassificationsInv

\* A new draft leaves the rows there are alone.
LEMMA DraftInserted ==
  ASSUME ClassificationsInv,
         NEW effective \in Day, NEW rules \in Content,
         InsertDraft(effective, rules)
  PROVE  /\ rows' \in 0..MaxRows
         /\ classification' \in [Row -> ClassificationRow \union {NoRow}]
         /\ \A c \in Row : c > rows' => classification'[c] = NoRow
         /\ \A c \in Row : HasStatus(c, "ACTIVE") => classification'[c] = classification[c]
         /\ \A c \in Row : classification'[c] # NoRow /\ classification'[c].status = "ACTIVE"
              => HasStatus(c, "ACTIVE")
  <1>1. rows + 1 \in Row /\ classification[rows + 1] = NoRow
    BY ClassificationsAssumption
    DEF ClassificationsInv, ClassificationsTypeOK, InsertDraft, Row
  <1>2. [status |-> "DRAFT", effective |-> effective, rules |-> rules] \in ClassificationRow
    BY DEF ClassificationRow
  <1> QED
    BY <1>1, <1>2, ClassificationsAssumption
    DEF ClassificationsInv, ClassificationsTypeOK, InsertDraft, Row, HasStatus

\* A statement that names the status it expects, other than ACTIVE.
LEMMA DraftOrPendingChanged ==
  ASSUME ClassificationsInv, NEW c \in Row,
         HasStatus(c, "DRAFT") \/ HasStatus(c, "PENDING"),
         NEW row \in ClassificationRow \union {NoRow},
         classification' = [classification EXCEPT ![c] = row]
  PROVE  /\ classification' \in [Row -> ClassificationRow \union {NoRow}]
         /\ \A d \in Row : d > rows => classification'[d] = NoRow
         /\ \A d \in Row : HasStatus(d, "ACTIVE") => classification'[d] = classification[d]
         /\ \A d \in Row : d # c => classification'[d] = classification[d]
         /\ classification'[c] = row
  BY DEF ClassificationsInv, ClassificationsTypeOK, HasStatus

\* A step on the table that leaves the active rows alone and makes none.
LEMMA TableStep ==
  ASSUME ClassificationsInv,
         UNCHANGED <<classified, today, agreed>>,
         \A d \in Row : HasStatus(d, "ACTIVE") => classification'[d] = classification[d],
         \A d \in Row : classification'[d] # NoRow /\ classification'[d].status = "ACTIVE"
           => HasStatus(d, "ACTIVE")
  PROVE  ActiveAgreed' /\ LoadedStands'
  <1>1. ActiveAgreed'
    BY DEF ClassificationsInv, ActiveAgreed, HasStatus
  <1>2. LoadedStands'
    <2> SUFFICES ASSUME classified # NoRow
                 PROVE  /\ HasStatus(classified.row, "ACTIVE")'
                        /\ classification'[classified.row].effective = classified.effective
                        /\ classification'[classified.row].rules = classified.rules
                        /\ classified.effective < today
      BY DEF LoadedStands
    <2>1. classified.row \in Row
      BY DEF ClassificationsInv, ClassificationsTypeOK, LoadedClassification
    <2>2. classification'[classified.row] = classification[classified.row]
      BY <2>1 DEF ClassificationsInv, LoadedStands
    <2> QED
      BY <2>2 DEF ClassificationsInv, LoadedStands, HasStatus
  <1> QED
    BY <1>1, <1>2

LEMMA ClassificationsPreserved ==
  ASSUME ClassificationsInv, [ClassificationsNext]_classificationVars
  PROVE  /\ ClassificationsInv'
         /\ classified # NoRow =>
              classified' # NoRow /\ classified'.effective >= classified.effective
  <1> DEFINE Goal == /\ ClassificationsInv'
                     /\ classified # NoRow =>
                          classified' # NoRow /\ classified'.effective >= classified.effective
  <1> SUFFICES Goal
    OBVIOUS
  <1>0. classified # NoRow => classified.effective \in Int
    BY ClassificationsAssumption
    DEF ClassificationsInv, ClassificationsTypeOK, LoadedClassification, Day
  <1>1. ASSUME UNCHANGED classified, ClassificationsInv' PROVE Goal
    BY <1>0, <1>1
  <1> HIDE DEF Goal
  <1>2. ASSUME NEW effective \in Day, NEW rules \in Content,
               CreateClassification(effective, rules)
        PROVE  Goal
    <2>1. InsertDraft(effective, rules) /\ UNCHANGED <<cloning, classified, today, agreed>>
      BY <1>2 DEF CreateClassification
    <2>2. ActiveAgreed' /\ LoadedStands'
      BY <2>1, DraftInserted, TableStep
    <2>3. ClassificationsTypeOK'
      BY <2>1, DraftInserted DEF ClassificationsInv, ClassificationsTypeOK
    <2> QED
      BY <1>1, <2>1, <2>2, <2>3 DEF ClassificationsInv
  <1>3. ASSUME NEW x \in Cloner, CloneClassification(x) PROVE Goal
    <2>1. cloning[x] \in ClassificationRow
      BY <1>3 DEF CloneClassification, ClassificationsInv, ClassificationsTypeOK
    <2>2. cloning[x].effective \in Day /\ cloning[x].rules \in Content
      BY <2>1 DEF ClassificationRow
    <2>3. InsertDraft(cloning[x].effective, cloning[x].rules)
      BY <1>3 DEF CloneClassification
    <2>4. /\ rows' \in 0..MaxRows
          /\ classification' \in [Row -> ClassificationRow \union {NoRow}]
          /\ \A c \in Row : c > rows' => classification'[c] = NoRow
          /\ \A c \in Row : HasStatus(c, "ACTIVE") => classification'[c] = classification[c]
          /\ \A c \in Row : classification'[c] # NoRow /\ classification'[c].status = "ACTIVE"
               => HasStatus(c, "ACTIVE")
      BY <2>2, <2>3, DraftInserted
    <2>5. ActiveAgreed' /\ LoadedStands'
      BY <1>3, <2>4, TableStep DEF CloneClassification
    <2>6. ClassificationsTypeOK'
      BY <1>3, <2>4 DEF CloneClassification, ClassificationsInv, ClassificationsTypeOK
    <2> QED
      BY <1>1, <1>3, <2>5, <2>6 DEF CloneClassification, ClassificationsInv
  <1>4. ASSUME NEW c \in Row, NEW row \in ClassificationRow \union {NoRow},
               HasStatus(c, "DRAFT") \/ HasStatus(c, "PENDING"),
               classification' = [classification EXCEPT ![c] = row],
               row = NoRow \/ row.status # "ACTIVE",
               UNCHANGED <<rows, cloning, classified, today, agreed>>
        PROVE  Goal
    <2>1. ActiveAgreed' /\ LoadedStands'
      <3>1. \A d \in Row : HasStatus(d, "ACTIVE") => classification'[d] = classification[d]
        BY <1>4, DraftOrPendingChanged
      <3>2. ASSUME NEW d \in Row, classification'[d] # NoRow,
                   classification'[d].status = "ACTIVE"
            PROVE  HasStatus(d, "ACTIVE")
        <4>1. d # c
          BY <1>4, <3>2, DraftOrPendingChanged
        <4>2. classification'[d] = classification[d]
          BY <1>4, <4>1, DraftOrPendingChanged
        <4> QED
          BY <3>2, <4>2 DEF HasStatus
      <3> QED
        BY <1>4, <3>1, <3>2, TableStep
    <2>2. ClassificationsTypeOK'
      BY <1>4, DraftOrPendingChanged DEF ClassificationsInv, ClassificationsTypeOK
    <2> QED
      BY <1>1, <1>4, <2>1, <2>2 DEF ClassificationsInv
  <1>5. ASSUME NEW c \in Row, NEW effective \in Day, NEW rules \in Content,
               UpdateClassificationPlan(c, effective, rules)
        PROVE  Goal
    <2> DEFINE row == [classification[c] EXCEPT !.effective = effective, !.rules = rules]
    <2>1. classification[c] \in ClassificationRow /\ HasStatus(c, "DRAFT")
      BY <1>5 DEF UpdateClassificationPlan, HasStatus, ClassificationsInv, ClassificationsTypeOK
    <2>2. row \in ClassificationRow /\ row.status = "DRAFT"
      BY <2>1 DEF ClassificationRow, HasStatus
    <2>3. classification' = [classification EXCEPT ![c] = row]
      BY <1>5 DEF UpdateClassificationPlan
    <2> QED
      BY <1>4, <1>5, <2>1, <2>2, <2>3 DEF UpdateClassificationPlan
  <1>6. ASSUME NEW c \in Row,
               SubmitClassification(c) \/ DeclineClassification(c)
        PROVE  Goal
    <2> PICK status \in {"DRAFT", "PENDING"} :
          classification' = [classification EXCEPT ![c] =
                               [classification[c] EXCEPT !.status = status]]
      BY <1>6 DEF SubmitClassification, DeclineClassification
    <2> DEFINE row == [classification[c] EXCEPT !.status = status]
    <2>1. HasStatus(c, "DRAFT") \/ HasStatus(c, "PENDING")
      BY <1>6 DEF SubmitClassification, DeclineClassification
    <2>2. classification[c] \in ClassificationRow
      BY <2>1 DEF HasStatus, ClassificationsInv, ClassificationsTypeOK
    <2>3. row \in ClassificationRow /\ row.status # "ACTIVE"
      BY <2>2 DEF ClassificationRow
    <2> QED
      BY <1>4, <1>6, <2>1, <2>3 DEF SubmitClassification, DeclineClassification
  <1>7. ASSUME NEW c \in Row, DeleteClassification(c) PROVE Goal
    BY <1>4, <1>7 DEF DeleteClassification
  <1>8. ASSUME NEW c \in Row, ApproveClassification(c) PROVE Goal
    <2> DEFINE row == [classification[c] EXCEPT !.status = "ACTIVE"]
               content == [effective |-> classification[c].effective,
                           rules |-> classification[c].rules]
    <2>1. classification[c] \in ClassificationRow /\ HasStatus(c, "PENDING")
      BY <1>8 DEF ApproveClassification, HasStatus, ClassificationsInv, ClassificationsTypeOK
    <2>2. row \in ClassificationRow
      BY <2>1 DEF ClassificationRow
    <2>3. content \in [effective : Day, rules : Content]
      BY <2>1 DEF ClassificationRow
    <2>4. classification' = [classification EXCEPT ![c] = row]
      BY <1>8 DEF ApproveClassification
    <2>5. /\ classification' \in [Row -> ClassificationRow \union {NoRow}]
          /\ \A d \in Row : d > rows => classification'[d] = NoRow
          /\ \A d \in Row : HasStatus(d, "ACTIVE") => classification'[d] = classification[d]
          /\ \A d \in Row : d # c => classification'[d] = classification[d]
          /\ classification'[c] = row
      BY <2>1, <2>2, <2>4, DraftOrPendingChanged
    <2>6. agreed' = agreed \union {content}
      BY <1>8 DEF ApproveClassification
    <2>7. UNCHANGED <<rows, cloning, classified, today>>
      BY <1>8 DEF ApproveClassification
    <2>8. ClassificationsTypeOK'
      BY <2>3, <2>5, <2>6, <2>7 DEF ClassificationsInv, ClassificationsTypeOK
    <2>9. ActiveAgreed'
      <3> SUFFICES ASSUME NEW d \in Row, HasStatus(d, "ACTIVE")'
                   PROVE  [effective |-> classification'[d].effective,
                           rules |-> classification'[d].rules] \in agreed'
        BY DEF ActiveAgreed
      <3>1. CASE d = c
        <4>1. classification'[d].effective = classification[c].effective
              /\ classification'[d].rules = classification[c].rules
          BY <2>1, <2>5, <3>1 DEF ClassificationRow
        <4> QED
          BY <4>1, <2>6
      <3>2. CASE d # c
        BY <2>5, <2>6, <3>2 DEF ActiveAgreed, ClassificationsInv, HasStatus
      <3> QED
        BY <3>1, <3>2
    <2>10. LoadedStands'
      <3> SUFFICES ASSUME classified # NoRow
                   PROVE  /\ HasStatus(classified.row, "ACTIVE")'
                          /\ classification'[classified.row].effective = classified.effective
                          /\ classification'[classified.row].rules = classified.rules
                          /\ classified.effective < today
        BY <2>7 DEF LoadedStands
      <3>1. classified.row \in Row
        BY DEF ClassificationsInv, ClassificationsTypeOK, LoadedClassification
      <3>2. classification'[classified.row] = classification[classified.row]
        BY <2>5, <3>1 DEF ClassificationsInv, LoadedStands
      <3> QED
        BY <2>7, <3>2 DEF ClassificationsInv, LoadedStands, HasStatus
    <2> QED
      BY <1>1, <2>7, <2>8, <2>9, <2>10 DEF ClassificationsInv
  <1>9. ASSUME NEW x \in Cloner, NEW c \in Row, ReadSource(x, c) PROVE Goal
    <2>1. ClassificationsTypeOK'
      BY <1>9 DEF ReadSource, ClassificationsInv, ClassificationsTypeOK
    <2>2. ActiveAgreed' /\ LoadedStands'
      BY <1>9 DEF ReadSource, ClassificationsInv, ActiveAgreed, LoadedStands, HasStatus
    <2> QED
      BY <1>1, <1>9, <2>1, <2>2 DEF ReadSource, ClassificationsInv
  <1>10. CASE ReloadClassification
    <2> PICK c \in Candidates :
          /\ \A d \in Candidates : classification[d].effective <= classification[c].effective
          /\ classified' = [row |-> c, effective |-> classification[c].effective,
                            rules |-> classification[c].rules]
      BY <1>10 DEF ReloadClassification
    <2>1. UNCHANGED <<classification, rows, cloning, today, agreed>>
      BY <1>10 DEF ReloadClassification
    <2>2. c \in Row /\ HasStatus(c, "ACTIVE") /\ classification[c].effective < today
      BY DEF Candidates
    <2>3. classification[c] \in ClassificationRow
      BY <2>2 DEF HasStatus, ClassificationsInv, ClassificationsTypeOK
    <2>4. classified' \in LoadedClassification
      BY <2>2, <2>3 DEF LoadedClassification, ClassificationRow
    <2>5. classified' # NoRow
      BY <2>4, ClassificationsAssumption
    <2>6. ClassificationsInv'
      BY <2>1, <2>2, <2>4
      DEF ClassificationsInv, ClassificationsTypeOK, ActiveAgreed, LoadedStands, HasStatus
    <2>7. ASSUME classified # NoRow PROVE classified'.effective >= classified.effective
      <3>1. classified.row \in Candidates
        BY <2>7 DEF ClassificationsInv, LoadedStands, ClassificationsTypeOK,
          LoadedClassification, Candidates
      <3>2. classified.effective <= classified'.effective
        BY <2>7, <3>1 DEF ClassificationsInv, LoadedStands
      <3>3. classified'.effective \in Int
        BY <2>4, ClassificationsAssumption DEF LoadedClassification, Day
      <3> QED
        BY <1>0, <2>7, <3>2, <3>3
    <2> QED
      BY <2>5, <2>6, <2>7 DEF Goal
  <1>11. CASE NextDay
    <2>1. ClassificationsTypeOK'
      BY <1>11, ClassificationsAssumption
      DEF NextDay, ClassificationsInv, ClassificationsTypeOK, Day
    <2>2. ActiveAgreed'
      BY <1>11 DEF NextDay, ClassificationsInv, ActiveAgreed, HasStatus
    <2>3. today \in Int /\ today' = today + 1
      BY <1>11, ClassificationsAssumption
      DEF NextDay, ClassificationsInv, ClassificationsTypeOK, Day
    <2>4. LoadedStands'
      <3>1. UNCHANGED <<classification, classified>>
        BY <1>11 DEF NextDay
      <3>2. classified # NoRow => classified.effective < today'
        BY <1>0, <2>3 DEF ClassificationsInv, LoadedStands
      <3> QED
        BY <3>1, <3>2 DEF ClassificationsInv, LoadedStands, HasStatus
    <2> QED
      BY <1>1, <1>11, <2>1, <2>2, <2>4 DEF NextDay, ClassificationsInv
  <1>12. CASE UNCHANGED classificationVars
    <2>1. ClassificationsInv'
      BY <1>12 DEF classificationVars, ClassificationsInv, ClassificationsTypeOK,
        ActiveAgreed, LoadedStands, HasStatus
    <2> QED
      BY <1>1, <1>12, <2>1 DEF classificationVars
  <1> QED
    BY <1>2, <1>3, <1>5, <1>6, <1>7, <1>8, <1>9, <1>10, <1>11, <1>12
    DEF ClassificationsNext

\* The table, the engine's rules and the calls in progress keep their types.
THEOREM ClassificationsTypeCorrect == ClassificationsSpec => []ClassificationsTypeOK
  <1>1. ClassificationsInv /\ [ClassificationsNext]_classificationVars => ClassificationsInv'
    BY ClassificationsPreserved
  <1>2. ClassificationsInv => ClassificationsTypeOK
    BY DEF ClassificationsInv
  <1> QED
    BY <1>1, <1>2, ClassificationsInitially, PTL DEF ClassificationsSpec

\* The engine classifies by approved rules and not before their time.
THEOREM EngineClassifiesAsAgreed == ClassificationsSpec => []ClassifiedAsAgreed
  <1>1. ClassificationsInv /\ [ClassificationsNext]_classificationVars => ClassificationsInv'
    BY ClassificationsPreserved
  <1>2. ClassificationsInv => ClassifiedAsAgreed
    <2> SUFFICES ASSUME ClassificationsInv, classified # NoRow
                 PROVE  /\ [effective |-> classified.effective,
                            rules |-> classified.rules] \in agreed
                        /\ classified.effective < today
      BY DEF ClassifiedAsAgreed
    <2>1. classified.row \in Row
      BY DEF ClassificationsInv, ClassificationsTypeOK, LoadedClassification
    <2> QED
      BY <2>1 DEF ClassificationsInv, ActiveAgreed, LoadedStands
  <1> QED
    BY <1>1, <1>2, ClassificationsInitially, PTL DEF ClassificationsSpec

\* The engine never returns to an older classification plan, nor to none.
THEOREM OlderPlanNever == ClassificationsSpec => NeverAnOlderPlan
  <1>1. ClassificationsInv /\ [ClassificationsNext]_classificationVars => ClassificationsInv'
    BY ClassificationsPreserved
  <1>2. ClassificationsInv /\ [ClassificationsNext]_classificationVars =>
          [classified # NoRow =>
             /\ classified' # NoRow
             /\ classified'.effective >= classified.effective]_classificationVars
    BY ClassificationsPreserved
  <1> QED
    BY <1>1, <1>2, ClassificationsInitially, PTL DEF ClassificationsSpec, NeverAnOlderPlan

-----------------------------------------------------------------------------
Best(i) == \E b \in BestLines(LinesOf(i), rating.key) : found[i] = LinesOf(i)[b]

\* Each line found is the best of its plan, and each price is made of the one before.
RatingInv ==
  /\ rating \in Ratings
  /\ found \in Seq(RateLine) /\ Len(found) <= 3
  /\ \A i \in 1..Len(found) : Best(i)
  /\ prices \in Seq(Int) /\ Len(prices) <= 3
  /\ Len(prices) > 0 => Len(found) = 3
  /\ \A i \in 2..Len(prices) : prices[i] = UnitPrice(found[i], prices[i - 1])

\* A plan is a list of lines.
LEMMA PlansFact ==
  ASSUME rating \in Ratings, NEW i \in 1..3
  PROVE  LinesOf(i) \in Seq(RateLine) /\ rating.key \in RateKey
BY RatingAssumption DEF LinesOf, Stage

\* Rounding up takes no more than half a digit, and adds no more.
LEMMA HalfUpFact ==
  ASSUME NEW n \in Int, NEW d \in Nat, d > 0
  PROVE  /\ HalfUp(n, d) \in Int
         /\ 2 * (n - d * HalfUp(n, d)) <= d * Grain
         /\ 2 * (d * HalfUp(n, d) - n) <= d * Grain
<1>1. PICK g \in Nat : g = Grain /\ g > 0
  BY RatingAssumption
<1>2. PICK m \in Nat : m = 2 * d * g /\ m > 0
  <2>1. 2 * d * g \in Nat /\ 2 * d * g > 0
    BY <1>1
  <2> QED BY <2>1
<1>3. PICK x \in Int : x = 2 * n + d * g
  BY <1>1
<1>4. PICK q \in Int, r \in 0..m - 1 : q = x \div m /\ x = (m * q) + r
  <2>1. x \div m \in Int /\ x % m \in 0..m - 1 /\ x = (m * (x \div m)) + (x % m)
    BY <1>2
  <2> QED BY <2>1
<1>5. HalfUp(n, d) = q * g
  BY <1>1, <1>2, <1>3, <1>4 DEF HalfUp
<1>6. PICK y \in Int, z \in Int, a \in Int : y = q * g /\ z = d * (q * g) /\ a = d * g
  BY <1>1
<1>7. m * q = 2 * z
  BY <1>1, <1>2, <1>6
<1>8. m = 2 * a
  BY <1>1, <1>2, <1>6
<1>9. 2 * (n - z) <= a /\ 2 * (z - n) <= a
  BY <1>3, <1>4, <1>6, <1>7, <1>8
<1>10. HalfUp(n, d) = y /\ d * HalfUp(n, d) = z /\ d * Grain = a
  BY <1>1, <1>5, <1>6, Zenon
<1>11. y \in Int
  OBVIOUS
<1> QED BY ONLY <1>9, <1>10, <1>11

\* Rounding takes no more than half a digit.
LEMMA RoundedFact ==
  ASSUME NEW n \in Int, NEW d \in Nat, d > 0
  PROVE  Rounded(n, d) \in Int /\ 2 * (n - d * Rounded(n, d)) <= d * Grain
<1>1. PICK m \in Int : m = -n
  OBVIOUS
<1>2. PICK h \in Int, k \in Int, x \in Int, y \in Int, g \in Int :
        /\ h = HalfUp(n, d) /\ k = HalfUp(m, d) /\ x = d * h /\ y = d * k /\ g = d * Grain
        /\ 2 * (n - x) <= g /\ 2 * (y - m) <= g
  <2>1. HalfUp(n, d) \in Int /\ 2 * (n - d * HalfUp(n, d)) <= d * Grain
    BY HalfUpFact
  <2>2. HalfUp(m, d) \in Int /\ 2 * (d * HalfUp(m, d) - m) <= d * Grain
    BY HalfUpFact
  <2>3. PICK h \in Int, k \in Int : h = HalfUp(n, d) /\ k = HalfUp(m, d)
    BY <2>1, <2>2
  <2>4. PICK x \in Int, y \in Int, g \in Int : x = d * h /\ y = d * k /\ g = d * Grain
    BY RatingAssumption
  <2>5. 2 * (n - x) <= g /\ 2 * (y - m) <= g
    BY <2>1, <2>2, <2>3, <2>4, Zenon
  <2> QED BY <2>3, <2>4, <2>5
<1>3. CASE n < 0
  <2>1. Rounded(n, d) = -k /\ d * (-k) = -y
    BY <1>1, <1>2, <1>3 DEF Rounded
  <2> QED BY <1>1, <1>2, <2>1
<1>4. CASE n >= 0
  <2>1. Rounded(n, d) = h
    BY <1>2, <1>4 DEF Rounded
  <2> QED BY <1>2, <2>1
<1> QED BY <1>3, <1>4

LEMMA UnitPriceFact ==
  ASSUME NEW line \in RateLine, NEW dependant \in Int
  PROVE  /\ UnitPrice(line, dependant) \in Int
         /\ /\ line.tariffType \in {"PERCENTAGE", "MARKUP"}
            /\ line.base >= 0 /\ dependant >= 0
            => 2 * (dependant - UnitPrice(line, dependant)) <= Grain
<1>1. /\ line.tariffType \in {"ACTUAL", "PERCENTAGE", "MARKUP", "unknown"}
      /\ line.base \in Int /\ line.measure \in Nat /\ line.measure > 0
  BY DEF RateLine
<1>2. Grain \in Nat /\ Grain > 0
  BY RatingAssumption
<1> PICK p \in Int, b \in Int : p = dependant /\ b = line.base
  BY <1>1
<1>3. CASE line.tariffType = "ACTUAL"
  BY <1>1, <1>3, RoundedFact DEF UnitPrice
<1>4. CASE line.tariffType = "PERCENTAGE"
  <2>1. PICK n \in Int : n = p * (100 + b)
    OBVIOUS
  <2>2. PICK u \in Int : u = Rounded(n, 100) /\ 2 * (n - 100 * u) <= 100 * Grain
    <3>1. 100 \in Nat /\ 100 > 0
      OBVIOUS
    <3>2. Rounded(n, 100) \in Int /\ 2 * (n - 100 * Rounded(n, 100)) <= 100 * Grain
      BY <3>1, RoundedFact
    <3> QED BY <3>2
  <2>3. UnitPrice(line, dependant) = u
    BY <1>4, <2>1, <2>2 DEF UnitPrice
  <2>4. b >= 0 /\ p >= 0 => 100 * p <= n
    <3>1. b >= 0 /\ p >= 0 => p * b >= 0
      OBVIOUS
    <3>2. n = (100 * p) + (p * b)
      BY <2>1
    <3>3. PICK w \in Int : w = p * b
      OBVIOUS
    <3> QED BY <3>1, <3>2, <3>3
  <2>5. b >= 0 /\ p >= 0 => 2 * (p - u) <= Grain
    BY <1>2, <2>2, <2>4
  <2> QED BY <2>3, <2>5
<1>5. CASE line.tariffType = "MARKUP"
  <2>1. UnitPrice(line, dependant) = p + b
    BY <1>5 DEF UnitPrice
  <2>2. b >= 0 => 2 * (p - (p + b)) <= Grain
    BY <1>2
  <2> QED BY <2>1, <2>2
<1>6. CASE line.tariffType = "unknown"
  BY <1>6 DEF UnitPrice
<1> QED BY <1>1, <1>3, <1>4, <1>5, <1>6

LEMMA InitRatingInv == RatingInit => RatingInv
BY DEF RatingInit, RatingInv

LEMMA NextRatingInv == RatingInv /\ [RatingNext]_ratingVars => RatingInv'
<1> SUFFICES ASSUME RatingInv, [RatingNext]_ratingVars PROVE RatingInv'
  OBVIOUS
<1>1. CASE FindLine
  <2>1. PICK k : k = Len(found) + 1
    OBVIOUS
  <2>2. /\ Len(found) < 3 /\ rating' = rating /\ prices' = prices
        /\ \E b \in BestLines(LinesOf(k), rating.key) : found' = Append(found, LinesOf(k)[b])
    BY <1>1, <2>1 DEF FindLine
  <2>3. /\ rating \in Ratings /\ found \in Seq(RateLine) /\ Len(found) \in Nat
        /\ k \in 1..3 /\ prices \in Seq(Int) /\ Len(prices) \in Nat /\ ~(Len(prices) > 0)
    BY <2>1, <2>2 DEF RatingInv
  <2>4. PICK b \in BestLines(LinesOf(k), rating.key) : found' = Append(found, LinesOf(k)[b])
    BY <2>2
  <2>5. LinesOf(k)[b] \in RateLine
    BY <2>3, PlansFact DEF BestLines
  <2>6. /\ found' \in Seq(RateLine) /\ Len(found') = k /\ found'[k] = LinesOf(k)[b]
        /\ \A i \in 1..k : i # k => i \in 1..Len(found) /\ found'[i] = found[i]
    BY <2>1, <2>3, <2>4, <2>5
  <2>7. ASSUME NEW i \in 1..Len(found') PROVE Best(i)'
    <3>1. i \in 1..3 /\ i \in 1..k
      BY <2>3, <2>6
    <3>2. CASE i = k
      <4>1. found'[i] = LinesOf(i)[b]
        BY <2>6, <3>2
      <4> QED BY <2>2, <2>4, <3>2, <4>1 DEF Best, LinesOf
    <3>3. CASE i # k
      <4>1. found'[i] = found[i] /\ Best(i)
        BY <2>6, <3>1, <3>3 DEF RatingInv
      <4> QED BY <2>2, <4>1 DEF Best, LinesOf
    <3> QED BY <3>2, <3>3
  <2>8. ASSUME NEW i \in 2..Len(prices') PROVE FALSE
    BY <2>2, <2>3
  <2>9. /\ rating' \in Ratings /\ Len(found') <= 3 /\ prices' \in Seq(Int) /\ Len(prices') <= 3
        /\ ~(Len(prices') > 0)
    BY <2>2, <2>3, <2>6
  <2> QED BY <2>6, <2>7, <2>8, <2>9 DEF RatingInv
<1>2. CASE CalcTariff
  <2>1. PICK k : k = Len(prices) + 1
    OBVIOUS
  <2>2. /\ Len(found) = 3 /\ Len(prices) < 3 /\ rating' = rating /\ found' = found
        /\ prices' = Append(prices,
             UnitPrice(found[k], IF prices = <<>> THEN 0 ELSE prices[Len(prices)]))
    BY <1>2, <2>1 DEF CalcTariff, Computing, Next3
  <2>3. /\ prices \in Seq(Int) /\ Len(prices) \in Nat /\ k \in 1..3
        /\ found \in Seq(RateLine) /\ found[k] \in RateLine
    BY <2>1, <2>2 DEF RatingInv
  <2>4. PICK p \in Int : p = IF prices = <<>> THEN 0 ELSE prices[Len(prices)]
    BY <2>3
  <2>5. PICK u \in Int : u = UnitPrice(found[k], p)
    BY <2>3, UnitPriceFact
  <2>6. prices' = Append(prices, u)
    BY <2>2, <2>4, <2>5
  <2>7. /\ prices' \in Seq(Int) /\ Len(prices') = k /\ prices'[k] = u
        /\ \A i \in 1..k : i # k => i \in 1..Len(prices) /\ prices'[i] = prices[i]
    BY <2>1, <2>3, <2>6
  <2>8. ASSUME NEW i \in 2..Len(prices')
        PROVE  prices'[i] = UnitPrice(found'[i], prices'[i - 1])
    <3>1. i \in 1..k /\ i - 1 \in 1..k /\ i - 1 # k /\ i > 1
      BY <2>3, <2>7
    <3>2. CASE i = k
      <4>1. prices # <<>> /\ p = prices[i - 1]
        BY <2>1, <2>3, <2>4, <3>1, <3>2
      <4> QED BY <2>2, <2>5, <2>7, <3>1, <3>2, <4>1
    <3>3. CASE i # k
      <4>1. i \in 2..Len(prices) /\ prices'[i] = prices[i] /\ prices'[i - 1] = prices[i - 1]
        BY <2>7, <3>1, <3>3
      <4> QED BY <2>2, <4>1 DEF RatingInv
    <3> QED BY <3>2, <3>3
  <2>9. ASSUME NEW i \in 1..Len(found') PROVE Best(i)'
    <3>1. Best(i)
      BY <2>2 DEF RatingInv
    <3> QED BY <2>2, <3>1 DEF Best, LinesOf
  <2>10. /\ rating' \in Ratings /\ found' \in Seq(RateLine) /\ Len(found') = 3
         /\ Len(prices') <= 3
    BY <2>2, <2>3, <2>7 DEF RatingInv
  <2> QED BY <2>7, <2>8, <2>9, <2>10 DEF RatingInv
<1>3. CASE NoRatingEntry \/ RefuseTariff \/ UNCHANGED ratingVars
  BY <1>3 DEF NoRatingEntry, RefuseTariff, ratingVars, RatingInv, Best, LinesOf
<1> QED BY <1>1, <1>2, <1>3 DEF RatingNext

LEMMA RatingInvariant == RatingSpec => []RatingInv
BY InitRatingInv, NextRatingInv, PTL DEF RatingSpec

\* A line that names more of what the key has scores more, so the best line is none
\* that says less, in whatever order the lines are (findBestRateLine, Matches).
THEOREM MostSpecific == RatingSpec => []MostSpecificLine
<1>1. RatingInv => MostSpecificLine
  <2> SUFFICES ASSUME RatingInv, NEW i \in 1..Len(found)
      PROVE  /\ Matches(rating.key, found[i].key)
             /\ \A j \in DOMAIN LinesOf(i) :
                  Matches(rating.key, LinesOf(i)[j].key)
                    => ~\E f \in Field : /\ rating.key[f] # "*" /\ found[i].key[f] = "*"
                                         /\ LinesOf(i)[j].key[f] # "*"
                                         /\ MoreSpecific(LinesOf(i)[j].key, found[i].key)
    BY DEF MostSpecificLine
  <2>1. PICK b \in BestLines(LinesOf(i), rating.key) : found[i] = LinesOf(i)[b]
    BY DEF RatingInv, Best
  <2>2. /\ b \in DOMAIN LinesOf(i) /\ Matches(rating.key, LinesOf(i)[b].key)
        /\ \A j \in DOMAIN LinesOf(i) : Matches(rating.key, LinesOf(i)[j].key) =>
             \/ Score(rating.key, LinesOf(i)[j].key) < Score(rating.key, LinesOf(i)[b].key)
             \/ Score(rating.key, LinesOf(i)[j].key) = Score(rating.key, LinesOf(i)[b].key)
    BY DEF BestLines
  <2>3. ASSUME NEW j \in DOMAIN LinesOf(i), Matches(rating.key, LinesOf(i)[j].key),
               NEW f \in Field, rating.key[f] # "*", found[i].key[f] = "*",
               LinesOf(i)[j].key[f] # "*", MoreSpecific(LinesOf(i)[j].key, found[i].key)
        PROVE  FALSE
    <3> DEFINE A == {x \in Field : ~Wild(rating.key, found[i].key, x)}
               B == {x \in Field : ~Wild(rating.key, LinesOf(i)[j].key, x)}
    <3>1. A \subseteq B
      BY <2>3 DEF Wild, MoreSpecific
    <3>2. f \in B /\ f \notin A
      BY <2>3 DEF Wild
    <3>3. IsFiniteSet(B)
      BY FS_Subset, RatingAssumption
    <3>4. Cardinality(A) < Cardinality(B) /\ Cardinality(A) \in Nat /\ Cardinality(B) \in Nat
      <4> HIDE DEF A, B
      <4>1. IsFiniteSet(A) /\ Cardinality(A) <= Cardinality(B)
            /\ (Cardinality(A) = Cardinality(B) => A = B)
        BY <3>1, <3>3, FS_Subset
      <4>2. Cardinality(A) \in Nat /\ Cardinality(B) \in Nat
        BY <3>3, <4>1, FS_CardinalityType
      <4> QED BY <3>2, <4>1, <4>2
    <3>5. Score(rating.key, LinesOf(i)[b].key) = Cardinality(A)
          /\ Score(rating.key, LinesOf(i)[j].key) = Cardinality(B)
      BY <2>1 DEF Score
    <3> HIDE DEF A, B
    <3> QED BY <2>2, <2>3, <3>4, <3>5
  <2> QED BY <2>1, <2>2, <2>3
<1> QED BY <1>1, RatingInvariant, PTL

\* A surcharge on a price that is not negative takes at most half a digit of it
\* (calcTariff).
THEOREM SurchargesCovered == RatingSpec => []SurchargesCover
<1>1. RatingInv => SurchargesCover
  <2> SUFFICES ASSUME RatingInv, NEW i \in 2..Len(prices),
                      found[i].tariffType \in {"PERCENTAGE", "MARKUP"}, found[i].base >= 0,
                      prices[i - 1] >= 0
               PROVE  2 * (prices[i - 1] - prices[i]) <= Grain
    BY DEF SurchargesCover
  <2>1. prices \in Seq(Int) /\ Len(prices) \in Nat /\ Len(prices) <= 3 /\ Len(found) = 3
        /\ found \in Seq(RateLine)
    BY DEF RatingInv
  <2>2. found[i] \in RateLine /\ prices[i - 1] \in Int
    BY <2>1
  <2>3. prices[i] = UnitPrice(found[i], prices[i - 1])
    BY DEF RatingInv
  <2> QED BY <2>2, <2>3, UnitPriceFact
<1> QED BY <1>1, RatingInvariant, PTL

-----------------------------------------------------------------------------
FitsAt(i) == Fits(request.types[i])

\* Every rating group is classified by the service type i.
ByType(i) ==
  /\ DOMAIN classes = ToSet(request.units)
  /\ \A g \in DOMAIN classes : classes[g].type = i
  /\ \A g, h \in DOMAIN classes : classes[g].source = classes[h].source

\* Between two service types: the last that fitted has classified them all.
Between ==
  \/ DOMAIN classes = {} /\ \A i \in 1..(typeAt - 1) : ~FitsAt(i)
  \/ \E i \in 1..(typeAt - 1) :
       FitsAt(i) /\ ByType(i) /\ \A j \in 1..(typeAt - 1) : FitsAt(j) => j <= i

\* In a service type: it has classified the groups before the one in hand.
Within ==
  /\ typeAt <= Len(request.types) /\ FitsAt(typeAt)
  /\ DOMAIN classes \subseteq ToSet(request.units)
  /\ \A i \in 1..(unitAt - 1) :
       /\ request.units[i] \in DOMAIN classes
       /\ classes[request.units[i]].type = typeAt
       /\ classes[request.units[i]].source = source

\* A table that can be loaded.
Loaded ==
  /\ IsFiniteSet(DOMAIN numbers) /\ Unknown \notin DOMAIN numbers
  /\ \A p \in DOMAIN numbers : numbers[p] \in Seq(ToSet(numbers[p]))

\* What LongestRangeDecides says of one lookup.
Decided(l) ==
  IF l.ranges = Missing THEN l.found = Unknown
  ELSE LET leading == {p \in DOMAIN l.ranges :
                         l.ranges[p] # <<>> /\ IsPrefix(l.ranges[p], International(l.number))}
       IN IF leading = {} THEN l.found = Unknown
          ELSE /\ l.found \in leading
               /\ \A p \in leading : Len(l.ranges[p]) <= Len(l.ranges[l.found])

ClassifyingInv ==
  /\ request \in Requests
  /\ typeAt \in 1..(Len(request.types) + 1) /\ unitAt \in 0..(Len(request.units) + 1)
  /\ unitAt = 0 => Between
  /\ unitAt > 0 => Within
  /\ outcome = "classified" => unitAt = 0 /\ typeAt > Len(request.types)
  /\ numbers = Missing \/ Loaded
  /\ \A l \in looked : Decided(l)

\* The loop keeps the longest of the ranges it has seen that lead to the number, so
\* the order of the ranges does not matter.
LEMMA LookedUpDecides ==
  ASSUME numbers = Missing \/ Loaded, NEW number,
         NEW it \in FindCarrierByDestination(number)
  PROVE  Decided([number |-> number, ranges |-> numbers, found |-> it])
<1>1. CASE numbers = Missing
  BY <1>1 DEF FindCarrierByDestination, Decided
<1>2. CASE numbers # Missing /\ number = <<>>
  <2>1. it = Unknown
    BY <1>2 DEF FindCarrierByDestination
  <2>2. International(number) = <<>>
    BY <1>2 DEF International
  <2>3. ASSUME NEW p \in DOMAIN numbers, numbers[p] # <<>>, IsPrefix(numbers[p], <<>>) PROVE FALSE
    <3>1. numbers[p] \in Seq(ToSet(numbers[p])) /\ Len(numbers[p]) <= 0
      BY <1>2, <2>3 DEF IsPrefix, Loaded
    <3> QED BY <2>3, <3>1
  <2> QED BY <1>2, <2>1, <2>2, <2>3 DEF Decided
<1>3. CASE numbers # Missing /\ number # <<>>
  <2>1. PICK S, to : S = DOMAIN numbers /\ to = International(number)
    OBVIOUS
  <2>2. IsFiniteSet(S) /\ Unknown \notin S /\ Cardinality(S) \in Nat
        /\ \A p \in S : Len(numbers[p]) \in Nat /\ (Len(numbers[p]) = 0 => numbers[p] = <<>>)
    <3>1. \A p \in S : numbers[p] \in Seq(ToSet(numbers[p]))
      BY <1>3, <2>1 DEF Loaded
    <3>2. IsFiniteSet(S) /\ Unknown \notin S
      BY <1>3, <2>1 DEF Loaded
    <3> QED BY <3>1, <3>2, FS_CardinalityType
  <2> DEFINE Round(p) == [best \in S \union {Unknown} |-> Longer(to, best, p)]
             Body(order) == [i \in DOMAIN order |-> Round(order[i])]
  <2>3. PICK order \in SetToSeqs(S) : it = Loop(Len(order), Unknown, Body(order))[Len(order)]
    BY <1>3, <2>1 DEF FindCarrierByDestination
  <2>4. PICK n \in Nat : /\ n = Cardinality(S) /\ order \in [1..n -> S] /\ Len(order) = n
                         /\ \A i, j \in 1..n : i # j => order[i] # order[j]
    <3>1. order \in [1..Cardinality(S) -> S]
          /\ \A i, j \in 1..Cardinality(S) : i # j => order[i] # order[j]
      BY DEF SetToSeqs
    <3> QED BY <2>2, <3>1
  <2>5. \A p \in S : \E i \in 1..n : order[i] = p
    <3>1. order \in Injection(1..n, S)
      BY <2>4 DEF Injection, IsInjective
    <3>2. Cardinality(1..n) = n
      BY FS_Interval
    <3>3. order \in Surjection(1..n, S)
      BY <2>2, <2>4, <3>1, <3>2, FS_Injection
    <3> QED BY <3>3 DEF Surjection
  <2>6. PICK X, body : X = S \union {Unknown} /\ body = Body(order)
    OBVIOUS
  <2>7. body \in [1..n -> [X -> X]]
    <3>1. ASSUME NEW i \in 1..n, NEW best \in X PROVE Longer(to, best, order[i]) \in X
      BY <2>4, <2>6 DEF Longer
    <3> QED BY <2>4, <2>6, <3>1
  <2>8. PICK g : g = Loop(n, Unknown, body)
    OBVIOUS
  <2>9. /\ g \in [0..n -> X] /\ g[0] = Unknown
        /\ \A k \in 1..n : g[k] = body[k][g[k - 1]]
    <3>1. Unknown \in X
      BY <2>6
    <3>2. n \in Nat /\ body \in [1..n -> [X -> X]]
      BY <2>7
    <3> HIDE DEF Round, Body
    <3>3. /\ Loop(n, Unknown, body) \in [0..n -> X]
          /\ Loop(n, Unknown, body)[0] = Unknown
          /\ \A k \in 1..n :
               Loop(n, Unknown, body)[k] = body[k][Loop(n, Unknown, body)[k - 1]]
      BY ONLY <3>1, <3>2, LoopRule
    <3> QED BY <2>8, <3>3
  <2>10. \A k \in 1..n : g[k] = Longer(to, g[k - 1], order[k])
    <3> TAKE k \in 1..n
    <3>1. k - 1 \in 0..n
      OBVIOUS
    <3>2. g[k - 1] \in X
      BY <2>9, <3>1
    <3> QED BY <2>4, <2>6, <2>9, <3>2
  <2> DEFINE Leads(p) == numbers[p] # <<>> /\ IsPrefix(numbers[p], to)
             Seen(k) ==
               /\ g[k] = Unknown => \A i \in 1..k : ~Leads(order[i])
               /\ g[k] # Unknown =>
                    /\ g[k] \in S /\ Leads(g[k])
                    /\ \A i \in 1..k : Leads(order[i]) =>
                         Len(numbers[order[i]]) <= Len(numbers[g[k]])
             T == {k \in 0..n : Seen(k)}
  <2>11. 0 \in T
    BY <2>9
  <2>12. ASSUME NEW k \in 1..n, k - 1 \in T PROVE k \in T
    <3>1. Seen(k - 1) /\ k - 1 \in 0..n /\ k \in 0..n
      BY <2>12
    <3>2. PICK p \in S, old \in X : p = order[k] /\ old = g[k - 1]
      BY <2>4, <2>9, <3>1
    <3>3. g[k] = Longer(to, old, p)
      BY <2>10, <3>2
    <3>4. Len(numbers[p]) \in Nat /\ (Leads(p) => Len(numbers[p]) > 0)
          /\ (Len(numbers[p]) > 0 => numbers[p] # <<>>)
          /\ p # Unknown
      <4>1. Len(numbers[p]) \in Nat /\ p # Unknown
        BY <2>2
      <4>2. Leads(p) => Len(numbers[p]) > 0
        <5> SUFFICES ASSUME Leads(p), Len(numbers[p]) = 0 PROVE FALSE
          BY <4>1
        <5> QED BY <2>2
      <4> QED BY <4>1, <4>2
    <3>5. \A i \in 1..k : i # k => i \in 1..(k - 1)
      OBVIOUS
    <3>6. CASE old = Unknown
      <4>1. CASE IsPrefix(numbers[p], to) /\ Len(numbers[p]) > 0
        BY <3>1, <3>2, <3>3, <3>4, <3>5, <3>6, <4>1 DEF Longer
      <4>2. CASE ~(IsPrefix(numbers[p], to) /\ Len(numbers[p]) > 0)
        BY <3>1, <3>2, <3>3, <3>4, <3>5, <3>6, <4>2 DEF Longer
      <4> QED BY <4>1, <4>2
    <3>7. CASE old # Unknown
      <4>0. old \in S /\ Leads(old) /\ Len(numbers[old]) \in Nat
        BY <2>2, <3>1, <3>2, <3>7
      <4>1. CASE IsPrefix(numbers[p], to) /\ Len(numbers[p]) > Len(numbers[old])
        BY <2>2, <2>4, <3>1, <3>2, <3>3, <3>4, <3>5, <3>7, <4>0, <4>1 DEF Longer
      <4>2. CASE ~(IsPrefix(numbers[p], to) /\ Len(numbers[p]) > Len(numbers[old]))
        BY <2>2, <2>4, <3>1, <3>2, <3>3, <3>4, <3>5, <3>7, <4>0, <4>2 DEF Longer
      <4> QED BY <4>1, <4>2
    <3> QED BY <3>6, <3>7
  <2>13. \A k \in 0..n : k \in T
    <3> HIDE DEF T
    <3> QED BY <2>11, <2>12, UpTo
  <2>14. Seen(n) /\ it = g[n]
    <3>1. Seen(n)
      BY <2>13
    <3>2. it = Loop(n, Unknown, body)[n]
      <4> HIDE DEF Body, Seen, T
      <4> QED BY <2>3, <2>4, <2>6
    <3> QED BY <2>8, <3>1, <3>2
  <2> HIDE DEF Seen, Body, T
  <2>15. /\ it = Unknown => \A p \in S : ~Leads(p)
         /\ it # Unknown => /\ it \in S /\ Leads(it)
                            /\ \A p \in S : Leads(p) => Len(numbers[p]) <= Len(numbers[it])
    BY <2>5, <2>14 DEF Seen
  <2> QED BY <1>3, <2>1, <2>15 DEF Decided
<1> QED BY <1>1, <1>2, <1>3

LEMMA InitClassifyingInv == ClassifyingInit => ClassifyingInv
BY ClassifyingAssumption DEF ClassifyingInit, ClassifyingInv, Between

LEMMA NextClassifyingInv == ClassifyingInv /\ [ClassifyingNext]_classifyingVars => ClassifyingInv'
<1> SUFFICES ASSUME ClassifyingInv, [ClassifyingNext]_classifyingVars PROVE ClassifyingInv'
  OBVIOUS
<1>1. /\ request.units \in Seq(ToSet(request.units)) /\ Len(request.units) \in Nat
      /\ request.types \in Seq(ToSet(request.types)) /\ Len(request.types) \in Nat
      /\ typeAt \in 1..(Len(request.types) + 1) /\ unitAt \in 0..(Len(request.units) + 1)
  BY ClassifyingAssumption DEF ClassifyingInv
<1> DEFINE Tables == (numbers = Missing \/ Loaded) /\ \A l \in looked : Decided(l)
<1>2. ASSUME numbers' = numbers, looked' = looked PROVE Tables'
  BY <1>2 DEF ClassifyingInv, Loaded, Decided, International
<1>3. ASSUME request' = request PROVE \A i \in Int : FitsAt(i)' <=> FitsAt(i)
  BY <1>3 DEF FitsAt, Fits
<1>4. CASE PassType
  <2>1. /\ unitAt = 0 /\ typeAt <= Len(request.types) /\ ~FitsAt(typeAt) /\ typeAt' = typeAt + 1
        /\ UNCHANGED <<numbers, looked, request, unitAt, classes, outcome>> /\ outcome = "open"
    BY <1>4 DEF PassType, Open, FitsAt, Type
  <2>2. Between'
    <3>1. \A i \in 1..(typeAt' - 1) : i \in 1..(typeAt - 1) \/ i = typeAt
      BY <1>1, <2>1
    <3>2. CASE DOMAIN classes = {} /\ \A i \in 1..(typeAt - 1) : ~FitsAt(i)
      BY <1>1, <1>3, <2>1, <3>1, <3>2 DEF Between
    <3>3. CASE \E i \in 1..(typeAt - 1) :
                 FitsAt(i) /\ ByType(i) /\ \A j \in 1..(typeAt - 1) : FitsAt(j) => j <= i
      <4>1. PICK i \in 1..(typeAt - 1) :
                 FitsAt(i) /\ ByType(i) /\ \A j \in 1..(typeAt - 1) : FitsAt(j) => j <= i
        BY <3>3
      <4>2. i \in 1..(typeAt' - 1) /\ FitsAt(i)' /\ ByType(i)'
        BY <1>1, <1>3, <2>1, <4>1 DEF ByType
      <4>3. \A j \in 1..(typeAt' - 1) : FitsAt(j)' => j <= i
        BY <1>1, <1>3, <2>1, <3>1, <4>1
      <4> QED BY <4>2, <4>3 DEF Between
    <3> QED BY <2>1, <3>2, <3>3 DEF ClassifyingInv, Between
  <2> QED BY <1>1, <1>2, <2>1, <2>2 DEF ClassifyingInv
<1>5. CASE EnterType
  <2>1. /\ unitAt = 0 /\ typeAt <= Len(request.types) /\ FitsAt(typeAt) /\ unitAt' = 1
        /\ UNCHANGED <<numbers, looked, request, typeAt, classes, outcome>> /\ outcome = "open"
    BY <1>5 DEF EnterType, Open, FitsAt, Type
  <2>2. Within'
    <3>1. DOMAIN classes \subseteq ToSet(request.units)
      BY <2>1 DEF ClassifyingInv, Between, ByType
    <3> QED BY <1>1, <1>3, <2>1, <3>1 DEF Within
  <2> QED BY <1>1, <1>2, <2>1, <2>2 DEF ClassifyingInv
<1>6. CASE ClassifyGroup
  <2>1. /\ outcome = "open" /\ unitAt \in 1..Len(request.units)
        /\ \E category : GroupClassified(category)
        /\ numbers' = numbers
    BY <1>6 DEF ClassifyGroup, Open, GroupClassified
  <2>2. PICK category : GroupClassified(category)
    BY <2>1
  <2>3. PICK u : u = request.units[unitAt] /\ u \in ToSet(request.units)
    BY <1>1, <2>1 DEF ToSet
  <2>4. /\ classes' = [g \in DOMAIN classes \union {u} |->
             IF g = u THEN [type |-> typeAt, source |-> source, category |-> category]
             ELSE classes[g]]
        /\ unitAt' = unitAt + 1 /\ UNCHANGED <<numbers, request, typeAt, source, outcome>>
    BY <2>2, <2>3 DEF GroupClassified
  <2>5. Within
    BY <2>1 DEF ClassifyingInv
  <2>6. Within'
    <3>1. DOMAIN classes' \subseteq ToSet(request.units)
      BY <2>3, <2>4, <2>5 DEF Within
    <3>2. ASSUME NEW i \in 1..unitAt
          PROVE  /\ request.units[i] \in DOMAIN classes'
                 /\ classes'[request.units[i]].type = typeAt
                 /\ classes'[request.units[i]].source = source
      <4>1. CASE request.units[i] = u
        BY <2>4, <4>1
      <4>2. CASE request.units[i] # u
        <5>1. i \in 1..(unitAt - 1)
          BY <1>1, <2>3, <4>2
        <5>2. /\ request.units[i] \in DOMAIN classes
              /\ classes[request.units[i]].type = typeAt
              /\ classes[request.units[i]].source = source
          BY <2>5, <5>1 DEF Within
        <5>3. classes'[request.units[i]] = classes[request.units[i]]
          BY <2>4, <4>2, <5>2
        <5> QED BY <2>4, <5>2, <5>3
      <4> QED BY <4>1, <4>2
    <3>3. unitAt' - 1 = unitAt
      BY <1>1, <2>4
    <3>4. typeAt <= Len(request.types) /\ FitsAt(typeAt)'
      BY <1>1, <1>3, <2>4, <2>5 DEF Within
    <3> QED BY <2>4, <3>1, <3>2, <3>3, <3>4 DEF Within
  <2>7. Tables'
    <3>1. looked' = looked
          \/ \E it \in FindCarrierByDestination(request.number) :
               looked' = looked \union
                 {[number |-> request.number, ranges |-> numbers, found |-> it]}
      BY <1>6 DEF ClassifyGroup
    <3>2. CASE looked' = looked
      BY <1>2, <2>1, <3>2
    <3>3. CASE \E it \in FindCarrierByDestination(request.number) :
               looked' = looked \union
                 {[number |-> request.number, ranges |-> numbers, found |-> it]}
      <4>1. PICK it \in FindCarrierByDestination(request.number) :
               looked' = looked \union
                 {[number |-> request.number, ranges |-> numbers, found |-> it]}
        BY <3>3
      <4>2. Decided([number |-> request.number, ranges |-> numbers, found |-> it])
        BY LookedUpDecides DEF ClassifyingInv
      <4>3. \A l \in looked' : Decided(l)
        BY <4>1, <4>2 DEF ClassifyingInv
      <4> QED BY <2>1, <4>3 DEF ClassifyingInv, Loaded
    <3> QED BY <3>1, <3>2, <3>3
  <2>8. request' \in Requests /\ typeAt' \in 1..(Len(request'.types) + 1)
        /\ unitAt' \in 0..(Len(request'.units) + 1) /\ unitAt' > 0 /\ outcome' = "open"
    BY <1>1, <2>1, <2>4 DEF ClassifyingInv
  <2> QED BY <2>6, <2>7, <2>8 DEF ClassifyingInv
<1>7. CASE LeaveType
  <2>1. /\ unitAt > Len(request.units) /\ typeAt' = typeAt + 1 /\ unitAt' = 0
        /\ UNCHANGED <<numbers, looked, request, classes, outcome>> /\ outcome = "open"
    BY <1>7 DEF LeaveType, Open
  <2>2. Within /\ unitAt - 1 = Len(request.units)
    BY <1>1, <2>1 DEF ClassifyingInv
  <2>3. \A g \in ToSet(request.units) :
          g \in DOMAIN classes /\ classes[g].type = typeAt /\ classes[g].source = source
    <3>1. PICK units : units = request.units
      OBVIOUS
    <3>2. units \in Seq(ToSet(units))
      BY <1>1, <3>1, ClassifyingAssumption DEF ClassifyingInv
    <3>3. \A j \in 1..Len(units) : LET g == units[j] IN
            g \in DOMAIN classes /\ classes[g].type = typeAt /\ classes[g].source = source
      BY <2>2, <3>1 DEF Within
    <3>4. ToSet(units) = {units[j] : j \in 1..Len(units)}
      BY <3>2 DEF ToSet
    <3> QED BY <3>1, <3>3, <3>4
  <2>4. PICK i : i = typeAt
    OBVIOUS
  <2>5. ByType(i)'
    <3>1. DOMAIN classes = ToSet(request.units)
      BY <2>2, <2>3 DEF Within
    <3> QED BY <2>1, <2>3, <2>4, <3>1 DEF ByType
  <2>6. /\ i \in 1..(typeAt' - 1) /\ typeAt' \in 1..(Len(request.types) + 1)
        /\ \A j \in 1..(typeAt' - 1) : j <= i
    BY <1>1, <2>1, <2>2, <2>4 DEF Within
  <2>7. FitsAt(i)'
    BY <1>1, <1>3, <2>1, <2>2, <2>4 DEF Within
  <2>8. Between'
    BY <2>5, <2>6, <2>7 DEF Between
  <2> QED BY <1>1, <1>2, <2>1, <2>6, <2>8 DEF ClassifyingInv
<1>8. ASSUME UNCHANGED <<numbers, looked, request, typeAt, unitAt, source, classes>>
      PROVE  Tables' /\ Between' = Between /\ Within' = Within
  BY <1>2, <1>8 DEF Between, Within, FitsAt, Fits, ByType
<1>9. CASE FailRequest
  BY <1>1, <1>8, <1>9 DEF FailRequest, Open, ClassifyingInv
<1>10. CASE FinishTypes
  BY <1>1, <1>8, <1>10 DEF FinishTypes, Open, ClassifyingInv
<1>11. CASE ReloadNumbers
  <2>1. Loaded'
    <3>1. PICK table \in NumberTables :
            /\ DOMAIN numbers' = Networks(table)
            /\ \A p \in Networks(table) : <<p, numbers'[p]>> \in table
      BY <1>11 DEF ReloadNumbers
    <3>2. \A p \in Networks(table) : numbers'[p] \in Seq(ToSet(numbers'[p]))
      <4> TAKE p \in Networks(table)
      <4>1. PICK row \in table : row = <<p, numbers'[p]>>
        BY <3>1
      <4> QED BY <4>1, ClassifyingAssumption
    <3> QED BY <3>1, <3>2, ClassifyingAssumption DEF Loaded
  <2>2. UNCHANGED <<request, typeAt, unitAt, source, classes, outcome, looked>>
    BY <1>11 DEF ReloadNumbers
  <2>3. Between' = Between /\ Within' = Within
    BY <2>2 DEF Between, Within, FitsAt, Fits, ByType
  <2>4. \A l \in looked' : Decided(l)
    BY <2>2 DEF ClassifyingInv
  <2> QED BY <2>1, <2>2, <2>3, <2>4 DEF ClassifyingInv
<1>12. CASE ReloadCarriers \/ UNCHANGED classifyingVars
  BY <1>1, <1>8, <1>12 DEF ReloadCarriers, classifyingVars, ClassifyingInv
<1> QED BY <1>4, <1>5, <1>6, <1>7, <1>9, <1>10, <1>11, <1>12 DEF ClassifyingNext

LEMMA ClassifyingInvariant == ClassifyingSpec => []ClassifyingInv
BY InitClassifyingInv, NextClassifyingInv, PTL DEF ClassifyingSpec

\* The last service type that fits takes every rating group over, with one source
\* for all of them, whatever is reloaded meanwhile (ClassifyService).
THEOREM WholeClassified == ClassifyingSpec => []ClassifiedWhole
<1>1. ClassifyingInv => ClassifiedWhole
  <2> SUFFICES ASSUME ClassifyingInv, outcome = "classified" PROVE ClassifiedWhole
    BY DEF ClassifiedWhole
  <2>1. /\ Len(request.types) \in Nat /\ typeAt \in 1..(Len(request.types) + 1)
        /\ typeAt > Len(request.types) /\ Between
    BY ClassifyingAssumption DEF ClassifyingInv
  <2>2. typeAt - 1 = Len(request.types)
    BY <2>1
  <2>3. PICK fitting : fitting = {i \in 1..Len(request.types) : FitsAt(i)}
    OBVIOUS
  <2>4. fitting = {i \in 1..Len(request.types) :
                     /\ request.types[i].kind = request.kind
                     /\ request.types[i].rule # "false"}
    BY <2>3 DEF FitsAt, Fits
  <2>5. CASE DOMAIN classes = {} /\ \A i \in 1..(typeAt - 1) : ~FitsAt(i)
    <3>1. fitting = {} /\ DOMAIN classes = {}
      BY <2>2, <2>3, <2>5
    <3> QED BY <2>4, <3>1 DEF ClassifiedWhole
  <2>6. CASE \E i \in 1..(typeAt - 1) :
               FitsAt(i) /\ ByType(i) /\ \A j \in 1..(typeAt - 1) : FitsAt(j) => j <= i
    <3>1. PICK i \in fitting : ByType(i) /\ \A j \in fitting : j <= i
      BY <2>2, <2>3, <2>6
    <3>2. fitting # {} /\ DOMAIN classes = ToSet(request.units)
          /\ (\A g, h \in DOMAIN classes :
                /\ classes[g].type \in fitting /\ \A j \in fitting : j <= classes[g].type
                /\ classes[g].source = classes[h].source)
      BY <3>1 DEF ByType
    <3> QED BY <2>4, <3>2 DEF ClassifiedWhole
  <2> QED BY <2>1, <2>5, <2>6 DEF Between
<1> QED BY <1>1, ClassifyingInvariant, PTL

\* The longest range that leads to a number has it, for every table and number, in
\* whatever order the map yields the ranges (FindNumberPlan).
THEOREM LongestDecides == ClassifyingSpec => []LongestRangeDecides
<1>1. ClassifyingInv => LongestRangeDecides
  BY DEF ClassifyingInv, LongestRangeDecides, Decided
<1> QED BY <1>1, ClassifyingInvariant, PTL

-----------------------------------------------------------------------------
\* The records the consumer has done with, committed or not.
Done(i) == i < position \/ (handled /\ i = position)

DoneProvisioned ==
  \A i \in Offset : Done(i) /\ TopUpTopic[i] # Malformed /\ i \notin refused
    => provisioned[TopUpTopic[i]] > 0

(***************************************************************************)
(* A counter is the trace of its event: it is there, or it was used up.    *)
(* This is why the look for the counter tells a repeated event.            *)
(***************************************************************************)
CounterTells ==
  \A e \in TopUp :
    /\ e \in counters => provisioned[e] > 0
    /\ provisioned[e] > 0 => e \in counters \union spent
    /\ provisioned[e] > 1 => e \in spent

TopUpsInv == TopUpsTypeOK /\ DoneProvisioned /\ CounterTells

LEMMA TopicFacts ==
  /\ Len(TopUpTopic) \in Nat
  /\ \A i \in Offset : i \in Int /\ 1 <= i /\ i <= Len(TopUpTopic)
  /\ \A i \in Offset : TopUpTopic[i] # Malformed => TopUpTopic[i] \in TopUp
  /\ MaxRefusals \in Nat /\ MaxCrashes \in Nat
  BY TopUpsAssumption DEF Offset

LEMMA TopUpsInitially == TopUpsInit => TopUpsInv
  <1> SUFFICES ASSUME TopUpsInit PROVE TopUpsInv
    OBVIOUS
  <1>1. TopUpsTypeOK
    <2>1. 1 \in 1..Len(TopUpTopic) + 1 /\ 1 \in 1..1 /\ 0 \in 0..MaxRefusals
          /\ 0 \in 0..MaxCrashes
      BY TopicFacts
    <2> QED
      BY <2>1 DEF TopUpsInit, TopUpsTypeOK
  <1>2. DoneProvisioned
    <2>1. \A i \in Offset : ~Done(i)
      BY TopicFacts DEF TopUpsInit, Done
    <2> QED
      BY <2>1 DEF DoneProvisioned
  <1>3. CounterTells
    <2> SUFFICES ASSUME NEW e \in TopUp
                 PROVE  e \notin counters /\ ~(provisioned[e] > 0) /\ ~(provisioned[e] > 1)
      BY DEF CounterTells
    <2>1. counters = {} /\ provisioned[e] = 0
      BY DEF TopUpsInit
    <2>2. ~(provisioned[e] > 0) /\ ~(provisioned[e] > 1)
      BY <2>1
    <2> QED
      BY <2>1, <2>2
  <1> QED
    BY <1>1, <1>2, <1>3 DEF TopUpsInv

\* A step that provisions nothing, done with no record but refused ones.
LEMMA PassingStep ==
  ASSUME TopUpsInv, UNCHANGED <<counters, provisioned, spent>>,
         refused \subseteq refused',
         \A i \in Offset : Done(i)' => \/ Done(i) \/ i \in refused'
                                       \/ TopUpTopic[i] = Malformed
  PROVE  DoneProvisioned' /\ CounterTells'
  <1>1. DoneProvisioned'
    BY DEF TopUpsInv, DoneProvisioned
  <1>2. CounterTells'
    BY DEF TopUpsInv, CounterTells
  <1> QED
    BY <1>1, <1>2

LEMMA TopUpsPreserved ==
  ASSUME TopUpsInv, [TopUpsNext]_topUpVars
  PROVE  TopUpsInv'
  <1>t. /\ position \in 1..Len(TopUpTopic) + 1 /\ position \in Int
        /\ handled \in BOOLEAN /\ (handled => position \in Offset)
        /\ offset \in 1..position /\ offset \in Int
        /\ counters \in SUBSET TopUp
        /\ refusals \in 0..MaxRefusals /\ crashes \in 0..MaxCrashes
        /\ provisioned \in [TopUp -> Nat]
        /\ refused \in SUBSET Offset /\ spent \in SUBSET TopUp
    BY TopicFacts DEF TopUpsInv, TopUpsTypeOK
  <1>1. CASE SkipMalformed
    <2>1. TopUpsTypeOK'
      BY <1>1, <1>t DEF SkipMalformed, InHand, TopUpsTypeOK
    <2>2. DoneProvisioned' /\ CounterTells'
      BY <1>1, PassingStep DEF SkipMalformed, Done
    <2> QED
      BY <2>1, <2>2 DEF TopUpsInv
  <1>2. CASE ProvisionTopUp
    <2> DEFINE e == TopUpTopic[position]
    <2>1. /\ position \in Offset /\ ~handled /\ handled' = TRUE /\ e \in TopUp
          /\ counters' = counters \union {e}
          /\ provisioned' = [provisioned EXCEPT ![e] = IF e \in counters THEN @ ELSE @ + 1]
          /\ UNCHANGED <<position, offset, refusals, crashes, refused, spent>>
      BY <1>2, TopicFacts DEF ProvisionTopUp, InHand
    <2> HIDE DEF e
    <2>2. /\ provisioned' \in [TopUp -> Nat]
          /\ \A d \in TopUp : d # e => provisioned'[d] = provisioned[d]
          /\ provisioned'[e] = IF e \in counters THEN provisioned[e] ELSE provisioned[e] + 1
      BY <1>t, <2>1
    <2>3. TopUpsTypeOK'
      BY <1>t, <2>1, <2>2 DEF TopUpsTypeOK
    <2>4. provisioned'[e] > 0
      BY <1>t, <2>1, <2>2 DEF TopUpsInv, CounterTells
    <2>5. \A d \in TopUp : provisioned[d] > 0 => provisioned'[d] > 0
      BY <2>2, <2>4
    <2>6. DoneProvisioned'
      <3> SUFFICES ASSUME NEW i \in Offset, Done(i)', TopUpTopic[i] # Malformed,
                          i \notin refused
                   PROVE  provisioned'[TopUpTopic[i]] > 0
        BY <2>1 DEF DoneProvisioned
      <3>1. CASE i = position
        BY <2>4, <3>1 DEF e
      <3>2. CASE i # position
        <4>1. Done(i)
          BY <2>1, <3>2 DEF Done
        <4> QED
          BY <2>5, <4>1, TopicFacts DEF TopUpsInv, DoneProvisioned
      <3> QED
        BY <3>1, <3>2
    <2>7. CounterTells'
      <3> SUFFICES ASSUME NEW d \in TopUp
                   PROVE  /\ d \in counters' => provisioned'[d] > 0
                          /\ provisioned'[d] > 0 => d \in counters' \union spent
                          /\ provisioned'[d] > 1 => d \in spent
        BY <2>1 DEF CounterTells
      <3>1. /\ d \in counters => provisioned[d] > 0
            /\ provisioned[d] > 0 => d \in counters \union spent
            /\ provisioned[d] > 1 => d \in spent
            /\ provisioned[d] \in Nat
        BY <1>t DEF TopUpsInv, CounterTells
      <3>2. CASE d # e
        BY <2>1, <2>2, <3>1, <3>2
      <3>3. CASE d = e
        <4>1. CASE d \in counters
          BY <2>1, <2>2, <3>1, <3>3, <4>1
        <4>2. CASE d \notin counters
          <5>1. provisioned'[d] > 1 => provisioned[d] > 0
            BY <2>2, <3>1, <3>3, <4>2
          <5> QED
            BY <2>1, <2>4, <3>1, <3>3, <4>2, <5>1
        <4> QED
          BY <4>1, <4>2
      <3> QED
        BY <3>2, <3>3
    <2> QED
      BY <2>3, <2>6, <2>7 DEF TopUpsInv
  <1>3. CASE RefuseTopUp
    <2>1. TopUpsTypeOK'
      BY <1>3, <1>t, TopicFacts DEF RefuseTopUp, InHand, TopUpsTypeOK
    <2>2. \A i \in Offset : Done(i)' => Done(i) \/ i \in refused'
      BY <1>3, <1>t, TopicFacts DEF RefuseTopUp, InHand, Done
    <2>3. DoneProvisioned' /\ CounterTells'
      BY <1>3, <2>2, PassingStep DEF RefuseTopUp
    <2> QED
      BY <2>1, <2>3 DEF TopUpsInv
  <1>4. CASE CommitRecords
    <2>1. TopUpsTypeOK'
      <3>1. /\ position \in Offset /\ position' = position + 1 /\ handled' = FALSE
            /\ offset' \in {offset, position + 1}
            /\ UNCHANGED <<counters, refusals, crashes, provisioned, refused, spent>>
        BY <1>4, <1>t DEF CommitRecords
      <3>2. position' \in 1..Len(TopUpTopic) + 1 /\ offset' \in 1..position'
        BY <1>t, <3>1, TopicFacts
      <3> QED
        BY <1>t, <3>1, <3>2 DEF TopUpsTypeOK
    <2>2. \A i \in Offset : Done(i)' => Done(i)
      BY <1>4, <1>t, TopicFacts DEF CommitRecords, Done
    <2>3. DoneProvisioned' /\ CounterTells'
      BY <1>4, <2>2, PassingStep DEF CommitRecords
    <2> QED
      BY <2>1, <2>3 DEF TopUpsInv
  <1>5. CASE Crash
    <2>1. TopUpsTypeOK'
      <3>1. /\ crashes < MaxCrashes /\ crashes' = crashes + 1
            /\ position' = offset /\ handled' = FALSE
            /\ UNCHANGED <<offset, counters, refusals, provisioned, refused, spent>>
        BY <1>5 DEF Crash
      <3>2. position' \in 1..Len(TopUpTopic) + 1 /\ offset' \in 1..position'
        BY <1>t, <3>1, TopicFacts
      <3>3. crashes' \in 0..MaxCrashes
        BY <1>t, <3>1, TopicFacts
      <3> QED
        BY <1>t, <3>1, <3>2, <3>3 DEF TopUpsTypeOK
    <2>2. \A i \in Offset : Done(i)' => Done(i)
      BY <1>5, <1>t, TopicFacts DEF Crash, Done
    <2>3. DoneProvisioned' /\ CounterTells'
      BY <1>5, <2>2, PassingStep DEF Crash
    <2> QED
      BY <2>1, <2>3 DEF TopUpsInv
  <1>6. ASSUME NEW e \in TopUp, SpendCounter(e) PROVE TopUpsInv'
    <2>1. TopUpsTypeOK'
      BY <1>6, <1>t DEF SpendCounter, TopUpsTypeOK
    <2>2. DoneProvisioned'
      BY <1>6 DEF SpendCounter, TopUpsInv, DoneProvisioned, Done
    <2>3. CounterTells'
      BY <1>6 DEF SpendCounter, TopUpsInv, CounterTells
    <2> QED
      BY <2>1, <2>2, <2>3 DEF TopUpsInv
  <1>7. CASE UNCHANGED topUpVars
    BY <1>7 DEF topUpVars, TopUpsInv, TopUpsTypeOK, DoneProvisioned, CounterTells, Done
  <1> QED
    BY <1>1, <1>2, <1>3, <1>4, <1>5, <1>6, <1>7 DEF TopUpsNext, HandleTopUp

LEMMA TopUpsInvariant == TopUpsSpec => []TopUpsInv
  <1>1. TopUpsInv /\ [TopUpsNext]_topUpVars => TopUpsInv'
    BY TopUpsPreserved
  <1> QED
    BY <1>1, TopUpsInitially, PTL DEF TopUpsSpec

\* The consumer's position and offset, and the quotas' counters, keep their types.
THEOREM TopUpsTypeCorrect == TopUpsSpec => []TopUpsTypeOK
  <1>1. TopUpsInv => TopUpsTypeOK
    BY DEF TopUpsInv
  <1> QED
    BY <1>1, TopUpsInvariant, PTL

\* However often the consumer restarts and its commits get lost, what it will
\* not read again was provisioned or refused, and nothing unspent twice.
THEOREM TopUpsOnce == TopUpsSpec => []TopUpsNeitherLostNorDoubled
  <1>1. TopUpsInv => TopUpsNeitherLostNorDoubled
    <2> SUFFICES ASSUME TopUpsInv PROVE TopUpsNeitherLostNorDoubled
      OBVIOUS
    <2>1. \A i \in Offset : i < offset => Done(i)
      BY TopicFacts DEF TopUpsInv, TopUpsTypeOK, Done
    <2> QED
      BY <2>1 DEF TopUpsInv, DoneProvisioned, CounterTells, TopUpsNeitherLostNorDoubled
  <1> QED
    BY <1>1, TopUpsInvariant, PTL

-----------------------------------------------------------------------------
Names == {"list", "sessions", "traces", "plans"}

(***************************************************************************)
(* While the first task runs its error is what has failed; afterwards the  *)
(* error of the run is.  A subscriber is to come, done or failed.          *)
(***************************************************************************)
HousekeepingInv ==
  /\ task \in 1..5
  /\ lastError \in BOOLEAN /\ runError \in BOOLEAN
  /\ failed \subseteq Expired \union Names
  /\ expired \subseteq Expired
  /\ toExpire = NotYet => task = 1 /\ failed = {} /\ expired = {}
  /\ toExpire # NotYet =>
       /\ toExpire \subseteq Expired
       /\ toExpire \intersect failed = {} /\ toExpire \intersect expired = {}
       /\ "list" \notin failed => (Expired \ failed) \ toExpire = expired
  /\ task = 1 => (lastError <=> failed # {}) /\ exitCode = NotYet
  /\ task # 1 => toExpire = {} /\ (runError <=> failed # {})
  /\ exitCode # NotYet => task = 5 /\ exitCode = IF runError THEN 1 ELSE 0

LEMMA Initially == HousekeepingInit => HousekeepingInv
  <1> SUFFICES ASSUME HousekeepingInit PROVE HousekeepingInv
    OBVIOUS
  <1>1. /\ task = 1 /\ toExpire = NotYet /\ exitCode = NotYet
        /\ lastError = FALSE /\ runError = FALSE /\ expired = {} /\ failed = {}
    BY DEF HousekeepingInit
  <1>2. task \in 1..5
    BY <1>1
  <1> QED
    BY <1>1, <1>2, Zenon DEF HousekeepingInv

LEMMA NotYetFacts ==
  /\ Names \intersect Expired = {}
  /\ NotYet # 0 /\ NotYet # 1 /\ \A S \in SUBSET Expired : NotYet # S
  BY HousekeepingAssumption DEF Names

LEMMA Preserved == HousekeepingInv /\ [HousekeepingNext]_housekeepingVars => HousekeepingInv'
  <1> SUFFICES ASSUME HousekeepingInv, [HousekeepingNext]_housekeepingVars
               PROVE  HousekeepingInv'
    OBVIOUS
  <1>1. CASE FindExpired
    <2>1. /\ task = 1 /\ failed = {} /\ expired = {} /\ exitCode = NotYet
          /\ lastError = FALSE
          /\ UNCHANGED <<task, expired, runError, exitCode>>
      BY <1>1 DEF FindExpired, HousekeepingInv
    <2>2. CASE toExpire' = Expired /\ UNCHANGED <<lastError, failed>>
      BY <2>1, <2>2, NotYetFacts DEF HousekeepingInv
    <2>3. CASE toExpire' = {} /\ lastError' = TRUE /\ failed' = {"list"}
      BY <2>1, <2>3, NotYetFacts DEF HousekeepingInv, Names
    <2> QED
      BY <1>1, <2>2, <2>3 DEF FindExpired
  <1>2. ASSUME NEW s \in Expired, ExpireSubscriber(s) PROVE HousekeepingInv'
    <2>1. /\ task = 1 /\ toExpire # NotYet /\ s \in toExpire /\ exitCode = NotYet
          /\ toExpire' = toExpire \ {s} /\ toExpire' # NotYet
          /\ UNCHANGED <<task, runError, exitCode>>
      BY <1>2, NotYetFacts DEF ExpireSubscriber, HousekeepingInv
    <2>2. s \notin Names /\ s \notin failed
      BY <2>1, NotYetFacts DEF HousekeepingInv
    <2>3. CASE expired' = expired \union {s} /\ UNCHANGED <<lastError, failed>>
      BY <2>1, <2>2, <2>3 DEF HousekeepingInv
    <2>4. CASE lastError' = TRUE /\ failed' = failed \union {s} /\ UNCHANGED expired
      BY <2>1, <2>2, <2>4 DEF HousekeepingInv, Names
    <2> QED
      BY <1>2, <2>3, <2>4 DEF ExpireSubscriber
  <1>3. CASE QuotasDone
    <2>1. toExpire # NotYet
      BY <1>3, NotYetFacts DEF QuotasDone
    <2> QED
      BY <1>3, <2>1 DEF QuotasDone, HousekeepingInv
  <1>4. CASE RunTask
    <2>1. /\ task \in 2..4 /\ task' = task + 1 /\ toExpire = {} /\ toExpire # NotYet
          /\ (runError <=> failed # {}) /\ exitCode = NotYet
          /\ UNCHANGED <<toExpire, expired, lastError, exitCode>>
      BY <1>4, NotYetFacts DEF RunTask, HousekeepingInv
    <2>2. TaskAt[task] \in {"sessions", "traces", "plans"}
      BY <2>1 DEF TaskAt
    <2>3. TaskAt[task] \notin Expired
      BY <2>2, NotYetFacts DEF Names
    <2>4. CASE UNCHANGED <<runError, failed>>
      BY <2>1, <2>4 DEF HousekeepingInv
    <2>5. CASE runError' = TRUE /\ failed' = failed \union {TaskAt[task]}
      <3>1. Expired \ failed' = Expired \ failed /\ ("list" \in failed' <=> "list" \in failed)
        BY <2>2, <2>3, <2>5
      <3>2. failed' \subseteq Expired \union Names /\ failed' # {}
        BY <2>2, <2>5 DEF HousekeepingInv, Names
      <3> QED
        BY <2>1, <2>5, <3>1, <3>2 DEF HousekeepingInv
    <2> QED
      BY <1>4, <2>4, <2>5 DEF RunTask
  <1>5. CASE Exit
    BY <1>5 DEF Exit, HousekeepingInv
  <1>6. CASE UNCHANGED housekeepingVars
    BY <1>6 DEF housekeepingVars, HousekeepingInv
  <1> QED
    BY <1>1, <1>2, <1>3, <1>4, <1>5, <1>6 DEF HousekeepingNext

\* The exit code tells of every failure, and a failure keeps no other quota
\* from being expired.
THEOREM ExitTells == HousekeepingSpec => []ExitTellsAll
  <1>1. HousekeepingInv => ExitTellsAll
    <2> SUFFICES ASSUME HousekeepingInv, exitCode # NotYet
                 PROVE  /\ exitCode = 0 <=> failed = {}
                        /\ "list" \notin failed => Expired \ failed = expired
      BY DEF ExitTellsAll
    <2>1. task = 5 /\ toExpire = {} /\ toExpire # NotYet
      BY NotYetFacts DEF HousekeepingInv
    <2> QED
      BY <2>1 DEF HousekeepingInv
  <1> QED
    BY <1>1, Initially, Preserved, PTL DEF HousekeepingSpec

-----------------------------------------------------------------------------
\* A row is as of the records before the next one, or of later ones that were
\* handled before a restart; and so is the flag of a wholesaler.
Following ==
  /\ \A s \in Subscriber : \E j \in next["subscriber"] - 1..Len(SubscriberTopic) :
       subscriber[s] = Published(j, s)
  /\ \A w \in Wholesaler : \E j \in next["wholesale"] - 1..Len(WholesaleTopic) :
       /\ wholesaler[w] \in Agreed(j, w)
       /\ FALSE \in Agreed(j, w) => Absent \in Agreed(j, w)

\* The second statement of a deletion comes after the first.
Deleting ==
  cascade # Absent =>
    LET n == next["subscriber"] IN
    /\ n <= Len(SubscriberTopic) /\ SubscriberTopic[n].type = "deleted"
    /\ subscriber[SubscriberTopic[n].id] = Absent

SubscribersInv ==
  /\ SubscribersTypeOK
  /\ Deleting
  /\ failures = 0 /\ LifeCycle => Following

\* Numbers and topics.
LEMMA EventFacts ==
  /\ Len(SubscriberTopic) \in Nat /\ Len(WholesaleTopic) \in Nat
  /\ \A i \in 1..Len(SubscriberTopic) : SubscriberTopic[i] \in SubscriberEvent
  /\ \A i \in 1..Len(WholesaleTopic) : WholesaleTopic[i] \in WholesaleEvent
  /\ Absent \notin SubscriberRow /\ Absent \notin BOOLEAN /\ Absent \notin Wholesaler
  /\ Absent \notin Nat
  /\ Length("subscriber") = Len(SubscriberTopic) /\ Length("wholesale") = Len(WholesaleTopic)
  /\ Topics = {"subscriber", "wholesale"}
BY TopicsAssumption, SubscribersAssumption DEF Length, Topics

\* The last of the first n events of an id is the n-th, or one before.
LEMMA LastEvent ==
  ASSUME NEW topic, NEW n \in Nat, n > 0, NEW id
  PROVE  /\ topic[n].id = id =>
              EventsOf(topic, n, id) # {} /\ LastOf(topic, n, id) = topic[n]
         /\ topic[n].id # id =>
              /\ EventsOf(topic, n, id) = EventsOf(topic, n - 1, id)
              /\ LastOf(topic, n, id) = LastOf(topic, n - 1, id)
<1>1. ASSUME topic[n].id = id
      PROVE  EventsOf(topic, n, id) # {} /\ LastOf(topic, n, id) = topic[n]
  <2> DEFINE E == EventsOf(topic, n, id)
  <2>1. n \in E /\ \A j \in E : j \in Nat /\ j <= n
    BY <1>1 DEF EventsOf
  <2> HIDE DEF E
  <2>2. (CHOOSE i \in E : \A j \in E : j <= i) = n
    <3>1. \A i \in E : (\A j \in E : j <= i) => i = n
      BY <2>1
    <3>2. \E i \in E : \A j \in E : j <= i
      BY <2>1
    <3> QED BY <3>1, <3>2
  <2> QED BY <2>1, <2>2 DEF LastOf, E
<1>2. ASSUME topic[n].id # id 
      PROVE  /\ EventsOf(topic, n, id) = EventsOf(topic, n - 1, id)
             /\ LastOf(topic, n, id) = LastOf(topic, n - 1, id)
  <2>1. \A i \in 1..n : i = n \/ i \in 1..n - 1
    OBVIOUS
  <2>2. \A i \in 1..n - 1 : i \in 1..n
    OBVIOUS
  <2>3. EventsOf(topic, n, id) = EventsOf(topic, n - 1, id)
    BY <1>2, <2>1, <2>2 DEF EventsOf
  <2> QED BY <2>3 DEF LastOf
<1> QED BY <1>1, <1>2

LEMMA PublishedStep ==
  ASSUME NEW n \in 1..Len(SubscriberTopic), NEW s
  PROVE  LET e == SubscriberTopic[n] IN
         /\ e \in SubscriberEvent /\ n - 1 \in Nat
         /\ e.id # s => Published(n, s) = Published(n - 1, s)
         /\ e.id = s => Published(n, s) = IF e.type = "deleted" THEN Absent ELSE e.row
<1>1. n \in Nat /\ n > 0 /\ n - 1 \in Nat
  BY EventFacts
<1>2. SubscriberTopic[n] \in SubscriberEvent
  BY EventFacts
<1>3. SubscriberTopic[n].id # s => Published(n, s) = Published(n - 1, s)
  BY <1>1, LastEvent DEF Published
<1>4. SubscriberTopic[n].id = s =>
        EventsOf(SubscriberTopic, n, s) # {} /\ LastOf(SubscriberTopic, n, s) = SubscriberTopic[n]
  BY <1>1, LastEvent
<1> QED BY <1>1, <1>2, <1>3, <1>4 DEF Published

LEMMA AgreedStep ==
  ASSUME NEW n \in 1..Len(WholesaleTopic), NEW w
  PROVE  LET e == WholesaleTopic[n] IN
         /\ e \in WholesaleEvent /\ n - 1 \in Nat
         /\ e.id # w => Agreed(n, w) = Agreed(n - 1, w)
         /\ e.id = w /\ e.type = "deregistering" => Agreed(n, w) = {Absent, FALSE}
         /\ e.id = w /\ e.type = "suspend" => Agreed(n, w) = {Absent, e.active}
         /\ e.id = w /\ e.type = "provisioned" =>
              Agreed(n, w) = IF e.active THEN {TRUE} ELSE {Absent, FALSE}
<1>1. n \in Nat /\ n > 0 /\ n - 1 \in Nat
  BY EventFacts
<1>2. WholesaleTopic[n] \in WholesaleEvent
  BY EventFacts
<1>3. WholesaleTopic[n].id # w => Agreed(n, w) = Agreed(n - 1, w)
  <2> DEFINE Left(E, e) ==
        IF E = {} THEN {Absent}
        ELSE CASE e.type = "deregistering" -> {Absent, FALSE}
               [] e.type = "suspend" -> {Absent, e.active}
               [] e.type = "provisioned" -> IF e.active THEN {TRUE} ELSE {Absent, FALSE}
  <2>1. \A k : Agreed(k, w) = Left(EventsOf(WholesaleTopic, k, w), LastOf(WholesaleTopic, k, w))
    BY DEF Agreed
  <2> HIDE DEF Left
  <2>2. WholesaleTopic[n].id # w =>
          /\ EventsOf(WholesaleTopic, n, w) = EventsOf(WholesaleTopic, n - 1, w)
          /\ LastOf(WholesaleTopic, n, w) = LastOf(WholesaleTopic, n - 1, w)
    BY <1>1, LastEvent
  <2> QED BY <2>1, <2>2
<1>4. WholesaleTopic[n].id = w =>
        EventsOf(WholesaleTopic, n, w) # {} /\ LastOf(WholesaleTopic, n, w) = WholesaleTopic[n]
  BY <1>1, LastEvent
<1> QED BY <1>1, <1>2, <1>3, <1>4 DEF Agreed

-----------------------------------------------------------------------------
LEMMA InitSubscribersInv == SubscribersInit => SubscribersInv
<1> SUFFICES ASSUME SubscribersInit PROVE SubscribersInv
  OBVIOUS
<1>1. SubscribersTypeOK
  <2>1. \A t \in Topics : committed[t] <= next[t] /\ next[t] <= Length(t) + 1
    BY EventFacts DEF SubscribersInit
  <2> QED BY <2>1, EventFacts, SubscribersAssumption DEF SubscribersInit, SubscribersTypeOK
<1>2. Deleting
  BY DEF SubscribersInit, Deleting
<1>3. Following
  <2>1. next["subscriber"] - 1 = 0 /\ next["wholesale"] - 1 = 0
    BY EventFacts DEF SubscribersInit
  <2>2. \A s : Published(0, s) = Absent
    <3>1. \A s : EventsOf(SubscriberTopic, 0, s) = {}
      BY DEF EventsOf
    <3> QED BY <3>1 DEF Published
  <2>3. \A w : Agreed(0, w) = {Absent}
    <3>1. \A w : EventsOf(WholesaleTopic, 0, w) = {}
      BY DEF EventsOf
    <3> QED BY <3>1 DEF Agreed
  <2>4. 0 \in 0..Len(SubscriberTopic) /\ 0 \in 0..Len(WholesaleTopic)
    BY EventFacts
  <2> QED BY <2>1, <2>2, <2>3, <2>4 DEF SubscribersInit, Following
<1> QED BY <1>1, <1>2, <1>3 DEF SubscribersInv

\* A record is handled.
LEMMA HandledFact ==
  ASSUME SubscribersTypeOK, NEW t \in Topics, next[t] <= Length(t), Handled(t),
         UNCHANGED committed
  PROVE  /\ next' \in [Topics -> Nat \ {0}] /\ next[t] \in 1..Length(t)
         /\ next'[t] = next[t] + 1 /\ \A u \in Topics : u # t => next'[u] = next[u]
         /\ \A u \in Topics : committed'[u] <= next'[u] /\ next'[u] <= Length(u) + 1
<1>1. /\ next \in [Topics -> Nat \ {0}] /\ committed \in [Topics -> Nat \ {0}]
      /\ \A u \in Topics : committed[u] <= next[u] /\ next[u] <= Length(u) + 1
  BY DEF SubscribersTypeOK
<1>2. \A u \in Topics : Length(u) \in Nat
  BY EventFacts
<1>3. next'[t] = next[t] + 1 /\ \A u \in Topics : u # t => next'[u] = next[u]
  BY <1>1 DEF Handled
<1>4. next' \in [Topics -> Nat \ {0}]
  BY <1>1, <1>3 DEF Handled
<1>5. next[t] \in 1..Length(t)
  BY <1>1, <1>2
<1>6. \A u \in Topics : committed'[u] <= next'[u] /\ next'[u] <= Length(u) + 1
  <2>1. committed[t] <= next[t] + 1 /\ next[t] + 1 <= Length(t) + 1
    BY <1>1, <1>2
  <2> QED BY <1>1, <1>3, <2>1
<1> QED BY <1>3, <1>4, <1>5, <1>6

\* The next subscriber record was handled: its row is as of it, or of a later one.
LEMMA SubscriberFollows ==
  ASSUME NEW n \in 1..Len(SubscriberTopic), NEW x, x = SubscriberTopic[n].id,
         \A s \in Subscriber : \E j \in n - 1..Len(SubscriberTopic) :
           subscriber[s] = Published(j, s),
         \A s \in Subscriber : s # x => subscriber'[s] = subscriber[s],
         \/ subscriber'[x] = Published(n, x)
         \/ subscriber'[x] = subscriber[x] /\ subscriber[x] # Published(n - 1, x)
  PROVE  \A s \in Subscriber : \E j \in n..Len(SubscriberTopic) :
           subscriber'[s] = Published(j, s)
<1> SUFFICES ASSUME NEW s \in Subscriber
             PROVE  \E j \in n..Len(SubscriberTopic) : subscriber'[s] = Published(j, s)
  OBVIOUS
<1>1. n \in Nat /\ n \in n..Len(SubscriberTopic)
      /\ \A j \in n - 1..Len(SubscriberTopic) : j = n - 1 \/ j \in n..Len(SubscriberTopic)
  BY EventFacts
<1>2. PICK j \in n - 1..Len(SubscriberTopic) : subscriber[s] = Published(j, s)
  OBVIOUS
<1>3. CASE x # s
  <2>1. subscriber'[s] = subscriber[s] /\ Published(n, s) = Published(n - 1, s)
    BY <1>3, PublishedStep
  <2> QED BY <1>1, <1>2, <2>1
<1>4. CASE x = s
  BY <1>1, <1>2, <1>4
<1> QED BY <1>3, <1>4

LEMMA WholesalerFollows ==
  ASSUME NEW n \in 1..Len(WholesaleTopic), NEW x, x = WholesaleTopic[n].id,
         \A w \in Wholesaler : \E j \in n - 1..Len(WholesaleTopic) :
           wholesaler[w] \in Agreed(j, w) /\ (FALSE \in Agreed(j, w) => Absent \in Agreed(j, w)),
         \A w \in Wholesaler : w # x => wholesaler'[w] = wholesaler[w],
         wholesaler'[x] \in Agreed(n, x)
  PROVE  \A w \in Wholesaler : \E j \in n..Len(WholesaleTopic) :
           wholesaler'[w] \in Agreed(j, w) /\ (FALSE \in Agreed(j, w) => Absent \in Agreed(j, w))
<1> SUFFICES ASSUME NEW w \in Wholesaler
             PROVE  \E j \in n..Len(WholesaleTopic) :
                      /\ wholesaler'[w] \in Agreed(j, w)
                      /\ FALSE \in Agreed(j, w) => Absent \in Agreed(j, w)
  OBVIOUS
<1>1. n \in Nat /\ n \in n..Len(WholesaleTopic)
      /\ \A j \in n - 1..Len(WholesaleTopic) : j = n - 1 \/ j \in n..Len(WholesaleTopic)
  BY EventFacts
<1>2. PICK j \in n - 1..Len(WholesaleTopic) :
        wholesaler[w] \in Agreed(j, w) /\ (FALSE \in Agreed(j, w) => Absent \in Agreed(j, w))
  OBVIOUS
<1>3. CASE x # w
  <2>1. wholesaler'[w] = wholesaler[w] /\ Agreed(n, w) = Agreed(n - 1, w)
    BY <1>3, AgreedStep
  <2> QED BY <1>1, <1>2, <2>1
<1>4. CASE x = w
  <2>1. FALSE \in Agreed(n, w) => Absent \in Agreed(n, w)
    <3> DEFINE e == WholesaleTopic[n]
    <3>1. e \in WholesaleEvent
      BY AgreedStep
    <3>2. e.type = "deregistering" \/ e.type = "suspend" \/ e.type = "provisioned"
      BY <3>1 DEF WholesaleEvent
    <3>3. e.type = "deregistering" => Agreed(n, w) = {Absent, FALSE}
      BY <1>4, AgreedStep
    <3>4. e.type = "suspend" => Agreed(n, w) = {Absent, e.active}
      BY <1>4, AgreedStep
    <3>5. e.type = "provisioned" => Agreed(n, w) = {TRUE} \/ Agreed(n, w) = {Absent, FALSE}
      BY <1>4, AgreedStep
    <3> HIDE DEF e
    <3> QED BY <3>2, <3>3, <3>4, <3>5
  <2> QED BY <1>1, <1>4, <2>1
<1> QED BY <1>3, <1>4

-----------------------------------------------------------------------------
\* The row of the subscriber a record is about.
LEMMA RecordFact ==
  ASSUME SubscribersTypeOK, NEW n \in 1..Len(SubscriberTopic)
  PROVE  /\ SubscriberTopic[n] \in SubscriberEvent /\ SubscriberTopic[n].id \in Subscriber
         /\ SubscriberTopic[n].row \in SubscriberRow /\ SubscriberTopic[n].row # Absent
         /\ SubscriberTopic[n].row.wholesale \in Wholesaler
         /\ subscriber \in [Subscriber -> SubscriberRow \union {Absent}]
BY EventFacts DEF SubscriberEvent, SubscriberRow, SubscribersTypeOK

LEMMA ContractFact ==
  ASSUME SubscribersTypeOK, NEW n \in 1..Len(WholesaleTopic)
  PROVE  LET e == WholesaleTopic[n] IN
         /\ e \in WholesaleEvent /\ e.id \in Wholesaler
         /\ e.type \in {"provisioned", "suspend"} => e.active \in BOOLEAN
         /\ wholesaler \in [Wholesaler -> BOOLEAN \union {Absent}]
<1> DEFINE e == WholesaleTopic[n]
<1>1. e \in WholesaleEvent
  BY EventFacts
<1> HIDE DEF e
<1>2. e.id \in Wholesaler /\ (e.type \in {"provisioned", "suspend"} => e.active \in BOOLEAN)
  BY <1>1 DEF WholesaleEvent
<1> QED BY <1>1, <1>2 DEF e, SubscribersTypeOK

\* Steps that leave the tables, the positions and the failures alone.
LEMMA ElsewhereKeeps ==
  ASSUME SubscribersInv, UNCHANGED <<tableVars, next, cascade, failures>>
  PROVE  Deleting' /\ (failures' = 0 /\ LifeCycle => Following')
BY DEF SubscribersInv, tableVars, Deleting, Following

\* A subscriber record is done with.
LEMMA RecordHandled ==
  ASSUME SubscribersInv, NEW k, k = next["subscriber"], k <= Len(SubscriberTopic),
         Handled("subscriber"), UNCHANGED <<committed, counted, failures, restarts, cacheVars>>,
         cascade' = Absent, NEW x, x = SubscriberTopic[k].id,
         subscriber' \in [Subscriber -> SubscriberRow \union {Absent}],
         \A s \in Subscriber : s # x => subscriber'[s] = subscriber[s],
         LifeCycle => \/ subscriber'[x] = Published(k, x)
                      \/ subscriber'[x] = subscriber[x] /\ subscriber[x] # Published(k - 1, x),
         wholesaler' \in [Wholesaler -> BOOLEAN \union {Absent}],
         \A w \in Wholesaler : \/ wholesaler'[w] = wholesaler[w]
                               \/ wholesaler[w] = FALSE /\ wholesaler'[w] = Absent
  PROVE  SubscribersInv'
<1>1. SubscribersTypeOK /\ Deleting /\ (failures = 0 /\ LifeCycle => Following)
  BY DEF SubscribersInv
<1>2. "subscriber" \in Topics /\ "wholesale" \in Topics /\ "subscriber" # "wholesale"
  BY EventFacts
<1>3. /\ next' \in [Topics -> Nat \ {0}] /\ k \in 1..Len(SubscriberTopic)
      /\ next'["subscriber"] = k + 1 /\ next'["wholesale"] = next["wholesale"]
      /\ \A u \in Topics : committed'[u] <= next'[u] /\ next'[u] <= Length(u) + 1
  BY <1>1, <1>2, HandledFact, EventFacts
<1>4. SubscribersTypeOK'
  BY <1>1, <1>3 DEF SubscribersTypeOK, cacheVars
<1>5. Deleting'
  BY DEF Deleting
<1>6. ASSUME failures = 0, LifeCycle PROVE Following'
  <2>1. \A s \in Subscriber : \E j \in k - 1..Len(SubscriberTopic) :
          subscriber[s] = Published(j, s)
    BY <1>1, <1>6 DEF Following
  <2>2. \A s \in Subscriber : \E j \in k..Len(SubscriberTopic) :
          subscriber'[s] = Published(j, s)
    BY <1>3, <1>6, <2>1, SubscriberFollows
  <2>3. next'["subscriber"] - 1 = k
    BY <1>3
  <2>4. ASSUME NEW w \in Wholesaler
        PROVE  \E j \in next'["wholesale"] - 1..Len(WholesaleTopic) :
                 /\ wholesaler'[w] \in Agreed(j, w)
                 /\ FALSE \in Agreed(j, w) => Absent \in Agreed(j, w)
    <3>1. PICK j \in next["wholesale"] - 1..Len(WholesaleTopic) :
            wholesaler[w] \in Agreed(j, w) /\ (FALSE \in Agreed(j, w) => Absent \in Agreed(j, w))
      BY <1>1, <1>6 DEF Following
    <3> QED BY <1>3, <3>1
  <2> QED BY <2>2, <2>3, <2>4 DEF Following
<1> QED BY <1>4, <1>5, <1>6 DEF SubscribersInv

\* A wholesale record is done with.
LEMMA ContractHandled ==
  ASSUME SubscribersInv, NEW k, k = next["wholesale"], k <= Len(WholesaleTopic),
         Handled("wholesale"),
         UNCHANGED <<subscriber, committed, cascade, failures, restarts, cacheVars>>,
         counted' \in Nat \union {Absent}, NEW x, x = WholesaleTopic[k].id,
         wholesaler' \in [Wholesaler -> BOOLEAN \union {Absent}],
         \A w \in Wholesaler : w # x => wholesaler'[w] = wholesaler[w],
         wholesaler'[x] \in Agreed(k, x)
  PROVE  SubscribersInv'
<1>1. SubscribersTypeOK /\ Deleting /\ (failures = 0 /\ LifeCycle => Following)
  BY DEF SubscribersInv
<1>2. "subscriber" \in Topics /\ "wholesale" \in Topics /\ "subscriber" # "wholesale"
  BY EventFacts
<1>3. /\ next' \in [Topics -> Nat \ {0}] /\ k \in 1..Len(WholesaleTopic)
      /\ next'["wholesale"] = k + 1 /\ next'["subscriber"] = next["subscriber"]
      /\ \A u \in Topics : committed'[u] <= next'[u] /\ next'[u] <= Length(u) + 1
  BY <1>1, <1>2, HandledFact, EventFacts
<1>4. SubscribersTypeOK'
  BY <1>1, <1>3 DEF SubscribersTypeOK, cacheVars
<1>5. Deleting'
  BY <1>1, <1>3 DEF Deleting
<1>6. ASSUME failures = 0, LifeCycle PROVE Following'
  <2>1. \A w \in Wholesaler : \E j \in k - 1..Len(WholesaleTopic) :
          wholesaler[w] \in Agreed(j, w) /\ (FALSE \in Agreed(j, w) => Absent \in Agreed(j, w))
    BY <1>1, <1>6 DEF Following
  <2>2. \A w \in Wholesaler : \E j \in k..Len(WholesaleTopic) :
          wholesaler'[w] \in Agreed(j, w) /\ (FALSE \in Agreed(j, w) => Absent \in Agreed(j, w))
    BY <1>3, <2>1, WholesalerFollows
  <2>3. next'["wholesale"] - 1 = k
    BY <1>3
  <2> QED BY <1>1, <1>3, <1>6, <2>2, <2>3 DEF Following
<1> QED BY <1>4, <1>5, <1>6 DEF SubscribersInv

LEMMA InsertInv == ASSUME SubscribersInv, Insert PROVE SubscribersInv'
<1> PICK k, x, e : k = next["subscriber"] /\ e = SubscriberTopic[k] /\ x = e.id
  OBVIOUS
<1>1. /\ cascade = Absent /\ k <= Len(SubscriberTopic) /\ e.type = "created"
      /\ subscriber' = [subscriber EXCEPT ![x] = IF @ = Absent THEN e.row ELSE @]
      /\ Handled("subscriber")
      /\ UNCHANGED <<wholesaler, committed, cascade, counted, failures, restarts, cacheVars>>
  BY DEF Insert, NextSubscriberEvent
<1>2. SubscribersTypeOK /\ k \in 1..Len(SubscriberTopic)
  BY <1>1, HandledFact, EventFacts DEF SubscribersInv
<1>3. x \in Subscriber /\ e.row \in SubscriberRow /\ e.row # Absent
      /\ subscriber \in [Subscriber -> SubscriberRow \union {Absent}]
      /\ wholesaler \in [Wholesaler -> BOOLEAN \union {Absent}]
  BY <1>2, RecordFact DEF SubscribersTypeOK
<1>4. /\ subscriber' \in [Subscriber -> SubscriberRow \union {Absent}]
      /\ subscriber'[x] = IF subscriber[x] = Absent THEN e.row ELSE subscriber[x]
      /\ \A s \in Subscriber : s # x => subscriber'[s] = subscriber[s]
  BY <1>1, <1>3
<1>5. LifeCycle => Published(k - 1, x) = Absent /\ Published(k, x) = e.row
  BY <1>1, <1>2, PublishedStep DEF LifeCycle
<1>6. LifeCycle => \/ subscriber'[x] = Published(k, x)
                   \/ subscriber'[x] = subscriber[x] /\ subscriber[x] # Published(k - 1, x)
  BY <1>4, <1>5
<1> QED BY <1>1, <1>3, <1>4, <1>6, RecordHandled

LEMMA UpdateInv == ASSUME SubscribersInv, Update PROVE SubscribersInv'
<1> PICK k, x, e : k = next["subscriber"] /\ e = SubscriberTopic[k] /\ x = e.id
  OBVIOUS
<1>1. /\ cascade = Absent /\ k <= Len(SubscriberTopic) /\ e.type = "updated"
      /\ subscriber' = [subscriber EXCEPT ![x] = IF @ = Absent THEN Absent ELSE e.row]
      /\ Handled("subscriber")
      /\ UNCHANGED <<wholesaler, committed, cascade, counted, failures, restarts, cacheVars>>
  BY DEF Update, NextSubscriberEvent
<1>2. SubscribersTypeOK /\ k \in 1..Len(SubscriberTopic)
  BY <1>1, HandledFact, EventFacts DEF SubscribersInv
<1>3. x \in Subscriber /\ e.row \in SubscriberRow /\ e.row # Absent
      /\ subscriber \in [Subscriber -> SubscriberRow \union {Absent}]
      /\ wholesaler \in [Wholesaler -> BOOLEAN \union {Absent}]
  BY <1>2, RecordFact DEF SubscribersTypeOK
<1>4. /\ subscriber' \in [Subscriber -> SubscriberRow \union {Absent}]
      /\ subscriber'[x] = IF subscriber[x] = Absent THEN Absent ELSE e.row
      /\ \A s \in Subscriber : s # x => subscriber'[s] = subscriber[s]
  BY <1>1, <1>3
<1>5. LifeCycle => Published(k - 1, x) # Absent /\ Published(k, x) = e.row
  BY <1>1, <1>2, PublishedStep DEF LifeCycle
<1>6. LifeCycle => \/ subscriber'[x] = Published(k, x)
                   \/ subscriber'[x] = subscriber[x] /\ subscriber[x] # Published(k - 1, x)
  BY <1>4, <1>5
<1> QED BY <1>1, <1>3, <1>4, <1>6, RecordHandled

LEMMA DeleteInv == ASSUME SubscribersInv, Delete PROVE SubscribersInv'
<1> PICK k, x, e : k = next["subscriber"] /\ e = SubscriberTopic[k] /\ x = e.id
  OBVIOUS
<1>1. /\ k <= Len(SubscriberTopic) /\ e.type = "deleted"
      /\ subscriber' = [subscriber EXCEPT ![x] = Absent]
      /\ cascade' = e.row.wholesale
      /\ UNCHANGED <<wholesaler, next, committed, counted, failures, restarts, cacheVars>>
  BY DEF Delete, NextSubscriberEvent
<1>2. SubscribersTypeOK /\ Deleting /\ (failures = 0 /\ LifeCycle => Following)
  BY DEF SubscribersInv
<1>3. k \in 1..Len(SubscriberTopic)
  BY <1>1, <1>2, EventFacts DEF SubscribersTypeOK
<1>4. x \in Subscriber /\ e.row.wholesale \in Wholesaler
      /\ subscriber \in [Subscriber -> SubscriberRow \union {Absent}]
  BY <1>2, <1>3, RecordFact
<1>5. /\ subscriber' \in [Subscriber -> SubscriberRow \union {Absent}]
      /\ subscriber'[x] = Absent
      /\ \A s \in Subscriber : s # x => subscriber'[s] = subscriber[s]
  BY <1>1, <1>4
<1>6. SubscribersTypeOK'
  BY <1>1, <1>2, <1>4, <1>5 DEF SubscribersTypeOK, cacheVars
<1>7. Deleting'
  BY <1>1, <1>5 DEF Deleting
<1>8. ASSUME failures = 0, LifeCycle PROVE Following'
  <2>1. Published(k, x) = Absent
    BY <1>1, <1>3, PublishedStep
  <2>2. k \in k - 1..Len(SubscriberTopic)
    BY <1>3, EventFacts
  <2>3. \A s \in Subscriber : \E j \in k - 1..Len(SubscriberTopic) :
          subscriber'[s] = Published(j, s)
    BY <1>2, <1>5, <1>8, <2>1, <2>2 DEF Following
  <2> QED BY <1>1, <1>2, <1>8, <2>3 DEF Following
<1> QED BY <1>1, <1>6, <1>7, <1>8 DEF SubscribersInv

LEMMA CascadeInv == ASSUME SubscribersInv, Cascade PROVE SubscribersInv'
<1> PICK k, x, e : k = next["subscriber"] /\ e = SubscriberTopic[k] /\ x = e.id
  OBVIOUS
<1>1. SubscribersTypeOK /\ Deleting
  BY DEF SubscribersInv
<1>2. /\ cascade # Absent /\ cascade' = Absent /\ Handled("subscriber") /\ cascade \in Wholesaler
      /\ UNCHANGED <<subscriber, committed, counted, failures, restarts, cacheVars>>
  BY <1>1 DEF Cascade, SubscribersTypeOK
<1>3. k <= Len(SubscriberTopic) /\ e.type = "deleted" /\ subscriber[x] = Absent
  BY <1>1, <1>2 DEF Deleting
<1>4. k \in 1..Len(SubscriberTopic)
  BY <1>1, <1>3, EventFacts DEF SubscribersTypeOK
<1>5. Published(k, x) = Absent
  BY <1>3, <1>4, PublishedStep
<1>6. wholesaler \in [Wholesaler -> BOOLEAN \union {Absent}]
      /\ subscriber' \in [Subscriber -> SubscriberRow \union {Absent}]
  BY <1>1, <1>2 DEF SubscribersTypeOK
<1>7. PICK v : /\ wholesaler' = [wholesaler EXCEPT ![cascade] = v]
               /\ \/ v = wholesaler[cascade]
                  \/ wholesaler[cascade] = FALSE /\ v = Absent
  BY <1>6 DEF Cascade
<1>8. /\ wholesaler' \in [Wholesaler -> BOOLEAN \union {Absent}]
      /\ \A w \in Wholesaler : \/ wholesaler'[w] = wholesaler[w]
                               \/ wholesaler[w] = FALSE /\ wholesaler'[w] = Absent
  BY <1>2, <1>6, <1>7
<1>9. /\ subscriber'[x] = Published(k, x)
      /\ \A s \in Subscriber : s # x => subscriber'[s] = subscriber[s]
  BY <1>2, <1>3, <1>5
<1> QED BY <1>2, <1>3, <1>6, <1>8, <1>9, RecordHandled

LEMMA UpsertInv == ASSUME SubscribersInv, Upsert PROVE SubscribersInv'
<1> PICK k, x, e : k = next["wholesale"] /\ e = WholesaleTopic[k] /\ x = e.id
  OBVIOUS
<1>1. /\ k <= Len(WholesaleTopic) /\ e.type = "provisioned"
      /\ wholesaler' = [wholesaler EXCEPT ![x] = e.active]
      /\ Handled("wholesale")
      /\ UNCHANGED <<subscriber, committed, cascade, counted, failures, restarts, cacheVars>>
  BY DEF Upsert, NextWholesaleEvent
<1>2. SubscribersTypeOK /\ k \in 1..Len(WholesaleTopic)
  BY <1>1, HandledFact, EventFacts DEF SubscribersInv
<1>3. x \in Wholesaler /\ e.active \in BOOLEAN
      /\ wholesaler \in [Wholesaler -> BOOLEAN \union {Absent}]
      /\ counted \in Nat \union {Absent}
  BY <1>1, <1>2, ContractFact DEF SubscribersTypeOK
<1>4. /\ wholesaler' \in [Wholesaler -> BOOLEAN \union {Absent}] /\ wholesaler'[x] = e.active
      /\ \A w \in Wholesaler : w # x => wholesaler'[w] = wholesaler[w]
  BY <1>1, <1>3
<1>5. e.active \in Agreed(k, x)
  <2>1. Agreed(k, x) = IF e.active THEN {TRUE} ELSE {Absent, FALSE}
    BY <1>1, <1>2, AgreedStep
  <2> QED BY <1>3, <2>1
<1> QED BY <1>1, <1>3, <1>4, <1>5, ContractHandled

LEMMA SuspendInv == ASSUME SubscribersInv, Suspend PROVE SubscribersInv'
<1> PICK k, x, e : k = next["wholesale"] /\ e = WholesaleTopic[k] /\ x = e.id
  OBVIOUS
<1>1. /\ k <= Len(WholesaleTopic) /\ e.type = "suspend"
      /\ wholesaler' = [wholesaler EXCEPT ![x] = IF @ = Absent THEN Absent ELSE e.active]
      /\ Handled("wholesale")
      /\ UNCHANGED <<subscriber, committed, cascade, counted, failures, restarts, cacheVars>>
  BY DEF Suspend, NextWholesaleEvent
<1>2. SubscribersTypeOK /\ k \in 1..Len(WholesaleTopic)
  BY <1>1, HandledFact, EventFacts DEF SubscribersInv
<1>3. x \in Wholesaler /\ e.active \in BOOLEAN
      /\ wholesaler \in [Wholesaler -> BOOLEAN \union {Absent}]
      /\ counted \in Nat \union {Absent}
  BY <1>1, <1>2, ContractFact DEF SubscribersTypeOK
<1> PICK v : v = IF wholesaler[x] = Absent THEN Absent ELSE e.active
  OBVIOUS
<1>4. v \in {Absent, e.active} /\ v \in BOOLEAN \union {Absent}
  BY <1>3
<1>5. wholesaler' = [wholesaler EXCEPT ![x] = v]
  BY <1>1
<1>6. /\ wholesaler' \in [Wholesaler -> BOOLEAN \union {Absent}] /\ wholesaler'[x] = v
      /\ \A w \in Wholesaler : w # x => wholesaler'[w] = wholesaler[w]
  BY <1>3, <1>4, <1>5
<1>7. Agreed(k, x) = {Absent, e.active}
  BY <1>1, <1>2, AgreedStep
<1> QED BY <1>1, <1>3, <1>4, <1>6, <1>7, ContractHandled

LEMMA CountInv == ASSUME SubscribersInv, CountSubscribers PROVE SubscribersInv'
<1> DEFINE of == OfWholesaler(WholesaleTopic[next["wholesale"]].id)
<1>1. /\ counted' = Cardinality(of)
      /\ UNCHANGED <<tableVars, next, committed, cascade, failures, restarts, cacheVars>>
  BY DEF CountSubscribers
<1>2. Cardinality(of) \in Nat
  <2>1. of \subseteq Subscriber
    BY DEF OfWholesaler
  <2>2. IsFiniteSet(of)
    BY <2>1, FS_Subset, SubscribersAssumption
  <2> QED BY <2>2, FS_CardinalityType
<1> HIDE DEF of
<1>3. SubscribersTypeOK'
  BY <1>1, <1>2 DEF SubscribersInv, SubscribersTypeOK, tableVars, cacheVars
<1> QED BY <1>1, <1>3, ElsewhereKeeps DEF SubscribersInv

LEMMA DeregisterInv == ASSUME SubscribersInv, Deregister PROVE SubscribersInv'
<1> PICK k, x, e : k = next["wholesale"] /\ e = WholesaleTopic[k] /\ x = e.id
  OBVIOUS
<1> PICK v : v = IF counted = 0 \/ wholesaler[x] = Absent THEN Absent ELSE FALSE
  OBVIOUS
<1>1. /\ k <= Len(WholesaleTopic) /\ e.type = "deregistering"
      /\ wholesaler' = [wholesaler EXCEPT ![x] = v]
      /\ Handled("wholesale") /\ counted' = Absent
      /\ UNCHANGED <<subscriber, committed, cascade, failures, restarts, cacheVars>>
  BY DEF Deregister, NextWholesaleEvent
<1>2. SubscribersTypeOK /\ k \in 1..Len(WholesaleTopic)
  BY <1>1, HandledFact, EventFacts DEF SubscribersInv
<1>3. x \in Wholesaler /\ wholesaler \in [Wholesaler -> BOOLEAN \union {Absent}]
  BY <1>2, ContractFact
<1>4. v \in {Absent, FALSE} /\ v \in BOOLEAN \union {Absent}
  OBVIOUS
<1>5. /\ wholesaler' \in [Wholesaler -> BOOLEAN \union {Absent}] /\ wholesaler'[x] = v
      /\ \A w \in Wholesaler : w # x => wholesaler'[w] = wholesaler[w]
  BY <1>1, <1>3, <1>4
<1>6. Agreed(k, x) = {Absent, FALSE}
  BY <1>1, <1>2, AgreedStep
<1> QED BY <1>1, <1>4, <1>5, <1>6, ContractHandled

\* A record whose statement fails is passed over.
LEMMA FailInv == ASSUME SubscribersInv, NEW t \in Topics, Fail(t) PROVE SubscribersInv'
<1>1. /\ next[t] <= Length(t) /\ failures < MaxFailures /\ failures' = failures + 1
      /\ Handled(t)
      /\ cascade' = (IF t = "subscriber" THEN Absent ELSE cascade)
      /\ counted' = (IF t = "wholesale" THEN Absent ELSE counted)
      /\ UNCHANGED <<tableVars, committed, restarts, cacheVars>>
  BY DEF Fail
<1>2. SubscribersTypeOK /\ Deleting
  BY DEF SubscribersInv
<1>3. /\ next' \in [Topics -> Nat \ {0}]
      /\ \A u \in Topics : u # t => next'[u] = next[u]
      /\ \A u \in Topics : committed'[u] <= next'[u] /\ next'[u] <= Length(u) + 1
  BY <1>1, <1>2, HandledFact
<1>4. failures' \in 0..MaxFailures /\ failures' # 0
  BY <1>1, <1>2, SubscribersAssumption DEF SubscribersTypeOK
<1>5. SubscribersTypeOK'
  BY <1>1, <1>2, <1>3, <1>4 DEF SubscribersTypeOK, tableVars, cacheVars
<1>6. Deleting'
  <2>1. CASE t = "subscriber"
    BY <1>1, <2>1 DEF Deleting
  <2>2. CASE t # "subscriber"
    BY <1>1, <1>2, <1>3, <2>2, EventFacts DEF Deleting, tableVars
  <2> QED BY <2>1, <2>2
<1> QED BY <1>4, <1>5, <1>6 DEF SubscribersInv

LEMMA CommitInv == ASSUME SubscribersInv, NEW t \in Topics, Commit(t) PROVE SubscribersInv'
<1>1. /\ committed' = [committed EXCEPT ![t] = next[t]]
      /\ UNCHANGED <<tableVars, next, cascade, counted, failures, restarts, cacheVars>>
  BY DEF Commit
<1>2. SubscribersTypeOK'
  <2>1. /\ next \in [Topics -> Nat \ {0}] /\ committed \in [Topics -> Nat \ {0}]
        /\ \A u \in Topics : committed[u] <= next[u] /\ next[u] <= Length(u) + 1
    BY DEF SubscribersInv, SubscribersTypeOK
  <2>2. committed' \in [Topics -> Nat \ {0}]
        /\ \A u \in Topics : committed'[u] <= next[u]
    BY <1>1, <2>1
  <2> QED BY <1>1, <2>1, <2>2 DEF SubscribersInv, SubscribersTypeOK, tableVars, cacheVars
<1> QED BY <1>1, <1>2, ElsewhereKeeps DEF SubscribersInv

\* A restart goes back to records that were handled.
LEMMA RestartInv == ASSUME SubscribersInv, Restart PROVE SubscribersInv'
<1>1. /\ restarts < MaxRestarts /\ restarts' = restarts + 1
      /\ next' = committed /\ cascade' = Absent /\ counted' = Absent
      /\ tenants' = {w \in Wholesaler : wholesaler[w] = TRUE}
      /\ UNCHANGED <<tableVars, committed, failures, cache, lookup>>
  BY DEF Restart
<1>2. SubscribersTypeOK /\ (failures = 0 /\ LifeCycle => Following)
  BY DEF SubscribersInv
<1>3. /\ next \in [Topics -> Nat \ {0}] /\ committed \in [Topics -> Nat \ {0}]
      /\ \A u \in Topics : committed[u] <= next[u] /\ next[u] <= Length(u) + 1
      /\ \A u \in Topics : Length(u) \in Nat
  BY <1>2, EventFacts DEF SubscribersTypeOK
<1>4. SubscribersTypeOK'
  <2>1. \A u \in Topics : committed[u] <= Length(u) + 1
    BY <1>3
  <2>2. restarts' \in 0..MaxRestarts
    BY <1>1, <1>2, SubscribersAssumption DEF SubscribersTypeOK
  <2>3. tenants' \in SUBSET Wholesaler
    BY <1>1
  <2> QED BY <1>1, <1>2, <1>3, <2>1, <2>2, <2>3 DEF SubscribersTypeOK, tableVars
<1>5. Deleting'
  BY <1>1 DEF Deleting
<1>6. ASSUME failures = 0, LifeCycle PROVE Following'
  <2>1. \A n \in Nat, u \in Topics : \A j \in next[u] - 1..n : j \in next'[u] - 1..n
    BY <1>1, <1>3
  <2>2. ASSUME NEW s \in Subscriber
        PROVE  \E j \in next'["subscriber"] - 1..Len(SubscriberTopic) :
                 subscriber'[s] = Published(j, s)
    BY <1>1, <1>2, <1>6, <2>1, EventFacts DEF Following, tableVars
  <2>3. ASSUME NEW w \in Wholesaler
        PROVE  \E j \in next'["wholesale"] - 1..Len(WholesaleTopic) :
                 /\ wholesaler'[w] \in Agreed(j, w)
                 /\ FALSE \in Agreed(j, w) => Absent \in Agreed(j, w)
    <3>1. PICK j \in next["wholesale"] - 1..Len(WholesaleTopic) :
            wholesaler[w] \in Agreed(j, w) /\ (FALSE \in Agreed(j, w) => Absent \in Agreed(j, w))
      BY <1>2, <1>6 DEF Following
    <3> QED BY <1>1, <2>1, <3>1, EventFacts DEF tableVars
  <2> QED BY <2>2, <2>3 DEF Following
<1> QED BY <1>1, <1>4, <1>5, <1>6 DEF SubscribersInv

\* The caches read the tables.
LEMMA CachesInv ==
  ASSUME SubscribersInv,
         \/ \E q \in Lookup : Store(q) \/ \E m \in Msisdn : Load(q, m)
         \/ ClearCache \/ Refresh
  PROVE  SubscribersInv'
<1> DEFINE StoredRow == SubscriberRow \union {Absent}
           Answers == [msisdn : Msisdn, found : StoredRow] \union {Absent}
<1>1. UNCHANGED <<tableVars, readerVars>>
  BY DEF Store, Load, ClearCache, Refresh
<1>2. /\ cache \in [Msisdn -> StoredRow] /\ lookup \in [Lookup -> Answers] /\ tenants \in SUBSET Wholesaler
      /\ subscriber \in [Subscriber -> StoredRow]
  BY DEF SubscribersInv, SubscribersTypeOK
<1>3. cache' \in [Msisdn -> StoredRow] /\ lookup' \in [Lookup -> Answers] /\ tenants' \in SUBSET Wholesaler
  <2>1. ASSUME NEW q \in Lookup, Store(q)
        PROVE  cache' \in [Msisdn -> StoredRow] /\ lookup' \in [Lookup -> Answers] /\ tenants' = tenants
    <3>1. /\ lookup[q] # Absent /\ tenants' = tenants
          /\ cache' = [cache EXCEPT ![lookup[q].msisdn] = lookup[q].found]
          /\ lookup' = [lookup EXCEPT ![q] = Absent]
      BY <2>1 DEF Store
    <3>2. lookup[q].found \in StoredRow
      BY <1>2, <3>1
    <3> QED BY <1>2, <3>1, <3>2
  <2>2. ASSUME NEW q \in Lookup, NEW m \in Msisdn, Load(q, m)
        PROVE  cache' = cache /\ lookup' \in [Lookup -> Answers] /\ tenants' = tenants
    <3>1. PICK s \in Subscriber :
            /\ lookup' = [lookup EXCEPT ![q] = [msisdn |-> m, found |-> subscriber[s]]]
            /\ cache' = cache /\ tenants' = tenants
      BY <2>2 DEF Load, Joined
    <3>2. [msisdn |-> m, found |-> subscriber[s]] \in Answers
      BY <1>2
    <3> QED BY <1>2, <3>1, <3>2
  <2>3. CASE ClearCache
    BY <1>2, <2>3 DEF ClearCache
  <2>4. CASE Refresh
    BY <1>2, <2>4 DEF Refresh
  <2> QED BY <1>2, <2>1, <2>2, <2>3, <2>4
<1>4. SubscribersTypeOK'
  BY <1>1, <1>3 DEF SubscribersInv, SubscribersTypeOK, tableVars, readerVars
<1> QED BY <1>1, <1>4, ElsewhereKeeps DEF SubscribersInv, readerVars

LEMMA NextSubscribersInv ==
  SubscribersInv /\ [SubscribersNext]_subscriberVars => SubscribersInv'
<1> SUFFICES ASSUME SubscribersInv, [SubscribersNext]_subscriberVars PROVE SubscribersInv'
  OBVIOUS
<1>1. CASE HandleSubscriberRecord
  BY <1>1, InsertInv, UpdateInv, DeleteInv, CascadeInv DEF HandleSubscriberRecord
<1>2. CASE HandleWholesaleRecord
  BY <1>2, UpsertInv, SuspendInv, CountInv, DeregisterInv DEF HandleWholesaleRecord
<1>3. ASSUME NEW t \in Topics, Fail(t) \/ Commit(t) PROVE SubscribersInv'
  BY <1>3, FailInv, CommitInv
<1>4. CASE Restart
  BY <1>4, RestartInv
<1>5. CASE \/ \E q \in Lookup : Store(q) \/ \E m \in Msisdn : Load(q, m)
           \/ ClearCache \/ Refresh
  BY <1>5, CachesInv
<1>6. CASE UNCHANGED subscriberVars
  <2>1. SubscribersTypeOK'
    BY <1>6 DEF subscriberVars, tableVars, readerVars, cacheVars, SubscribersInv,
                SubscribersTypeOK
  <2> QED BY <1>6, <2>1, ElsewhereKeeps DEF subscriberVars, readerVars, SubscribersInv
<1> QED BY <1>1, <1>2, <1>3, <1>4, <1>5, <1>6 DEF SubscribersNext

LEMMA SubscribersInvariant == SubscribersSpec => []SubscribersInv
BY InitSubscribersInv, NextSubscribersInv, PTL DEF SubscribersSpec

\* The tables, the positions in the topics and the caches have their types: a restart
\* never resumes behind the record in hand (subscriber_consumer.go,
\* wholesale_consumer.go).
THEOREM SubscribersTypeCorrect == SubscribersSpec => []SubscribersTypeOK
<1>1. SubscribersInv => SubscribersTypeOK
  BY DEF SubscribersInv
<1> QED BY <1>1, SubscribersInvariant, PTL

\* Both consumers bring the tables to what the topics end with, for all topics that
\* create a subscriber before they change it, and any number of restarts (run of both
\* consumers, subscriber_storer.go).
THEOREM TablesFollow ==
  ASSUME LifeCycle PROVE SubscribersSpec => []TablesFollowTopics
<1>1. SubscribersInv => TablesFollowTopics
  <2> SUFFICES ASSUME SubscribersInv, CaughtUp, failures = 0
               PROVE  /\ \A s \in Subscriber :
                           subscriber[s] = Published(Len(SubscriberTopic), s)
                      /\ \A w \in Wholesaler :
                           wholesaler[w] \in Agreed(Len(WholesaleTopic), w)
    BY DEF TablesFollowTopics
  <2>1. next["subscriber"] = Len(SubscriberTopic) + 1
        /\ next["wholesale"] = Len(WholesaleTopic) + 1
    BY EventFacts DEF CaughtUp
  <2>2. \A n \in Nat : \A j \in (n + 1) - 1..n : j = n
    OBVIOUS
  <2> QED BY <2>1, <2>2, EventFacts DEF SubscribersInv, Following
<1> QED BY <1>1, SubscribersInvariant, PTL
===============================================================================
