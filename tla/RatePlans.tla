----------------------------- MODULE RatePlans -----------------------------
(***************************************************************************)
(* The rateplan table: its versions go from DRAFT over PENDING to ACTIVE by*)
(* the calls of RatePlanService, which name a plan and act on every version*)
(* of it that has the status they expect; the housekeeping job lists the   *)
(* superseded versions and deletes them one by one; the charging engine    *)
(* reloads the versions in force from time to time.  A call that finds no  *)
(* row answers an error and changes nothing: it is no step.  Of a document *)
(* only its rate lines are kept: the engine reads nothing else of it.      *)
(***************************************************************************)
EXTENDS Integers

CONSTANTS
  Plan,          \* plan ids
  PlanType,      \* the types of plans, numbered as their names are ordered
  Lines,         \* sets of rate lines an editor may enter
  Editor,        \* calls that read a version before they write
  Job,           \* runs of the housekeeping job
  NoVersion,     \* no row, nothing cached, nothing read
  Retention,     \* age at which a superseded version may go
  MaxVersions,   \* bound on the versions ever created
  MaxClock       \* bound on the clock

ASSUME RatePlansAssumption ==
  /\ {Retention, MaxVersions, MaxClock} \subseteq Nat
  /\ PlanType \subseteq Nat
  /\ Plan # {} /\ Lines # {} /\ PlanType # {}

Version == 1..MaxVersions

Moment == 0..MaxClock

RatePlanRow ==
  [plan : Plan, type : PlanType, status : {"DRAFT", "PENDING", "ACTIVE"},
   effective : Moment, lines : Lines]

ASSUME NoVersionAssumption == NoVersion \notin RatePlanRow \union [plan : Plan]

VARIABLES
  rateplan,     \* the table, by version id
  issued,       \* the last version id given out
  editing,      \* [Editor -> the row read by a call that has yet to write]
  superseded,   \* [Job -> the listed versions it has yet to delete]
  ratePlans,    \* the engine's plans: [Plan -> version and lines]
  clock,        \* the clock of database and processes
  approved      \* history: the contents that were approved

planVars == <<rateplan, issued, editing, superseded, ratePlans, clock, approved>>

LoadedPlan == [version : Version, effective : Moment, lines : Lines]

Edit == [kind : {"rules"}, plan : Plan, lines : Lines]
          \union [kind : {"clone"}, source : RatePlanRow]

RatePlansTypeOK ==
  /\ issued \in 0..MaxVersions
  /\ rateplan \in [Version -> RatePlanRow \union {NoVersion}]
  /\ \A v \in Version : v > issued => rateplan[v] = NoVersion
  /\ editing \in [Editor -> Edit \union {NoVersion}]
  /\ superseded \in [Job -> SUBSET Version]
  /\ ratePlans \in [Plan -> LoadedPlan \union {NoVersion}]
  /\ clock \in Moment
  /\ approved \in SUBSET [plan : Plan, effective : Moment, lines : Lines]

RatePlansInit ==
  /\ rateplan = [v \in Version |-> NoVersion]
  /\ issued = 0
  /\ editing = [e \in Editor |-> NoVersion]
  /\ superseded = [j \in Job |-> {}]
  /\ ratePlans = [p \in Plan |-> NoVersion]
  /\ clock = 0
  /\ approved = {}

Is(v, p, status) ==
  /\ rateplan[v] # NoVersion
  /\ rateplan[v].plan = p /\ rateplan[v].status = status

Versions(p) == {v \in Version : rateplan[v] # NoVersion /\ rateplan[v].plan = p}

(***************************************************************************)
(* RatePlanService.                                                        *)
(***************************************************************************)
\* Mutant: the next version gets the same id.
InsertedAgain(row) ==
  /\ issued < MaxVersions
  /\ UNCHANGED issued
  /\ rateplan' = [rateplan EXCEPT ![issued + 1] = row]

Inserted(row) ==
  /\ issued < MaxVersions
  /\ issued' = issued + 1
  /\ rateplan' = [rateplan EXCEPT ![issued + 1] = row]

\* CreateRatePlan: the plan id is new.
Create(p, type, effective, lines) ==
  /\ Versions(p) = {}
  /\ Inserted([plan |-> p, type |-> type, status |-> "DRAFT", effective |-> effective,
               lines |-> lines])
  /\ UNCHANGED <<editing, superseded, ratePlans, clock, approved>>

\* An update takes every version of the plan that has the status.
Moved(p, status, result) ==
  /\ \E v \in Version : Is(v, p, status)
  /\ rateplan' = [v \in Version |-> IF Is(v, p, status)
                    THEN [rateplan[v] EXCEPT !.status = result] ELSE rateplan[v]]

\* UpdateRatePlan: the type of a plan may change from version to version.
ChangeDraft(p, type, effective, lines) ==
  /\ \E v \in Version : Is(v, p, "DRAFT")
  /\ rateplan' = [v \in Version |-> IF Is(v, p, "DRAFT")
       THEN [rateplan[v] EXCEPT !.type = type, !.effective = effective, !.lines = lines]
       ELSE rateplan[v]]
  /\ UNCHANGED <<issued, editing, superseded, ratePlans, clock, approved>>

\* FindLatestRatePlanByPlanId: by effective_at, then by id, descending.
Latest(p) ==
  {v \in Versions(p) : \A u \in Versions(p) :
     \/ rateplan[u].effective < rateplan[v].effective
     \/ rateplan[u].effective = rateplan[v].effective /\ u <= v}

\* UpdateRatePlanRules reads the latest version, which must be a draft ...
ReadForRules(e, p, lines) ==
  /\ editing[e] = NoVersion
  /\ \E v \in Latest(p) : rateplan[v].status = "DRAFT"
  /\ editing' = [editing EXCEPT ![e] = [kind |-> "rules", plan |-> p, lines |-> lines]]
  /\ UNCHANGED <<rateplan, issued, superseded, ratePlans, clock, approved>>

\* ... and writes the drafts there are by then.
WriteRules(e) ==
  /\ editing[e] # NoVersion /\ editing[e].kind = "rules"
  /\ rateplan' = [v \in Version |->
       IF Is(v, editing[e].plan, "DRAFT")
       THEN [rateplan[v] EXCEPT !.lines = editing[e].lines] ELSE rateplan[v]]
  /\ editing' = [editing EXCEPT ![e] = NoVersion]
  /\ UNCHANGED <<issued, superseded, ratePlans, clock, approved>>

\* CloneRatePlan copies the latest version, whatever its status ...
ReadForClone(e, p) ==
  /\ editing[e] = NoVersion
  /\ \E v \in Latest(p) :
       editing' = [editing EXCEPT ![e] = [kind |-> "clone", source |-> rateplan[v]]]
  /\ UNCHANGED <<rateplan, issued, superseded, ratePlans, clock, approved>>

\* ... into a new draft beside the drafts there may be.
WriteClone(e) ==
  /\ editing[e] # NoVersion /\ editing[e].kind = "clone"
  /\ Inserted([editing[e].source EXCEPT !.status = "DRAFT"])
  /\ editing' = [editing EXCEPT ![e] = NoVersion]
  /\ UNCHANGED <<superseded, ratePlans, clock, approved>>

Submit(p) ==
  /\ Moved(p, "DRAFT", "PENDING")
  /\ UNCHANGED <<issued, editing, superseded, ratePlans, clock, approved>>

Approve(p) ==
  /\ Moved(p, "PENDING", "ACTIVE")
  /\ approved' = approved \union
       {[plan |-> p, effective |-> rateplan[v].effective, lines |-> rateplan[v].lines] :
          v \in {v \in Version : Is(v, p, "PENDING")}}
  /\ UNCHANGED <<issued, editing, superseded, ratePlans, clock>>

Decline(p) ==
  /\ Moved(p, "PENDING", "DRAFT")
  /\ UNCHANGED <<issued, editing, superseded, ratePlans, clock, approved>>

DeleteDraft(p) ==
  /\ \E v \in Version : Is(v, p, "DRAFT")
  /\ rateplan' = [v \in Version |-> IF Is(v, p, "DRAFT") THEN NoVersion ELSE rateplan[v]]
  /\ UNCHANGED <<issued, editing, superseded, ratePlans, clock, approved>>

(***************************************************************************)
(* The housekeeping job.                                                   *)
(***************************************************************************)
IsActive(v) == rateplan[v] # NoVersion /\ rateplan[v].status = "ACTIVE"

\* An active version of the same plan with a later effective_at.
Newer(u, v) ==
  /\ IsActive(u)
  /\ rateplan[u].plan = rateplan[v].plan
  /\ rateplan[u].effective > rateplan[v].effective

\* Mutant: old versions, replaced or not.
SupersededAlone ==
  {v \in Version : IsActive(v) /\ rateplan[v].effective < clock - Retention}

Superseded ==
  {v \in Version : /\ IsActive(v)
                   /\ rateplan[v].effective < clock - Retention
                   /\ \E u \in Version : Newer(u, v)}

List(j) ==
  /\ superseded[j] = {}
  /\ Superseded # {}
  /\ superseded' = [superseded EXCEPT ![j] = Superseded]
  /\ UNCHANGED <<rateplan, issued, editing, ratePlans, clock, approved>>

\* The list is ordered by effective_at: of a plan's versions that are left the
\* oldest goes next.
DeleteListed(j) ==
  /\ \E v \in superseded[j] :
       /\ \A u \in superseded[j] : IsActive(u) => ~Newer(v, u)
       /\ rateplan' = [rateplan EXCEPT ![v] = IF IsActive(v) THEN NoVersion ELSE @]
       /\ superseded' = [superseded EXCEPT ![j] = @ \ {v}]
  /\ UNCHANGED <<issued, editing, ratePlans, clock, approved>>

\* A statement fails, or the job dies: it stops at the first error.
StopCleanup(j) ==
  /\ superseded[j] # {}
  /\ superseded' = [superseded EXCEPT ![j] = {}]
  /\ UNCHANGED <<rateplan, issued, editing, ratePlans, clock, approved>>

(***************************************************************************)
(* The charging engine, and the clock.                                     *)
(***************************************************************************)
\* Mutant: versions that were never approved.
InForceUnapproved(p) == {v \in Versions(p) : rateplan[v].effective < clock}

\* FindActiveRatePlans.
InForce(p) == {v \in Version : Is(v, p, "ACTIVE") /\ rateplan[v].effective < clock}

\* The loader keeps the first row of each plan.  The rows come by type, then by
\* effective_at descending, and those of one type and date in any order.
Leading(p) ==
  {v \in InForce(p) : \A u \in InForce(p) :
     \/ rateplan[v].type < rateplan[u].type
     \/ rateplan[v].type = rateplan[u].type /\ ~Newer(u, v)}

Reload ==
  /\ \E first \in [Plan -> Version] :
       /\ \A p \in Plan : InForce(p) # {} => first[p] \in Leading(p)
       /\ ratePlans' = [p \in Plan |->
            IF InForce(p) = {} THEN NoVersion
            ELSE [version |-> first[p], effective |-> rateplan[first[p]].effective,
                  lines |-> rateplan[first[p]].lines]]
  /\ UNCHANGED <<rateplan, issued, editing, superseded, clock, approved>>

Tick ==
  /\ clock < MaxClock
  /\ clock' = clock + 1
  /\ UNCHANGED <<rateplan, issued, editing, superseded, ratePlans, approved>>

Edited ==
  \/ \E p \in Plan :
       \/ \E type \in PlanType, effective \in Moment, lines \in Lines :
            Create(p, type, effective, lines) \/ ChangeDraft(p, type, effective, lines)
       \/ Submit(p) \/ Approve(p) \/ Decline(p) \/ DeleteDraft(p)
       \/ \E e \in Editor : \/ ReadForClone(e, p)
                           \/ \E lines \in Lines : ReadForRules(e, p, lines)
  \/ \E e \in Editor : WriteRules(e) \/ WriteClone(e)

RatePlansNext ==
  \/ Edited
  \/ \E j \in Job : List(j) \/ DeleteListed(j) \/ StopCleanup(j)
  \/ Reload
  \/ Tick

RatePlansSpec == RatePlansInit /\ [][RatePlansNext]_planVars

(***************************************************************************)
(* Properties.                                                             *)
(***************************************************************************)
\* An active version is deleted or stays as it was approved.
Frozen ==
  \A v \in Version : IsActive(v) => rateplan'[v] \in {rateplan[v], NoVersion}

\* A plan that has an active version keeps one.
StillActive ==
  \A p \in Plan : (\E v \in Version : Is(v, p, "ACTIVE"))
    => \E v \in Version : Is(v, p, "ACTIVE")'

\* What was approved stands: no call of an editor reaches a version that is
\* active (every update of rateplan_service.go names the status it expects), and
\* the clean-up, also two at a time and against late approvals, leaves a plan
\* one: the last of them is never on a list (ListSupersededRatePlanVersions,
\* CleanupSupersededRatePlans).
ActivePlanStays == [][Frozen /\ StillActive]_planVars

\* The engine charges by approved lines only, and not before their time
\* (FindActiveRatePlans and the loader of RatePlanContainer).
ChargedAsApproved ==
  \A p \in Plan : ratePlans[p] # NoVersion =>
    /\ [plan |-> p, effective |-> ratePlans[p].effective,
         lines |-> ratePlans[p].lines] \in approved
    /\ ratePlans[p].effective < clock
==============================================================================
