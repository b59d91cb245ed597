---------------------------- MODULE Housekeeping ----------------------------
(***************************************************************************)
(* The housekeeping job: four tasks one after the other, each of which may *)
(* fail without keeping the others from their turn; the first calls the    *)
(* quota manager once for every subscriber with an expired quota.  What a  *)
(* task does to its tables is in QuotaStore, ChargingSession and RatePlans.*)
(***************************************************************************)
EXTENDS Integers

CONSTANTS
  Expired,     \* the subscribers with an expired quota
  NotYet       \* no list read, no exit code

ASSUME HousekeepingAssumption ==
  /\ {"list", "sessions", "traces", "plans"} \intersect Expired = {}
  /\ NotYet \notin {0, 1} /\ \A S \in SUBSET Expired : NotYet # S

VARIABLES
  task,        \* the task in hand, 5 when all had their turn
  toExpire,    \* subscribers the first task has yet to call for
  expired,     \* those it called for without an error
  lastError,   \* whether the first task has met an error
  runError,    \* whether a task has failed
  exitCode,    \* what the job answers
  failed       \* history: the calls that failed

housekeepingVars == <<task, toExpire, expired, lastError, runError, exitCode, failed>>

LaterTasks == {"sessions", "traces", "plans"}

TaskAt == <<"quotas", "sessions", "traces", "plans">>

HousekeepingInit ==
  /\ task = 1 /\ toExpire = NotYet /\ expired = {}
  /\ lastError = FALSE /\ runError = FALSE /\ exitCode = NotYet
  /\ failed = {}

FindExpired ==
  /\ task = 1 /\ toExpire = NotYet
  /\ \/ toExpire' = Expired /\ UNCHANGED <<lastError, failed>>
     \/ toExpire' = {} /\ lastError' = TRUE /\ failed' = {"list"}
  /\ UNCHANGED <<task, expired, runError, exitCode>>

\* Mutant: the error of one subscriber is that of the last.
ExpireForgetful(s) ==
  /\ task = 1 /\ toExpire # NotYet /\ s \in toExpire
  /\ toExpire' = toExpire \ {s}
  /\ \/ expired' = expired \union {s} /\ lastError' = FALSE /\ UNCHANGED failed
     \/ lastError' = TRUE /\ failed' = failed \union {s} /\ UNCHANGED expired
  /\ UNCHANGED <<task, runError, exitCode>>

ExpireSubscriber(s) ==
  /\ task = 1 /\ toExpire # NotYet /\ s \in toExpire
  /\ toExpire' = toExpire \ {s}
  /\ \/ expired' = expired \union {s} /\ UNCHANGED <<lastError, failed>>
     \/ lastError' = TRUE /\ failed' = failed \union {s} /\ UNCHANGED expired
  /\ UNCHANGED <<task, runError, exitCode>>

QuotasDone ==
  /\ task = 1 /\ toExpire = {}
  /\ runError' = lastError
  /\ task' = 2
  /\ UNCHANGED <<toExpire, expired, lastError, exitCode, failed>>

RunTask ==
  /\ task \in 2..4
  /\ \/ UNCHANGED <<runError, failed>>
     \/ runError' = TRUE /\ failed' = failed \union {TaskAt[task]}
  /\ task' = task + 1
  /\ UNCHANGED <<toExpire, expired, lastError, exitCode>>

Exit ==
  /\ task = 5 /\ exitCode = NotYet
  /\ exitCode' = IF runError THEN 1 ELSE 0
  /\ UNCHANGED <<task, toExpire, expired, lastError, runError, failed>>

HousekeepingNext ==
  FindExpired \/ (\E s \in Expired : ExpireSubscriber(s)) \/ QuotasDone \/ RunTask \/ Exit

HousekeepingSpec == HousekeepingInit /\ [][HousekeepingNext]_housekeepingVars

\* The exit code tells of every failure, and a failure keeps nothing else from
\* being done (run, ExpireQuotas).
ExitTellsAll ==
  exitCode # NotYet =>
    /\ exitCode = 0 <=> failed = {}
    /\ "list" \notin failed => Expired \ failed = expired
==============================================================================
