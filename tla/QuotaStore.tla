----------------------------- MODULE QuotaStore -----------------------------
(***************************************************************************)
(* How the quota manager carries out its calls (executeWithQuota): requests*)
(* run side by side in several processes, each loads the subscriber's row, *)
(* changes its own copy, publishes journal entries while doing so, saves   *)
(* under an optimistic lock on last_modified, and publishes the expiry     *)
(* entries.  All calls of one request carry the clock reading the request  *)
(* started with, and that reading is also the version the save writes.     *)
(* Release reads the clock itself: each is a request of its own here.      *)
(***************************************************************************)
EXTENDS QuotaDocument, Sequences

CONSTANTS
  NumRequests,  \* charging requests, events and housekeeping visits
  Program,      \* [Request -> the calls it makes on the quota, in order]
  Follows,      \* [Request -> the requests that end before it starts]
  NumRows,      \* bound on the rows of the quota table
  RetryLimit,   \* retryLimit of the manager
  MaxTime,      \* bound on the clock
  MaxUnits,     \* bound on the units of one call
  MaxCrashes    \* bound on the requests that die half way

Request == 1..NumRequests

Row == 1..NumRows

\* The calls of the manager: ReserveQuota, Debit, Release,
\* ProvisionCounter and ProcessExpiredQuota.
QuotaCall ==
  [kind : {"reserve"}, ref : Ref, units : 0..MaxUnits]
    \union [kind : {"debit"}, ref : Ref, units : 1..MaxUnits, reclaim : BOOLEAN]
    \union [kind : {"release"}, ref : Ref]
    \union [kind : {"provision"}, counter : Counter]
    \union [kind : {"expire"}]

ASSUME RequestAssumption ==
  /\ {NumRequests, NumRows, RetryLimit, MaxTime, MaxUnits, MaxCrashes} \subseteq Nat
  /\ RetryLimit > 0
  /\ Program \in [Request -> Seq(QuotaCall)]
  /\ \A q \in Request :
       /\ Len(Program[q]) > 0
       /\ \A i \in 1..Len(Program[q]) :
            Program[q][i].kind = "release" => Len(Program[q]) = 1
  /\ Follows \in [Request -> SUBSET Request]

VARIABLES
  rows,       \* the quota table: rows of this subscriber
  now,        \* the clock
  pc,         \* [Request -> where it is]
  step,       \* [Request -> index of its current call]
  at,         \* [Request -> the clock reading it carries]
  work,       \* [Request -> row and version it loaded, and the call it made]
  tries,      \* [Request -> failed attempts of the current call]
  topic,      \* the quota-journal topic, added up
  crashes,    \* requests that died so far
  settled,    \* history: the journal of the calls that were saved
  drawn,      \* history: grant ids whose reservation was saved
  delivered   \* history: provisioning calls that were saved

vars == <<rows, now, pc, step, at, work, tries, topic, crashes, settled, drawn,
          delivered>>

history == <<settled, drawn, delivered>>

NoRow == [there |-> FALSE, doc |-> EmptyDocument, version |-> 0]

NoCall == [doc |-> EmptyDocument, early |-> NoEntries,
           late |-> [c \in Counter |-> 0], answer |-> 0]

NoWork == [row |-> 0, version |-> 0, call |-> NoCall]

\* What a call makes of a document.
Outcome(op, doc, t) ==
  CASE op.kind = "reserve"   -> ReserveCall(doc, op.ref, op.units, t)
    [] op.kind = "debit"     -> DebitCall(doc, op.ref, op.units, op.reclaim, t)
    [] op.kind = "release"   -> ReleaseCall(doc, op.ref, t)
    [] op.kind = "provision" -> ProvisionCall(doc, op.counter, t)
    [] op.kind = "expire"    -> ExpireCall(doc, t)

Init ==
  /\ rows = [i \in Row |-> NoRow]
  /\ now = 0
  /\ pc = [q \in Request |-> "idle"]
  /\ step = [q \in Request |-> 1]
  /\ at = [q \in Request |-> 0]
  /\ work = [q \in Request |-> NoWork]
  /\ tries = [q \in Request |-> 0]
  /\ topic = EmptyJournal
  /\ crashes = 0
  /\ settled = EmptyJournal
  /\ drawn = {}
  /\ delivered = [c \in Counter |-> 0]

Call0(q) == Program[q][step[q]]

Goto(q, place) == pc' = [pc EXCEPT ![q] = place]

\* The grants a request debits or releases were answered to it before.
Needs(q) ==
  {Program[q][i].ref : i \in {j \in 1..Len(Program[q]) :
                               Program[q][j].kind \in {"debit", "release"}}}

Ended == {"done", "conflict", "crashed"}

\* A request starts and reads the clock; no two read the same instant.
Begin(q) ==
  /\ pc[q] = "idle"
  /\ Needs(q) \subseteq drawn
  /\ \A p \in Follows[q] : pc[p] \in Ended
  /\ now < MaxTime
  /\ now' = now + 1
  /\ at' = [at EXCEPT ![q] = now']
  /\ Goto(q, "load")
  /\ UNCHANGED <<rows, step, work, tries, topic, crashes, history>>

\* Mutant: the expiry entries are published before the save.
OperatePublishing(q, i, doc, version) ==
  /\ work' = [work EXCEPT
                ![q] = [row |-> i, version |-> version,
                        call |-> Outcome(Call0(q), doc, at[q])]]
  /\ topic' = LET call == Outcome(Call0(q), doc, at[q])
              IN  PostLate(PostEarly(topic, call.early), call.late)
  /\ Goto(q, "save")
  /\ UNCHANGED <<step, at, tries, crashes, history>>

\* The operation runs on the copy just loaded and publishes as it goes.
Operate(q, i, doc, version) ==
  /\ work' = [work EXCEPT
                ![q] = [row |-> i, version |-> version,
                        call |-> Outcome(Call0(q), doc, at[q])]]
  /\ topic' = PostEarly(topic, Outcome(Call0(q), doc, at[q]).early)
  /\ Goto(q, "save")
  /\ UNCHANGED <<step, at, tries, crashes, history>>

\* Of several rows of a subscriber the query returns any one.
Load(q) ==
  /\ pc[q] = "load"
  /\ \E i \in Row :
       /\ rows[i].there
       /\ Operate(q, i, rows[i].doc, rows[i].version)
  /\ UNCHANGED <<rows, now>>

LoadNothing(q) ==
  /\ pc[q] = "load"
  /\ \A i \in Row : ~rows[i].there
  /\ Goto(q, "create")
  /\ UNCHANGED <<rows, now, step, at, work, tries, topic, crashes, history>>

\* No constraint keeps a second row of the subscriber out.
Create(q) ==
  /\ pc[q] = "create"
  /\ now < MaxTime
  /\ now' = now + 1
  /\ \E i \in Row :
       /\ ~rows[i].there
       /\ \A j \in 1..(i - 1) : rows[j].there
       /\ rows' = [rows EXCEPT ![i] = [there |-> TRUE, doc |-> EmptyDocument,
                                       version |-> now']]
       /\ Operate(q, i, EmptyDocument, now')

\* Mutant: the update does not compare the version.
UnchangedUnchecked(q) == TRUE

Unchanged(q) == rows[work[q].row].version = work[q].version

\* The update finds the version it loaded.
Save(q) ==
  /\ pc[q] = "save"
  /\ Unchanged(q)
  /\ rows' = [rows EXCEPT ![work[q].row] =
                [there |-> TRUE, doc |-> work[q].call.doc, version |-> at[q]]]
  /\ settled' = PostLate(PostEarly(settled, work[q].call.early), work[q].call.late)
  /\ drawn' = IF Call0(q).kind = "reserve" THEN drawn \union {Call0(q).ref} ELSE drawn
  /\ delivered' = IF Call0(q).kind = "provision"
                    THEN [delivered EXCEPT ![Call0(q).counter] = @ + 1]
                    ELSE delivered
  /\ Goto(q, "publish")
  /\ UNCHANGED <<now, step, at, work, tries, topic, crashes>>

\* The error Save returns when the version has moved on.
LockError == "PessimisticLockError"

Retriable(error) == error = "ErrConflict"

SaveConflict(q) ==
  /\ pc[q] = "save"
  /\ ~Unchanged(q)
  /\ tries' = [tries EXCEPT ![q] = @ + 1]
  /\ Goto(q, IF Retriable(LockError) /\ tries'[q] < RetryLimit
               THEN "load" ELSE "conflict")
  /\ work' = [work EXCEPT ![q] = NoWork]
  /\ UNCHANGED <<rows, now, step, at, topic, crashes, history>>

\* Mutant: one call too many.
PublishOffByOne(q) ==
  /\ pc[q] = "publish"
  /\ topic' = PostLate(topic, work[q].call.late)
  /\ work' = [work EXCEPT ![q] = NoWork]
  /\ tries' = [tries EXCEPT ![q] = 0]
  /\ IF step[q] <= Len(Program[q])
       THEN step' = [step EXCEPT ![q] = @ + 1] /\ Goto(q, "load")
       ELSE step' = step /\ Goto(q, "done")
  /\ UNCHANGED <<rows, now, at, crashes, history>>

\* The save is done: publish the expiry entries, go on with the next call.
Publish(q) ==
  /\ pc[q] = "publish"
  /\ topic' = PostLate(topic, work[q].call.late)
  /\ work' = [work EXCEPT ![q] = NoWork]
  /\ tries' = [tries EXCEPT ![q] = 0]
  /\ IF step[q] < Len(Program[q])
       THEN step' = [step EXCEPT ![q] = @ + 1] /\ Goto(q, "load")
       ELSE step' = step /\ Goto(q, "done")
  /\ UNCHANGED <<rows, now, at, crashes, history>>

\* The process dies, or the database does not answer.
Crash(q) ==
  /\ pc[q] \in {"load", "create", "save", "publish"}
  /\ crashes < MaxCrashes
  /\ crashes' = crashes + 1
  /\ work' = [work EXCEPT ![q] = NoWork]
  /\ Goto(q, "crashed")
  /\ UNCHANGED <<rows, now, step, at, tries, topic, history>>

Next ==
  \E q \in Request :
    \/ Begin(q)
    \/ Load(q)
    \/ LoadNothing(q)
    \/ Create(q)
    \/ Save(q)
    \/ SaveConflict(q)
    \/ Publish(q)
    \/ Crash(q)

Spec == Init /\ [][Next]_vars

-----------------------------------------------------------------------------
Outcomes ==
  [doc : Document, early : [Counter -> Early], late : [Counter -> Nat], answer : Int]

StoreTypeOK ==
  /\ rows \in [Row -> [there : BOOLEAN, doc : Document, version : 0..MaxTime]]
  /\ now \in 0..MaxTime
  /\ pc \in [Request -> {"idle", "load", "create", "save", "publish"} \union Ended]
  /\ \A q \in Request : step[q] \in 1..Len(Program[q])
  /\ at \in [Request -> 0..MaxTime]
  /\ work \in [Request -> [row : 0..NumRows, version : 0..MaxTime, call : Outcomes]]
  /\ tries \in [Request -> 0..RetryLimit]
  /\ topic \in [Counter -> Totals] /\ settled \in [Counter -> Totals]
  /\ crashes \in 0..MaxCrashes
  /\ drawn \in SUBSET Ref
  /\ delivered \in [Counter -> Nat]

\* The calls that were saved are the calls of the ledger: whatever the
\* interleaving, every save is one atomic call on the document it replaces.
Ledger ==
  INSTANCE QuotaLedger WITH
    quota <- rows[1].doc, journal <- settled, deliveries <- delivered,
    Lag <- MaxTime, MaxDeliveries <- NumRequests

ImplementsLedger == Ledger!Spec

\* When it does: the subscriber has one row, and a request makes one call, so
\* that the version a save writes is its own.
SingleCalls == NumRows = 1 /\ \A q \in Request : Len(Program[q]) = 1

\* ReserveQuota is given a grant id nobody else draws (uuid.New).
GrantsDrawnOnce ==
  \A p, q \in Request :
    \A i \in 1..Len(Program[p]), j \in 1..Len(Program[q]) :
      /\ Program[p][i].kind = "reserve" /\ Program[q][j].kind = "reserve"
      /\ Program[p][i].ref = Program[q][j].ref
      => p = q /\ i = j

\* Expiry entries are published after the save that wrote the balance off, and
\* once (publishExpiryJournals), whichever of the racing requests wrote it off;
\* only a crash between the save and the publication loses one.
ExpiryPostedOnce ==
  \A c \in Counter :
    /\ topic[c].expired <= settled[c].expired
    /\ crashes = 0 /\ (\A q \in Request : pc[q] # "publish")
         => topic[c].expired = settled[c].expired

\* A debit that was saved stays in the balance: "Quota debits must be atomic
\* and transactional" (docs/ARCHITECTURE.md); no other save may undo it.
SavedCallsStay == Balanced(rows[1].doc, settled)

\* Optimistic locking with retry (ADR-009): a request gives a call up for a
\* conflict only when the attempts are used up.
ConflictIsRetried ==
  \A q \in Request : pc[q] = "conflict" => tries[q] = RetryLimit

\* "Journal events are only published after a successful Save" (manager.go):
\* with nobody at work and nobody lost, the topic tells what was saved.
TopicTellsWhatWasSaved ==
  /\ crashes = 0
  /\ \A q \in Request : pc[q] \in {"idle", "done", "conflict"}
  => topic = settled

==============================================================================
