--------------------------- MODULE ChargingSession ---------------------------
(***************************************************************************)
(* The charging engine's handlers (chargeservice.go and the steps it runs).*)
(* A handler serves one request of a network element: it reads the record  *)
(* of the session, debits what was used from the grants in the record,     *)
(* reserves new grants, saves the record, writes the trace and answers.    *)
(* Handlers run side by side; the record is written without a check of its *)
(* version, and nothing is undone when a handler stops half way.  A call   *)
(* on the quota is one step here: QuotaStore looks inside.                 *)
(***************************************************************************)
EXTENDS QuotaDocument, Sequences
LOCAL INSTANCE SequencesExt

CONSTANTS
  Session,      \* charging ids
  Group,        \* rating groups
  Free,         \* rating groups with multiplier 0: no quota is involved
  Minimum,      \* [Group -> MinimumUnits of the retail rate line]
  Increment,    \* [Group -> RoundingIncrement of the retail rate line]
  NumRequests,  \* requests the network elements send
  Requests,     \* [Request -> what is sent]
  Follows,      \* [Request -> the requests that end before it is sent]
  StaleAfter,   \* age at which housekeeping deletes a session's record
  MaxTime,      \* bound on the clock
  MaxUnits,     \* bound on the units of one call on the quota
  Failing,      \* the steps that can fail
  MaxFaults     \* bound on the steps that fail and the handlers that die

Request == 1..NumRequests

Steps == {"load", "account", "rate", "save", "trace"}

\* A container of used units; reclaim: the rest of the reservation goes back.
UsedUnit == [units : Nat, reclaim : BOOLEAN]

\* used: UsedUnitContainer; wanted: RequestedUnit.
Usage == [group : Group, used : Seq(UsedUnit), wanted : Nat]

ASSUME SessionAssumption ==
  /\ Free \subseteq Group
  /\ Minimum \in [Group -> Nat] /\ Increment \in [Group -> Nat]
  /\ {NumRequests, StaleAfter, MaxTime, MaxUnits, MaxFaults} \subseteq Nat
  /\ \A q \in Request :
       /\ Requests[q].kind \in {"create", "update", "release", "event"}
       /\ Requests[q].session \in Session /\ Requests[q].seq \in Nat
       /\ Requests[q].resent \in BOOLEAN /\ Requests[q].usage \in Seq(Usage)
  /\ Follows \in [Request -> SUBSET Request]
  /\ Failing \subseteq Steps

VARIABLES
  quota,     \* the subscriber's document
  now,       \* the clock
  drawn,     \* [Ref -> the request the grant id was drawn for; 0 before that]
  records,   \* [Session -> row of charging_data]
  traces,    \* rows of charging_trace
  pc,        \* [Request -> where its handler is]
  ctx,       \* [Request -> the charging context of its handler]
  reply,     \* [Request -> the answer the network element got]
  faults,    \* faults so far
  pass,      \* flips with every pass of the housekeeping job over the quota
  journal,   \* history: the quota journal, added up
  delivered, \* history: provisioning events delivered
  book       \* history: [Ref -> what was granted, less what was debited]

handler == <<pc, ctx, reply>>

credit == <<quota, journal, book>>

store == <<records, traces>>

world == <<now, faults, pass, delivered>>

vars == <<credit, store, handler, world, drawn>>

\* The id of a grant that reserved nothing.
NoRef == 0

Grant == [ref : Ref \union {NoRef}, seq : Nat, units : Nat, until : Nat]

Grants == [Group -> Seq(Grant)]

NoGrants == [g \in Group |-> <<>>]

\* A debit that Accounting has to make.
Charge == [ref : Ref \union {NoRef}, reclaim : BOOLEAN, units : Nat]

NoGrant == [units |-> 0, until |-> 0]

NoRecord == [there |-> FALSE, seq |-> 0, at |-> 0, groups |-> {}, grants |-> NoGrants]

\* Answered without units: nothing was granted for the rating group.
NoUnits == 0

\* grants: ChargingData.Grants; fresh: the grants Rate has made so far;
\* groups: the rating groups classified; done: the usages Accounting or Rate
\* has come to; todo: the debits ahead of Accounting; kept: the grants of the
\* usage when its debits are done; fits: they end without an error; due: the
\* grants to release.
Context ==
  [at : 0..MaxTime, grants : Grants, fresh : Grants, groups : SUBSET Group,
   done : Nat, todo : Seq(Charge), due : Seq(Ref \union {NoRef}), kept : Seq(Grant),
   fits : BOOLEAN]

NoContext ==
  [at |-> 0, grants |-> NoGrants, fresh |-> NoGrants, groups |-> {}, done |-> 0,
   todo |-> <<>>, due |-> <<>>, kept |-> <<>>, fits |-> TRUE]

Init ==
  /\ quota = EmptyDocument
  /\ now = 0
  /\ drawn = [r \in Ref |-> 0]
  /\ records = [s \in Session |-> NoRecord]
  /\ traces = {}
  /\ pc = [q \in Request |-> "idle"]
  /\ ctx = [q \in Request |-> NoContext]
  /\ reply = [q \in Request |-> <<>>]
  /\ faults = 0
  /\ pass = FALSE
  /\ journal = EmptyJournal
  /\ delivered = [c \in Counter |-> 0]
  /\ book = [r \in Ref |-> NoGrant]

-----------------------------------------------------------------------------
Kind(q) == Requests[q].kind

Row(q) == records[Requests[q].session]

\* Classify finds a classification for every rating group of the request.
GroupsAsked(q) == {Requests[q].usage[i].group : i \in DOMAIN Requests[q].usage}

Goto(q, place) == pc' = [pc EXCEPT ![q] = place]

Put(q, context) == ctx' = [ctx EXCEPT ![q] = context]

NormaliseUnits(group, units) ==
  LET least == Greatest(units, Minimum[group])
      over  == least % Increment[group]
  IN  IF Increment[group] <= 1 \/ over = 0 THEN least ELSE least + Increment[group] - over

\* MaxUnits is a bound: nobody asks for more, or uses more, in one call.
ASSUME UnitsAssumption ==
  \A q \in Request : \A i \in DOMAIN Requests[q].usage :
    LET usage == Requests[q].usage[i]
    IN  /\ NormaliseUnits(usage.group, usage.wanted) <= MaxUnits
        /\ \A j \in DOMAIN usage.used :
             NormaliseUnits(usage.group, usage.used[j].units) <= MaxUnits

\* What a use of so many units takes from a grant of the group.
Taken(group, units) == IF group \in Free THEN 0 ELSE NormaliseUnits(group, units)

\* The elements of s at the indices I, in their order.
Chosen(s, I) ==
  Loop(Len(s), <<>>,
       [i \in DOMAIN s |-> [rest \in Seq({s[j] : j \in I}) |->
          IF i \in I THEN Append(rest, s[i]) ELSE rest]])[Len(s)]

\* Charging the used containers of a usage: the grants that are left, the
\* debits to be made, and whether they end without an error.
Plan == [grants : Seq(Grant), todo : Seq(Charge), fits : BOOLEAN]

\* What is left of grants that are charged so much each.
Rest(grants, container, taken) ==
  LET left == Chosen(grants, {i \in DOMAIN grants : grants[i].units # taken})
  IN  IF container.reclaim
        THEN <<>>
        ELSE [i \in DOMAIN left |-> [left[i] EXCEPT !.units = @ - taken]]

\* The debits of the first n grants; a group free of charge has none.
Charges(group, grants, n, container, taken) ==
  IF group \in Free
    THEN <<>>
    ELSE [i \in 1..n |->
            [ref |-> grants[i].ref, reclaim |-> container.reclaim, units |-> taken]]

\* Mutant: a grant is debited more than it has.
ChargeContainerUnchecked(group, plan, container) ==
  LET taken == Taken(group, container.units)
  IN  [plan EXCEPT
         !.grants = Rest(plan.grants, container, taken),
         !.todo   = @ \o Charges(group, plan.grants, Len(plan.grants), container, taken)]

\* One used container: every grant of the group is debited the whole of it,
\* until one of them does not cover it.
ChargeContainer(group, plan, container) ==
  LET taken == Taken(group, container.units)
      bad   == {i \in DOMAIN plan.grants : plan.grants[i].units < taken}
      until == IF bad = {} THEN Len(plan.grants)
                           ELSE (CHOOSE i \in bad : \A j \in bad : i <= j) - 1
  IN  IF ~plan.fits \/ container.units = 0
        THEN plan
        ELSE [grants |-> IF bad = {} THEN Rest(plan.grants, container, taken)
                                     ELSE plan.grants,
              todo   |-> plan.todo \o
                           Charges(group, plan.grants, until, container, taken),
              fits   |-> bad = {}]

\* The usage Accounting is at; 0 before the first.
UsageGroup(q, context) == Requests[q].usage[context.done].group

\* The debits of a usage are done: what is left of its grants stays.
Settled(q, context) ==
  IF context.done = 0
    THEN context
    ELSE [context EXCEPT !.grants[UsageGroup(q, context)] = context.kept,
                         !.kept = <<>>]

\* Mutant: a grant can still be used at the end of its validity.
ValidGrantsInclusive(context, group) ==
  LET grants == context.grants[group]
  IN  Chosen(grants, {i \in DOMAIN grants : grants[i].until >= context.at})

\* The grants of a group that are still valid.
ValidGrants(context, group) ==
  LET grants == context.grants[group]
  IN  Chosen(grants, {i \in DOMAIN grants : grants[i].until > context.at})

\* Accounting goes on to the next usage: only the valid grants of its group
\* stay, and they are charged container by container.  A use of a group that
\* was not classified is an error.
NextUsage(q, context) ==
  LET usage == Requests[q].usage[context.done + 1]
      valid == ValidGrants(context, usage.group)
      first == [grants |-> valid, todo |-> <<>>,
                fits   |-> usage.group \in context.groups \/ usage.used = <<>>]
      plan  == Loop(Len(usage.used), first,
                    [i \in DOMAIN usage.used |-> [plan \in Plan |->
                       ChargeContainer(usage.group, plan, usage.used[i])]])
               [Len(usage.used)]
  IN  [context EXCEPT !.done = @ + 1, !.grants[usage.group] = valid,
                      !.todo = plan.todo, !.kept = plan.grants, !.fits = plan.fits]

-----------------------------------------------------------------------------
\* The request arrives and the handler reads the clock.
Begin(q) ==
  /\ pc[q] = "idle"
  /\ \A p \in Follows[q] : pc[p] \in {"answered", "failed", "crashed"}
  /\ Put(q, [NoContext EXCEPT !.at = now])
  /\ Goto(q, IF Requests[q].resent THEN "resend" ELSE "load")
  /\ UNCHANGED <<credit, store, world, drawn, reply>>

\* A retransmission is answered from the trace, or not at all.
Resend(q) ==
  LET found == {t \in traces : /\ t.session = Requests[q].session
                               /\ t.seq = Requests[q].seq}
  IN  /\ pc[q] = "resend"
      /\ IF found = {}
           THEN Goto(q, "failed") /\ UNCHANGED reply
           ELSE \E t \in found :
                  /\ reply' = [reply EXCEPT ![q] = t.answer]
                  /\ Goto(q, "answered")
      /\ UNCHANGED <<credit, store, world, drawn, ctx>>

\* A session, or a one-time charge, begins when no record is there.
LoadNone(q) ==
  /\ pc[q] = "load"
  /\ Kind(q) \in {"create", "event"}
  /\ IF Row(q).there
       THEN Goto(q, "failed") /\ UNCHANGED ctx
       ELSE /\ Goto(q, "rate")
            /\ Put(q, [ctx[q] EXCEPT !.groups = GroupsAsked(q)])
  /\ UNCHANGED <<credit, store, world, drawn, reply>>

\* A look-up that fails counts as one that found nothing: the handler goes on.
LookUpFails(q) ==
  /\ pc[q] = "load" /\ "load" \in Failing
  /\ Kind(q) \in {"create", "event"}
  /\ faults < MaxFaults
  /\ faults' = faults + 1
  /\ Goto(q, "rate")
  /\ Put(q, [ctx[q] EXCEPT !.groups = GroupsAsked(q)])
  /\ UNCHANGED <<credit, store, now, drawn, reply, delivered, pass>>

\* An update or a release goes on from the record, if its number is new.  A
\* record without grants unmarshals to a nil map and Accounting panics on it;
\* the router recovers and nothing is cleaned up.
LoadRecord(q) ==
  /\ pc[q] = "load"
  /\ Kind(q) \in {"update", "release"}
  /\ IF /\ Row(q).there /\ Row(q).seq < Requests[q].seq
        /\ Row(q).grants # NoGrants \/ Requests[q].usage = <<>>
       THEN /\ Goto(q, "account")
            /\ Put(q, [ctx[q] EXCEPT !.grants = Row(q).grants, !.groups = Row(q).groups])
       ELSE Goto(q, "failed") /\ UNCHANGED ctx
  /\ UNCHANGED <<credit, store, world, drawn, reply>>

Apply(call) ==
  /\ quota' = call.doc
  /\ journal' = PostLate(PostEarly(journal, call.early), call.late)

\* Every debit of a usage is made: on to the next usage.
AccountUsage(q) ==
  /\ pc[q] = "account"
  /\ ctx[q].todo = <<>> /\ ctx[q].fits
  /\ ctx[q].done < Len(Requests[q].usage)
  /\ Put(q, NextUsage(q, Settled(q, ctx[q])))
  /\ UNCHANGED <<credit, store, world, drawn, pc, reply>>

\* The next debit of Accounting.
DebitUsed(q) ==
  LET d == Head(ctx[q].todo)
  IN  /\ pc[q] = "account"
      /\ ctx[q].todo # <<>>
      /\ Apply(DebitCall(quota, d.ref, d.units, d.reclaim, ctx[q].at))
      /\ Put(q, [ctx[q] EXCEPT !.todo = Tail(@)])
      /\ book' = [book EXCEPT
                    ![d.ref] = IF d.reclaim \/ d.units = @.units
                                 THEN NoGrant
                                 ELSE [units |-> @.units - d.units, until |-> @.until]]
      /\ UNCHANGED <<store, world, drawn, pc, reply>>

\* The release of the first grants of the usages I, then the answer.
ReleaseFirst(q, context, I) ==
  LET released == Chosen(Requests[q].usage, I)
  IN  IF Kind(q) = "create"
        THEN Goto(q, "failed") /\ Put(q, NoContext)
        ELSE /\ Goto(q, "cleanup")
             /\ Put(q, [context EXCEPT
                          !.todo = <<>>,
                          !.due  = [i \in DOMAIN released |->
                                      context.grants[released[i].group][1].ref]])

\* Mutant: the first grant of a group is released whoever made it.
AbandonAnyGrant(q, context) ==
  ReleaseFirst(q, context,
    {i \in DOMAIN Requests[q].usage : context.grants[Requests[q].usage[i].group] # <<>>})

\* Where an error leads: creation returns it, the others clean up first.
\* Of the grants of a group only the first is looked at, and it is released
\* when this request made it.
Abandon(q, context) ==
  ReleaseFirst(q, context,
    {i \in DOMAIN Requests[q].usage :
       LET grants == context.grants[Requests[q].usage[i].group]
       IN  grants # <<>> /\ grants[1].seq = Requests[q].seq})

\* Accounting ends: with the last usage, or with an error.
AccountDone(q) ==
  /\ pc[q] = "account"
  /\ ctx[q].todo = <<>>
  /\ ~ctx[q].fits \/ ctx[q].done = Len(Requests[q].usage)
  /\ IF ~ctx[q].fits
       THEN Abandon(q, ctx[q])
     ELSE IF Kind(q) = "update"
       THEN /\ Goto(q, "rate")
            /\ Put(q, [Settled(q, ctx[q]) EXCEPT !.groups = GroupsAsked(q), !.done = 0])
       ELSE Goto(q, "save") /\ Put(q, Settled(q, ctx[q]))
  /\ UNCHANGED <<credit, store, world, drawn, reply>>

\* One more grant for a group.
Granted(context, group, grant) ==
  [context EXCEPT !.fresh[group] = Append(@, grant), !.done = @ + 1]

\* Rate the next usage: a new grant, of the units the quota reserves for it.  The
\* units wanted are those after scaling: an update soon after the last request asks
\* for a multiple of its units and has them for a shorter time, which is one
\* Validity for all here.
RateUnit(q) ==
  LET usage  == Requests[q].usage[ctx[q].done + 1]
      wanted == NormaliseUnits(usage.group, usage.wanted)
      until  == ctx[q].at + Validity
      call(r) == ReserveCall(quota, r, wanted, ctx[q].at)
      grant(r, units) ==
        [ref |-> r, seq |-> Requests[q].seq, units |-> units, until |-> until]
  IN  /\ pc[q] = "rate"
      /\ ctx[q].done < Len(Requests[q].usage)
      /\ \/ /\ usage.group \in Free
            /\ Put(q, Granted(ctx[q], usage.group, grant(NoRef, wanted)))
            /\ UNCHANGED <<credit, drawn>>
         \/ /\ usage.group \notin Free
            /\ \E r \in Ref :
                 /\ drawn[r] = 0 /\ \A s \in 1..(r - 1) : drawn[s] # 0
                 /\ Apply(call(r))
                 /\ drawn' = [drawn EXCEPT ![r] = q]
                 /\ Put(q, Granted(ctx[q], usage.group, grant(r, call(r).answer)))
                 /\ book' = [book EXCEPT ![r] = [units |-> call(r).answer, until |-> until]]
      /\ UNCHANGED <<store, world, pc, reply>>

\* The new grants replace those of the record.
RateDone(q) ==
  /\ pc[q] = "rate"
  /\ ctx[q].done = Len(Requests[q].usage)
  /\ IF Kind(q) = "event"
       THEN Goto(q, "account")
       ELSE Goto(q, "save")
  /\ Put(q, [ctx[q] EXCEPT !.grants = ctx[q].fresh, !.fresh = NoGrants, !.done = 0])
  /\ UNCHANGED <<credit, store, world, drawn, reply>>

\* Mutant: an update saves the number but not the charge data.
SaveRecordStale(q) ==
  LET row == [there |-> TRUE, seq |-> Requests[q].seq, at |-> now,
              groups |-> ctx[q].groups,
              grants |-> IF Row(q).there THEN Row(q).grants ELSE ctx[q].grants]
  IN  /\ pc[q] = "save"
      /\ IF Kind(q) = "create" /\ Row(q).there
           THEN Abandon(q, ctx[q]) /\ UNCHANGED records
           ELSE /\ Goto(q, "trace")
                /\ UNCHANGED ctx
                /\ records' =
                     [records EXCEPT
                        ![Requests[q].session] =
                           IF Kind(q) \in {"release", "event"} THEN NoRecord
                           ELSE IF Kind(q) = "create" \/ @.there THEN row ELSE @]
      /\ UNCHANGED <<credit, world, drawn, traces, reply>>

\* Insert, update or delete the record: an insert beside another fails, an
\* update of a record that is gone does nothing.
SaveRecord(q) ==
  LET row == [there |-> TRUE, seq |-> Requests[q].seq, at |-> now,
              groups |-> ctx[q].groups, grants |-> ctx[q].grants]
  IN  /\ pc[q] = "save"
      /\ IF Kind(q) = "create" /\ Row(q).there
           THEN Abandon(q, ctx[q]) /\ UNCHANGED records
           ELSE /\ Goto(q, "trace")
                /\ UNCHANGED ctx
                /\ records' =
                     [records EXCEPT
                        ![Requests[q].session] =
                           IF Kind(q) \in {"release", "event"} THEN NoRecord
                           ELSE IF Kind(q) = "create" \/ @.there THEN row ELSE @]
      /\ UNCHANGED <<credit, world, drawn, traces, reply>>

\* The units of the first of the grants that this request made.
UnitsGranted(q, given) ==
  LET mine == {i \in DOMAIN given : given[i].seq = Requests[q].seq}
  IN  IF mine = {} THEN NoUnits
                   ELSE given[CHOOSE i \in mine : \A j \in mine : i <= j].units

\* BuildResponse: for every usage, what this request was granted.
Answer(q, grants) ==
  [n \in DOMAIN Requests[q].usage |-> UnitsGranted(q, grants[Requests[q].usage[n].group])]

\* The trace is written before the answer goes out.
CreateTrace(q) ==
  /\ pc[q] = "trace"
  /\ traces' = traces \union {[session |-> Requests[q].session, seq |-> Requests[q].seq,
                               answer |-> Answer(q, ctx[q].grants)]}
  /\ reply' = [reply EXCEPT ![q] = Answer(q, ctx[q].grants)]
  /\ Goto(q, "answered")
  /\ Put(q, NoContext)
  /\ UNCHANGED <<credit, world, drawn, records>>

\* A step fails: the subscriber is unknown, the quota is locked by another
\* writer, the database does not answer.  The step has had no effect.
Fault(q) ==
  /\ pc[q] \in Failing
  /\ faults < MaxFaults
  /\ faults' = faults + 1
  /\ Abandon(q, ctx[q])
  /\ UNCHANGED <<credit, store, now, drawn, reply, delivered, pass>>

\* Release reads the clock itself.
CleanUp(q) ==
  LET r == Head(ctx[q].due)
  IN  /\ pc[q] = "cleanup"
      /\ IF ctx[q].due = <<>>
           THEN /\ Goto(q, "failed") /\ Put(q, NoContext)
                /\ UNCHANGED credit
           ELSE /\ Apply(IF r = NoRef THEN ExpireCall(quota, now)
                                     ELSE ReleaseCall(quota, r, now))
                /\ book' = [s \in Ref |-> IF s = r THEN NoGrant ELSE book[s]]
                /\ Put(q, [ctx[q] EXCEPT !.due = Tail(@)])
                /\ UNCHANGED pc
      /\ UNCHANGED <<store, world, drawn, reply>>

\* A release that fails is logged, and the clean-up goes on with the next.
ReleaseFails(q) ==
  /\ pc[q] = "cleanup" /\ ctx[q].due # <<>>
  /\ faults < MaxFaults
  /\ faults' = faults + 1
  /\ Put(q, [ctx[q] EXCEPT !.due = Tail(@)])
  /\ UNCHANGED <<credit, store, now, drawn, pc, reply, delivered, pass>>

\* The process of the handler dies: whatever was done stays done.  Handlers in
\* other processes go on.
Crash(q) ==
  /\ pc[q] \in Steps \union {"cleanup"}
  /\ faults < MaxFaults
  /\ faults' = faults + 1
  /\ Goto(q, "crashed")
  /\ Put(q, NoContext)
  /\ UNCHANGED <<credit, store, now, drawn, reply, delivered, pass>>

-----------------------------------------------------------------------------
\* A counter arrives, once.
Provision(c) ==
  /\ delivered[c] = 0
  /\ delivered' = [delivered EXCEPT ![c] = 1]
  /\ Apply(ProvisionCall(quota, c, now))
  /\ UNCHANGED <<store, handler, now, drawn, faults, book, pass>>

\* The housekeeping job visits the subscriber's quota.
ExpireQuota ==
  /\ pass' = ~pass
  /\ Apply(ExpireCall(quota, now))
  /\ UNCHANGED <<store, handler, now, drawn, faults, delivered, book>>

\* The housekeeping job deletes the records nobody has touched for long.
CleanStaleSessions ==
  /\ \E s \in Session : records[s].there /\ records[s].at + StaleAfter < now
  /\ records' = [s \in Session |->
                   IF records[s].at + StaleAfter < now THEN NoRecord ELSE records[s]]
  /\ UNCHANGED <<credit, handler, world, drawn, traces>>

Tick ==
  /\ now < MaxTime
  /\ now' = now + 1
  /\ UNCHANGED <<credit, store, handler, drawn, faults, delivered, pass>>

Serve(q) ==
  \/ Begin(q)
  \/ Resend(q)
  \/ LoadNone(q)
  \/ LoadRecord(q)
  \/ AccountUsage(q)
  \/ DebitUsed(q)
  \/ AccountDone(q)
  \/ RateUnit(q)
  \/ RateDone(q)
  \/ SaveRecord(q)
  \/ CreateTrace(q)
  \/ CleanUp(q)

Next ==
  \/ \E q \in Request : Serve(q) \/ LookUpFails(q) \/ Fault(q) \/ ReleaseFails(q) \/ Crash(q)
  \/ \E c \in Counter : Provision(c)
  \/ ExpireQuota
  \/ CleanStaleSessions
  \/ Tick

\* Time passes, and the housekeeping job, which a scheduler starts, passes over
\* the quota again and again: only ExpireQuota flips pass.
Fairness == WF_now(Tick) /\ WF_pass(pass' = ~pass)

Spec == Init /\ [][Next]_vars /\ Fairness

-----------------------------------------------------------------------------
SessionTypeOK ==
  /\ now \in 0..MaxTime
  /\ drawn \in [Ref -> Request \union {0}]
  /\ records \in [Session -> [there : BOOLEAN, seq : Nat, at : Nat,
                              groups : SUBSET Group, grants : Grants]]
  /\ \A t \in traces : t.session \in Session /\ t.seq \in Nat /\ t.answer \in Seq(Nat)
  /\ pc \in [Request -> Steps \union {"idle", "resend", "cleanup", "answered", "failed",
                                     "crashed"}]
  /\ ctx \in [Request -> Context]
  /\ reply \in [Request -> Seq(Nat)]
  /\ faults \in 0..MaxFaults /\ pass \in BOOLEAN
  /\ book \in [Ref -> [units : Int, until : Nat]]

\* The engine keeps to the bargain of QuotaGrants whatever fails half way, as
\* long as no use is reported twice: a debit that is about to be made is within
\* what is left of its grant, although the handler read the grant from a record
\* that an earlier handler may have died before it saved.  And the manager keeps
\* to its own: under a plain tariff the debit is paid in full as long as the grant
\* has not run out since the handler read the clock (UnaccountedUnits,
\* DebitResult).
DebitsFitGrants ==
  \A q \in Request :
    (pc[q] = "account" /\ ctx[q].todo # <<>>) =>
      LET d == Head(ctx[q].todo)
      IN  /\ book[d.ref].until > ctx[q].at /\ d.units <= book[d.ref].units
          /\ Plain(d.ref) /\ book[d.ref].until > now =>
               DebitCall(quota, d.ref, d.units, d.reclaim, ctx[q].at).answer = 0

\* The other requests of its session that could have changed the record since.
Later(q) ==
  {p \in Request \ {q} : /\ Requests[p].session = Requests[q].session
                        /\ ~Requests[p].resent
                        /\ Requests[p].seq >= Requests[q].seq
                        /\ pc[p] # "idle"}

\* What the network element was told it may use is in the record and, while it
\* is valid, reserved on the counters: three documents saved one after the
\* other tell the same, whatever failed before.  Under a plain tariff, that is:
\* a multiplier breaks the link between units and reservations by itself.
AnswerIsBacked ==
  \A q \in Request :
    LET row == records[Requests[q].session]
    IN  /\ pc[q] = "answered" /\ ~Requests[q].resent
        /\ row.there /\ row.seq = Requests[q].seq
        /\ Later(q) = {}
        => \A n \in DOMAIN reply[q] : reply[q][n] > 0 =>
             LET group == Requests[q].usage[n].group
             IN  \E i \in DOMAIN row.grants[group] :
                   LET g == row.grants[group][i]
                   IN  /\ g.units = reply[q][n]
                       /\ group \notin Free /\ Plain(g.ref) /\ g.until > now =>
                            Total([c \in Counter |-> quota[c].reserved[g.ref].amount],
                                  NumCounters) >= g.units

\* No reservation outlives its validity for long, whoever crashed, gave up or
\* forgot the grant: units leaked by a session come back (as far as the
\* bounded clock can tell).
ReservationsEnd ==
  \A r \in Ref, c \in Counter :
    (quota[c].reserved[r].amount > 0 /\ quota[c].reserved[r].until <= MaxTime)
      ~> (quota[c].reserved[r].amount = 0)

\* Every call the handlers make on the quota, with what the handler made of it,
\* is a call of the manager as QuotaGrants has it used: the answer to a
\* reservation is what is granted, a debit fits a grant that is still valid, and
\* what is cleaned up is given back.  Nothing else the handlers do changes it.
Manager ==
  INSTANCE QuotaGrants WITH
    drawn <- {r \in Ref : drawn[r] # 0}, granted <- book, deliveries <- delivered,
    Lag <- MaxTime, MaxDeliveries <- 1

ImplementsGrants == Manager!GrantsSpec

\* The units a request reports as used.
UnitsReported(q) ==
  FoldLeft(LAMBDA sum, usage :
             FoldLeft(LAMBDA part, container :
                        part + NormaliseUnits(usage.group, container.units),
                      sum, usage.used),
           0, Requests[q].usage)

\* What the network elements have used: a request sent again under the number
\* of an earlier one reports the same use.
Reported ==
  Total([q \in Request |->
           IF \E p \in 1..(q - 1) : /\ Requests[p].session = Requests[q].session
                                    /\ Requests[p].seq = Requests[q].seq
             THEN 0 ELSE UnitsReported(q)],
        NumRequests)

\* "Double charging on network retries" (docs/ARCHITECTURE.md): what the
\* network element used once is debited once, sent again or not.
UseIsDebitedOnce ==
  Total([c \in Counter |-> journal[c].spent], NumCounters) <= Reported

\* "Release unused quota when session ends" (docs/ARCHITECTURE.md): when a
\* release has deleted the record, what it still had is not reserved any more.
ReleaseFreesQuota ==
  \A q \in Request :
    (pc[q] = "trace" /\ Kind(q) = "release") =>
      \A group \in Group, c \in Counter : \A i \in DOMAIN ctx[q].grants[group] :
        LET g == ctx[q].grants[group][i]
        IN  g.ref # NoRef /\ g.until > now => quota[c].reserved[g.ref].amount = 0

\* "If we are not completed, we need to clean up resources" (HandleError):
\* what is given back is not in a saved record for the next request to use.
CleanUpSparesSaved ==
  \A q \in Request :
    (pc[q] = "cleanup" /\ ctx[q].due # <<>>) =>
      \A s \in Session, group \in Group : \A i \in DOMAIN records[s].grants[group] :
        LET g == records[s].grants[group][i]
        IN  g.ref = Head(ctx[q].due) => g.ref = NoRef \/ g.units = 0

==============================================================================
