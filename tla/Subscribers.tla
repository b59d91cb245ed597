---------------------------- MODULE Subscribers ----------------------------
(***************************************************************************)
(* The subscriber and wholesaler tables, the two consumers that keep them  *)
(* up with the events of the retail and wholesale systems, and the two     *)
(* caches that are filled from them: the subscribers the charging engine   *)
(* serves (SubscriberContainer) and the tenants of the backend (Resolver). *)
(* A topic is immutable; a consumer has a position in it.  The offset of a *)
(* record is committed by the client library some time after the record    *)
(* was handled, and a restart resumes at the committed offset.             *)
(***************************************************************************)
EXTENDS Integers, Sequences, FiniteSets

CONSTANTS
  Subscriber,       \* subscriber ids
  Wholesaler,       \* wholesaler ids
  Msisdn,           \* phone numbers
  SubscriberTopic,  \* the records of public.subscriber-event
  WholesaleTopic,   \* the records of the wholesale contract topic
  Lookup,           \* requests of the engine that look a subscriber up
  Absent,           \* no row, no cache entry, nothing in hand
  MaxFailures,      \* bound on the statements that fail
  MaxRestarts       \* bound on the restarts of the consumers

SubscriberRow == [msisdn : Msisdn, wholesale : Wholesaler, active : BOOLEAN]

SubscriberEvent ==
  [type : {"created", "updated", "deleted"}, id : Subscriber, row : SubscriberRow]

WholesaleEvent ==
  [type : {"provisioned", "suspend"}, id : Wholesaler, active : BOOLEAN]
    \union [type : {"deregistering"}, id : Wholesaler]

ASSUME TopicsAssumption ==
  /\ SubscriberTopic \in Seq(SubscriberEvent)
  /\ WholesaleTopic \in Seq(WholesaleEvent)

ASSUME SubscribersAssumption ==
  /\ Absent \notin SubscriberRow \union Wholesaler \union Nat \union BOOLEAN
  /\ IsFiniteSet(Subscriber) /\ MaxFailures \in Nat /\ MaxRestarts \in Nat

VARIABLES
  subscriber,   \* the subscriber table, by id
  wholesaler,   \* the wholesaler table: the active flag, by id
  next,         \* [topic -> index of the record being handled]
  committed,    \* [topic -> index a restart resumes at]
  cascade,      \* the wholesaler a deletion has yet to look at
  counted,      \* what a deregistration has counted
  failures,     \* statements that failed so far
  restarts,     \* restarts so far
  cache,        \* [Msisdn -> the engine's subscriber]
  lookup,       \* [Lookup -> the number and the answer of the database]
  tenants       \* the wholesalers the backend resolves hosts to

tableVars == <<subscriber, wholesaler>>
readerVars == <<next, committed, cascade, counted, failures, restarts>>
cacheVars == <<cache, lookup, tenants>>
subscriberVars == <<tableVars, readerVars, cacheVars>>

Topics == {"subscriber", "wholesale"}

Length(t) == Len(IF t = "subscriber" THEN SubscriberTopic ELSE WholesaleTopic)

SubscribersTypeOK ==
  /\ subscriber \in [Subscriber -> SubscriberRow \union {Absent}]
  /\ wholesaler \in [Wholesaler -> BOOLEAN \union {Absent}]
  /\ next \in [Topics -> Nat \ {0}]
  /\ committed \in [Topics -> Nat \ {0}]
  /\ \A t \in Topics : committed[t] <= next[t] /\ next[t] <= Length(t) + 1
  /\ cascade \in Wholesaler \union {Absent}
  /\ counted \in Nat \union {Absent}
  /\ failures \in 0..MaxFailures /\ restarts \in 0..MaxRestarts
  /\ cache \in [Msisdn -> SubscriberRow \union {Absent}]
  /\ lookup \in [Lookup -> [msisdn : Msisdn, found : SubscriberRow \union {Absent}]
                            \union {Absent}]
  /\ tenants \in SUBSET Wholesaler

SubscribersInit ==
  /\ subscriber = [s \in Subscriber |-> Absent]
  /\ wholesaler = [w \in Wholesaler |-> Absent]
  /\ next = [t \in Topics |-> 1] /\ committed = [t \in Topics |-> 1]
  /\ cascade = Absent /\ counted = Absent
  /\ failures = 0 /\ restarts = 0
  /\ cache = [m \in Msisdn |-> Absent]
  /\ lookup = [q \in Lookup |-> Absent]
  /\ tenants = {}

(***************************************************************************)
(* The subscriber topic.                                                   *)
(***************************************************************************)
OfWholesaler(w) ==
  {s \in Subscriber : subscriber[s] # Absent /\ subscriber[s].wholesale = w}

\* Mutant: a record is skipped.
HandledTwice(t) == next' = [next EXCEPT ![t] = @ + 2]

Handled(t) == next' = [next EXCEPT ![t] = @ + 1]

\* The record to handle, while no statement of an earlier one is pending.
NextSubscriberEvent(type) ==
  /\ cascade = Absent
  /\ next["subscriber"] <= Len(SubscriberTopic)
  /\ SubscriberTopic[next["subscriber"]].type = type

\* An insert of an id that is there fails on the primary key; the consumer
\* logs that and goes on.
Insert ==
  /\ NextSubscriberEvent("created")
  /\ LET e == SubscriberTopic[next["subscriber"]] IN
     subscriber' = [subscriber EXCEPT ![e.id] = IF @ = Absent THEN e.row ELSE @]
  /\ Handled("subscriber")
  /\ UNCHANGED <<wholesaler, committed, cascade, counted, failures, restarts, cacheVars>>

\* UPDATED, MSISDN_SWAP and SIM_SWAP write every column of a row that is there.
Update ==
  /\ NextSubscriberEvent("updated")
  /\ LET e == SubscriberTopic[next["subscriber"]] IN
     subscriber' = [subscriber EXCEPT ![e.id] = IF @ = Absent THEN Absent ELSE e.row]
  /\ Handled("subscriber")
  /\ UNCHANGED <<wholesaler, committed, cascade, counted, failures, restarts, cacheVars>>

Delete ==
  /\ NextSubscriberEvent("deleted")
  /\ LET e == SubscriberTopic[next["subscriber"]] IN
     /\ subscriber' = [subscriber EXCEPT ![e.id] = Absent]
     /\ cascade' = e.row.wholesale
  /\ UNCHANGED <<wholesaler, next, committed, counted, failures, restarts, cacheVars>>

\* DeleteInactiveWholesalerIfEmpty, one statement.
Cascade ==
  /\ cascade # Absent
  /\ wholesaler' = [wholesaler EXCEPT
       ![cascade] = IF @ = FALSE /\ OfWholesaler(cascade) = {} THEN Absent ELSE @]
  /\ cascade' = Absent
  /\ Handled("subscriber")
  /\ UNCHANGED <<subscriber, committed, counted, failures, restarts, cacheVars>>

(***************************************************************************)
(* The wholesale topic.                                                    *)
(***************************************************************************)
NextWholesaleEvent(type) ==
  /\ next["wholesale"] <= Len(WholesaleTopic)
  /\ WholesaleTopic[next["wholesale"]].type = type

Upsert ==
  /\ NextWholesaleEvent("provisioned")
  /\ LET e == WholesaleTopic[next["wholesale"]] IN
     wholesaler' = [wholesaler EXCEPT ![e.id] = e.active]
  /\ Handled("wholesale")
  /\ UNCHANGED <<subscriber, committed, cascade, counted, failures, restarts, cacheVars>>

\* SetWholesalerActive changes a row that is there.
Suspend ==
  /\ NextWholesaleEvent("suspend")
  /\ LET e == WholesaleTopic[next["wholesale"]] IN
     wholesaler' = [wholesaler EXCEPT ![e.id] = IF @ = Absent THEN Absent ELSE e.active]
  /\ Handled("wholesale")
  /\ UNCHANGED <<subscriber, committed, cascade, counted, failures, restarts, cacheVars>>

CountSubscribers ==
  /\ NextWholesaleEvent("deregistering")
  /\ counted = Absent
  /\ counted' = Cardinality(OfWholesaler(WholesaleTopic[next["wholesale"]].id))
  /\ UNCHANGED <<tableVars, next, committed, cascade, failures, restarts, cacheVars>>

\* Mutant: a wholesaler with subscribers stays as it is.
DeregisterEmpty ==
  /\ NextWholesaleEvent("deregistering")
  /\ counted # Absent
  /\ LET e == WholesaleTopic[next["wholesale"]] IN
     wholesaler' = [wholesaler EXCEPT ![e.id] = IF counted = 0 THEN Absent ELSE @]
  /\ counted' = Absent
  /\ Handled("wholesale")
  /\ UNCHANGED <<subscriber, committed, cascade, failures, restarts, cacheVars>>

\* The second statement of DeregisterWholesaler acts on the count.
Deregister ==
  /\ NextWholesaleEvent("deregistering")
  /\ counted # Absent
  /\ LET e == WholesaleTopic[next["wholesale"]] IN
     wholesaler' = [wholesaler EXCEPT
       ![e.id] = IF counted = 0 \/ @ = Absent THEN Absent ELSE FALSE]
  /\ counted' = Absent
  /\ Handled("wholesale")
  /\ UNCHANGED <<subscriber, committed, cascade, failures, restarts, cacheVars>>

(***************************************************************************)
(* Failures and restarts.                                                  *)
(***************************************************************************)
\* A statement fails: the handler returns the error, run logs it and takes the
\* next record.
Fail(t) ==
  /\ next[t] <= Length(t)
  /\ failures < MaxFailures
  /\ failures' = failures + 1
  /\ Handled(t)
  /\ cascade' = IF t = "subscriber" THEN Absent ELSE cascade
  /\ counted' = IF t = "wholesale" THEN Absent ELSE counted
  /\ UNCHANGED <<tableVars, committed, restarts, cacheVars>>

\* The library commits a record some time after run has passed it.
Commit(t) ==
  /\ committed[t] < next[t]
  /\ committed' = [committed EXCEPT ![t] = next[t]]
  /\ UNCHANGED <<tableVars, next, cascade, counted, failures, restarts, cacheVars>>

\* The backend dies and starts again; the resolver loads its map at once.
Restart ==
  /\ restarts < MaxRestarts
  /\ restarts' = restarts + 1
  /\ next' = committed
  /\ cascade' = Absent /\ counted' = Absent
  /\ tenants' = {w \in Wholesaler : wholesaler[w] = TRUE}
  /\ UNCHANGED <<tableVars, committed, failures, cache, lookup>>

(***************************************************************************)
(* The engine's subscribers and the backend's tenants.                     *)
(***************************************************************************)
\* The rows the join of subscriber and wholesaler has for a number.
Joined(m) ==
  {s \in Subscriber : /\ subscriber[s] # Absent
                      /\ subscriber[s].msisdn = m
                      /\ wholesaler[subscriber[s].wholesale] # Absent}

\* The rows FindSubscriber accepts.
Chargeable(m) ==
  {subscriber[s] : s \in {s \in Joined(m) : /\ subscriber[s].active
                                            /\ wholesaler[subscriber[s].wholesale]}}

\* A miss: the database answers with some row of the join, whichever it meets
\* first; a row that may not be charged is an error to the caller.
Load(q, m) ==
  /\ lookup[q] = Absent
  /\ cache[m] = Absent
  /\ \E row \in {subscriber[s] : s \in Joined(m)} :
       /\ row \in Chargeable(m)
       /\ lookup' = [lookup EXCEPT ![q] = [msisdn |-> m, found |-> row]]
  /\ UNCHANGED <<tableVars, readerVars, cache, tenants>>

Store(q) ==
  /\ lookup[q] # Absent
  /\ cache' = [cache EXCEPT ![lookup[q].msisdn] = lookup[q].found]
  /\ lookup' = [lookup EXCEPT ![q] = Absent]
  /\ UNCHANGED <<tableVars, readerVars, tenants>>

\* Mutant: only subscribers who may not be charged are cleared.
ClearCacheOfInactive ==
  /\ cache' = [m \in Msisdn |->
       IF cache[m] # Absent /\ cache[m].active THEN cache[m] ELSE Absent]
  /\ UNCHANGED <<tableVars, readerVars, lookup, tenants>>

\* Every thirty minutes.
ClearCache ==
  /\ cache' = [m \in Msisdn |-> Absent]
  /\ UNCHANGED <<tableVars, readerVars, lookup, tenants>>

Refresh ==
  /\ tenants' = {w \in Wholesaler : wholesaler[w] = TRUE}
  /\ UNCHANGED <<tableVars, readerVars, cache, lookup>>

HandleSubscriberRecord == Insert \/ Update \/ Delete \/ Cascade

HandleWholesaleRecord == Upsert \/ Suspend \/ CountSubscribers \/ Deregister

SubscribersNext ==
  \/ HandleSubscriberRecord
  \/ HandleWholesaleRecord
  \/ \E t \in Topics : Fail(t) \/ Commit(t)
  \/ Restart
  \/ \E q \in Lookup : Store(q) \/ \E m \in Msisdn : Load(q, m)
  \/ ClearCache \/ Refresh

\* The consumers poll as long as they run, the timers tick, and the database
\* answers.
SubscribersFairness ==
  /\ WF_subscriberVars(HandleSubscriberRecord)
  /\ WF_subscriberVars(HandleWholesaleRecord)
  /\ \A q \in Lookup : WF_subscriberVars(Store(q))
  /\ WF_subscriberVars(ClearCache)
  /\ WF_subscriberVars(Refresh)

SubscribersSpec ==
  SubscribersInit /\ [][SubscribersNext]_subscriberVars /\ SubscribersFairness

(***************************************************************************)
(* Properties.                                                             *)
(***************************************************************************)
EventsOf(topic, n, id) == {i \in 1..n : topic[i].id = id}

LastOf(topic, n, id) ==
  topic[CHOOSE i \in EventsOf(topic, n, id) : \A j \in EventsOf(topic, n, id) : j <= i]

\* What the last of the first n events says of a subscriber.
Published(n, s) ==
  IF EventsOf(SubscriberTopic, n, s) = {} \/ LastOf(SubscriberTopic, n, s).type = "deleted"
  THEN Absent ELSE LastOf(SubscriberTopic, n, s).row

\* What the last of the first n events leaves open of a wholesaler: an inactive one
\* may have gone with its last subscriber, and a suspension does not bring it back.
Agreed(n, w) ==
  IF EventsOf(WholesaleTopic, n, w) = {} THEN {Absent}
  ELSE LET e == LastOf(WholesaleTopic, n, w) IN
       CASE e.type = "deregistering" -> {Absent, FALSE}
         [] e.type = "suspend" -> {Absent, e.active}
         [] e.type = "provisioned" -> IF e.active THEN {TRUE} ELSE {Absent, FALSE}

\* A subscriber is created once until it is deleted, and changed only in between.
LifeCycle ==
  \A i \in 1..Len(SubscriberTopic) :
    LET e == SubscriberTopic[i] IN
    /\ e.type = "created" => Published(i - 1, e.id) = Absent
    /\ e.type = "updated" => Published(i - 1, e.id) # Absent

CaughtUp == \A t \in Topics : next[t] = Length(t) + 1

\* Once both consumers have handled all there is and no statement failed, the
\* tables say what the topics end with, however often records were handled
\* again after a restart (run of both consumers, subscriber_storer.go).
TablesFollowTopics ==
  CaughtUp /\ failures = 0 =>
    /\ \A s \in Subscriber : subscriber[s] = Published(Len(SubscriberTopic), s)
    /\ \A w \in Wholesaler : wholesaler[w] \in Agreed(Len(WholesaleTopic), w)

\* After the last event the engine comes to serve only subscribers who may be
\* charged, and the backend only active tenants: no entry a slow lookup stored
\* late stays (clearCache, refresh).
CachesCatchUp ==
  <>[](/\ \A m \in Msisdn : cache[m] # Absent => cache[m] \in Chargeable(m)
       /\ tenants = {w \in Wholesaler : wholesaler[w] = TRUE})
==============================================================================
