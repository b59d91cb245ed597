# Verification of the charging domain

TLA+ modules, TLC configurations and TLAPS proofs for the online charging
system in this repository: how a subscriber's quota is reserved, debited,
released, topped up and expired, how the quota manager does this under an
optimistic lock while several processes work on the same subscriber, how the
charging engine's handlers use it while steps fail, processes die and network
elements repeat their requests; and the parts around it: the consumers that
bring subscribers, contracts and top-ups, the plans and their approval, how a
use is classified and rated, the caches, the proxy and the housekeeping job.

Paths below are relative to `src/`.

## 1. The system

Four programs share one Postgres database and one Kafka cluster.

| program | what it does |
|---|---|
| `cmd/charging-engine` | HTTP (3GPP Nchf) charging: create, update, release, one-time event |
| `cmd/charging-dra` | Diameter proxy in front of the engine |
| `cmd/charging-backend` | GraphQL administration and the Kafka consumers |
| `cmd/charging-housekeeping` | job that expires quota, deletes stale sessions and purges traces |

### Components, their state and operations

**Quota document** (`internal/quota/quota.go`, `loadedquota.go`,
`quotareserve.go`, `quotadebit.go`, `provisioning.go`). One JSON value for each
subscriber: a slice of counters with balance, reservations by grant id, expiry
and loan. Operations: reserve (service units first, monetary value for what
they lack), debit, release, provision a counter (with repayment of outstanding
loans), prune and expire. *Correct when* no counter has more reserved than it
holds, the journal accounts for every unit, and loans are repaid once, fee
first and oldest first. *Hard*: long sequences of legal calls; expiry of a
counter that is reserved from or owes a loan.

**Quota manager** (`manager.go`, `quotarepository.go`). `executeWithQuota`
loads the row, lets an operation change the copy, saves it if `last_modified`
is still the value loaded, and publishes journal events. *State*: the `quota`
table and the `quota-journal` topic. *Correct when* each call looks atomic to
all others and the topic tells what was saved. *Hard*: two processes between
load and save; a process that dies between save and publish.

**Charging handlers and session records** (`internal/chargeengine`). Each
request runs a list of steps: load the record of the session (`charging_data`),
account for the reported use (debit), classify, rate (reserve), save the
record, write the trace (`charging_trace`), answer. *Correct when* the grants
in the record, the reservations on the quota and the answer the network element
received agree, and what leaks is given back in the end. *Hard*: three
documents without a common transaction; failures and deaths in between;
retransmissions.

**Classification** (`business/classifying.go` of the engine). For each service
type of the plan that fits a request, a rate key for every rating group: source
by the carrier's codes, category by the number plan or the rule. *Correct when*
a request is classified whole or refused, and a number goes to the network with
the longest matching range. *Hard*: carriers and numbers are replaced in the
middle of a request; map iteration has no order; a later service type takes
over what an earlier one classified.

**Rule evaluator** (`internal/ruleevaluator`). Expressions of the plan on a
stack of values and a stack of operators. Stateless. *Correct when* the answer
is what the expression says, and an error when types do not fit. *Hard*: there
is no precedence; functions, ternaries and parentheses share the two stacks.

**Rating** (`business/rating.go`, `rating-step.go`, `internal/charging`).
Best line of the settlement, wholesale and retail plan, then three tariffs,
each on top of the one before. *Correct when* no line that says more is passed
over and nobody sells below what he pays. *Hard*: ties, rounding.

**Provider caches** (`internal/chargeengine/engine/providers`). Subscribers
one at a time, the whole map cleared every 30 minutes; rate plans,
classification plan, carriers and numbers replaced as a whole every few
minutes. *Hard*: a lookup that started before a clear and ends after it.

**Housekeeping** (`internal/housekeeping`, `cmd/charging-housekeeping`). Four
tasks in order: expire quotas, delete the records of stale sessions, purge
traces, delete superseded rate plans. *Correct when* the exit code tells of
every failure and a failure stops nothing else. *Hard*: it runs beside live
sessions, approvals and itself.

**Subscriber and wholesale consumers** (`internal/backend/consumer`). Two
topics into two tables; an offset is committed by the library after the record
was handled, well or badly. *Correct when* the tables end up with what the
topics say. *Hard*: two consumers on one wholesaler row, statements outside a
transaction, redelivery after a restart.

**Quota provisioning consumer** (`quota_provisioning_consumer.go`). Top-ups
into the quota manager, commits by hand. *Correct when* no top-up is lost or
doubled. *Hard*: a crash between provisioning and commit; a record that fails
and is passed over by the next commit.

**Rate plan and classification approval** (`internal/backend/services`). DRAFT,
PENDING, ACTIVE rows edited by several people, read by the engine, thinned out
by housekeeping. *Correct when* only approved contents are used, an active row
never changes, and a plan in use never loses its last active version. *Hard*:
calls that read a version and write later; two clean-ups at a time.

**Diameter proxy** (`cmd/charging-dra`). Finds the wholesaler, asks its
limiter, posts to the engine with a time limit, answers; `avp_nchf_mapper.go`
turns each message into the other side's. *Correct when* an answer tells what
the engine did, the rate is kept, and peer and engine agree on what was granted
and used. *Hard*: an answer that comes too late; limiters shared by concurrent
requests and made only once; repetitions the proxy does not mark as such.

**Kafka publication** (`internal/events`): asynchronous, no retry of its own.
**Tenants** (`internal/auth/tenant`): a table of active wholesalers, refreshed.
**Authentication, master data, logging, configuration**: no protocol with the
charging logic.

### How they interact

    Diameter peer -- CCR --> proxy -- HTTP --+
                                              v
    network element -- request --> handler --> session record, trace   (Postgres)
                                      |
                                      v
    provisioning events --> quota manager --> quota row (Postgres), quota-journal (Kafka)
                                      ^
                                      |
                              housekeeping job --> deletes stale session records

    subscriber, wholesale events --> subscriber, wholesaler tables --> caches of engine, tenants of backend
    editors --> rate plan, classification tables <-- clean-up;  --> plans loaded by the engine
    number plans, carriers --> classification --> rating --> a tariff for the quota manager

All arrows into the quota manager may come from different processes; the only
guard between them is the `last_modified` comparison of the update statement.

## 2. The modules

| module | models | extends |
|---|---|---|
| `Loops` | the fold `Loop` and the sum `Total`, as recursive functions | - |
| `QuotaDocument` | the operations on a quota document, as operators | `Loops` |
| `QuotaLedger` | **abstract specification** of the quota manager: each call is one atomic step | `QuotaDocument` |
| `QuotaGrants` | the ledger with the grants the engine hands out | `QuotaLedger` |
| `QuotaStore` | `executeWithQuota` step by step; implements `QuotaLedger` | `QuotaDocument` |
| `ChargingSession` | the four handlers, housekeeping beside them | `QuotaDocument` |
| `Subscribers` | subscriber and wholesale consumers, the subscriber cache, the tenants | - |
| `TopUps` | the quota provisioning consumer | - |
| `RatePlans` | versions of rate plans: approval, clean-up, loading | - |
| `Classifications` | classification plans: approval, loading | - |
| `Classifying` | `ClassifyService` with its lookups | - |
| `Rules` | the rule evaluator | - |
| `Rating` | best rate lines and the chain of tariffs | - |
| `DiameterProxy` | a credit control request on its way through the proxy | - |
| `CreditControl` | a session of a Diameter peer with the engine through the proxy | - |
| `Housekeeping` | the job's order, failures and exit code | - |
| `LoopsProofs`, `QuotaDocumentProofs` | lemmas about loops, sums and the operations on a document | `Loops`, `QuotaDocument` |
| `QuotaLedgerProofs`, `QuotaStoreProofs` | theorems about the quota manager | `QuotaLedger` with `QuotaGrants`; `QuotaStore` |
| `ProxyProofs` | theorems about a request and a session of a Diameter peer | `DiameterProxy`, `CreditControl` |
| `SessionProofs` | theorems about the charging handlers | `ChargingSession`, `QuotaDocumentProofs` |
| `SessionDebitsProofs` | the theorem about their debits | `SessionProofs` |
| `BackendProofs` | theorems about what the engine charges by, the consumers and housekeeping | `RatePlans`, `Classifications`, `Rating`, `Classifying`, `TopUps`, `Subscribers`, `Housekeeping` |
| `MC*` | constants for TLC | |

A definition whose comment begins with "Mutant:" is a plausible mistake in the
definition that follows it. Nothing uses it; it is there to show that the
properties notice the mistake when it takes the definition's place.

### QuotaDocument

A document is a function from counters to records with `position` (place in the
slice, 0 when the counter is not there), `balance`, `reserved` (by grant id),
`loan` and `fee`. Counters are numbered by falling priority, which is the order
of `FindCounters`. What configuration or an event carries with a counter or a
grant is a constant: `Initial`, `ExpiryAt`, `LoanTerms`, `Tariff` (unit type,
matching counters, multiplier, price).

| operator | code |
|---|---|
| `ReserveService`, `ReserveMonetary`, `ReserveQuota` | `reserveServiceUnits`, `reserveMonetaryUnits`, `ReserveQuota` in `quotareserve.go` |
| `DebitService`, `DebitMonetary`, `Debit` | `quotadebit.go` |
| `Release` | `ReleaseReservations` in `quota.go`, called by `Release` in `quotarelease.go` |
| `AddCounter`, `Clawback` | `ProvisionCounter` in `provisioning.go`, `ClawbackLoan` in `quota.go` |
| `Pruned`, `Kept`, `WrittenOff`, `Expire` | the expiry passes of `loadedquota.go` |
| `ReserveCall` ... `ExpireCall` | one call of the manager: expiry pass, operation, journal entries |

A `...Call` yields the new document, the journal entries published by the
operation (`early`), those published after the save (`late`), and the answer.
For a debit the answer is what could not be accounted for.

Decimals are integers in the smallest unit an instance needs;
`TariffAssumption` keeps prices exact. The rounding of `decimal.Div` beyond
sixteen digits is not modelled. `PercentOf`, the share of an incoming balance a
loan takes (a fraction of 0 to 1 in the code, `percent` of 0 to 100 here), is
exact in the code and rounded up to the smallest unit here, so that a share of
something is something, as in the code; in the run it is always exact. A price of zero is excluded: the code divides
by it.

### QuotaLedger

Variables: the document, the clock, the amounts journaled so far, the grant ids
drawn, the deliveries of each provisioning event. One action for each call
(`Reserve`, `DebitUnits`, `ReleaseUnits`, `Provision`, `ProcessExpired`) and
`Tick`. A call carries a clock reading that may be up to `Lag` old, because a
request reads the clock once, at its start.

### QuotaGrants

Adds `granted`: what the engine believes it may debit. A grant is what a
reservation answered; it can be used until its validity ends, for no more than
is left of it. `GiveBack` is the clean-up of a failed one-time charge.

### QuotaStore

Each request is a process with a program of calls: `Begin` reads the clock;
`Load` or `LoadNothing`/`Create` finds the row and runs the operation on its
copy, publishing the early entries; `Save` writes if the version is unchanged,
with the request's clock reading as the new version; `SaveConflict` is the
other outcome; `Publish` sends the late entries and goes on to the next call;
`Crash` may happen between any two. `settled` is a history variable: the
journal of the calls that were really saved.

### ChargingSession

Each request is a handler with its own charging context. `Begin`, `Resend`,
`LoadNone`, `LoadRecord`, `AccountUsage`, `DebitUsed`, `AccountDone`,
`RateUnit`, `RateDone`, `SaveRecord`, `CreateTrace` follow the steps of
`chargeservice.go`; one call on the quota manager is one step. `Fault` is a
step that returns an error without an effect, after which an update, release or
event goes through `CleanUp` (`HandleError`); `Crash` is the death of the
process. Two failures stop nothing: `LookUpFails` is a failed look-up of the
record, which `CreateChargeDataStep` takes for a record that is not there, so a
repeated first request goes on beside the record it has; `ReleaseFails` is a
release that `HandleError` logs and passes over. `Provision`, `ExpireQuota`, `CleanStaleSessions` and `Tick` go on
beside the handlers. `RateUnit` takes the requested units as they are after the
scaling of `rating-step.go:113-120`: an update that comes within
`ScalingValidityWindow` of the last event asks for a multiple of its units and
gets that window as its validity. The factor is the clock's and not modelled;
`wanted` may be any number, and `Validity` is one for all grants. `book` is a history variable with what was granted less
what was debited for each grant id.

### Subscribers

`subscriber` and `wholesaler` are the two tables (number, wholesaler and active
flag of a row), `next` and `committed` the positions of the two consumers.
Handlers of two statements are two actions with what lies between in a
variable: `Delete` and `Cascade` (`DeleteInactiveWholesalerIfEmpty`),
`CountSubscribers` and `Deregister`. `Fail` is a statement that fails: the
record is logged and passed over. `Commit` is the library's, `Restart` resumes
at `committed`. `Load` and `Store` are the two halves of a cache miss in
`FindSubscriber`, `ClearCache` its timer; `Refresh` is the tenant resolver.

### TopUps

`position` is the record in hand, `handled` whether its commit is due, `offset`
where a restart resumes. `RefuseTopUp` is a call that fails: no commit, next
record. `CommitRecords` commits a record and so all before it, or fails.
`Crash` may come between provisioning and commit. Of a quota only the set of
counters is kept (`SpendCounter` takes one away); what provisioning does to it
is `AddCounter` in `QuotaDocument`.

### RatePlans, Classifications

Tables of versions. `RatePlanService` names a plan, and a statement changes
every version of it with the expected status; `ClassificationService` names a
row. Calls of two statements (`UpdateRatePlanRules`, both clones) read in one
action and write in another. `List`, `DeleteListed`, `StopCleanup` are the
clean-up, one delete at a time, any number of jobs. `PlanType` are the types of
plans in their alphabetical order, by which `FindActiveRatePlans` orders before
the date: `Leading` is the version whose row is the first of its plan. `Reload` and
`ReloadClassification` what the engine takes over. `approved` and `agreed` are
histories of what was approved. A call that finds no row answers an error and
is no step.

### Classifying, Rules, Rating

`Classifying` is the loop of `ClassifyService`, a step for each service type
entered or passed and each rating group; `ReloadCarriers` and `ReloadNumbers`
may come in between. The order in which a map is walked is free
(`FindCarrierByDestination` takes every order). What an expression comes to is
given with the service type (`"other"` is a value of another type). The flag
`UseServiceWindows` is left out: without it the window is empty, here it is the
default one, which no property tells apart.

`Rules` evaluates expressions: an expression is a tree, `Written` the tokens of
it with every operand in parentheses, `Meaning` its value by recursion on the
tree, and the machine is the code's two stacks (`ProcessOp`, `ProcessParen`,
`ProcessFunc`). A question mark applies one operator, whatever it is
(`RuleEvaluator.go:746-753`). When the condition is a value, a call or a negated
parenthesis (`Grabs`) and the choice is an operand, that operator is the
parenthesis of the choice, and the answer is an error: `(true ? 1 : 2) == 1`
fails where `(true == true ? 1 : 2) == 1` does not. `Misread` are the expressions
in which this happens. Only this module has RECURSIVE operators of its own.

`Rating` has a step for each of the three lines and each of the three tariffs.
`BestLines` are the lines the code may choose: the last of those with a score
is kept. A percentage on a negative price makes a lower one still, which the
proof of `SurchargesCover` brought up: the property is about prices that are not
negative. `Rounded` rounds half a digit away from zero, as `decimal.Round` does. `Grain` is how finely amounts are counted below the digits prices are
rounded to, so that a markup finer than those digits can occur.

### DiameterProxy

Where a request's handler is (`ccr`), what the engine made of it (`engine`) and
what the peer was told (`answered`) are apart: `Charge` goes on after `GiveUp`.
`limiter` is a token bucket in whole tokens and seconds; `ChangeRate` is a
contract event, which a limiter that was made does not notice. `Reply` may also
send nothing: `sendErrorResponse` needs the request's CC-Request-Type, a handler
that panics answers nobody (a request without a subscriber, a refusal without a
cause), and the connection may be gone.

### CreditControl

Composes the peer, the mapper and the engine over one session. An exchange is
`<<number, try>>`: a request is repeated under its CC-Request-Number. The proxy
keeps nothing between request and answer, so the two directions of the mapper
are operators: `MultipleUnitUsage` and `InvocationSequenceNumber` are what the
engine reads of `sent`, `Cca` is what the peer reads of `post`. Since an
exchange may be handled at any time after it was sent and its answer read at
any time or never, every loss, delay and reordering is there. `Charging`,
`UpdateCharging` and `ReleaseCharging` are the engine's handlers, one step each;
`Fail` is a handler that stops early, keeping the debits it made; `spent` are
the grants whose reservation such a handler used up. Inside a handler, and for
grants that run out or are rounded, see `ChargingSession`. `opened`, `reported`
and `debited` are histories.

The peer is external, a credit control client as this code expects it: one
request at a time, all groups in each, unused units given up when it reports
(the mapper marks every use reclaimable), late answers ignored.

### Housekeeping

Task by task, subscriber by subscriber, with the errors as the code passes them
on (`lastError`, `runError`). What a task does to its tables is in
`QuotaStore`, `ChargingSession` and `RatePlans`.

### MCGrantsToPeer

`QuotaGrants` and `CreditControl` are the two halves of a grant's way, from the
quota to the engine's record and from there to the peer and back. They meet in
the amount a reservation answers; `CreditControl` takes any of `Grantable` for
it, so the halves are checked one at a time (`half`), in one run.

### MCBackend

These nine modules share no table and no topic, so a product of their states
would say nothing that their sum does not. `MCBackend` has a variable `part`
that chooses one of them in the initial state; only that one moves.

## 3. The runs

Passing runs.

| run | instance | shows |
|---|---|---|
| `ledger_loans` | 2 counters on loan (one takes half of what comes in, one its minimum, which is all of it), 1 that repays, 1 grant id, clock 0..2, calls up to one tick late, events delivered twice | `FeeBeforeLoan`, `LoansAccountedFor`, `OldestLoanFirst`, `TypeOK` |
| `grants` | 2 service counters and a monetary one, 2 grants, one with multiplier 5/2; and a Diameter session of 3 requests, each sent once or twice, a group in time and one in units | `NoOverReservation`, `JournalBalances`, `UseWithinGrantIsPaid`; `PeerWithinGrants`, `UseDebitedOnce` |
| `store` | 5 requests of one call: a top-up, its redelivery, a reservation, its debit, housekeeping; one crash | `ImplementsLedger` (refinement), `ExpiryPostedOnce` |
| `session` | a session (create, update, release, retransmitted update, repeated create) and a one-time charge of two rating groups, one of them free; one fault, which may be a failed look-up or release | `DebitsFitGrants`, `ImplementsGrants` (refinement), `AnswerIsBacked`, `ReservationsEnd` (liveness) |
| `backend` | the nine components beside quotas and sessions, one at a time; bounds below | see the next table |

* `UseWithinGrantIsPaid` relates two documents: whatever the engine still lets
  the network element use is covered by reservations, across partial debits,
  expiry of the counter while reserved and pruning.
* `ImplementsLedger` says that the lock works where each request makes one
  call: every save is one atomic ledger call on the document it replaces.
* `DebitsFitGrants` is the side of the bargain that `QuotaGrants` takes for
  granted: no debit is made that its grant does not cover, although the record
  the handler read may predate a handler that died. In return, a debit under a
  plain tariff is paid in full, unless the grant ran out after the handler read
  the clock, for then another call may have pruned its reservations.
* `ImplementsGrants`: the handlers are the engine `QuotaGrants` describes. Of a
  handler's steps, `RateUnit` is `ReserveGrant`, `DebitUsed` is `UseGrant`,
  `CleanUp` is `GiveBack` (or `ProcessExpired`, for a grant that reserved
  nothing), and the others are stutters; `book` is `granted`, and a handler's
  clock reading may be as old as its request (`Lag <- MaxTime`).
* `AnswerIsBacked`: answer, session record and reservations agree, the last
  for `Plain` tariffs (`grants_multiplied` shows what a multiplier does).
* `ReservationsEnd`: whoever crashed or forgot a grant, its reservation ends.
* `PeerWithinGrants`: what the peer was last told it may use is in the engine's
  record, although the answer may be an old one and newer requests may have
  changed the record. It needs that the translation of a grant never gains
  units, also where CC-Time cuts it to 32 bits.
* `UseDebitedOnce`: the sum of debits never exceeds the sum of reports. The
  mapper never sets the retransmission indicator; it is the number of the
  record that keeps a repeated request from being debited again. The clause
  `opened <= 1` is needed: a repetition of the first request that arrives after
  the release opens the session once more (`chargedata-step.go:51`), and then a
  late repetition of an update is debited again.

What `backend` checks, apart from types:

| module | property | says |
|---|---|---|
| `Subscribers` | `TablesFollowTopics` | once all is handled and no statement failed, the tables say what the topics end with, whatever the interleaving and the redelivery |
| | `CachesCatchUp` | in the end engine and backend serve only whom the tables allow: no entry stored late stays (liveness) |
| `TopUps` | `TopUpsNeitherLostNorDoubled` | what a restart does not read again was provisioned unless its call failed; twice only what was used up in between |
| | `ConsumedTopUpsArrive` | every top-up whose call does not fail is provisioned in the end (liveness) |
| `RatePlans` | `ActivePlanStays` | no step changes an active version, and no clean-up, also two at a time, takes the last one of a plan |
| | `ChargedAsApproved` | the engine rates by approved lines, not before their time |
| `Classifications` | `ClassifiedAsAgreed` | the engine classifies by approved rules, not before their time |
| | `NeverAnOlderPlan` | a reload never goes back |
| `Classifying` | `ClassifiedWhole` | all groups by the last service type that fits and with one source, despite reloads |
| | `LongestRangeDecides` | the longest loaded range wins, in any order |
| `Rules` | `EvaluatedAsWritten` | the two stacks yield the value, or the error, of the tree, and an error for a choice that is misread |
| `Rating` | `MostSpecificLine` | no matching line that says more is passed over |
| | `SurchargesCover` | a price on top of another that is not negative is not lower, but for half a digit of rounding |
| `DiameterProxy` | `AnswersTellCharging` | an answer tells what the engine did; nobody is told twice |
| | `WithinRate` | the engine gets no more of a wholesaler than burst and first rate allow |
| `Housekeeping` | `ExitTellsAll` | exit code 0 exactly when nothing failed, and everything was tried |

Runs in which TLC finds the stated property violated. Each property is taken
from a sentence in the repository, and each counterexample is a behaviour of
the code as it is.

| run | the sentence | what the code does |
|---|---|---|
| `store_lost` | quota debits are atomic and transactional; an error if another writer has modified the quota | all calls of a request write the same version, so a writer that loaded between two of them saves over the second |
| `store_retry` | optimistic locking with retry | the retry waits for `ErrConflict`; `Save` returns `PessimisticLockError` |
| `store_journal` | journal events only after a successful save | debit and provisioning publish before the save |
| `grants_multiplied` | the answer is what was allocated | out of bundle, with a multiplier of 5/2, two units are granted and 100 reserved for them; they cost 230 (the subscriber has money only, so no service counter is involved) |
| `session_resent` | sequence numbers prevent double charging on retries | an update that dies after its debit and before the record is saved debits again when repeated |
| `session_release` | unused quota is released when the session ends | the record is dropped, its reservations stay |
| `session_trace` | clean up when not completed | when the trace fails the saved record keeps grants whose reservations are released |

Where the code and its comments part without a run of their own (the hazard
list has each of them at its line):

* *The fee of a loan.* `quota.go:316` says that it "is included in the
  loanBalance", and `provisioning.go:70` and `:100` that "transactFee =
  initialBalance". `ProvisionCounter` does neither: the balance of the loan is the
  initial balance (`:146`), the fee is the event's (`:147`), and `Clawback` takes
  the fee without taking it off the loan, so the subscriber pays back the fee on
  top of what was lent. `events/quota_provisioning_event.go:27` and the tests
  agree with the code. `LoansAccountedFor` and the theorem about it count the
  fee as a debt of its own, as the code does: that they hold says that nothing
  of either is lost or taken twice, not that the comments are right.
* *Deregistration of a wholesaler* "deletes the wholesaler if it has no remaining
  subscribers" (`wholesale_storer.go:22`), counting in one statement and deleting
  in another (`CountSubscribers`, `Deregister`). A subscriber inserted by the other
  consumer in between is left on a wholesaler that is gone. The comment at `:66`
  accepts a race, but of two deregistrations. `TablesFollowTopics` compares each
  table with its own topic and is not broken by it.
* *The most recent rate plan.* `rateplan.sql:7` orders the rows "so that the most
  recent plan is first", but by `plan_type` before the date, and `UpdateRatePlan`
  may give a version another type. The loader keeps the first row (`Leading`), so
  the version whose type comes first in the alphabet is charged by, however old.
  The properties of `RatePlans` hold all the same.
* *Clean-up of the version in force.* `ListSupersededRatePlanVersions` asks for
  a newer ACTIVE version, also one that is effective only in the future. The
  version in force is then deleted, and the plan cannot be rated with until the
  new one begins. `rate_plan_cleanup.go:13-15` speaks of versions that "have
  been replaced". `ActivePlanStays` is what does hold.
* *A top-up that fails.* `quota_provisioning_consumer.go:28-30` promises its
  redelivery on the next restart; the commit of a later record of the partition
  covers it, and it is lost. The properties of `TopUps` except `refused`.
* *Number plans* are kept by PLMN (`numberplanprovider.go:41`): of a network
  with several ranges only the last one loaded is found.
* *Service windows* are read as times of the year 0 and compared with today
  (`classificationplan.go:34`): the default window always applies.
* *Direction*: an expression yields a string where a `CallDirection` is
  expected (`classifying.go:124`): every call is MO.
* *Requested units.* `extractMultipleUnitUsage` "extracts per-rating-group usage
  and requested units" (`avp_nchf_mapper.go:685`), but an MSCC without used
  units is dropped with what it requests (`:733`). The first request of a
  session, which used nothing, reaches the engine without a usage and is granted
  nothing.
* *Refusals.* `ocsclient.go:162` calls the details of a refusal optional, and
  the mapper has a default for an unknown cause (`avp_nchf_mapper.go:262`). The
  engine sends no cause at all (`charge-engine.go:101`), and `:42` dereferences
  it: the handler panics and the peer gets no answer.
* *Grants in a record that has none.* After a first request without usages the
  record is saved without a map of grants, and the first update that reports a
  use panics (`accounting-step.go:214`; `NilGrants` in `CreditControl`).
* *Events.* A CC-Request-Type of 4 is marked as a one-time event and then
  refused by `Send` (`ocsclient.go:99`), although the engine has an endpoint
  for one-time charges.
* *Several Used-Service-Units* in one MSCC, as before and after a tariff
  change: only the first is read (`avp_nchf_mapper.go:791`).
* *Expressions* without parentheses group from the right whatever their
  operators; `EvaluatedAsWritten` is about expressions that have them. A choice
  in parentheses is an error unless its condition ends with an operator of its
  own (`Misread`).

### Bounds, and why they are enough

* *Counters and grant ids*: two counters of one kind are needed for order and
  overflow from one to the next, a third for the other kind (monetary, or
  repaying); two grant ids compete for one counter.
* *Clock* (`MaxTime`): beyond the last expiry of interest by at least one tick,
  so that a counter can expire while reserved and be seen after the reservation
  ended. In `session`, `MaxTime = Validity = 1`: a grant is valid at 0 and has
  run out at 1.
* *`Lag`*: 1 in `ledger_loans`. 0 in `grants`: a late caller could reserve for
  less than the grant's validity; see the plan.
* *`store`*: one row (`NumRows = 1`) and one first writer. The table has no
  uniqueness on the subscriber; what happens with two rows is in the hazard
  list. Two requests never read the same instant; the versions would otherwise
  coincide as they do within one request, which is what `MCStoreBatch` is for.
* *`session`*: requests of one session follow one another (`Follows`), as a
  network element sends them; the one-time charge overlaps with them. `Failing`
  leaves out the trace in this run, because its failure breaks
  `DebitsFitGrants`: `session_trace` shows how. `Follows` names all earlier
  requests of the session, as `InSequence` asks (proofs below). Reports of use
  are below, and equal to, the grant; `MaxUnits` is the most that is asked for or
  reported (`UnitsAssumption`).
* *`backend`, consumers*: two subscribers of one wholesaler take over one
  number from each other, so that two rows compete for a cache entry, while the
  contract is suspended, resumed and ended; one failed statement
  (`MaxFailures`) and one restart (`MaxRestarts`) suffice to part `next` from
  `committed`. The top-up topic has a repeated event and a malformed one among
  five records; two calls fail (`MaxRefusals`), one crash.
* *`backend`, plans*: two versions of one plan, two types, two sets of lines, three
  moments, an editor between its read and its write, two clean-up jobs with
  `Retention = 0`. Two versions are what a clean-up needs; that a third makes no
  difference is proved. Two classification rows and three days.
* *`backend`, classification and rating*: two service types, three uses of two
  rating groups, two reloads (`MaxLoads`), a network with two ranges, ranges
  that begin one another and one that two networks share; all chains of three
  tariffs of each type, barred or missing; lists of two lines over all keys and
  of three lines over the keys that match. Expressions of up to three levels,
  well typed or not, among them choices as operands with every kind of
  condition.
* *`backend`, proxy and job*: three requests of one wholesaler with `Burst = 1`,
  rates 0 and 1, two seconds: the third request meets an empty limiter, a rate
  changes after the limiter was made, and a token is earned back. That larger
  numbers behave alike is proved. A request may end without an answer. Three subscribers with an expired quota: a
  failure may be first, between or last.
* *`grants`, the session*: `Word = 3` against a grant of 5 stands for a grant beyond 32 bits;
  numbers 0 to 2 (`MaxNumber`) give a first request, an update and a release or
  a second update; two tries (`MaxTries`) of each can be handled in any order,
  so an update is handled after a newer one and a first request after the
  release. Rating group 0 is the one that is not told in an answer.
* `CHECK_DEADLOCK FALSE` in all runs: requests and events are bounded in number
  and the clock stops, so every instance comes to rest.

### Fairness

`ChargingSession`, `Subscribers` and `TopUps` have liveness properties. The
first assumes that time passes
(`WF(Tick)`) and that the housekeeping job, which a scheduler starts, keeps
visiting the quota (weak fairness of the steps that flip `pass`, which only
`ExpireQuota` takes; the variable spares TLC the evaluation of ENABLED on the
whole action). No handler is assumed to go on: it may hang or die anywhere.
Housekeeping does visit every row, because `next_action_time` is never
advanced.

`Subscribers` assumes that both consumers go on polling (`run` loops until its
context ends), that the timers of `clearCache` and `refresh` tick, and that a
lookup that got its row stores it (`FindSubscriber` does nothing in between);
nothing forces a lookup to begin, a statement to fail or the library to commit.
`TopUps` assumes that the consumer goes on with the record in hand; crashes are
bounded in number. `BackendFairness` is the same for the part that moves.

## 4. What is proved

For every value of the constants, not only those of the runs. Where a theorem
has a hypothesis on the constants it is named in the statement and explained
below; the run that checks the property satisfies it.

The quota manager (`QuotaLedgerProofs`, `QuotaStoreProofs`), for every number of counters, grant ids, requests and rows, every tariff, every loan
and every bound:

| theorem | statement |
|---|---|
| `TypeCorrect` | `Spec => []TypeOK` |
| `ReservationsCovered` | `Spec => []NoOverReservation` |
| `JournalAccounts` | `Spec => []JournalBalances` |
| `FeePaidFirst` | `Spec => []FeeBeforeLoan` |
| `LoansAccounted` | `LoansLend` implies `Spec => []LoansAccountedFor` |
| `LoansOldestFirst` | `LoansLend`, `LoansTake` imply `Spec => OldestLoanFirst` (action property) |
| `GrantsTypeCorrect` | `GrantsSpec => []GrantsTypeOK` |
| `GrantsPaid` | `GrantsSpec => []UseWithinGrantIsPaid` |
| `GrantsKeepLedger` | `GrantsSpec => [](NoOverReservation /\ JournalBalances)` |
| `StoreTypeCorrect` | `Spec => []StoreTypeOK` |
| `ExpiryPublishedOnce` | `Spec => []ExpiryPostedOnce` |
| `StoreImplementsLedger` | `SingleCalls`, `GrantsDrawnOnce` imply `Spec => ImplementsLedger` (refinement) |
| `NoSaveUndone` | the same imply `Spec => []SavedCallsStay` |

The charging handlers (`SessionProofs`, `SessionDebitsProofs`), for every set of
requests, every number of faults and crashes, every number of counters and grant
ids, every tariff; the first three for requests sent in any order and overlapping
in any way:

| theorem | statement |
|---|---|
| `SessionTypeCorrect` | `Spec => []SessionTypeOK` |
| `AnswerBacked` | `Spec => []AnswerIsBacked` |
| `SessionKeepsBooks` | `Spec => [](Balanced(quota, journal) /\ reserved <= balance)`, of each counter |
| `DebitsFit` | `InSequence`, `"trace" \notin Failing` imply `Spec /\ []ReportsWithinGrants => []DebitsFitGrants` |
| `SessionImplementsGrants` | the same hypotheses imply `Spec /\ []ReportsWithinGrants => ImplementsGrants` (refinement) |

The components around it:

| module | theorem | statement | for every |
|---|---|---|---|
| `ProxyProofs` | `AnswersTrue`, `RateKept` | `[]AnswersTellCharging`, `[]WithinRate` | number of requests and wholesalers, rates, burst |
| | `CreditTypeCorrect`, `PeerKeptWithinGrants`, `UseDebited` | `[]CreditControlTypeOK`, `[]PeerWithinGrants`, `[]UseDebitedOnce` | groups, amounts granted, numbers, repetitions |
| `BackendProofs` | `RatePlansTypeCorrect`, `EngineChargesAsApproved` | `[]RatePlansTypeOK`, `[]ChargedAsApproved` | number of plans, versions, editors, jobs; retention |
| | `LastActiveStays` | `ActivePlanStays` (action property) | the same |
| | `ClassificationsTypeCorrect`, `EngineClassifiesAsAgreed`, `OlderPlanNever` | `[]ClassificationsTypeOK`, `[]ClassifiedAsAgreed`, `NeverAnOlderPlan` | contents, rows, cloners, days |
| | `MostSpecific`, `SurchargesCovered` | `[]MostSpecificLine`, `[]SurchargesCover` | fields, values, lists of lines, bases, measures |
| | `WholeClassified`, `LongestDecides` | `[]ClassifiedWhole`, `[]LongestRangeDecides` | requests, service types, tables, numbers, reloads |
| | `TopUpsTypeCorrect`, `TopUpsOnce` | `[]TopUpsTypeOK`, `[]TopUpsNeitherLostNorDoubled` | topic, number of failed calls and crashes |
| | `SubscribersTypeCorrect` | `[]SubscribersTypeOK` | topics, restarts, failed statements |
| | `TablesFollow` | `LifeCycle` implies `[]TablesFollowTopics` | the same |
| | `ExitTells` | `[]ExitTellsAll` | set of subscribers |

### The hypotheses

* `LoansLend` (a loan lends something). A counter that holds nothing and owes no
  loan leaves the quota at the next expiry pass, and its fee with it: a loan of
  0 with a fee is a fee that is never paid nor owed.
* `LoansTake` (every loan has a minimum above 0 or a percentage above 0 to repay
  by). Without either the oldest loan takes nothing while it is larger than its
  minimum, is passed over, and a younger one is paid.
* `SingleCalls` (one row for the subscriber, one call for each request) and
  `GrantsDrawnOnce` (`uuid.New` draws no id twice). The version of a save is the
  request's clock reading, so the saves of one request all have the same
  version, and another request between them saves over what it has not seen;
  `store_lost` is a run without the hypothesis that finds it.
* `LifeCycle` (the topic creates a subscriber before it changes it, and not
  twice without a deletion). A second creation fails on the primary key and an
  update of nobody changes nothing, so the table is then not as the topic's last
  record says.
* `InSequence` (of two requests of one session, one is sent when the other has
  ended): how a network element sends them. Two that overlap read the same
  record, and the second debits what the first has used.
* `"trace" \notin Failing` (writing the trace, the last step before the answer,
  does not fail; the process may die there). Its failure releases the grants of a
  record that was just saved, and `session_trace` shows the later debit that
  finds nothing left.
* `ReportsWithinGrants` (an assumption on what is sent, not on the handlers). A
  request may arrive at a record that does not know of an earlier report: the
  handler of that one debited, and then failed or died before it saved. Whenever
  this happens, what was reported since the record and what is reported now are
  together within each grant of the group that is still valid, and no report
  gave the grant back. Nothing is assumed of a report that is the first on its
  record: if it exceeds a grant, the handlers find out themselves. The assumption is
  about what the network element consumed, so it says that a use is reported
  once; `session_resent` shows a use that is reported again after a failure. In
  the run `session` 95% of the states satisfy it, those in which an update dies
  between its debit and its save and the release goes on from the old record
  among them.

### The ledger

They rest on the named assumptions of `QuotaDocument` and `QuotaLedger` (types
of the constants, exact prices) and, for loans, on the hypotheses above.

None of the first three is inductive alone. `DebitBalance` clamps at zero, so
the journal balances only if no debit exceeds the balance, and that follows from
`NoOverReservation` only if the amounts are natural numbers, which in turn
needs the reservations covered. A counter that leaves the slice must leave with
nothing, or its balance disappears from the books. The inductive invariant is
therefore one formula,

    IInv == quota \in SoundDocument /\ ... typing ... /\ Balanced(quota, journal)

where a state of a counter is `Sound` when what is reserved is at most the
balance, the position is one of the slice, and a counter that is not in the
slice has no balance and no loan.

* `LoopsProofs`: facts about `Loop` and `Total` (`LoopRule`, `PartialSums`,
  `TotalNat`, `TotalMono`, `TotalUpdate`: changing one summand changes the sum
  by the difference). Induction on the index of a loop is done with sets
  instead of predicates (`UpTo`: a set that holds 0 and, with `k - 1`, also
  `k`, holds all of `0..n`).
* `QuotaDocumentProofs`: each operation takes sound documents to sound
  documents (`ReserveQuotaSound`, `DebitSound`, `AddCounterSound`,
  `ExpireSound`), and each call `Accounts`: for each counter, old balance plus
  provisioned is new balance plus spent, repaid and written off.
* `QuotaLedgerProofs`: `InitIInv`, `NextIInv` (one step for each action;
  `ApplyBalanced` turns `Accounts` into `Balanced'`), `IInvImplies`, and the
  theorems by PTL. For loans, `LoanInv` adds to `IInv` that the document is
  `Orderly`: the counters that are there have the positions 1 to `Size` without
  a gap (`Placed`), or a new one could take the place of another and the loop
  over positions would miss it; and a loan that was paid down owes no fee
  (`Debts`). The sums over all counters then change as the journal does.

### Grants and the store

* `GrantsInv` adds to `IInv` that nothing is reserved under an id that was not
  drawn, and `Backed`: while a grant is valid, the service counters' reservation
  under its id and the units the one paying counter holds the price of come to
  at least the units left. It is about tariffs that are `Plain` (multiplier 1,
  one counter at most that can pay), as the property is: with another
  multiplier a reservation of money is priced without it, and
  `grants_multiplied` shows that more is granted than the reservation pays. The proof follows
  the loops of reserving and debiting counter by counter (`Telescope`: what a
  loop takes altogether is the difference of its first and last value). What
  it needs of a document (`Backed`, `KeepsGrant`, `ReserveCallBacked`,
  `CallsKeepOthers`: a call leaves alone what is reserved under other ids) is
  stated in `QuotaDocumentProofs`, and the handlers' proof rests on it too.
* `TypeInv` of the store says that every copy in memory is a sound document and
  that a request in an attempt has attempts left. `ExpiryInv`: what was written
  off by saves is what the topic has, and what the requests between their save
  and their publication still owe to it; less only after a crash.
* `LedgerInv` is what the refinement needs. Two copies of the same version are
  copies of the same document: a version is a clock reading no two requests
  share (`ReadingsOwned`, `TimesPast`), and a request saves once
  (`CallsFresh`). So a save that finds the version unchanged replaces the
  document its copy was made from, and is one call of the ledger with the clock
  reading of the request; every other step is a stutter. `GrantsInOrder` and
  `DeliveriesCounted` show that this call is one the ledger allows.

### The charging handlers

`AnswerIsBacked` speaks of requests that were answered. It is not inductive:
another handler that could still debit the answered grant would break it, and
so would a record that holds grants of somebody else. `SessionInv` says how it
comes about:

* `BooksInv`: the quota is sound, its books balance, and nothing is reserved
  under an id that was not drawn.
* `HandlerInv`: a handler holds grant ids drawn for itself or, if it is an update
  or a release, for earlier numbers of its session (`MayHold`), in the lists of
  the right groups; what it is about to save, it drew itself. So whoever can debit or release a grant of
  `q` without being `q` began after it and is in `Later(q)` (`HeldByLater`).
* `RecordInv`: a record was saved by an opening request of its number, with
  grants drawn under that number.
* `PromiseInv`: as long as `Later(q)` is empty, what was reserved for `q` is
  covered (`Stands`), from the reservation over the saved record to the answer.

Each step is reduced to what it changes: `StepInv` asks for the handlers it
moves, the record it writes, the books and the grants it keeps; `HandlerMove`
is the case of a handler that calls nothing, `CallStep` and `HeldCall` those of
a call on the quota, `OutsideStep` that of the steps beside the handlers.
`ContainerFact`, `UsageFact` and `ChargesFact` say what accounting does to
the grants it finds: debits under their ids only, and never less than zero
units left. `BackedAmount` turns `Backed` into the sum that `AnswerIsBacked`
states. There is no hypothesis: requests of one session may overlap, although
the run `session` lets them follow one another. `SessionInv` was checked by TLC on the
instance of that run before it was proved.

`DebitsFitGrants` speaks of the next debit of a handler. `FitInv`, inductive
together with `SessionInv`, says what is left for it in the book:

* `Accounting`, of a handler that charges: there is a course of the book, one
  state for each debit it has planned, from the book as it is, in which each
  debit is covered by what the one before left (`Course`). What the course ends
  with covers the usages the handler still comes to (`Suffices`: of each valid
  grant at least the lesser of the grant and what is still reported of its
  group), and grants of one context never share an id (`Distinct`).
* `RecordFits`, of a record: it was saved by a handler that ended, whose grants
  it has, and unless somebody charges to it the book agrees with it (`Agrees`):
  a grant lost at most what was reported since the number of the record, or a
  report gave it back.
* `Fits`, of the handlers at their other places: what was granted by the request
  itself is unused and has its own ids, so that giving up releases nothing the
  record relies on; this is where a failure of the trace would break it. A first
  request whose look-up failed may stand beside the record of the session: its
  save fails, and what it gives back is its own.
* `Sequential`: a request that was sent follows requests that have ended, so one
  handler at most moves in a session (`Serial`).

The arithmetic of a usage is that of `ChargeContainer`: `UsageContinues` makes
the course of the next usage container by container (`ChargedFits`,
`CourseAppend`) from the cover the last one left, `DebitAccounting` takes the
first state off a course when its debit is made, and `ReportCovered` is the one
place that uses `ReportsWithinGrants`: the report of a request that arrives is
covered by the record. `FitStep` reduces a step of a handler to itself and the
record of its session. TLC checked `FitInv` on the instance of `session` before
it was proved.

`SessionImplementsGrants` maps the steps to those of `QuotaGrants` under the
same invariant. The guard of `UseGrant` is `DebitsFitGrants`; that the id was
drawn and the clock reading is not ahead comes from `Carries`, that the debit is
of more than nothing from `Accounting`, and that it is within `MaxUnits`, the
bound of both specifications, from `SmallCharges`, which needs
`UnitsAssumption`: the requests ask for and report no more. `SameCalls` says that
the calls of the instance are those of `QuotaDocument`.

`DebitsFit` takes one more part, `BookBacked`: what the book has of a grant of a
plain tariff is backed by reservations while it is valid. It is kept because
every step is one of the manager's (`NextBacked`, from the refinement), and a
call of the manager keeps the grants of other ids and pays what a debit takes
from its own (`CallsKeepOthers`, `ReserveCallBacked`, `DebitCallBacked` of
`QuotaDocumentProofs`). `ReclaimPays` carries the last from debits that leave the
rest reserved to those that reclaim it. TLC checked, on the instance of `session`,
that every use of what the book still has would be paid.

### The components around it

Each proof rests on the module's named assumptions (types of the constants, the
marker for "nothing" lies outside the values it stands beside) and has one
lemma for each step that needs an argument.

* `TopUpsInv` adds to the types `DoneProvisioned` (every record handled or
  passed by, not only those behind the offset: a commit turns one into the
  other) and `CounterTells`: an event was provisioned exactly if its counter is
  there or was used up. This is why looking for the counter tells a repeated
  event.
* `SubscribersInv` adds `Deleting` (between the two statements of a deletion
  the row is gone) and, while no statement failed, `Following`: a row is what
  the records before the next one say, or those before a later one that was
  handled before a restart. Which later one differs from row to row: a record
  handled again brings back the row as it was, and the row converges only when
  the last record of its id is handled again.
* `RatePlansInv` adds `ListedReplaced`: a listed version that is still there has
  a newer active one. It survives the deletion of that newer one by another
  job, because a job deletes its own list oldest first, so the newer version,
  if it goes, was listed with a still newer one. `ActivePlanStays` follows: what
  is deleted is never the newest.
* `ClassificationsInv` adds that the loaded row is still active with the
  contents it was loaded with (`LoadedStands`). A reload then finds it among
  the candidates and cannot take an older one.
* `RatingInv`: each line found is one of the best of its plan (`Best`), each
  price is made of the one before. `MostSpecific` then counts fields: a line
  that names every field the other names and one more of the key's has a higher
  score. `RoundedFact` bounds what rounding takes.
* `ClassifyingInv`: between two service types all groups are classified by the
  last that fitted (`Between`); inside one, the groups before the one in hand
  are, with the source of this service type (`Within`). `LookedUpDecides` is an
  induction over the loop of the number plan: after any number of ranges, in any
  order, the best is the longest seen that leads to the number. It is why the
  loop is written with `Loop`.
* `ProxyInv` adds `Course` (where a handler is tells what engine and peer have
  of the request) and `Allowance`: requests posted and tokens left come to no
  more than the burst and what was earned until the tokens were last counted.
* `CreditInv` has three parts. `Sending`: nothing is posted or used of a request
  before it is sent. `Holding`: a record that answered the request in hand, or
  whose units the peer holds, has the number of that request, so nothing that
  was sent before can load it again; this is what makes late answers harmless.
  `Debiting`: what is used follows the record by one, so what was debited and
  what can still be debited of the next request together are at most what was
  reported.
* `HousekeepingInv` relates the error flags to the history of failures for each
  task.

### What stays with the model checker

* `EvaluatedAsWritten` of `Rules`: an induction over trees, about RECURSIVE
  definitions.
* Liveness (`ReservationsEnd`, `CachesCatchUp`, `ConsumedTopUpsArrive`) and ENABLED are
  outside the proof system's reach, and so are induction theorems with an
  operator as a parameter and RECURSIVE operators. This is why the loops of the
  code are written with `Loop`, a recursive function with a function as its
  body, about which `LoopRule` can be stated and proved.

## 5. Not modelled, and why

* Balance query, lists, filters: read only. Formatting, logging, charge records
  sent to Kafka.
* Master data of the backend (carriers, number plans and their like): each call
  is one statement on one row. `Classifying` takes any contents of the two
  tables it reads.
* Text: `Rules` begins where the evaluator has its tokens; `tokenize` and the
  reflective look-up of a field (`getFieldValue`, most of the 773 lines of
  `RuleEvaluator.go`) only read. Rate keys are functions of their fields.
* Service information in Diameter messages (IMS, SMS, NEF and PDU session, the
  larger part of `avp_nchf_mapper.go`): copied field by field, read only by
  rules. The table of result codes by cause: this engine sends no cause.
* Authentication: an external identity provider; nothing shared with charging
  but the table of tenants.
* Kafka publication: a send that fails is only logged; the topic of
  `QuotaStore` takes every entry handed over.
* The trace purge is a step without an effect in `Housekeeping`: nobody reads
  the rows it deletes by then.

How much of the source is mapped: of some 36000 lines of Go about half are
generated GraphQL code (`graphql/generated`), and most of the rest is generated
row scanning, message types, mapping between types, resolvers that forward a
call, and wiring. The definitions here stand for the parts that decide
something; a larger share could only be had by naming lines that no definition
translates.

## 6. Plan

Every component whose state takes part in charging is modelled. What would
come next, in this order:

1. *Grants under concurrency*: `grants` with `Lag = 1` (pruning by a later
   clock reading), two monetary counters; overlapping updates of one session.
2. `QuotaRows`: two rows of one subscriber (`NumRows = 2`).
3. *Composition*: `TopUps` on `QuotaStore` instead of on a set of counters, so
   that a refused call is a lock conflict; `Classifying` and `Rating` in
   `ChargingSession` instead of a given tariff.
