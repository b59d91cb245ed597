------------------------------- MODULE TopUps -------------------------------
(***************************************************************************)
(* QuotaProvisioningConsumer: it reads the top-ups of one partition in     *)
(* order, has the quota manager provision each and commits the record once *)
(* that is done.  A commit names a record and covers all before it.  What  *)
(* fails is not committed, but the loop goes on; a restart resumes at the  *)
(* committed offset.  Of a quota only the counters it holds are kept.      *)
(***************************************************************************)
EXTENDS Integers, Sequences

CONSTANTS
  TopUp,          \* event ids, which are the ids of the counters they ask for
  Malformed,      \* a record that is no event
  TopUpTopic,     \* the records of the partition
  MaxRefusals,    \* bound on the calls that fail
  MaxCrashes      \* bound on the restarts of the consumer

ASSUME TopUpsAssumption ==
  /\ Malformed \notin TopUp
  /\ TopUpTopic \in Seq(TopUp \union {Malformed})
  /\ MaxRefusals \in Nat /\ MaxCrashes \in Nat

Offset == 1..Len(TopUpTopic)

VARIABLES
  position,      \* the record in hand
  handled,       \* whether it has been handled and waits for its commit
  offset,        \* where a restart resumes
  counters,      \* the counters the quotas hold
  refusals,      \* calls that failed so far
  crashes,       \* restarts so far
  provisioned,   \* history: how often each event was provisioned
  refused,       \* history: the records whose call failed
  spent          \* history: the counters that were used up

topUpVars ==
  <<position, handled, offset, counters, refusals, crashes, provisioned, refused, spent>>

TopUpsTypeOK ==
  /\ position \in 1..Len(TopUpTopic) + 1
  /\ handled \in BOOLEAN /\ (handled => position \in Offset)
  /\ offset \in 1..position
  /\ counters \in SUBSET TopUp
  /\ refusals \in 0..MaxRefusals /\ crashes \in 0..MaxCrashes
  /\ provisioned \in [TopUp -> Nat]
  /\ refused \in SUBSET Offset
  /\ spent \in SUBSET TopUp

TopUpsInit ==
  /\ position = 1 /\ handled = FALSE /\ offset = 1
  /\ counters = {}
  /\ refusals = 0 /\ crashes = 0
  /\ provisioned = [e \in TopUp |-> 0]
  /\ refused = {} /\ spent = {}

InHand == position \in Offset /\ ~handled

\* Mutant: a malformed record is tried again.
RetryMalformed ==
  /\ InHand /\ TopUpTopic[position] = Malformed
  /\ UNCHANGED topUpVars

\* A malformed record is passed over as if it had been handled.
SkipMalformed ==
  /\ InHand /\ TopUpTopic[position] = Malformed
  /\ handled' = TRUE
  /\ UNCHANGED <<position, offset, counters, refusals, crashes, provisioned, refused, spent>>

\* Mutant: without the look for the counter.
ProvisionAgain ==
  /\ InHand /\ TopUpTopic[position] # Malformed
  /\ LET e == TopUpTopic[position] IN
     /\ counters' = counters \union {e}
     /\ provisioned' = [provisioned EXCEPT ![e] = @ + 1]
  /\ handled' = TRUE
  /\ UNCHANGED <<position, offset, refusals, crashes, refused, spent>>

\* ProvisionCounter does nothing, without an error, when the counter is there.
ProvisionTopUp ==
  /\ InHand /\ TopUpTopic[position] # Malformed
  /\ LET e == TopUpTopic[position] IN
     /\ counters' = counters \union {e}
     /\ provisioned' = [provisioned EXCEPT ![e] = IF e \in counters THEN @ ELSE @ + 1]
  /\ handled' = TRUE
  /\ UNCHANGED <<position, offset, refusals, crashes, refused, spent>>

\* The call fails: no commit, and on to the next record.
RefuseTopUp ==
  /\ InHand /\ TopUpTopic[position] # Malformed
  /\ refusals < MaxRefusals
  /\ refusals' = refusals + 1
  /\ refused' = refused \union {position}
  /\ position' = position + 1
  /\ UNCHANGED <<handled, offset, counters, crashes, provisioned, spent>>

\* Mutant: the offset covers the record after.
CommitNext ==
  /\ handled
  /\ position' = position + 1 /\ handled' = FALSE
  /\ offset' \in {offset, position + 2}
  /\ UNCHANGED <<counters, refusals, crashes, provisioned, refused, spent>>

\* A commit that fails is logged.
CommitRecords ==
  /\ handled
  /\ position' = position + 1 /\ handled' = FALSE
  /\ offset' \in {offset, position + 1}
  /\ UNCHANGED <<counters, refusals, crashes, provisioned, refused, spent>>

Crash ==
  /\ crashes < MaxCrashes
  /\ crashes' = crashes + 1
  /\ position' = offset /\ handled' = FALSE
  /\ UNCHANGED <<offset, counters, refusals, provisioned, refused, spent>>

\* Charging uses a counter up, and the quota drops it.
SpendCounter(e) ==
  /\ e \in counters
  /\ counters' = counters \ {e}
  /\ spent' = spent \union {e}
  /\ UNCHANGED <<position, handled, offset, refusals, crashes, provisioned, refused>>

HandleTopUp == SkipMalformed \/ ProvisionTopUp \/ RefuseTopUp \/ CommitRecords

TopUpsNext ==
  \/ HandleTopUp
  \/ Crash
  \/ \E e \in TopUp : SpendCounter(e)

\* The consumer polls as long as it runs.
TopUpsFairness == WF_topUpVars(HandleTopUp)

TopUpsSpec == TopUpsInit /\ [][TopUpsNext]_topUpVars /\ TopUpsFairness

(***************************************************************************)
(* Properties.                                                             *)
(***************************************************************************)
\* Neither a crash nor a lost commit loses or doubles a top-up: what a restart
\* no longer reads was provisioned unless its call failed, and an event is
\* provisioned again only when its counter had been used up in the meantime
\* (run of QuotaProvisioningConsumer, ProvisionCounter).
TopUpsNeitherLostNorDoubled ==
  /\ \A i \in Offset : i < offset /\ TopUpTopic[i] # Malformed /\ i \notin refused
       => provisioned[TopUpTopic[i]] > 0
  /\ \A e \in TopUp : provisioned[e] > 1 => e \in spent

\* A malformed record, a failed call or a crash never stops the consumer: every
\* top-up is provisioned in the end unless its call failed.
TopUpsArrive ==
  <>[](\A i \in Offset : TopUpTopic[i] # Malformed /\ i \notin refused
         => provisioned[TopUpTopic[i]] > 0)
==============================================================================
