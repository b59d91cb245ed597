---------------------------- MODULE CreditControl ----------------------------
(***************************************************************************)
(* One session between a Diameter peer, the proxy and the charging engine. *)
(* The proxy turns a credit control request into a charging data request   *)
(* and the answer back; what the two sides make of each other depends on   *)
(* what the translation keeps and on what is lost on the way.  The proxy   *)
(* keeps nothing between the two, so a request is with the engine as soon  *)
(* as it is sent, an answer is what the engine's answer translates to, and *)
(* either may come late or never.  The peer repeats what is not answered.  *)
(* A handler of the engine is one step here, with one grant per rating     *)
(* group that does not run out: ChargingSession looks inside.  The limiter,*)
(* the wholesaler and the time-out are DiameterProxy's.                    *)
(***************************************************************************)
EXTENDS Loops, Sequences

CONSTANTS
  Group,       \* rating groups; 0 stands for none, in requests and in answers
  Timed,       \* the groups whose grants are told in CC-Time
  Word,        \* numbers CC-Time can tell apart, 2^32 in the code
  MaxNumber,   \* bound on the CC-Request-Number
  MaxTries,    \* bound on how often a request is sent
  Grantable,   \* [Group -> units it may be granted]
  Wanted       \* units a peer may ask for; 0 is none

ASSUME CreditControlAssumption ==
  /\ Group \subseteq Nat /\ Timed \subseteq Group /\ Wanted \subseteq Nat
  /\ Grantable \in [Group -> SUBSET Nat] /\ {Word, MaxNumber, MaxTries} \subseteq Nat
  /\ Word > 0 /\ MaxTries > 0

VARIABLES
  peer,      \* its number, its stage and what it may use: [Group -> units]
  sent,      \* [Number -> the request]
  tries,     \* [Number -> how often it was sent]
  post,      \* [Exchange -> what the engine answered the proxy]
  record,    \* the row of charging_data; spent: grants debited since it was saved
  opened,      \* history: how often the row was created
  reported,  \* history: [Group -> units the peer reported]
  debited    \* history: [Group -> units the quota was debited]

creditVars == <<peer, sent, tries, post, record, opened, reported, debited>>

Number == 0..MaxNumber

\* A request is repeated under its number.
Exchange == Number \X (1..MaxTries)

\* CC-Request-Type.
InitialRequest == 1
UpdateRequest == 2
TerminationRequest == 3
EventRequest == 4

NoRequest == [type |-> 0, mscc |-> <<>>]

NoRecord == [there |-> FALSE, seq |-> 0, granted |-> <<>>, spent |-> {}]

NoAnswer == [result |-> "none", units |-> <<>>]

CreditControlInit ==
  /\ peer = [number |-> 0, stage |-> "ready", have |-> [g \in Group |-> 0]]
  /\ sent = [n \in Number |-> NoRequest]
  /\ tries = [n \in Number |-> 0]
  /\ post = [e \in Exchange |-> NoAnswer]
  /\ record = NoRecord
  /\ opened = 0
  /\ reported = [g \in Group |-> 0]
  /\ debited = [g \in Group |-> 0]

-----------------------------------------------------------------------------
\* The proxy.

\* Mutant: every message has a number of its own.
InvocationSequenceNumberFresh(e) == e[1] + e[2] - 1

\* A repetition has the number of its request; nothing marks it as one.
InvocationSequenceNumber(e) == e[1]

\* Of the Used-Service-Units of an MSCC only the first is read.
UsedUnitContainer(mscc) == Head(mscc.used)

\* An MSCC becomes a usage if units were used.
MultipleUnitUsage(e) ==
  LET mscc == sent[e[1]].mscc IN
  [g \in {g \in DOMAIN mscc : mscc[g].used # <<>>} |->
     [used |-> UsedUnitContainer(mscc[g]), wanted |-> mscc[g].wanted]]

\* Each type has its path at the engine, but for events.
Posted(e) ==
  /\ e[2] <= tries[e[1]] /\ sent[e[1]].type # EventRequest
  /\ post[e] = NoAnswer

\* Mutant: a grant is told in more bits than CC-Time has.
GrantedServiceUnitWide(g, units) == units

\* CC-Time has 32 bits, the other units have 64.
GrantedServiceUnit(g, units) == IF g \in Timed THEN units % Word ELSE units

\* Mutant: the loop takes the address of its variable, so every group is told
\* the units of the last.
MultipleUnitInformationAliased(units) ==
  LET final == CHOOSE g \in DOMAIN units : \A h \in DOMAIN units : h <= g
  IN [g \in DOMAIN units |-> GrantedServiceUnit(g, units[final])]

\* The MSCCs of an answer.
MultipleUnitInformation(units) == [g \in DOMAIN units |-> GrantedServiceUnit(g, units[g])]

\* What the answer of the engine translates to.  A refusal has no cause, which the
\* translation reads all the same: the handler panics and sends nothing.
Cca(e) ==
  IF post[e].result = "served"
    THEN [result |-> "Success", units |-> MultipleUnitInformation(post[e].units)]
  ELSE IF post[e].result = "broken"
    THEN [result |-> "UnableToComply", units |-> <<>>]
  ELSE NoAnswer

-----------------------------------------------------------------------------
\* The peer.

\* A Multiple-Services-Credit-Control: its Used-Service-Units, two when the
\* tariff changed between them, and its Requested-Service-Unit.
Mscc(have) ==
  [used   : {<<>>, <<have>>} \union IF have > 1 THEN {<<1, have - 1>>} ELSE {},
   wanted : Wanted]

UsedUnits(mscc) == Total(mscc.used, Len(mscc.used))

\* A request names every group, reports what was used and gives up the rest.
SendCcr ==
  LET n == peer.number IN
  /\ peer.stage = "ready" /\ n \in Number
  /\ \E type \in IF n = 0 THEN {InitialRequest, EventRequest}
                           ELSE {UpdateRequest, TerminationRequest} :
     \E mscc \in {m \in [Group -> UNION {Mscc(peer.have[g]) : g \in Group}] :
                  \A g \in Group : m[g] \in Mscc(peer.have[g])} :
       /\ sent' = [sent EXCEPT ![n] = [type |-> type, mscc |-> mscc]]
       /\ reported' = [g \in Group |-> reported[g] + UsedUnits(mscc[g])]
  /\ peer' = [peer EXCEPT !.stage = "waiting", !.have = [g \in Group |-> 0]]
  /\ tries' = [tries EXCEPT ![n] = 1]
  /\ UNCHANGED <<post, record, opened, debited>>

Repeat ==
  /\ peer.stage = "waiting"
  /\ tries[peer.number] < MaxTries
  /\ tries' = [tries EXCEPT ![peer.number] = @ + 1]
  /\ UNCHANGED <<peer, sent, post, record, opened, reported, debited>>

\* The request is over, and the session with it when it was the last one.
Onward(have) ==
  LET last == sent[peer.number].type \in {TerminationRequest, EventRequest} IN
  /\ peer' = [number |-> peer.number + 1, stage |-> IF last THEN "over" ELSE "ready",
              have |-> have]
  /\ UNCHANGED <<sent, tries, post, record, opened, reported, debited>>

\* An answer to the request the peer waits for; one that comes later is ignored.
ReceiveCca(e) ==
  /\ peer.stage = "waiting" /\ e[1] = peer.number
  /\ Cca(e) # NoAnswer
  /\ LET units == Cca(e).units IN
     Onward([g \in Group |-> IF g \in DOMAIN units THEN units[g] ELSE 0])

\* The peer has waited for long, or the proxy has, and told it so.
GiveUpCcr ==
  /\ peer.stage = "waiting"
  /\ Onward([g \in Group |-> 0])

-----------------------------------------------------------------------------
\* The engine.

\* LoadChargeDataStep: the session is there and the number is new.
Loads(e) == record.there /\ record.seq < InvocationSequenceNumber(e)

\* A record without grants has a nil map, and Accounting panics on it.
NilGrants(e) == record.granted = <<>> /\ MultipleUnitUsage(e) # <<>>

\* A use fits when its group has a grant of that many units.
Fits(e, g) ==
  /\ g \in DOMAIN record.granted
  /\ MultipleUnitUsage(e)[g].used <= record.granted[g]

\* Debit the uses of these groups, each from the reservation of its grant, which
\* is reclaimed with the first debit.
Account(e, groups) ==
  debited' = [g \in Group |->
                debited[g] + IF g \in groups \ record.spent
                             THEN MultipleUnitUsage(e)[g].used ELSE 0]

\* Every usage is rated anew, and the new grants take the place of all others.
Rated(e) ==
  {f \in [DOMAIN MultipleUnitUsage(e) -> UNION {Grantable[g] : g \in Group}] :
     \A g \in DOMAIN f : f[g] \in Grantable[g]}

Saved(e, granted, spent) ==
  [there |-> TRUE, seq |-> InvocationSequenceNumber(e), granted |-> granted, spent |-> spent]

\* The last step of a handler is the trace; without it the answer is an error.
Answer(e, granted, traced) ==
  /\ post' = [post EXCEPT ![e] = IF traced THEN [result |-> "served", units |-> granted]
                                          ELSE [result |-> "refused", units |-> <<>>]]
  /\ UNCHANGED <<peer, sent, tries, reported>>

Charging(e) ==
  /\ Posted(e) /\ sent[e[1]].type = InitialRequest
  /\ ~record.there
  /\ \E granted \in Rated(e), traced \in BOOLEAN :
       Answer(e, granted, traced) /\ record' = Saved(e, granted, {})
  /\ opened' = opened + 1
  /\ UNCHANGED debited

\* Load and account, in an update and in a release.
Accounts(e) ==
  /\ Posted(e) /\ Loads(e) /\ ~NilGrants(e)
  /\ \A g \in DOMAIN MultipleUnitUsage(e) : Fits(e, g)
  /\ Account(e, DOMAIN MultipleUnitUsage(e))
  /\ UNCHANGED opened

\* An update that ends in an error releases what it had reserved.
UpdateCharging(e) ==
  /\ sent[e[1]].type = UpdateRequest
  /\ Accounts(e)
  /\ \E granted \in Rated(e), traced \in BOOLEAN :
       /\ Answer(e, granted, traced)
       /\ record' = Saved(e, granted, IF traced THEN {} ELSE DOMAIN granted)

ReleaseCharging(e) ==
  /\ sent[e[1]].type = TerminationRequest
  /\ Accounts(e)
  /\ \E traced \in BOOLEAN : Answer(e, <<>>, traced)
  /\ record' = NoRecord

\* A handler stops before its record is saved: with an error, or with a panic, of
\* which the proxy reads nothing.  What it had debited by then stays debited.
Fail(e) ==
  LET usage  == MultipleUnitUsage(e)
      counts == sent[e[1]].type # InitialRequest /\ Loads(e) IN
  /\ Posted(e)
  /\ \E groups \in SUBSET {g \in DOMAIN usage : usage[g].used > 0} :
       /\ groups # {} => counts /\ \A g \in groups : Fits(e, g)
       /\ Account(e, groups)
       /\ record' = [record EXCEPT !.spent = @ \union groups]
  /\ \E result \in {"refused"} \union IF counts /\ NilGrants(e) THEN {"broken"} ELSE {} :
       post' = [post EXCEPT ![e].result = result]
  /\ UNCHANGED <<peer, sent, tries, opened, reported>>

Engine(e) == Charging(e) \/ UpdateCharging(e) \/ ReleaseCharging(e) \/ Fail(e)

CreditControlNext ==
  \/ SendCcr
  \/ Repeat
  \/ GiveUpCcr
  \/ \E e \in Exchange : ReceiveCca(e) \/ Engine(e)

CreditControlSpec == CreditControlInit /\ [][CreditControlNext]_creditVars

(***************************************************************************)
(* Properties.                                                             *)
(***************************************************************************)
Grants(units) == DOMAIN units \subseteq Group /\ \A g \in DOMAIN units : units[g] \in Nat

\* The types, and the width of the grants in an answer (buildGrantedServiceUnit).
CreditControlTypeOK ==
  /\ peer.number \in 0..MaxNumber + 1 /\ peer.stage \in {"ready", "waiting", "over"}
  /\ peer.have \in [Group -> Nat]
  /\ tries \in [Number -> 0..MaxTries]
  /\ \A e \in Exchange :
       /\ post[e].result \in {"none", "served", "refused", "broken"}
       /\ Grants(post[e].units) /\ Grants(Cca(e).units)
       /\ \A g \in Timed \intersect DOMAIN Cca(e).units : Cca(e).units[g] < Word
  /\ record.there \in BOOLEAN /\ record.seq \in Nat
  /\ Grants(record.granted) /\ record.spent \subseteq DOMAIN record.granted
  /\ opened \in Nat /\ reported \in [Group -> Nat] /\ debited \in [Group -> Nat]

\* However answers are lost, late or repeated, a peer that gives up what it holds
\* with every request may use no more of a group than the engine's record grants it
\* (the translation of both messages, LoadChargeDataStep, Rate).
PeerWithinGrants ==
  \A g \in Group :
    peer.have[g] > 0 => g \in DOMAIN record.granted /\ peer.have[g] <= record.granted[g]

\* However often a request is repeated and however far a handler of it gets, the
\* quota is debited no more than the peer reported, as long as a repetition of the
\* first request does not bring back a session that was released
\* (AvpToNchfRequest, LoadChargeDataStep, Accounting).
UseDebitedOnce == opened <= 1 => \A g \in Group : debited[g] <= reported[g]
==============================================================================
