----------------------------- MODULE Classifying -----------------------------
(***************************************************************************)
(* How the charging engine classifies a request: it goes through the       *)
(* service types of the plan, and for each that fits it gives every rating *)
(* group of the request a rate key.  Carriers and number plans are looked  *)
(* up in copies of their tables that are replaced every ten minutes, also  *)
(* in the middle of a request.  What an expression of a service type comes *)
(* to is part of the plan here: Rules is about the evaluation.             *)
(***************************************************************************)
EXTENDS Loops, Sequences, SequencesExt

CONSTANTS
  Requests,       \* requests, each with the service types of its plan
  CarrierTables,  \* contents of the carrier table: sets of networks
  NumberTables,   \* contents of the number plan: sets of network and range
  DialCode,       \* what a leading 0 stands for
  Missing,        \* a field the request does not have, a table not loaded
  Zero,           \* the digit 0
  Windows,        \* [service window -> its start and end, in minutes of year 0]
  MaxLoads        \* bound on the loads of the tables

\* What the lookups answer is a sequence of codes, like a network.
Unknown == <<"?">>
Default == <<"default">>

Networks(table) == {row[1] : row \in table}

ASSUME ClassifyingAssumption ==
  /\ \A r \in Requests :
       r.units \in Seq(ToSet(r.units)) /\ r.types \in Seq(ToSet(r.types))
  /\ \A table \in NumberTables :
       /\ IsFiniteSet(Networks(table)) /\ Unknown \notin Networks(table)
       /\ \A row \in table : row[2] \in Seq(ToSet(row[2]))

VARIABLES
  carriers,       \* the networks the engine knows
  numbers,        \* the range it knows of each network
  loads,          \* loads so far
  request,        \* the request
  typeAt,         \* the service type in hand
  unitAt,         \* the rating group in hand, 0 outside a service type
  source,         \* source type and service window of the service type in hand
  classes,        \* [rating group -> service type, source, window and category]
  outcome,        \* open, classified or failed
  looked          \* history: numbers looked up, in which ranges, and the answers

classifyingVars ==
  <<carriers, numbers, loads, request, typeAt, unitAt, source, classes, outcome, looked>>

ClassifyingInit ==
  /\ carriers = Missing /\ numbers = Missing /\ loads = 0
  /\ request \in Requests
  /\ typeAt = 1 /\ unitAt = 0
  /\ source = Missing
  /\ classes = <<>>
  /\ outcome = "open"
  /\ looked = {}

(***************************************************************************)
(* The tables.  The destination group of a range is its network's, and the *)
(* source group of a network its own, so the network stands for both.      *)
(***************************************************************************)
\* FindCarrierBySource: the network itself, or its country.
FindCarrierBySource(mcc, mnc) ==
  IF carriers = Missing \/ mcc = "" THEN Unknown
  ELSE IF <<mcc, mnc>> \in carriers THEN <<mcc, mnc>>
  ELSE IF <<mcc>> \in carriers THEN <<mcc>> ELSE Unknown

International(number) ==
  IF number # <<>> /\ Head(number) = Zero THEN DialCode \o Tail(number) ELSE number

\* Mutant: the last range that fits.
LongerLast(number, best, p) ==
  IF IsPrefix(numbers[p], number) THEN p ELSE best

\* One round of the loop of FindNumberPlan.
Longer(number, best, p) ==
  IF IsPrefix(numbers[p], number)
       /\ Len(numbers[p]) > (IF best = Unknown THEN 0 ELSE Len(numbers[best]))
  THEN p ELSE best

\* FindCarrierByDestination: the loop sees the ranges in no fixed order.
FindCarrierByDestination(number) ==
  IF numbers = Missing \/ number = <<>> THEN {Unknown}
  ELSE LET Round(p) == [best \in DOMAIN numbers \union {Unknown} |->
                          Longer(International(number), best, p)]
           Answers(order) == Loop(Len(order), Unknown, [i \in DOMAIN order |-> Round(order[i])])
       IN {Answers(order)[Len(order)] : order \in SetToSeqs(DOMAIN numbers)}

\* The loaded map holds one range of each network, whichever came last.
ReloadNumbers ==
  /\ loads < MaxLoads
  /\ loads' = loads + 1
  /\ \E table \in NumberTables :
       numbers' \in {f \in [Networks(table) -> {row[2] : row \in table}] :
                       \A p \in Networks(table) : <<p, f[p]>> \in table}
  /\ UNCHANGED <<carriers, request, typeAt, unitAt, source, classes, outcome, looked>>

ReloadCarriers ==
  /\ loads < MaxLoads
  /\ loads' = loads + 1
  /\ carriers' \in CarrierTables
  /\ UNCHANGED <<numbers, request, typeAt, unitAt, source, classes, outcome, looked>>

(***************************************************************************)
(* ClassifyService.                                                        *)
(***************************************************************************)
Type == request.types[typeAt]

Open == outcome = "open"

\* A service type without a rule fits, and one whose rule is anything but false.
Fits(type) == type.kind = request.kind /\ type.rule # "false"

PassType ==
  /\ Open /\ unitAt = 0 /\ typeAt <= Len(request.types)
  /\ request.kind # Missing
  /\ ~Fits(Type)
  /\ typeAt' = typeAt + 1
  /\ UNCHANGED <<carriers, numbers, loads, request, unitAt, source, classes, outcome, looked>>

\* sourceByMccMnc: without an MCC the default, which an expression that gives no
\* text comes to as well; an MNC that is missing is an error.
SourceType ==
  IF Type.source # "network" \/ request.mcc = Missing THEN Default
  ELSE FindCarrierBySource(request.mcc, request.mnc)

Erroneous ==
  \/ Type.rule = "error"
  \/ Type.source = "error"
  \/ Type.source = "network" /\ request.mcc # Missing /\ request.mnc = Missing
  \/ Type.direction = "error"

Duration(w) ==
  LET length == Windows[w].end - Windows[w].start IN IF length < 0 THEN -length ELSE length

\* A window is read from its hours and minutes alone, and so lies in year 0.
IsWithin(w, now) == Windows[w].start < now /\ now < Windows[w].end

\* GetServiceWindow: the shortest that holds the start of the request.  A plan
\* without UseServiceWindows has none; here it has one that is always the default.
ServiceWindow ==
  LET within == {w \in Type.windows \intersect DOMAIN Windows : IsWithin(w, request.now)}
      shortest == {w \in within : \A x \in within : Duration(w) <= Duration(x)}
  IN IF within = {} THEN {"default"} ELSE shortest

EnterType ==
  /\ Open /\ unitAt = 0 /\ typeAt <= Len(request.types)
  /\ request.kind # Missing
  /\ Fits(Type) /\ ~Erroneous
  /\ \E window \in ServiceWindow : source' = [type |-> SourceType, window |-> window]
  /\ unitAt' = 1
  /\ UNCHANGED <<carriers, numbers, loads, request, typeAt, classes, outcome, looked>>

\* A rate key for a rating group: an empty category gives way to the default.
\* The direction is MO in every key, whatever the expression says: it comes to a
\* text, which is no CallDirection.
GroupClassified(category) ==
  /\ classes' = [g \in DOMAIN classes \union {request.units[unitAt]} |->
       IF g = request.units[unitAt]
       THEN [type |-> typeAt, source |-> source, category |-> category] ELSE classes[g]]
  /\ unitAt' = unitAt + 1
  /\ UNCHANGED <<carriers, numbers, loads, request, typeAt, source, outcome>>

\* serviceCategory asks the number plan for calls and messages, and has one
\* answer for data and one for USSD.
ClassifyGroup ==
  /\ Open /\ unitAt \in 1..Len(request.units)
  /\ \/ /\ Type.category \in {"none", "empty"}
        /\ GroupClassified(Default)
        /\ UNCHANGED looked
     \/ /\ Type.category = "serviceCategory" /\ request.kind \in {"PDU", "NEF"}
        /\ GroupClassified(IF request.kind = "PDU" THEN <<"INTERNET">> ELSE <<"BANKING">>)
        /\ UNCHANGED looked
     \/ /\ Type.category = "serviceCategory" /\ request.kind \in {"IMS", "SMS"}
        /\ request.number # Missing
        /\ \E found \in FindCarrierByDestination(request.number) :
             /\ GroupClassified(found)
             /\ looked' = looked \union
                  {[number |-> request.number, ranges |-> numbers, found |-> found]}

\* Mutant: the first service type that fits is the last.
LeaveTypes ==
  /\ Open /\ unitAt > Len(request.units)
  /\ typeAt' = Len(request.types) + 1 /\ unitAt' = 0 /\ source' = Missing
  /\ UNCHANGED <<carriers, numbers, loads, request, classes, outcome, looked>>

\* A later service type that fits takes all rating groups over.
LeaveType ==
  /\ Open /\ unitAt > Len(request.units)
  /\ typeAt' = typeAt + 1 /\ unitAt' = 0 /\ source' = Missing
  /\ UNCHANGED <<carriers, numbers, loads, request, classes, outcome, looked>>

\* The first error ends the request, whatever has been classified: no plan, a
\* request of no known kind, an expression that cannot be evaluated.
FailRequest ==
  /\ Open
  /\ \/ request.kind = Missing
     \/ unitAt = 0 /\ typeAt <= Len(request.types) /\ Fits(Type) /\ Erroneous
     \/ /\ unitAt \in 1..Len(request.units)
        /\ \/ Type.category \in {"error", "number"}
           \/ /\ Type.category = "serviceCategory" /\ request.kind \in {"IMS", "SMS"}
              /\ request.number = Missing
  /\ outcome' = "failed"
  /\ UNCHANGED <<carriers, numbers, loads, request, typeAt, unitAt, source, classes, looked>>

FinishTypes ==
  /\ Open /\ unitAt = 0 /\ typeAt > Len(request.types) /\ request.kind # Missing
  /\ outcome' = "classified"
  /\ UNCHANGED <<carriers, numbers, loads, request, typeAt, unitAt, source, classes, looked>>

ClassifyingNext ==
  \/ PassType \/ EnterType \/ ClassifyGroup \/ LeaveType \/ FailRequest \/ FinishTypes
  \/ ReloadNumbers \/ ReloadCarriers

ClassifyingSpec == ClassifyingInit /\ [][ClassifyingNext]_classifyingVars

(***************************************************************************)
(* Properties.                                                             *)
(***************************************************************************)
\* A request is classified whole: by the last service type that fits, every
\* rating group, and all with one source even when the carriers are reloaded
\* meanwhile (ClassifyService).
ClassifiedWhole ==
  outcome = "classified" =>
    LET fitting == {i \in 1..Len(request.types) :
                      /\ request.types[i].kind = request.kind
                      /\ request.types[i].rule # "false"} IN
    /\ DOMAIN classes = IF fitting = {} THEN {} ELSE ToSet(request.units)
    /\ \A g, h \in DOMAIN classes :
         /\ classes[g].type \in fitting /\ \A i \in fitting : i <= classes[g].type
         /\ classes[g].source = classes[h].source

\* A number goes to the network with the longest of the loaded ranges that lead
\* to it, in whatever order the map yields them, and to none only when no range
\* does (FindNumberPlan).
LongestRangeDecides ==
  \A l \in looked :
    IF l.ranges = Missing THEN l.found = Unknown
    ELSE LET leading == {p \in DOMAIN l.ranges :
                           /\ l.ranges[p] # <<>>
                           /\ IsPrefix(l.ranges[p], International(l.number))}
         IN IF leading = {} THEN l.found = Unknown
            ELSE /\ l.found \in leading
                 /\ \A p \in leading : Len(l.ranges[p]) <= Len(l.ranges[l.found])
==============================================================================
