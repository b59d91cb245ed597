------------------------------ MODULE MCBackend ------------------------------
(***************************************************************************)
(* The parts of the system beside the quotas and the sessions.  They share *)
(* no table and no topic, so one of them moves at a time: part says which, *)
(* and the others stay as they began.  The states are the sum of the       *)
(* parts', not the product.                                                *)
(***************************************************************************)
EXTENDS Subscribers, RatePlans, Classifications, TopUps, Rules, Rating,
        DiameterProxy, Housekeeping, Classifying

VARIABLE part

Parts == {"subscribers", "plans", "classifications", "topups", "rules", "rating",
          "proxy", "housekeeping", "classifying"}

\* Two subscribers of one wholesaler use one number after each other; the
\* contract is suspended, resumed and ended meanwhile.
MCRow(active) == [msisdn |-> 1, wholesale |-> 1, active |-> active]
MCEvent(type, s, active) == [type |-> type, id |-> s, row |-> MCRow(active)]
MCSubscriberTopic ==
  <<MCEvent("created", 1, TRUE), MCEvent("updated", 1, FALSE), MCEvent("created", 2, TRUE),
    MCEvent("deleted", 1, FALSE), MCEvent("deleted", 2, TRUE)>>
MCWholesaleTopic ==
  <<[type |-> "provisioned", id |-> 1, active |-> TRUE],
    [type |-> "suspend", id |-> 1, active |-> FALSE],
    [type |-> "suspend", id |-> 1, active |-> TRUE],
    [type |-> "deregistering", id |-> 1]>>

ASSUME LifeCycleAssumption == LifeCycle

\* The first top-up comes twice, and one record is no event.
MCTopUpTopic == <<1, Malformed, 2, 1, 3>>

\* Expressions of up to three levels, well typed or not.
MCCall(args) ==
  IF Len(args) = 2 /\ \A i \in 1..2 : args[i].type = "int64"
  THEN Bool(args[1].val > args[2].val) ELSE Error
Atoms == {Leaf(v) : v \in {Bool(TRUE), Bool(FALSE), Number(1), Number(2), Nil}}
Few == {Leaf(v) : v \in {Bool(TRUE), Number(1), Number(2)}}
Nodes(ops, S, T) == {Node(op, <<s, t>>) : op \in ops, s \in S, t \in T}
Not(S) == {Node("!", <<t>>) : t \in S}
Inner == Nodes({"==", "<", "&&", "f"}, Few, Few) \union Not(Few)
Ternaries ==
  {Node(":", <<c, a, b>>) : c \in Nodes({"==", "&&"}, Few, Few) \union Not(Few),
                            a \in Few \union Not(Few), b \in Few}
\* Choices on a value, a call, a negated parenthesis and another choice.
Grabbing ==
  {Node(":", <<c, Leaf(Number(1)), b>>) :
     c \in Atoms \union Nodes({"f"}, Few, Few) \union Not(Nodes({"==", "<"}, Few, Few))
          \union {Node(":", <<d, Leaf(Bool(TRUE)), Leaf(Bool(FALSE))>>) :
                    d \in Few \union Nodes({"=="}, Few, Few)},
     b \in Few}
MCExpressions ==
  Nodes(Comparison \union {"&&", "||", "f"}, Atoms, Atoms)
    \union Nodes({"==", "f"}, Inner, Inner)
    \union {Node(":", <<a, b, c>>) : a \in Atoms, b \in Few, c \in Few}
    \union Ternaries \union Nodes({"==", "f"}, Ternaries, Few)
    \union Grabbing \union Nodes({"==", "f"}, Grabbing, {Leaf(Number(1))})
    \union Nodes({"=="}, {Leaf(Number(1))}, Grabbing)
    \union Not(Inner \union Ternaries \union Grabbing) \union Not(Not(Inner))
    \union Nodes({"&&", "||"}, Not(Inner) \union Few, Not(Inner) \union Few)

\* Retail plans of up to three lines, and every chain of three tariffs.
Keys == [Field -> Value]
AnyKey == [f \in Field |-> "*"]
KeyAA == [f \in Field |-> "a"]
MCLine(key, type, base, measure, barred) ==
  [key |-> key, tariffType |-> type, base |-> base, measure |-> measure, barred |-> barred]
Plain(key) == MCLine(key, "ACTUAL", 100, 3, FALSE)
OneLine == <<Plain(AnyKey)>>
SomeKeys == {k \in Keys : Matches(KeyAA, k)} \union {[f \in Field |-> "b"]}
Lists ==
  {<<Plain(k), Plain(l)>> : k \in Keys, l \in Keys}
    \union {<<Plain(k), Plain(l), Plain(m)>> : k \in SomeKeys, l \in SomeKeys, m \in SomeKeys}
Tariffs ==
  {<<>>, <<MCLine(AnyKey, "ACTUAL", 25, 1, TRUE)>>}
    \union {<<MCLine(AnyKey, type, base, 3, FALSE)>> :
              type \in {"ACTUAL", "PERCENTAGE", "MARKUP", "unknown"}, base \in {0, 33}}
ThreePlans(s, w, r) ==
  [x \in Stage |-> IF x = "settlement" THEN s ELSE IF x = "wholesale" THEN w ELSE r]
MCRatings ==
  {[key |-> k, plans |-> ThreePlans(OneLine, OneLine, r)] :
     k \in {KeyAA, [KeyAA EXCEPT !["category"] = "*"]}, r \in Lists}
    \union {[key |-> KeyAA, plans |-> ThreePlans(s, w, r)] :
              s \in Tariffs, w \in Tariffs, r \in Tariffs}

\* Two service types for three rating groups, one of them twice; a network with
\* two ranges, ranges that begin another, one range for two networks.
MCType(kind, rule, src, category) ==
  [kind |-> kind, rule |-> rule, source |-> src, direction |-> "text",
   category |-> category, windows |-> {"day", "night"}]
MCWindows == [w \in {"day", "night"} |->
  IF w = "day" THEN [start |-> 480, end |-> 1200] ELSE [start |-> 1201, end |-> 479]]
MCRequest(kind, mnc, number, types) ==
  [kind |-> kind, mcc |-> "655", mnc |-> mnc, number |-> number, now |-> 10000,
   units |-> <<1, 2, 1>>, types |-> types]
Fallback(kind) == MCType(kind, "none", "text", "none")
Voice(rule, category) == MCType("IMS", rule, "network", category)
MCRequests ==
  {MCRequest("IMS", "01", n, <<Voice(rule, category), Fallback(kind)>>) :
     n \in {<<>>, <<0, 8>>, <<2, 8>>, <<2, 7, 8>>}, rule \in {"none", "other", "false"},
     category \in {"serviceCategory", "empty"}, kind \in {"IMS", "PDU"}}
    \union {MCRequest("IMS", m, n, <<Voice(rule, category)>>) :
              m \in {"02", Missing}, n \in {<<2>>, Missing}, rule \in {"true", "error"},
              category \in {"number", "error", "serviceCategory"}}
    \union {MCRequest(kind, "02", <<2>>, <<MCType(kind, "none", "text", "serviceCategory")>>) :
              kind \in {"PDU", "NEF", "SMS", Missing}}
    \union {[MCRequest("IMS", "01", <<2>>, <<Voice("none", "none")>>) EXCEPT !.mcc = m] :
              m \in {"", Missing}}
MCDialCode == <<2, 7>>
MCCarrierTables == {{<<"655", "01">>, <<"655">>}, {<<"655">>}, {}}
MCNumberTables ==
  {{<<<<"655", "01">>, <<2, 7, 8>>>>, <<<<"655", "02">>, <<2, 7>>>>, <<<<"655", "01">>, <<2, 8>>>>},
   {<<<<"655", "01">>, <<2>>>>, <<<<"655", "02">>, <<2>>>>, <<<<"655">>, <<>>>>},
   {<<<<"655", "02">>, <<2, 7, 8>>>>}}

BackendInit ==
  /\ part \in Parts
  /\ SubscribersInit /\ RatePlansInit /\ ClassificationsInit /\ TopUpsInit
  /\ DiameterProxyInit /\ HousekeepingInit
  /\ IF part = "rules" THEN RulesInit
     ELSE expression = Leaf(Nil) /\ tokens = <<>> /\ machine = Nil /\ answer = Marker
  /\ IF part = "rating" THEN RatingInit
     ELSE rating = Nil /\ found = <<>> /\ prices = <<>> /\ verdict = "open"
  /\ IF part = "classifying" THEN ClassifyingInit
     ELSE /\ carriers = Missing /\ numbers = Missing /\ loads = 0 /\ request = Missing
          /\ typeAt = 1 /\ unitAt = 0 /\ source = Missing /\ classes = <<>>
          /\ outcome = "open" /\ looked = {}
  /\ part # "proxy" => rateLimit = [w \in Reseller |-> CHOOSE x \in Rate : TRUE]

Still(p, vars) == part # p => UNCHANGED vars

\* The parts that do not move.
Elsewhere ==
  /\ UNCHANGED part
  /\ Still("subscribers", subscriberVars) /\ Still("plans", planVars)
  /\ Still("classifications", classificationVars) /\ Still("topups", topUpVars)
  /\ Still("rules", ruleVars) /\ Still("rating", ratingVars)
  /\ Still("proxy", proxyVars) /\ Still("housekeeping", housekeepingVars)
  /\ Still("classifying", classifyingVars)

BackendNext ==
  /\ \/ part = "subscribers" /\ SubscribersNext
     \/ part = "plans" /\ RatePlansNext
     \/ part = "classifications" /\ ClassificationsNext
     \/ part = "topups" /\ TopUpsNext
     \/ part = "rules" /\ RulesNext
     \/ part = "rating" /\ RatingNext
     \/ part = "proxy" /\ DiameterProxyNext
     \/ part = "housekeeping" /\ HousekeepingNext
     \/ part = "classifying" /\ ClassifyingNext
  /\ Elsewhere

backendVars ==
  <<part, subscriberVars, planVars, classificationVars, topUpVars, ruleVars, ratingVars,
    proxyVars, housekeepingVars, classifyingVars>>

\* The fairness of each part, while it is the one that moves.
BackendFairness ==
  /\ WF_backendVars(part = "subscribers" /\ HandleSubscriberRecord /\ Elsewhere)
  /\ WF_backendVars(part = "subscribers" /\ HandleWholesaleRecord /\ Elsewhere)
  /\ \A q \in Lookup : WF_backendVars(part = "subscribers" /\ Store(q) /\ Elsewhere)
  /\ WF_backendVars(part = "subscribers" /\ ClearCache /\ Elsewhere)
  /\ WF_backendVars(part = "subscribers" /\ Refresh /\ Elsewhere)
  /\ WF_backendVars(part = "topups" /\ HandleTopUp /\ Elsewhere)

BackendSpec == BackendInit /\ [][BackendNext]_backendVars /\ BackendFairness

\* TopUpsArrive of the part that moves: a malformed record, a failed call or a
\* crash never stops the provisioning consumer.
ConsumedTopUpsArrive == part = "topups" => TopUpsArrive
==============================================================================
