-------------------------- MODULE MCGatewayRoutes --------------------------
(***************************************************************************)
(* Gateways of up to four listeners, three of which have one port and two  *)
(* protocols, with lists of up to three rules of eight kinds, and pairs of *)
(* routes whose host names and listeners overlap.                          *)
(***************************************************************************)
EXTENDS GatewayRoutes

CONSTANTS l1, l2, l3, l4

MCPort == l1 :> 80 @@ l2 :> 80 @@ l3 :> 443 @@ l4 :> 80
MCProtocol == l1 :> "HTTP" @@ l2 :> "HTTP" @@ l3 :> "TLS" @@ l4 :> "SCTP"
MCHostname == l1 :> NoHost @@ l2 :> <<"*", "a">> @@ l3 :> <<"*", "x", "a">> @@ l4 :> <<"x", "a">>

MCNames == {<<"a">>, <<"x", "a">>, <<"y", "a">>, <<"y", "x", "a">>, <<"b">>}
Address == <<"10.0.0.1">>
MCInvalidHosts == {Address}

MCLabels == {"*", "a", "b", "x", "y", "10.0.0.1"}
MCSegments == {"a", "b"}
MCCriteria == {"h", "i", "q"}

MatchOf(path, method, headers, query) ==
    [path |-> path, method |-> method, headers |-> headers, query |-> query]
Prefix(value) == [type |-> "Prefix", value |-> value]
Exact(value) == [type |-> "Exact", value |-> value]
Catchall == MatchOf(Prefix(<<>>), NoMethod, {}, {})

Matches == {Catchall,
            MatchOf(Prefix(<<"a">>), NoMethod, {}, {}),
            MatchOf(Prefix(<<"a", "b">>), NoMethod, {}, {}),
            MatchOf(Exact(<<"a">>), NoMethod, {}, {}),
            MatchOf(Prefix(<<"a">>), NoMethod, {"h"}, {}),
            MatchOf(NoPath, "GET", {}, {}),
            MatchOf(NoPath, NoMethod, {"h", "i"}, {}),
            MatchOf(NoPath, NoMethod, {}, {"q"})}

RuleOf(matches, filters, backend) ==
    [matches |-> matches, filters |-> filters, backends |-> <<backend>>]
RouteOf(sections, http, hosts, rules) ==
    [sections |-> sections, http |-> http, hosts |-> hosts, rules |-> rules]

\* One route with several rules, of which the last has filters of its own ...
Rules == {[i \in DOMAIN ms |-> RuleOf(<<ms[i]>>, IF i = 3 THEN "g" ELSE "f", i)] :
             ms \in BoundedSeq(Matches, 3) \ {<<>>}}
Lists == {<<RouteOf({AnySection}, TRUE, {}, rules)>> : rules \in Rules}

\* ... or two that overlap, and one that is not an HTTP route.
HostSets == {{}, {<<"x", "a">>}, {<<"*", "a">>}, {<<"x", "a">>, <<"b">>}, {Address}}
Pairs == {<<RouteOf({AnySection}, TRUE, hosts1, <<RuleOf(<<MatchOf(Prefix(<<"a">>), NoMethod, {}, {}), Catchall>>, "f", 1)>>),
            RouteOf({section}, http, hosts2, <<RuleOf(<<match>>, "f", 2)>>)>> :
             hosts1 \in HostSets, hosts2 \in HostSets, section \in {AnySection, l1},
             http \in BOOLEAN, match \in {Catchall, MatchOf(NoPath, "GET", {}, {})}}
MCInputs == Lists \cup Pairs
=============================================================================
