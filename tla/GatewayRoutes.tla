--------------------------- MODULE GatewayRoutes ---------------------------
(***************************************************************************)
(* From a GWProxy's listeners and its routes to its Envoy configuration:   *)
(* what routesToClusters() and makeGWListeners() do on each reconcile.     *)
(* Each listener's HTTP routes become one route for each host name, whose  *)
(* rules have one match each, are combined and ordered; then listeners     *)
(* that are compatible are made one, in the order in which Go visits the   *)
(* keys of a map, which is any; then each is written.  Envoy takes the     *)
(* first rule that matches a request.                                      *)
(*                                                                         *)
(* A host name is the sequence of its labels, the value of a path that of  *)
(* its segments, and headers and query parameters are sets of criteria.    *)
(***************************************************************************)
EXTENDS Naturals, FiniteSets, SequencesExt

CONSTANTS
    Listeners,     \* the listeners a proxy may have
    Port, Protocol, Hostname,   \* of a listener, the last perhaps NoHost
    Inputs,        \* the sequences of routes a proxy may have
    Names,         \* host names of requests
    InvalidHosts,  \* host names that IsValidHostname() does not accept
    Labels, Segments, Methods, Criteria, Filters, Backends,   \* what routes are made of
    NoHost, NoPath, NoMethod,
    AnySection     \* in place of the name of a listener that a route refers to

Protocols == {"HTTP", "HTTPS", "TLS", "TCP", "UDP"}

Hosts == Seq(Labels) \ {<<>>}

Paths == [type : {"Exact", "Prefix"}, value : Seq(Segments)]
Match == [path : Paths \cup {NoPath}, method : Methods \cup {NoMethod},
          headers : SUBSET Criteria, query : SUBSET Criteria]
Rule == [matches : Seq(Match), filters : Filters, backends : Seq(Backends)]
Route == [sections : SUBSET (Listeners \cup {AnySection}), http : BOOLEAN,
          hosts : SUBSET Hosts, rules : Seq(Rule)]

ASSUME ListenersAssumption == Port \in [Listeners -> Nat]
ASSUME HostsAssumption == /\ Hostname \in [Listeners -> Hosts \cup {NoHost}]
                          /\ Names \subseteq Hosts /\ \A name \in Names : Head(name) # "*"
ASSUME RoutesAssumption == IsFiniteSet(Criteria) /\ Inputs \subseteq Seq(Route)

VARIABLES
    gateway,    \* the proxy's listeners
    routes,     \* its routes
    clusters,   \* names of the clusters
    raw,        \* each preprocessed listener's rules, by host name
    collapsed,  \* each collapsed listener's: the listeners whose routes it has
    written,    \* the listeners in the configuration
    stage       \* what comes next, or "done", "error" or "panic"

vars == <<gateway, routes, clusters, raw, collapsed, written, stage>>
-----------------------------------------------------------------------------
\* Host names.

AllHosts == <<"*">>

\* A host name has what follows the asterisk as a suffix, and more.
hostnameMatchesWildcardHostname(host, wildcard) ==
    IsSuffix(Tail(wildcard), host) /\ Len(host) >= Len(wildcard)

Common(host, listener) ==
    CASE listener = host -> {host}
      [] listener # host /\ Head(listener) = "*" ->
            IF hostnameMatchesWildcardHostname(host, listener) THEN {host} ELSE {}
      [] listener # host /\ Head(listener) # "*" /\ Head(host) = "*" ->
            IF hostnameMatchesWildcardHostname(listener, host) THEN {listener} ELSE {}
      [] OTHER -> {}

\* The host names that a listener serves a route with hosts for.
ComputeHosts(hosts, hostname) ==
    LET listener == IF hostname = NoHost THEN AllHosts ELSE hostname IN
    IF hosts = {} THEN {listener} ELSE UNION {Common(host, listener) : host \in hosts}
-----------------------------------------------------------------------------
\* Rules.

\* A rule with several matches becomes several rules with one.
splitMatches(rules) ==
    FlattenSeq([i \in DOMAIN rules |->
                   [j \in DOMAIN rules[i].matches |->
                       [rules[i] EXCEPT !.matches = <<rules[i].matches[j]>>]]])

shouldMerge(rule1, rule2) ==
    rule1.matches = rule2.matches /\ rule1.filters = rule2.filters

\* Mutant: the backends of the later rule are dropped.
CombineDropping(rules) ==
    LET add(output, rule) == IF \E i \in DOMAIN output : shouldMerge(output[i], rule)
                             THEN output ELSE Append(output, rule)
    IN FoldLeft(add, <<>>, rules)

\* Rules with the same matches and filters are one rule with all the backends.
combineRouteRules(rules) ==
    LET add(output, rule) ==
            IF \E i \in DOMAIN output : shouldMerge(output[i], rule)
            THEN LET i == SelectInSeq(output, LAMBDA other : shouldMerge(other, rule))
                 IN [output EXCEPT ![i].backends = @ \o rule.backends]
            ELSE Append(output, rule)
    IN FoldLeft(add, <<>>, rules)

IsPath(match, type) == match.path # NoPath /\ match.path.type = type

criteriaCount(match) == Cardinality({c \in {"headers", "query"} : match[c] # {}}
                                    \cup {c \in {"method"} : match[c] # NoMethod}
                                    \cup {c \in {"path"} : match[c] # NoPath})

isCatchall(rule) ==
    /\ Len(rule.matches) = 1
    /\ criteriaCount(rule.matches[1]) = 1
    /\ IsPath(rule.matches[1], "Prefix") /\ rule.matches[1].path.value = <<>>

\* Mutant: a catch-all is not looked for.
LessThanCatchall(rule1, rule2) ==
    LET i == rule1.matches[1]
        j == rule2.matches[1] IN
    \/ IsPath(i, "Exact") /\ j.path = NoPath
    \/ IsPath(i, "Prefix") /\ IsPath(j, "Prefix") /\ Len(i.path.value) > Len(j.path.value)
    \/ i.method # NoMethod /\ j.path = NoPath /\ j.method = NoMethod
    \/ Cardinality(i.headers) > Cardinality(j.headers) /\ j.headers # {}

\* The comparison of sortRouteRules().
Less(rule1, rule2) ==
    LET i == rule1.matches[1]
        j == rule2.matches[1] IN
    \/ isCatchall(rule2)
    \/ IsPath(i, "Exact") /\ j.path = NoPath
    \/ IsPath(i, "Prefix") /\ IsPath(j, "Prefix") /\ Len(i.path.value) > Len(j.path.value)
    \/ i.method # NoMethod /\ j.path = NoPath /\ j.method = NoMethod
    \/ IF i.headers # {} /\ j.headers # {}
       THEN Cardinality(i.headers) > Cardinality(j.headers)
       ELSE j.query # {} /\ Cardinality(i.query) > Cardinality(j.query)

\* sort.SliceStable() inserts one rule after the other, behind the last that it
\* is not less than, if there are at most 20.
sortRouteRules(rules) ==
    LET insert(sorted, rule) ==
            LET stay == {k \in DOMAIN sorted : ~Less(rule, sorted[k])}
            IN InsertAt(sorted, 1 + (IF stay = {} THEN 0 ELSE Max(stay)), rule)
    IN FoldLeft(insert, <<>>, rules)
-----------------------------------------------------------------------------
\* Listeners.

refersToSection(sections, listener) == AnySection \in sections \/ listener \in sections

\* Lists of routes are given by the routes' positions.
filterReferentRoutes(listener) ==
    {i \in DOMAIN routes : refersToSection(routes[i].sections, listener)}

\* The rules of the routes with host, in the order of the routes.
RulesFor(listener, host, https) ==
    FlattenSeq([i \in DOMAIN routes |->
                   IF i \in https /\ host \in ComputeHosts(routes[i].hosts, Hostname[listener])
                   THEN splitMatches(routes[i].rules) ELSE <<>>])

preprocessHTTPRoutes(listener, https) ==
    LET hosts == UNION {ComputeHosts(routes[i].hosts, Hostname[listener]) : i \in https}
    IN [host \in hosts |-> sortRouteRules(combineRouteRules(RulesFor(listener, host, https)))]

compatibleListeners(l1, l2) ==
    /\ Port[l1] = Port[l2]
    /\ \/ Protocol[l1] = Protocol[l2]
       \/ {Protocol[l1], Protocol[l2]} \subseteq {"HTTPS", "TLS"}

washProtocol(protocol) == protocol \in Protocols

\* Go panics at a route whose host names are not valid: it is left empty.
HTTPRoutesFor(listener) == {i \in filterReferentRoutes(listener) : routes[i].http}
Panics(listener) == \E i \in HTTPRoutesFor(listener) : routes[i].hosts \cap InvalidHosts # {}

Init == /\ gateway \in SUBSET Listeners \ {{}}
        /\ routes \in Inputs
        /\ clusters = {} /\ raw = <<>> /\ collapsed = <<>> /\ written = {}
        /\ stage = "clusters"

\* One cluster for each backend of any route, whatever it refers to.
routesToClusters ==
    /\ stage = "clusters"
    /\ stage' = "preprocess"
    /\ clusters' = UNION {ToSet(rule.backends) : rule \in UNION {ToSet(routes[i].rules) : i \in DOMAIN routes}}
    /\ UNCHANGED <<gateway, routes, raw, collapsed, written>>

\* The rules of a listener.  Routes that are not HTTP routes stay as they are.
preprocessRoutes(listener) ==
    /\ stage = "preprocess" /\ listener \in gateway \ DOMAIN raw
    /\ IF Panics(listener)
       THEN stage' = "panic" /\ UNCHANGED raw
       ELSE /\ raw' = [l \in DOMAIN raw \cup {listener} |->
                          IF l = listener THEN preprocessHTTPRoutes(l, HTTPRoutesFor(l)) ELSE raw[l]]
            /\ stage' = IF DOMAIN raw' = gateway THEN "collapse" ELSE stage
    /\ UNCHANGED <<gateway, routes, clusters, collapsed, written>>

Sources(listeners) == UNION {listeners[l] : l \in DOMAIN listeners}

\* Mutant: whatever has the same port is compatible.
collapseByPort(listener) ==
    /\ stage = "collapse" /\ listener \in gateway \ Sources(collapsed)
    /\ LET apart == {l \in DOMAIN collapsed : Port[listener] # Port[l]}
           left == IF apart = DOMAIN collapsed THEN DOMAIN collapsed \cup {listener} ELSE DOMAIN collapsed
       IN collapsed' = [l \in left |-> IF l = listener THEN {listener}
                                       ELSE IF l \in apart THEN collapsed[l]
                                       ELSE collapsed[l] \cup {listener}]
    /\ stage' = IF Sources(collapsed') = gateway THEN "write" ELSE stage
    /\ UNCHANGED <<gateway, routes, clusters, raw, written>>

\* The next listener that the loop visits joins every collapsed listener that it
\* is compatible with, and stays besides if there is one that it is not.
collapse(listener) ==
    /\ stage = "collapse" /\ listener \in gateway \ Sources(collapsed)
    /\ LET apart == {l \in DOMAIN collapsed : ~compatibleListeners(listener, l)}
           left == IF DOMAIN collapsed = {} \/ apart # {}
                   THEN DOMAIN collapsed \cup {listener} ELSE DOMAIN collapsed
       IN collapsed' = [l \in left |-> IF l = listener THEN {listener}
                                       ELSE IF l \in apart THEN collapsed[l]
                                       ELSE collapsed[l] \cup {listener}]
    /\ stage' = IF Sources(collapsed') = gateway THEN "write" ELSE stage
    /\ UNCHANGED <<gateway, routes, clusters, raw, written>>

\* Mutant: the listeners are those from before the collapse.
executeEveryTemplate(listener) ==
    /\ stage = "write" /\ listener \in gateway \ written
    /\ IF washProtocol(Protocol[listener])
       THEN /\ written' = written \cup {listener}
            /\ stage' = IF written' = gateway THEN "done" ELSE stage
       ELSE stage' = "error" /\ UNCHANGED written
    /\ UNCHANGED <<gateway, routes, clusters, raw, collapsed>>

\* A protocol that is not known ends the loop with an error.
executeListenerTemplate(listener) ==
    /\ stage = "write" /\ listener \in DOMAIN collapsed \ written
    /\ IF washProtocol(Protocol[listener])
       THEN /\ written' = written \cup {listener}
            /\ stage' = IF written' = DOMAIN collapsed THEN "done" ELSE stage
       ELSE stage' = "error" /\ UNCHANGED written
    /\ UNCHANGED <<gateway, routes, clusters, raw, collapsed>>

Next == \/ routesToClusters
        \/ \E l \in Listeners : preprocessRoutes(l) \/ collapse(l) \/ executeListenerTemplate(l)

Spec == Init /\ [][Next]_vars
-----------------------------------------------------------------------------
TypeOK ==
    /\ gateway \subseteq Listeners /\ routes \in Inputs
    /\ DOMAIN raw \subseteq gateway /\ DOMAIN collapsed \subseteq DOMAIN raw
    /\ \A l \in DOMAIN collapsed : l \in collapsed[l] /\ collapsed[l] \subseteq gateway
    /\ written \subseteq DOMAIN collapsed
    /\ stage \in {"clusters", "preprocess", "collapse", "write", "done", "error", "panic"}

\* Is a request's host name one that pattern stands for?
Stands(name, pattern) ==
    \/ name = pattern
    \/ /\ Head(pattern) = "*"
       /\ \E i \in 1 .. Len(name) : SubSeq(name, i + 1, Len(name)) = Tail(pattern)

\* Single matches, with the filters and one backend of their rules.
Cases(rules) == UNION {{<<match, rule.filters, backend>> :
                          match \in ToSet(rule.matches), backend \in ToSet(rule.backends)} :
                       rule \in ToSet(rules)}

\* The asterisk of the listener's name stands for less than that of the host.
Narrows(l, host) == /\ Hostname[l] # NoHost /\ Head(Hostname[l]) = "*"
                    /\ Head(host) = "*" /\ Len(Hostname[l]) > Len(host)

\* The host names that a listener has for a route and that stand for a request's:
\* the more specific of the listener's own and the route's, where both stand for
\* it, but none where both have wildcards and the listener's is narrower.
Under(l, name, route) ==
    LET own == IF Hostname[l] = NoHost THEN AllHosts ELSE Hostname[l]
        hosts == IF route.hosts = {} THEN {own} ELSE route.hosts
        both == {host \in hosts : Stands(name, host) /\ Stands(name, own) /\ ~Narrows(l, host)}
    IN {IF own = name THEN own ELSE host : host \in both}

\* Each host name is the domain of a virtual host, of which Envoy takes the one
\* that is the request's, or else the longest that stands for it, and no other.
Closest(name, domains) ==
    {domain \in domains :
        /\ Stands(name, domain)
        /\ domain # name => /\ name \notin domains
                            /\ \A other \in domains : Stands(name, other) => Len(other) <= Len(domain)}

\* Envoy refuses a listener two of whose virtual hosts have the same domain.
NoneTwice(listeners) ==
    \A l, m \in listeners : l # m => DOMAIN raw[l] \cap DOMAIN raw[m] = {}

\* A request to a listener, as it was declared or with those that are collapsed
\* into it, finds the matches and the backends of just those routes that refer to
\* it and have the request's host name by the most specific name that any of them
\* has for it, however host names overlap and rules are split, combined and
\* ordered; and there is a cluster for each of the backends.
RulesComplete ==
    \A listeners \in {{l} : l \in DOMAIN raw} \cup {collapsed[c] : c \in DOMAIN collapsed}, name \in Names :
        LET due == {pair \in listeners \X ToSet(routes) :
                       pair[2].http /\ pair[2].sections \cap {AnySection, pair[1]} # {}}
            wanted == Closest(name, UNION {Under(pair[1], name, pair[2]) : pair \in due})
            domain == Closest(name, UNION {DOMAIN raw[l] : l \in listeners})
            found == UNION {UNION {Cases(raw[l][host]) : host \in DOMAIN raw[l] \cap domain} : l \in listeners}
        IN NoneTwice(listeners) =>
              /\ found = UNION {Cases(pair[2].rules) :
                                   pair \in {p \in due : Under(p[1], name, p[2]) \cap wanted # {}}}
              /\ {case[3] : case \in found} \subseteq clusters

BarePrefix(rule) == IsPath(rule.matches[1], "Prefix") /\ criteriaCount(rule.matches[1]) = 1

\* Every request that match2 takes is one that match1 takes.
Covers(match1, match2) ==
    /\ \/ match1.path = NoPath \/ match1.path = match2.path
       \/ /\ IsPath(match1, "Prefix") /\ match2.path # NoPath
          /\ IsPrefix(match1.path.value, match2.path.value)
    /\ match1.method \in {NoMethod, match2.method}
    /\ match1.headers \subseteq match2.headers /\ match1.query \subseteq match2.query

\* A rule that an earlier one takes all requests from is never reached.  That
\* does not happen to a rule because of the catch-all, which is last, nor to
\* any where all rules are paths' prefixes; and rules that only their backends
\* tell apart are one.  Each rule has one match, which is all that the order
\* looks at.
RulesReached ==
    \A l \in DOMAIN raw : \A host \in DOMAIN raw[l] :
        LET rules == raw[l][host] IN
        \A j \in DOMAIN rules :
            /\ Len(rules[j].matches) = 1
            /\ \A i \in 1 .. j - 1 :
                  Covers(rules[i].matches[1], rules[j].matches[1]) =>
                      IF rules[i].matches = rules[j].matches THEN rules[i].filters # rules[j].filters
                      ELSE ~isCatchall(rules[i]) /\ \E k \in DOMAIN rules : ~BarePrefix(rules[k])

\* Whatever order the loop visits them in, every listener's routes are served at
\* its port, with compatible ones only; no two that are left are compatible where
\* all are or none of them are; and what is left is in the configuration in the end.
RoutesServed ==
    stage \in {"write", "done", "error"} =>
        /\ \A l \in gateway : \E c \in DOMAIN collapsed : l \in collapsed[c]
        /\ \A c \in DOMAIN collapsed : \A l \in collapsed[c] : compatibleListeners(l, c)
        /\ \A c, d \in DOMAIN collapsed : c # d /\ compatibleListeners(c, d) =>
              \E l \in gateway : ~compatibleListeners(l, c)
        /\ stage = "done" => written = DOMAIN collapsed
=============================================================================
