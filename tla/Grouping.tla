------------------------------ MODULE Grouping ------------------------------
(***************************************************************************)
(* soc/clustering.py and soc/incidents.py: alerts into candidates, and     *)
(* candidates into incidents.  Both walk a sorted list once and add each   *)
(* member to the youngest group that takes it.                             *)
(***************************************************************************)
EXTENDS Normalization

CONSTANTS
    AlertWindow,        \* time_window_minutes of ClusteringConfig
    MaxAlerts,          \* max_alerts_per_candidate
    SharedEntity,       \* require_shared_entity
    IncidentWindow      \* time_window_minutes of PromotionConfig

ASSUME GroupingConstants ==
    /\ AlertWindow \in Nat \ {0} /\ MaxAlerts \in Nat \ {0}
    /\ IncidentWindow \in Nat \ {0} /\ SharedEntity \in BOOLEAN

Disjoint(S, T) == S \cap T = {}

\* Python compares tuples from the left.
Lexicographic(x, y) ==
    \E i \in DOMAIN x : x[i] < y[i] /\ \A j \in 1 .. i - 1 : x[j] = y[j]

\* sorted keeps the order of members whose keys are equal.
Precedes(keys, i, j) ==
    \/ Lexicographic(keys[i], keys[j])
    \/ ~Lexicographic(keys[j], keys[i]) /\ i < j
Rank(places, keys, i) == 1 + Cardinality({j \in places : Precedes(keys, j, i)})

\* The members of a list at these places, in the order of their keys.
Sorted(list, places, keys) ==
    [n \in 1 .. Cardinality(places) |->
        list[CHOOSE i \in places : Rank(places, keys, i) = n]]

Earliest(x, y) == IF NoNumber \in {x, y} THEN Max({x, y}) ELSE Min({x, y})
Latest(x, y) == Max({x, y})

(* ---- alerts into candidates ---- *)

\* An alert without a time sorts as if it were older than any other.
TimeOnlyKey(a) == <<a.time>>
SortKey(a) == <<a.time, a.id[1], a.id[2], a.id[3]>>
SortedAlerts(alerts) ==
    Sorted(alerts, DOMAIN alerts, [i \in DOMAIN alerts |-> SortKey(alerts[i])])

AlertEntities(a) ==
    LET Entity(prefix, value, none) ==
            IF value = none THEN {} ELSE {<<prefix, value>>}
    IN UNION {Entity("agent", a.agent, NoText), Entity("host", a.host, NoHost),
              Entity("user", a.user, NoText), Entity("src", a.src, NoText),
              Entity("dst", a.dst, NoText)}
       \cup {<<"rule_group", g>> : g \in a.groups}

NewCluster(a) ==
    [alerts |-> <<a>>, entities |-> AlertEntities(a), first |-> a.time, last |-> a.time]

AddedTo(cluster, a) ==
    [alerts |-> Append(cluster.alerts, a),
     entities |-> cluster.entities \cup AlertEntities(a),
     first |-> Earliest(cluster.first, a.time), last |-> Latest(cluster.last, a.time)]

WithinTimeWindow(a, cluster) ==
    \/ NoNumber \in {a.time, cluster.last}
    \/ a.time - cluster.last \in -AlertWindow .. AlertWindow

FullByOne(a, cluster) ==
    /\ Len(cluster.alerts) <= MaxAlerts
    /\ WithinTimeWindow(a, cluster)
    /\ SharedEntity => ~Disjoint(AlertEntities(a), cluster.entities)

TakesAlert(a, cluster) ==
    /\ Len(cluster.alerts) < MaxAlerts
    /\ WithinTimeWindow(a, cluster)
    /\ SharedEntity => ~Disjoint(AlertEntities(a), cluster.entities)

PlaceAlert(clusters, a) ==
    LET fitting == {i \in DOMAIN clusters : TakesAlert(a, clusters[i])}
    IN IF fitting = {} THEN Append(clusters, NewCluster(a))
       ELSE [clusters EXCEPT ![Max(fitting)] = AddedTo(@, a)]

\* The first value of a field that is there.
FirstOf(alerts, field, none) ==
    LET there == {i \in DOMAIN alerts : alerts[i][field] # none}
    IN IF there = {} THEN none ELSE alerts[Min(there)][field]

\* The candidate's id is made of its place in the run and of its alerts' ids.
ToCandidate(cluster, index) ==
    LET alerts == SortedAlerts(cluster.alerts)
    IN [id |-> [index |-> index, alerts |-> {a.id : a \in ToSet(alerts)}],
        first |-> cluster.first, last |-> cluster.last, alerts |-> alerts,
        host |-> FirstOf(alerts, "host", NoHost),
        user |-> FirstOf(alerts, "user", NoText),
        src |-> FirstOf(alerts, "src", NoText),
        srcs |-> {a.src : a \in ToSet(alerts)} \ {NoText},
        dsts |-> {a.dst : a \in ToSet(alerts)} \ {NoText}]

\* The clusters after each of the alerts has been placed.
Clusters(alerts) ==
    LET after[n \in 0 .. Len(alerts)] ==
            IF n = 0 THEN <<>> ELSE PlaceAlert(after[n - 1], alerts[n])
    IN after[Len(alerts)]

Cluster(alerts) ==
    LET clusters == Clusters(SortedAlerts(alerts))
    IN [i \in DOMAIN clusters |-> ToCandidate(clusters[i], i)]

(* ---- candidates into incidents ---- *)

CandidateEntities(c) ==
    UNION {IF c.host = NoHost THEN {} ELSE {<<"host", c.host>>},
           IF c.user = NoText THEN {} ELSE {<<"user", c.user>>},
           {<<"src", ip>> : ip \in c.srcs}, {<<"dst", ip>> : ip \in c.dsts},
           {<<"agent", a.agent>> : a \in {x \in ToSet(c.alerts) : x.agent # NoText}}}

\* A candidate without a time counts as the beginning of time.
Moment(c) == IF c.first # NoNumber THEN c.first ELSE c.last
CandidateKey(c) == <<Max({Moment(c), 0}), c.id.index>>

WithinIncidentWindow(c, group) ==
    \/ NoNumber \in {Moment(c), group.first, group.last}
    \/ Moment(c) \in group.first - IncidentWindow .. group.last + IncidentWindow

NewGroup == [items |-> <<>>, entities |-> {}, first |-> NoNumber, last |-> NoNumber]

Joined(group, item) ==
    [items |-> Append(group.items, item),
     entities |-> group.entities \cup CandidateEntities(item.candidate),
     first |-> Earliest(group.first, item.candidate.first),
     last |-> Latest(group.last, item.candidate.last)]

TakesCandidate(c, group) ==
    /\ ~Disjoint(CandidateEntities(c), group.entities)
    /\ WithinIncidentWindow(c, group)

PlaceCandidate(groups, item) ==
    LET fitting == {i \in DOMAIN groups : TakesCandidate(item.candidate, groups[i])}
    IN IF fitting = {} THEN Append(groups, Joined(NewGroup, item))
       ELSE [groups EXCEPT ![Max(fitting)] = Joined(@, item)]

ToIncident(group, index) ==
    LET members == ToSet(group.items)
    IN [id |-> [index |-> index, candidates |-> {m.candidate.id : m \in members}],
        items |-> group.items, first |-> group.first, last |-> group.last,
        alerts |-> UNION {{a.id : a \in ToSet(m.candidate.alerts)} : m \in members},
        score |-> Max({m.result.score : m \in members})]

\* The groups after each of the candidates has been placed.
Groups(items) ==
    LET after[n \in 0 .. Len(items)] ==
            IF n = 0 THEN <<>> ELSE PlaceCandidate(after[n - 1], items[n])
    IN after[Len(items)]

\* Of the items, those at these places qualify.
Group(items, places) ==
    LET keys == [i \in DOMAIN items |-> CandidateKey(items[i].candidate)]
        groups == Groups(Sorted(items, places, keys))
    IN [i \in DOMAIN groups |-> ToIncident(groups[i], i)]
=============================================================================
