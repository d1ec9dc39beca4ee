------------------------------- MODULE Topics -------------------------------
(***************************************************************************)
(* MQTT topics and filters (edge/topics.js) and what MqttManager makes of  *)
(* them (edge/mqtt/manager.js allowedFor, pluginCall): a plugin subscribes *)
(* only to what its approved topics cover, which the grant of the server   *)
(* covers in turn.                                                         *)
(*                                                                         *)
(* A filter or topic is the sequence of its levels (split('/')).  A loop   *)
(* of the code that runs over the levels is stated by the position k where *)
(* it ends.                                                                *)
(***************************************************************************)
EXTENDS Naturals, Sequences

CONSTANTS
    Levels,     \* the levels without wildcards
    Dollar,     \* those that start with `$`
    MaxLevels   \* bound: levels of a filter or topic TLC tries

ASSUME DollarAssumption == Dollar \subseteq Levels
ASSUME BoundAssumption == MaxLevels \in Nat

Hash == "#"
Plus == "+"

\* some level can take the place of any other
ASSUME LevelsAssumption == \E x, y \in Levels \ Dollar : x # y

ASSUME WildcardAssumption == Hash \notin Levels /\ Plus \notin Levels

VARIABLES
    own,      \* a topic filter approved for the plugin (caps.mqtt.topics)
    granted,  \* a topic filter of pluginTopics, the ACL of the internal account
    asked     \* the filter of a mqtt.subscribe: <<>> while nothing is asked

vars == <<own, granted, asked>>

Filter == {f \in Seq(Levels \cup {Hash, Plus}) : f # <<>>}
Topic == {t \in Seq(Levels) : t # <<>>}

\* validFilter
validFilter(f) == f \in Filter /\ \A i \in DOMAIN f : f[i] = Hash => i = Len(f)

\* validPluginFilter
validPluginFilter(f) == validFilter(f) /\ f[1] \notin {Hash, Plus} \cup Dollar

\* matches
matches(f, t) ==
    /\ ~(t[1] \in Dollar /\ f[1] \in {Hash, Plus})
    /\ \E k \in 1..Len(f) + 1 :
          /\ \A i \in 1..k - 1 : f[i] # Hash /\ i <= Len(t) /\ (f[i] = Plus \/ f[i] = t[i])
          /\ IF k <= Len(f) THEN f[k] = Hash ELSE Len(f) = Len(t)

\* mutant: a `#` of the inner filter is not looked at
CoversHash(o, n) ==
    \E k \in 1..Len(o) + 1 :
        /\ \A i \in 1..k - 1 : o[i] # Hash /\ i <= Len(n) /\ (o[i] = Plus \/ n[i] = o[i])
        /\ IF k <= Len(o) THEN o[k] = Hash ELSE Len(o) = Len(n)

\* covers
covers(o, n) ==
    \E k \in 1..Len(o) + 1 :
        /\ \A i \in 1..k - 1 : o[i] # Hash /\ i <= Len(n) /\ n[i] # Hash
                               /\ (o[i] = Plus \/ n[i] = o[i])
        /\ IF k <= Len(o) THEN o[k] = Hash ELSE Len(o) = Len(n)

\* pluginCall, mqtt.subscribe: some approved topic that the grant covers
\* covers the filter
subscribable(f) == validFilter(f) /\ covers(granted, own) /\ covers(own, f)

\* pluginCall, mqtt.publish: the topic matches such an approved topic
publishable(t) == covers(granted, own) /\ matches(own, t)

Bounded(S) == UNION {[1..k -> S] : k \in 1..MaxLevels}
BoundedFilters == {f \in Bounded(Levels \cup {Hash, Plus}) : validFilter(f)}

Init ==
    /\ own \in BoundedFilters /\ granted \in BoundedFilters
    /\ validPluginFilter(own) /\ validPluginFilter(granted)
    /\ asked = <<>>

\* a plugin asks for a filter
Ask(f) == asked = <<>> /\ asked' = f /\ UNCHANGED <<own, granted>>

Next == \E f \in BoundedFilters : Ask(f)

Spec == Init /\ [][Next]_vars

-----------------------------------------------------------------------------
(* covers decides inclusion: one plugin filter covers another exactly when *)
(* every topic of the second is a topic of the first (topics.js covers     *)
(* against matches).                                                       *)
CoversIsInclusion ==
    asked # <<>> =>
        (covers(own, asked) <=> \A t \in Bounded(Levels) : matches(asked, t) => matches(own, t))

(* What a subscription can deliver, and what a plugin may publish, is      *)
(* within its approved topics and within the ACL of the internal account.  *)
WithinGrant ==
    asked # <<>> =>
        \A t \in Bounded(Levels) :
            /\ subscribable(asked) /\ matches(asked, t) => matches(own, t) /\ matches(granted, t)
            /\ publishable(t) => matches(granted, t)

=============================================================================
