---------------------------- MODULE CostAttribution ----------------------------
(***************************************************************************)
(* domain/cost/attribution.py: costs of requests filed under the user they *)
(* were made for, and looked up by user or by feature.                     *)
(***************************************************************************)
EXTENDS Integers, Sequences, SequencesExt, Functions

CONSTANTS
  Users, Features,   \* names; NoName stands for None and for the empty string
  NoName,
  NetCosts,          \* net costs of a breakdown: savings may exceed the cost
  MaxAttributions    \* bound: calls of attribute

ASSUME AttributionAssumption ==
  NoName \notin Users /\ NetCosts \subseteq Int /\ MaxAttributions \in Nat

VARIABLES
  attributions,   \* user -> the attributions filed, oldest first
  attributed      \* history: the attributions that attribute returned

attributionVars == << attributions, attributed >>

AttributionInit ==
  /\ attributions = << >>
  /\ attributed = << >>

\* Mutant: a user keeps the last attribution only.
FiledAlone(filed, attribution) == << attribution >>

\* setdefault(user_id, []).append(attribution).
Filed(filed, attribution) == Append(filed, attribution)

FiledFor(user) == IF user \in DOMAIN attributions THEN attributions[user] ELSE << >>

\* attribute: without a user the attribution is returned, but not filed.
Attribute(user, feature, cost) ==
  LET attribution == [user |-> user, feature |-> feature, cost |-> cost]
  IN  /\ Len(attributed) < MaxAttributions
      /\ attributed' = Append(attributed, attribution)
      /\ attributions' =
           IF user = NoName THEN attributions
           ELSE [u \in DOMAIN attributions \cup {user} |->
                   IF u = user THEN Filed(FiledFor(user), attribution) ELSE attributions[u]]

\* The costs of the records at some places of a list.
CostsAt(places, records) == SumFunction([i \in places |-> records[i].cost])

\* get_user_costs.
UserCosts(user) == CostsAt(DOMAIN FiledFor(user), FiledFor(user))

PlacesOf(feature, records) == {i \in DOMAIN records : records[i].feature = feature}

\* What the attributions of get_feature_costs add up to: those of each user.
FeatureCosts(feature) ==
  SumFunction([user \in DOMAIN attributions |->
    CostsAt(PlacesOf(feature, attributions[user]), attributions[user])])

AttributionNext ==
  \E user \in Users \cup {NoName}, feature \in Features \cup {NoName}, cost \in NetCosts :
    Attribute(user, feature, cost)

-----------------------------------------------------------------------------
(* Properties *)

\* What attribute returned with the given user and feature.
Returned(users, features) ==
  CostsAt({i \in DOMAIN attributed :
             attributed[i].user \in users /\ attributed[i].feature \in features}, attributed)

\* Every cost that was attributed to somebody is in the costs of that user and
\* of its feature, once: the two ways of adding them up agree, and the costs
\* of a feature fall short of what was attributed to it by the costs of the
\* requests without a user, and by nothing else.
CostsAreFiledOnce ==
  /\ \A user \in Users : UserCosts(user) = Returned({user}, Features \cup {NoName})
  /\ UserCosts(NoName) = 0
  /\ \A feature \in Features \cup {NoName} :
       FeatureCosts(feature) = Returned(Users \cup {NoName}, {feature}) - Returned({NoName}, {feature})
=============================================================================
