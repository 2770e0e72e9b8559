----------------------------- MODULE MCRuleSets -----------------------------
(* Model values, symmetry and the two parts of the run: the whole life of   *)
(* one rule set, and two rule sets that copy each other within a smaller    *)
(* bound (the approval workflow on, one version each, one review in flight, *)
(* nothing exported).                                                       *)
EXTENDS RuleSets, TLC

VARIABLE part

MCInit == part \in {"life", "copies"} /\ Init

Used == Live(rules) \cup Live(bundle.rules) \cup {review[2] : review \in pending}

\* One key; two reviews in flight as long as nothing has been exported.
LifeBound   == /\ Used' \subseteq {CHOOSE k \in Keys : TRUE}
               /\ Live(bundle'.rules) = {} \/ Cardinality(pending') <= 1

CopiesBound == /\ workflow'
               /\ Cardinality(pending') <= 1
               /\ \A k \in Live(rules') : DOMAIN rules'[k].versions \subseteq {1}
               /\ bundle' = bundle

MCNext == /\ Next
          /\ part = "life" => LifeBound
          /\ part = "copies" => CopiesBound
          /\ UNCHANGED part

MCSpec == MCInit /\ [][MCNext]_<<part, vars>>

Symmetry == Permutations(Defs)
=============================================================================
