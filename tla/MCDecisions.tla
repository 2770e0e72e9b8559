----------------------------- MODULE MCDecisions ------------------------------
(***************************************************************************)
(* Three parts behind a decision, one beside the other: the walk and the   *)
(* branches of one rule set, stacks and surfaces of several, and the rows  *)
(* of the native store that editors and reviewers of a rule set share.     *)
(* `part' says which of them a behaviour is about, the others stay in an   *)
(* initial state.                                                          *)
(*                                                                         *)
(* The definitions: nodes of the shapes that the validator or the          *)
(* evaluator tells apart, absent and blank routes and routes to absent     *)
(* nodes included: every graph of one or two nodes, the validated graphs   *)
(* of three nodes over fewer shapes, and a chain of five that is over the  *)
(* limits; and lists of up to two branches with expressions of up to seven *)
(* tokens.                                                                 *)
(***************************************************************************)
EXTENDS RuleEvaluation, DecisionStacks, NativeStore, TLC

CONSTANTS Parts, a, b, c, d, e, none, blank
VARIABLE part

MCIds == {a, b, c, d, e}
Three == {a, b, c}
Anywhere == Three \cup {none, blank}

Shape(type, to, variants) ==
  [type |-> type, variants |-> variants,
   to |-> [k \in Keys |-> IF k \in DOMAIN to THEN to[k] ELSE none]]

Fewer ==
  {Shape(t, [next |-> n], {}) : t \in {"input", "", "output"}, n \in Three}
    \cup {Shape("condition", [true |-> t, false |-> f], {}) : t \in Three, f \in Three}
    \cup {Shape("frequency_cap", [next |-> n, capped |-> r], {}) : n \in Three, r \in Anywhere}
    \cup {Shape("output", <<>>, {})}

MCNodes ==
  Fewer
    \cup {Shape(t, [next |-> n], {}) : t \in {"input", "lookup", ""}, n \in Anywhere}
    \cup {Shape("condition", [true |-> t], {}) : t \in Three}
    \cup {Shape("frequency_cap", [next |-> n, fallback |-> n], {}) : n \in Three}
    \cup {Shape("experiment_split", <<>>, v) : v \in SUBSET Three \cup {{a, blank}}}
    \cup {Shape("sub-decision", [next |-> n, fallback |-> r], {}) : n \in Three, r \in Anywhere}

graphsOver(S, shapes) == {[entry |-> a, nodes |-> ns] : ns \in [S -> shapes]}

follower(i) == CASE i = a -> b [] i = b -> c [] i = c -> d [] OTHER -> e
Chain == [entry |-> a,
          nodes |-> [i \in MCIds |-> IF i = e THEN Shape("output", <<>>, {})
                                     ELSE Shape("input", [next |-> follower(i)], {})]]

MCGraphs ==
  graphsOver({a}, MCNodes) \cup graphsOver({a, b}, MCNodes) \cup {Chain}
    \cup {g \in graphsOver(Three, Fewer) : validateGraph(g)}

Simple == Literals \cup Negations(Literals)

MCSentences ==
  LET alternatives == Disjunctions(Literals, Literals)
      unary == Simple \cup Groups(alternatives)
      pairs == Conjunctions(Literals, Literals)
      and   == unary \cup pairs \cup Conjunctions(pairs, Literals)
                 \cup Conjunctions(Groups(alternatives), Literals)
                 \cup Conjunctions(Literals, Groups(alternatives))
  IN  [unary |-> unary,
       and |-> and,
       or |-> and \cup alternatives \cup Disjunctions(pairs, Literals)
                \cup Disjunctions(Literals, pairs) \cup Disjunctions(alternatives, Literals)]

MCBranchLists ==
  LET conditions == MCSentences.or
  IN  {<<>>} \cup {<<s>> : s \in conditions} \cup {<<s, t>> : s \in conditions, t \in conditions}

-----------------------------------------------------------------------------
\* Stacks of three steps: the first stops on its result or on its failure, the
\* second may fail to a convenient result, the third looks back; and stacks
\* that are not active.
StepOf(key, mode, stop_on, stop_on_error, on_error) ==
  [key |-> key, mode |-> mode, required |-> "eligible", pinned |-> FALSE, stop_on |-> stop_on,
   stop_on_error |-> stop_on_error, on_error_result |-> on_error]
StopResults == {"ineligible", "suppressed"}

MCStacks ==
  {[policy |-> p, status |-> "active",
    steps |-> <<StepOf("first", "always", StopResults, stop, "deferred"),
                StepOf("second", m, {}, again, "eligible"),
                StepOf("first", "on_output", StopResults, TRUE, "deferred")>>] :
      p \in Policies, m \in {"always", "on_result"}, stop \in BOOLEAN, again \in BOOLEAN}
  \cup {[policy |-> "last_evaluated", status |-> s,
         steps |-> <<[StepOf("first", "always", {}, TRUE, "deferred") EXCEPT !.pinned = TRUE]>>] :
      s \in {"draft", "archived"}}

MCSurface == <<"first", "second">>

-----------------------------------------------------------------------------
RulesAtRest == definition = [kind |-> "branches", branches |-> <<>>]
StacksAtRest == rules = [k \in DecisionKeys |-> [status |-> "missing", version |-> FALSE]]
StoreAtRest == rule.draft = CHOOSE draft \in Drafts : TRUE

MCInit == /\ part \in Parts
          /\ part = "rule set" \/ RulesAtRest
          /\ part = "stacks" \/ StacksAtRest
          /\ Init
          /\ StacksInit
          /\ NativeInit /\ (part = "store" \/ StoreAtRest)

MCNext == /\ \/ part = "rule set" /\ Next /\ UNCHANGED <<stacksVars, nativeVars>>
             \/ part = "stacks" /\ StacksNext /\ UNCHANGED <<vars, nativeVars>>
             \/ part = "store" /\ NativeNext /\ UNCHANGED <<vars, stacksVars>>
          /\ UNCHANGED part

MCSpec == MCInit /\ [][MCNext]_<<part, vars, stacksVars, nativeVars>>

Symmetry == Permutations(Callers)

\* Every variable of the three parts keeps its type.
TypesOK == TypeOK /\ StacksTypeOK /\ NativeTypeOK
=============================================================================
