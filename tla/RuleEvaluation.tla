---------------------------- MODULE RuleEvaluation ----------------------------
(***************************************************************************)
(* One decision: evaluateDecision and evaluateDecisionAsync of             *)
(* src/evaluator.js on a stored rule definition.  A definition is a graph, *)
(* walked node by node, or a list of branches, tried in order.  The        *)
(* operations that save one call validateRuleDefinition of                 *)
(* src/validation.js; a database or snapshot that is loaded is not         *)
(* validated, and the evaluator has checks of its own.  The data of a      *)
(* request (profile, context, event counts, hash buckets) decide which     *)
(* route a node takes and whether an expression throws: the model takes    *)
(* every route that some data give.                                        *)
(***************************************************************************)
EXTENDS Expressions, FiniteSets, Functions

CONSTANTS Ids,          \* node ids
          NoRoute,      \* a route that is absent or an empty text: nowhere for both sides
          Blank,        \* a route of blanks, or no text: the validator drops it, the walk goes there
          Graphs,       \* candidate graphs, valid and invalid
          Sentences,    \* the sentences of each level that conditions are made of
          BranchLists,  \* sequences of sentences: the conditions of branches
          NodeLimit,    \* 200 in validateGraph
          StepLimit     \* 220 in evaluateGraph

Keys == {"next", "true", "false", "capped", "fallback"}
Routes == Ids \cup {NoRoute, Blank}
Node == [type : STRING, to : [Keys -> Routes], variants : SUBSET (Ids \cup {Blank})]
Graph == [entry : Ids, nodes : UNION {[S -> Node] : S \in SUBSET Ids}]

ASSUME LimitAssumption ==
  /\ IsFiniteSet(Ids)
  /\ NoRoute \notin Ids /\ Blank \notin Ids /\ NoRoute # Blank
  /\ NodeLimit \in Nat /\ StepLimit \in Nat
  /\ NodeLimit < StepLimit

ASSUME DefinitionAssumption ==
  /\ \A g \in Graphs : /\ DOMAIN g.nodes \subseteq Ids
                       /\ g.entry \in Ids
                       /\ \A i \in DOMAIN g.nodes : /\ g.nodes[i].to \in [Keys -> Routes]
                                                    /\ g.nodes[i].variants \subseteq Ids \cup {Blank}
  /\ Language(Sentences, FALSE)
  /\ BranchLists \subseteq Seq(Sentences["or"])

-----------------------------------------------------------------------------
(* The validator.                                                          *)
Terminal == {"output", "fallback", "error"}

(* Only texts that are not blank count as routes: a blank one is dropped,  *)
(* not reported.                                                           *)
graphNodeTargets(node) ==
  ((IF node.type = "experiment_split" THEN node.variants ELSE {}) \cup Range(node.to))
    \cap Ids

(* A mutant: only the true route of a condition is asked for.              *)
MutOnlyTrueRoute(type) ==
  CASE type = "condition" -> {"true"}
    [] type = "experiment_split" -> {}
    [] OTHER -> {"next"}

requiredRoutes(type) ==
  CASE type = "condition" -> {"true", "false"}
    [] type = "experiment_split" -> {}
    [] OTHER -> {"next"}

(* Any type that is neither terminal nor named, the missing type too, is   *)
(* treated as a plain node that needs a next route.                        *)
validateGraphNodeRoutes(node, ids) ==
  node.type \notin Terminal =>
    /\ \A k \in requiredRoutes(node.type) : node.to[k] \in Ids
    /\ node.type = "experiment_split" => node.variants # {} /\ Blank \notin node.variants
    /\ graphNodeTargets(node) \subseteq ids

(* The depth-first visit: whether a path returns to itself, whether some   *)
(* path meets a terminal node, and the nodes met.  A node is visited with  *)
(* the set of nodes on the path to it.  The memo of the code only saves    *)
(* repeated visits.                                                        *)
visitGraphNode(g, visit, visiting, id) ==
  IF id \in visiting
  THEN [circular |-> TRUE, terminal |-> FALSE, seen |-> {}]
  ELSE IF id \notin DOMAIN g.nodes
  THEN [circular |-> FALSE, terminal |-> FALSE, seen |-> {}]
  ELSE LET children == {visit[visiting \cup {id}][t] : t \in graphNodeTargets(g.nodes[id])}
       IN  [circular |-> \E c \in children : c.circular,
            terminal |-> \/ g.nodes[id].type \in Terminal
                         \/ \E c \in children : c.terminal,
            seen |-> {id} \cup UNION {c.seen : c \in children}]

visits(g) ==
  LET visit[visiting \in SUBSET Ids] == [id \in Ids |-> visitGraphNode(g, visit, visiting, id)]
  IN  visit

visitFromEntry(g) == visits(g)[{}][g.entry]

(* A mutant: circular paths are not rejected, as if visiting were visited. *)
MutAcceptCircular(g) ==
  /\ Cardinality(DOMAIN g.nodes) <= NodeLimit
  /\ g.entry \in DOMAIN g.nodes
  /\ \A id \in DOMAIN g.nodes : validateGraphNodeRoutes(g.nodes[id], DOMAIN g.nodes)

(* A mutant: graphs may have any number of nodes.                          *)
MutAnyNumberOfNodes(g) ==
  /\ g.entry \in DOMAIN g.nodes
  /\ \A id \in DOMAIN g.nodes : validateGraphNodeRoutes(g.nodes[id], DOMAIN g.nodes)
  /\ LET found == visitFromEntry(g)
     IN  ~found.circular /\ found.terminal /\ found.seen = DOMAIN g.nodes

validateGraph(g) ==
  /\ Cardinality(DOMAIN g.nodes) <= NodeLimit
  /\ g.entry \in DOMAIN g.nodes
  /\ \A id \in DOMAIN g.nodes : validateGraphNodeRoutes(g.nodes[id], DOMAIN g.nodes)
  /\ LET found == visitFromEntry(g)
     IN  ~found.circular /\ found.terminal /\ found.seen = DOMAIN g.nodes

-----------------------------------------------------------------------------
VARIABLES definition,   \* the stored definition the requests are evaluated on
          validated,    \* whether it passed the validator when it was saved
          phase,        \* "walking", "trying" branches, or "done"
          current,      \* the node the walk is at
          step,         \* iterations of the walk's loop
          visited,      \* ids the walk has been at
          branch,       \* index of the branch to try
          matchedRules, \* branches pushed to matched_rules, 0 for "fallback"
          errors,       \* branches reported in errors
          outcome       \* who decided, and the error that made the fallback decide

vars == <<definition, validated, phase, current, step, visited, branch, matchedRules, errors, outcome>>

isGraph == definition.kind = "graph"
nodes == definition.graph.nodes
branches == definition.branches

Definitions == [kind : {"graph"}, graph : Graphs] \cup [kind : {"branches"}, branches : BranchLists]

(* Accepted when saved.  Neither kind has its expressions parsed here; the *)
(* rest of the branch checks concern shapes the candidates all have.       *)
validateRuleDefinition(d) == d.kind = "graph" => validateGraph(d.graph)


Undecided == [by |-> "nobody", error |-> "none"]
Errors == {"no_next", "circular", "not_found", "unsupported", "expression", "depth"}
Deciders == {"nobody", "graph", "branch", "fallback"}

Init ==
  /\ definition \in Definitions
  /\ validated = validateRuleDefinition(definition)
  /\ phase = IF isGraph THEN "walking" ELSE "trying"
  /\ current = IF isGraph THEN definition.graph.entry ELSE NoRoute
  /\ step = 0 /\ visited = {} /\ branch = 1
  /\ matchedRules = <<>> /\ errors = {} /\ outcome = Undecided

(* evaluateDecision's catch: the error is reported and the definition's    *)
(* fallback, or a deferred result, decides.                                *)
Fail(error) ==
  /\ phase' = "done"
  /\ outcome' = [by |-> "fallback", error |-> error]
  /\ UNCHANGED <<definition, validated, current, branch, matchedRules, errors>>

-----------------------------------------------------------------------------
(* The walk.  An iteration checks the loop bound, then that there is a     *)
(* node to go to, that it is new, and that it exists.                      *)
iterates(n) == n < StepLimit

(* A route of blanks is true to JavaScript, and no node has such an id.    *)
hasNext(route) == route # NoRoute

TooDeep == phase = "walking" /\ ~iterates(step) /\ Fail("depth") /\ UNCHANGED <<step, visited>>

NoNextNode ==
  /\ phase = "walking" /\ iterates(step) /\ ~hasNext(current)
  /\ Fail("no_next") /\ UNCHANGED <<step, visited>>

CircularPath ==
  /\ phase = "walking" /\ iterates(step) /\ current \in visited
  /\ Fail("circular") /\ UNCHANGED <<step, visited>>

NodeNotFound ==
  /\ phase = "walking" /\ iterates(step)
  /\ hasNext(current) /\ current \notin visited /\ current \notin DOMAIN nodes
  /\ Fail("not_found") /\ visited' = visited \cup {current} /\ UNCHANGED step

(* The walk is at a node of one of the types.                              *)
At(types) ==
  /\ phase = "walking" /\ iterates(step)
  /\ current \notin visited /\ current \in DOMAIN nodes
  /\ nodes[current].type \in types
  /\ visited' = visited \cup {current}

GoTo(route) ==
  /\ current' = route
  /\ step' = step + 1
  /\ UNCHANGED <<definition, validated, phase, branch, matchedRules, errors, outcome>>

(* JavaScript's x || y of two routes: a blank one is taken.                *)
either(x, y) == IF x # NoRoute THEN x ELSE y

Plain == {"input", "score", "lookup"}
PlainNode == At(Plain) /\ GoTo(nodes[current].to["next"])

Condition ==
  /\ At({"condition"})
  /\ \E passed \in BOOLEAN : GoTo(nodes[current].to[IF passed THEN "true" ELSE "false"])

(* The count of events is below the maximum, or the node caps.             *)
cappedRoute(node) ==
  either(node.to["capped"], either(node.to["false"], node.to["fallback"]))
FrequencyCap ==
  /\ At({"frequency_cap"})
  /\ \/ GoTo(nodes[current].to["next"])
     \/ GoTo(cappedRoute(nodes[current]))

spareRoute(node) == either(node.to["fallback"], node.to["next"])

(* A forced variant, or the one whose bucket the hash of the seed is in.   *)
(* Without variants one of two default ones is taken, which have no route. *)
variantRoutes(node) ==
  IF node.variants = {} THEN {spareRoute(node)} ELSE node.variants
ExperimentSplit ==
  /\ At({"experiment_split"})
  /\ \E route \in variantRoutes(nodes[current]) : GoTo(route)

SubDecision == At({"sub-decision"}) /\ GoTo(spareRoute(nodes[current]))

TerminalNode ==
  /\ At(Terminal)
  /\ phase' = "done"
  /\ outcome' = [by |-> "graph", error |-> "none"]
  /\ UNCHANGED <<definition, validated, current, step, branch, matchedRules, errors>>

(* The expression of a condition, a score rule, a lookup key or an output  *)
(* throws.                                                                 *)
ExpressionThrows ==
  /\ At({"condition", "score", "lookup"} \cup Terminal)
  /\ Fail("expression") /\ UNCHANGED step

Supported == Plain \cup Terminal \cup {"condition", "frequency_cap", "experiment_split", "sub-decision"}
UnsupportedType ==
  /\ phase = "walking" /\ iterates(step)
  /\ current \notin visited /\ current \in DOMAIN nodes
  /\ nodes[current].type \notin Supported
  /\ visited' = visited \cup {current}
  /\ Fail("unsupported") /\ UNCHANGED step

-----------------------------------------------------------------------------
(* The branches.  A branch that throws, in its condition or in the outputs *)
(* of a match, is reported and passed over.                                *)
Try == phase = "trying" /\ branch <= Len(branches)
verdict == evaluateExpression(branches[branch].text)

BranchThrows ==
  /\ Try /\ ~verdict.ok
  /\ errors' = errors \cup {branch} /\ branch' = branch + 1
  /\ UNCHANGED <<definition, validated, phase, current, step, visited, matchedRules, outcome>>

BranchPassedOver ==
  /\ Try /\ verdict.ok /\ ~verdict.value
  /\ branch' = branch + 1
  /\ UNCHANGED <<definition, validated, phase, current, step, visited, matchedRules, errors, outcome>>

BranchDecides ==
  /\ Try /\ verdict.ok /\ verdict.value
  /\ matchedRules' = Append(matchedRules, branch)
  /\ phase' = "done"
  /\ outcome' = [by |-> "branch", error |-> "none"]
  /\ UNCHANGED <<definition, validated, current, step, visited, branch, errors>>

BranchOutputsThrow ==
  /\ Try /\ verdict.ok /\ verdict.value
  /\ matchedRules' = Append(matchedRules, branch)
  /\ errors' = errors \cup {branch} /\ branch' = branch + 1
  /\ UNCHANGED <<definition, validated, phase, current, step, visited, outcome>>

NoBranchDecides ==
  /\ phase = "trying" /\ branch > Len(branches)
  /\ matchedRules' = Append(matchedRules, 0)
  /\ phase' = "done"
  /\ outcome' = [by |-> "fallback", error |-> "none"]
  /\ UNCHANGED <<definition, validated, current, step, visited, branch, errors>>

(* The answered decision is followed by another request on the definition. *)
NextRequest ==
  /\ phase = "done"
  /\ phase' = IF isGraph THEN "walking" ELSE "trying"
  /\ current' = IF isGraph THEN definition.graph.entry ELSE NoRoute
  /\ step' = 0 /\ visited' = {} /\ branch' = 1
  /\ matchedRules' = <<>> /\ errors' = {} /\ outcome' = Undecided
  /\ UNCHANGED <<definition, validated>>

Walk == PlainNode \/ Condition \/ FrequencyCap \/ ExperimentSplit \/ SubDecision
        \/ TerminalNode \/ ExpressionThrows \/ UnsupportedType
        \/ TooDeep \/ NoNextNode \/ CircularPath \/ NodeNotFound
TryBranches == BranchThrows \/ BranchPassedOver \/ BranchDecides \/ BranchOutputsThrow
               \/ NoBranchDecides

Next == Walk \/ TryBranches \/ NextRequest
Spec == Init /\ [][Next]_vars

-----------------------------------------------------------------------------
(* Every variable has its type.                                            *)
TypeOK ==
  /\ validated \in BOOLEAN
  /\ phase \in {"walking", "trying", "done"}
  /\ current \in Routes
  /\ step \in 0 .. StepLimit
  /\ visited \subseteq Ids \cup {Blank}
  /\ branch \in Nat \ {0}
  /\ matchedRules \in Seq(Nat)
  /\ errors \subseteq Nat
  /\ outcome \in [by : Deciders, error : Errors \cup {"none"}]

(* A graph the validator accepted is never too deep for the walk: the loop *)
(* bound of evaluateGraph is not what ends a decision, whatever the routes *)
(* taken (validation.js: 200 nodes; evaluator.js: 220 iterations).         *)
NeverTooDeep == validated => outcome.error # "depth"

(* In a validated graph every route the walk takes leads to a node, but    *)
(* for those that validateGraphNodeRoutes does not ask for: the walk ends  *)
(* at a missing node only where a frequency cap or a sub-decision prefers  *)
(* a blank route, which the validator overlooks, and it runs out of nodes  *)
(* only at a frequency cap without a route for the capped case.            *)
NoDanglingRoute ==
  validated =>
  /\ outcome.error = "no_next" =>
       \E id \in visited : /\ nodes[id].type = "frequency_cap"
                           /\ cappedRoute(nodes[id]) = NoRoute
  /\ outcome.error = "not_found" =>
       /\ current = Blank
       /\ \E id \in visited \ {Blank} :
            \/ nodes[id].type = "frequency_cap" /\ cappedRoute(nodes[id]) = Blank
            \/ nodes[id].type = "sub-decision" /\ spareRoute(nodes[id]) = Blank

(* The routes that the walk of the evaluator takes are among those that    *)
(* the depth-first visit of the validator followed: it returns to no node. *)
NoCircularWalk == validated => outcome.error # "circular"

(* The branch that decides has a true condition, and every branch before   *)
(* it (every branch, when none decides) has a false one or is reported in  *)
(* errors; all that matched_rules lists before the decider is reported,    *)
(* too.  So a parser that stops early never sends a request to a branch    *)
(* whose condition is false.                                               *)
FirstTrueBranchDecides ==
  phase = "done" /\ ~isGraph =>
    LET decider == IF outcome.by = "branch" THEN branch ELSE Len(branches) + 1
    IN  /\ outcome.by = "branch" => branches[decider].value
        /\ matchedRules[Len(matchedRules)] = IF outcome.by = "branch" THEN branch ELSE 0
        /\ \A b \in 1 .. decider - 1 : branches[b].value => b \in errors
        /\ \A i \in 1 .. Len(matchedRules) - 1 : matchedRules[i] \in errors

(* Violated: a sentence of the language evaluates.  An operator decided by *)
(* its left operand leaves the right one unread, and the parser rejects    *)
(* the text.                                                               *)
SentencesEvaluate == phase = "trying" /\ branch <= Len(branches) => verdict.ok
=============================================================================
