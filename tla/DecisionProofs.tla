---------------------------- MODULE DecisionProofs ----------------------------
(***************************************************************************)
(* Proofs about RuleEvaluation and DecisionStacks, for any set of ids, any *)
(* graphs and branch lists, any limits, any stacks and any surface.        *)
(*                                                                         *)
(* One rule set: the walk is at a new node in each iteration, so the       *)
(* iterations count the nodes visited, and a validated graph has fewer     *)
(* nodes than the loop has iterations.  The validator finds the target of  *)
(* every route the walk can take, but for optional ones that are absent or *)
(* blank, and it refuses a graph in which a walk can come back to a node.  *)
(* The parser reads a condition to its end with the value its sentence has *)
(* or throws, so the branch that decides is the first true one.            *)
(***************************************************************************)
EXTENDS RuleEvaluation, DecisionStacks, TLAPS, FiniteSetTheorems, WellFoundedInduction

(* The definition is a candidate, and validated says what it is to say. *)
Stored ==
  /\ definition \in Definitions
  /\ validated = validateRuleDefinition(definition)

(* The iterations of the walk count the nodes visited. *)
Counted ==
  /\ phase = "walking" => /\ isGraph
                          /\ visited \subseteq DOMAIN nodes
                          /\ step = Cardinality(visited)
                          /\ outcome.error = "none"
  /\ phase = "trying" => ~isGraph

(* The node the walk of a validated graph is at. *)
CappedWithoutRoute(id) ==
  nodes[id].type = "frequency_cap" /\ cappedRoute(nodes[id]) = NoRoute
PrefersBlank(id) ==
  \/ nodes[id].type = "frequency_cap" /\ cappedRoute(nodes[id]) = Blank
  \/ nodes[id].type = "sub-decision" /\ spareRoute(nodes[id]) = Blank
Led ==
  validated /\ phase = "walking" =>
    /\ current \in DOMAIN nodes \cup {NoRoute, Blank}
    /\ current = NoRoute => \E id \in visited : CappedWithoutRoute(id)
    /\ current = Blank => \E id \in visited \ {Blank} : PrefersBlank(id)

(* The validator visited the node the walk is at, along the walk's path,   *)
(* and met no circle.                                                      *)
Clear ==
  validated /\ phase = "walking" /\ current \in Ids =>
    ~visits(definition.graph)[visited][current].circular

IInv == TypeOK /\ Stored /\ Counted /\ Led /\ Clear /\ NeverTooDeep /\ NoDanglingRoute /\ NoCircularWalk

-----------------------------------------------------------------------------
(* The parts of a candidate graph. *)
LEMMA GraphParts ==
  ASSUME definition \in Definitions, isGraph
  PROVE  /\ definition.graph \in Graphs
         /\ DOMAIN nodes \subseteq Ids
         /\ definition.graph.entry \in Ids
         /\ \A id \in DOMAIN nodes : /\ nodes[id].to \in [Keys -> Routes]
                                     /\ nodes[id].variants \subseteq Ids \cup {Blank}
<1>1. definition.graph \in Graphs
  BY DEF Definitions, isGraph
<1> QED
  BY <1>1, DefinitionAssumption DEF nodes

(* What the validator grants of a graph. *)
LEMMA ValidGraph ==
  ASSUME Stored, isGraph, validated
  PROVE  /\ Cardinality(DOMAIN nodes) <= NodeLimit
         /\ definition.graph.entry \in DOMAIN nodes
         /\ \A id \in DOMAIN nodes : validateGraphNodeRoutes(nodes[id], DOMAIN nodes)
         /\ ~visits(definition.graph)[{}][definition.graph.entry].circular
  BY DEF Stored, isGraph, validateRuleDefinition, validateGraph, visitFromEntry, nodes

(* The targets of a node that there are. *)
Targets(id) == graphNodeTargets(nodes[id]) \cap DOMAIN nodes

(* A route that a validated node has leads to a node that was visited. *)
LEMMA ValidRoutes ==
  ASSUME Stored, isGraph, validated,
         NEW id \in DOMAIN nodes, nodes[id].type \notin Terminal
  PROVE  /\ \A k \in Keys : nodes[id].to[k] \in Targets(id) \cup {NoRoute, Blank}
         /\ \A k \in requiredRoutes(nodes[id].type) : nodes[id].to[k] \in Targets(id)
         /\ nodes[id].type = "experiment_split" =>
              nodes[id].variants # {} /\ nodes[id].variants \subseteq Targets(id)
<1>1. /\ nodes[id].to \in [Keys -> Routes]
      /\ graphNodeTargets(nodes[id]) \subseteq DOMAIN nodes
      /\ \A k \in requiredRoutes(nodes[id].type) : nodes[id].to[k] \in Ids
      /\ nodes[id].type = "experiment_split" => nodes[id].variants # {} /\ nodes[id].variants \subseteq Ids
  BY GraphParts, ValidGraph DEF Stored, validateGraphNodeRoutes
<1>2. ASSUME NEW k \in Keys, nodes[id].to[k] \in Ids
      PROVE  nodes[id].to[k] \in Targets(id)
  <2>1. nodes[id].to[k] \in Range(nodes[id].to)
    BY <1>1, <1>2 DEF Range
  <2> QED
    BY <1>1, <1>2, <2>1 DEF graphNodeTargets, Targets
<1>3. nodes[id].type = "experiment_split" => nodes[id].variants \subseteq Targets(id)
  BY <1>1 DEF graphNodeTargets, Targets
<1>4. requiredRoutes(nodes[id].type) \subseteq Keys
  BY DEF requiredRoutes, Keys
<1> QED
  BY <1>1, <1>2, <1>3, <1>4 DEF Routes

-----------------------------------------------------------------------------
(* A set of natural numbers has a least element: induction without an      *)
(* operator as a parameter.                                                *)
LEMMA LeastElement ==
  ASSUME NEW T \in SUBSET Nat, T # {}
  PROVE  \E n \in T : \A m \in T : n <= m
<1> DEFINE R == {p \in Nat \X Nat : p[1] < p[2]}
<1>1. IsWellFoundedOn(R, Nat)
  BY NatLessThanWellFounded DEF OpToRel
<1> HIDE DEF R
<1>2. PICK n \in T : \A m \in T : <<m, n>> \notin R
  BY <1>1, WFMin
<1>3. ASSUME NEW m \in T  PROVE n <= m
  <2>1. m \in Nat /\ n \in Nat
    OBVIOUS
  <2>2. ~(m < n)
    BY <1>2, <2>1 DEF R
  <2> QED
    BY <2>1, <2>2
<1> QED
  BY <1>3

(* A visit depends only on the visits of its children. *)
LEMMA VisitLocal ==
  ASSUME NEW g, NEW f, NEW h, NEW S \in SUBSET Ids, NEW id \in Ids,
         id \notin S => f[S \cup {id}] = h[S \cup {id}]
  PROVE  visitGraphNode(g, f, S, id) = visitGraphNode(g, h, S, id)
BY DEF visitGraphNode

(* The visit satisfies its recursive definition.  The function is built by *)
(* induction on the number of nodes that are not on the path.              *)
LEMMA VisitUnfolds ==
  ASSUME NEW g, NEW visiting \in SUBSET Ids
  PROVE  visits(g)[visiting] = [id \in Ids |-> visitGraphNode(g, visits(g), visiting, id)]
<1> DEFINE Body(f, S) == [id \in Ids |-> visitGraphNode(g, f, S, id)]
           Left(S) == Cardinality(Ids \ S)
           Solves(f, n) == /\ f = [S \in SUBSET Ids |-> f[S]]
                           /\ \A S \in SUBSET Ids : Left(S) < n => f[S] = Body(f, S)
           Unsolved == {n \in Nat : ~\E f : Solves(f, n)}
<1>1. \A S \in SUBSET Ids : /\ Left(S) \in Nat
                            /\ Left(S) <= Cardinality(Ids)
                            /\ \A id \in Ids \ S : Left(S \cup {id}) < Left(S)
  <2> TAKE S \in SUBSET Ids
  <2>1. IsFiniteSet(Ids \ S)
    BY LimitAssumption, FS_Subset
  <2>2. Left(S) \in Nat /\ Left(S) <= Cardinality(Ids)
    BY <2>1, LimitAssumption, FS_CardinalityType, FS_Subset
  <2>3. ASSUME NEW id \in Ids \ S PROVE Left(S \cup {id}) < Left(S)
    <3>1. Ids \ (S \cup {id}) = (Ids \ S) \ {id}
      OBVIOUS
    <3> QED
      BY <2>1, <2>2, <3>1, FS_RemoveElement
  <2> QED
    BY <2>2, <2>3
<1> HIDE DEF Left
<1>2. ASSUME NEW f, NEW h, NEW S \in SUBSET Ids,
             \A id \in Ids \ S : f[S \cup {id}] = h[S \cup {id}]
      PROVE  Body(f, S) = Body(h, S)
  <2>1. ASSUME NEW id \in Ids  PROVE visitGraphNode(g, f, S, id) = visitGraphNode(g, h, S, id)
    <3>1. id \notin S => f[S \cup {id}] = h[S \cup {id}]
      BY <1>2
    <3> QED
      BY <3>1, VisitLocal
  <2> QED
    BY <2>1
<1> HIDE DEF Body
<1>3. Solves([S \in SUBSET Ids |-> {}], 0)
  BY <1>1
<1>4. ASSUME NEW n \in Nat, NEW f, Solves(f, n)
      PROVE  \E h : Solves(h, n + 1)
  <2> DEFINE h == [S \in SUBSET Ids |-> IF Left(S) < n THEN f[S] ELSE Body(f, S)]
  <2>1. ASSUME NEW S \in SUBSET Ids, Left(S) < n + 1
        PROVE  h[S] = Body(h, S)
    <3>1. ASSUME NEW id \in Ids \ S
          PROVE  f[S \cup {id}] = h[S \cup {id}]
      <4>1. S \cup {id} \in SUBSET Ids /\ Left(S \cup {id}) < n
        BY <1>1, <2>1
      <4> QED
        BY <4>1 DEF h
    <3>2. h[S] = Body(f, S)
      BY <1>4
    <3> HIDE DEF h
    <3>3. Body(f, S) = Body(h, S)
      BY <1>2, <3>1
    <3> QED
      BY <3>2, <3>3
  <2>2. h = [S \in SUBSET Ids |-> h[S]]
    OBVIOUS
  <2> QED
    BY <2>1, <2>2
<1> HIDE DEF Solves
<1>5. Unsolved = {}
  <2> SUFFICES ASSUME Unsolved # {} PROVE FALSE
    OBVIOUS
  <2>1. PICK n \in Unsolved : \A m \in Unsolved : n <= m
    BY LeastElement
  <2>2. n # 0
    BY <1>3
  <2>3. n - 1 \in Nat /\ n - 1 \notin Unsolved
    BY <2>1, <2>2
  <2>4. PICK f : Solves(f, n - 1)
    BY <2>3
  <2>5. \E h : Solves(h, (n - 1) + 1)
    BY <1>4, <2>3, <2>4
  <2> QED
    BY <2>1, <2>5
<1>6. \E f : f = [S \in SUBSET Ids |-> Body(f, S)]
  <2>1. Cardinality(Ids) \in Nat /\ Cardinality(Ids) + 1 \in Nat
    BY LimitAssumption, FS_CardinalityType
  <2>2. PICK f : Solves(f, Cardinality(Ids) + 1)
    BY <1>5, <2>1
  <2>3. ASSUME NEW S \in SUBSET Ids  PROVE f[S] = Body(f, S)
    <3>1. Left(S) < Cardinality(Ids) + 1
      BY <1>1, <2>1
    <3> QED
      BY <2>2, <3>1 DEF Solves
  <2>4. f = [S \in SUBSET Ids |-> Body(f, S)]
    BY <2>2, <2>3 DEF Solves
  <2> QED
    BY <2>4
<1>7. visits(g) = CHOOSE f : f = [S \in SUBSET Ids |-> Body(f, S)]
  BY DEF visits, Body
<1>8. visits(g) = [S \in SUBSET Ids |-> Body(visits(g), S)]
  BY <1>6, <1>7
<1> QED
  BY <1>8 DEF Body

(* A visit without a circle starts at a new node, and so do the visits of  *)
(* its targets.                                                            *)
LEMMA NodeGoesOn ==
  ASSUME NEW g, NEW visit, NEW S, NEW id, ~visitGraphNode(g, visit, S, id).circular
  PROVE  /\ id \notin S
         /\ id \in DOMAIN g.nodes => 
              \A t \in graphNodeTargets(g.nodes[id]) : ~visit[S \cup {id}][t].circular
<1> DEFINE found == visitGraphNode(g, visit, S, id)
           children == {visit[S \cup {id}][t] : t \in graphNodeTargets(g.nodes[id])}
<1>1. id \notin S
  BY DEF visitGraphNode
<1>2. ASSUME id \in DOMAIN g.nodes  PROVE ~ \E c \in children : c.circular
  <2>1. found = [circular |-> \E c \in children : c.circular,
            terminal |-> \/ g.nodes[id].type \in Terminal
                         \/ \E c \in children : c.terminal,
            seen |-> {id} \cup UNION {c.seen : c \in children}]
    BY <1>1, <1>2 DEF visitGraphNode
  <2> HIDE DEF children
  <2>2. found.circular = \E c \in children : c.circular
    BY <2>1
  <2> QED BY <2>2
<1> QED
  BY <1>1, <1>2

LEMMA VisitGoesOn ==
  ASSUME NEW g, NEW S \in SUBSET Ids, NEW id \in Ids, ~visits(g)[S][id].circular
  PROVE  /\ id \notin S
         /\ id \in DOMAIN g.nodes => 
              \A t \in graphNodeTargets(g.nodes[id]) : ~visits(g)[S \cup {id}][t].circular
<1>1. visits(g)[S] = [i \in Ids |-> visitGraphNode(g, visits(g), S, i)]
  BY VisitUnfolds
<1>2. visits(g)[S][id] = visitGraphNode(g, visits(g), S, id)
  BY <1>1
<1> DEFINE visit == visits(g)
<1>3. ~visitGraphNode(g, visit, S, id).circular
  BY <1>2
<1> HIDE DEF visit
<1>4. /\ id \notin S
      /\ id \in DOMAIN g.nodes =>
           \A t \in graphNodeTargets(g.nodes[id]) : ~visit[S \cup {id}][t].circular
  BY <1>3, NodeGoesOn
<1> QED
  BY <1>4 DEF visit

-----------------------------------------------------------------------------
(* The initial state satisfies the inductive invariant. *)
LEMMA InitInv == Init => IInv
<1> SUFFICES ASSUME Init PROVE IInv
  OBVIOUS
<1>1. /\ Stored /\ visited = {} /\ step = 0 /\ branch = 1
      /\ matchedRules = <<>> /\ errors = {} /\ outcome = Undecided
  BY DEF Init, Stored
<1>2. outcome.error = "none" /\ outcome \in [by : Deciders, error : Errors \cup {"none"}]
  BY <1>1 DEF Undecided, Deciders, Errors
<1>3. /\ phase = IF isGraph THEN "walking" ELSE "trying"
      /\ current = IF isGraph THEN definition.graph.entry ELSE NoRoute
      /\ validated \in BOOLEAN
  <2>1. validateRuleDefinition(definition) \in BOOLEAN
    BY DEF validateRuleDefinition
  <2> QED
    BY <2>1 DEF Init
<1>4. NeverTooDeep /\ NoDanglingRoute /\ NoCircularWalk
  BY <1>2 DEF NeverTooDeep, NoDanglingRoute, NoCircularWalk
<1>5. Cardinality(visited) = 0
  BY <1>1, FS_EmptySet
<1>6. CASE isGraph
  <2>1. /\ phase = "walking" /\ current \in Ids /\ current # NoRoute /\ current # Blank
        /\ validated => current \in DOMAIN nodes
    BY <1>1, <1>3, <1>6, GraphParts, ValidGraph, LimitAssumption DEF Stored
  <2>2. TypeOK
    BY <1>1, <1>2, <1>3, <2>1, LimitAssumption DEF TypeOK, Routes
  <2>3. Counted /\ Led
    BY <1>1, <1>2, <1>5, <1>6, <2>1 DEF Counted, Led
  <2>4. Clear
    BY <1>1, <1>3, <1>6, ValidGraph DEF Clear
  <2> QED
    BY <1>1, <1>4, <2>2, <2>3, <2>4 DEF IInv
<1>7. CASE ~isGraph
  <2>1. TypeOK
    BY <1>1, <1>2, <1>3, <1>7, LimitAssumption DEF TypeOK, Routes
  <2>2. Counted /\ Led /\ Clear
    BY <1>3, <1>7 DEF Counted, Led, Clear
  <2> QED
    BY <1>1, <1>4, <2>1, <2>2 DEF IInv
<1> QED
  BY <1>6, <1>7

(* The walk goes on from a node: to any route when the graph was not       *)
(* validated, else to a node or, from a capped node, nowhere.              *)
LEMMA GoToInv ==
  ASSUME IInv, NEW types, At(types), NEW route \in Routes, GoTo(route),
         validated => \/ route \in Targets(current)
                      \/ route = NoRoute /\ CappedWithoutRoute(current)
                      \/ route = Blank /\ PrefersBlank(current)
  PROVE  IInv'
<1>1. /\ UNCHANGED <<definition, validated, phase, branch, matchedRules, errors, outcome>>
      /\ current' = route /\ step' = step + 1
      /\ visited' = visited \cup {current}
      /\ phase = "walking" /\ step < StepLimit
      /\ current \notin visited /\ current \in DOMAIN nodes
  BY DEF GoTo, At, iterates
<1>2. /\ isGraph /\ visited \subseteq DOMAIN nodes /\ step = Cardinality(visited)
      /\ outcome.error = "none"
      /\ DOMAIN nodes \subseteq Ids
  BY <1>1, GraphParts DEF IInv, Counted, Stored
<1>3. nodes' = nodes /\ isGraph' /\ Stored'
  BY <1>1, <1>2 DEF nodes, isGraph, IInv, Stored, validateRuleDefinition
<1>4. TypeOK'
  BY <1>1, <1>2, LimitAssumption DEF IInv, TypeOK
<1>5. Cardinality(visited') = Cardinality(visited) + 1
  <2>1. IsFiniteSet(visited)
    BY <1>2, LimitAssumption, FS_Subset
  <2> QED
    BY <1>1, <2>1, FS_AddElement
<1>6. Counted'
  BY <1>1, <1>2, <1>3, <1>5 DEF Counted
<1>7. Led'
  <2> SUFFICES ASSUME validated PROVE Led'
    BY <1>1 DEF Led
  <2>1. CASE route \in Targets(current)
    <3>1. route \in DOMAIN nodes /\ route # NoRoute /\ route # Blank
      BY <1>2, <2>1, LimitAssumption DEF Targets
    <3> QED
      BY <1>1, <1>3, <3>1 DEF Led
  <2>2. CASE route = NoRoute /\ CappedWithoutRoute(current)
    BY <1>1, <1>3, <2>2, LimitAssumption DEF Led, CappedWithoutRoute
  <2>3. CASE route = Blank /\ PrefersBlank(current)
    <3>1. current \in visited' \ {Blank}
      BY <1>1, <1>2, LimitAssumption
    <3>2. \/ nodes'[current].type = "frequency_cap" /\ cappedRoute(nodes'[current]) = Blank
          \/ nodes'[current].type = "sub-decision" /\ spareRoute(nodes'[current]) = Blank
      BY <1>3, <2>3 DEF PrefersBlank
    <3>3. route # NoRoute
      BY <2>3, LimitAssumption
    <3> QED
      BY <1>1, <2>3, <3>1, <3>2, <3>3 DEF Led, PrefersBlank
  <2> QED
    BY <2>1, <2>2, <2>3
<1>8. Clear'
  <2> SUFFICES ASSUME validated, route \in Ids
               PROVE  ~visits(definition.graph)[visited \cup {current}][route].circular
    BY <1>1 DEF Clear
  <2>1. route \in graphNodeTargets(nodes[current])
    BY LimitAssumption DEF Targets
  <2>2. /\ current \in Ids /\ visited \in SUBSET Ids
        /\ ~visits(definition.graph)[visited][current].circular
    BY <1>1, <1>2 DEF IInv, Clear
  <2> QED
    BY <1>1, <2>1, <2>2, VisitGoesOn DEF nodes
<1>9. NeverTooDeep' /\ NoDanglingRoute' /\ NoCircularWalk'
  BY <1>1 DEF IInv, Counted, NeverTooDeep, NoDanglingRoute, NoCircularWalk
<1> QED
  BY <1>3, <1>4, <1>6, <1>7, <1>8, <1>9 DEF IInv

(* The walk fails: the error is one a validated graph may meet. *)
LEMMA FailInv ==
  ASSUME IInv, NEW error \in Errors, phase = "walking", Fail(error), step' = step,
         visited \subseteq visited', visited' \subseteq Ids \cup {Blank},
         validated => /\ error # "depth" /\ error # "circular"
                      /\ error = "not_found" =>
                           current = Blank /\ \E id \in visited \ {Blank} : PrefersBlank(id)
                      /\ error = "no_next" => \E id \in visited : CappedWithoutRoute(id)
  PROVE  IInv'
<1>1. /\ UNCHANGED <<definition, validated, current, branch, matchedRules, errors>>
      /\ phase' = "done" /\ outcome' = [by |-> "fallback", error |-> error]
  BY DEF Fail
<1>2. nodes' = nodes /\ Stored'
  BY <1>1 DEF nodes, IInv, Stored, validateRuleDefinition
<1>3. TypeOK'
  BY <1>1 DEF IInv, TypeOK, Deciders
<1>4. Counted' /\ Led' /\ Clear'
  BY <1>1 DEF Counted, Led, Clear
<1>5. NeverTooDeep' /\ NoDanglingRoute' /\ NoCircularWalk'
  BY <1>1, <1>2 DEF NeverTooDeep, NoDanglingRoute, NoCircularWalk, CappedWithoutRoute, PrefersBlank
<1> QED
  BY <1>2, <1>3, <1>4, <1>5 DEF IInv

(* Every step of the walk preserves the invariant. *)
LEMMA WalkInv ==
  ASSUME IInv, Walk
  PROVE  IInv'
<1> DEFINE id == current
<1>0. /\ Stored /\ TypeOK
      /\ phase = "walking" => isGraph /\ DOMAIN nodes \subseteq Ids
  BY GraphParts DEF IInv, Counted, Stored
<1>1. ASSUME NEW types, At(types)
      PROVE  /\ phase = "walking" /\ isGraph /\ id \in DOMAIN nodes /\ nodes[id].type \in types
             /\ nodes[id].to \in [Keys -> Routes]
             /\ nodes[id].variants \subseteq Ids \cup {Blank}
             /\ visited' = visited \cup {id}
  BY <1>0, <1>1, GraphParts DEF At, Stored
<1>2. CASE PlainNode
  <2>1. At(Plain) /\ GoTo(nodes[id].to["next"])
    BY <1>2 DEF PlainNode
  <2>2. validated => nodes[id].to["next"] \in Targets(id)
    BY <1>0, <1>1, <2>1, ValidRoutes DEF Plain, Terminal, Keys, requiredRoutes
  <2>3. nodes[id].to["next"] \in Routes
    BY <1>1, <2>1 DEF Keys
  <2> QED
    BY <2>1, <2>2, <2>3, GoToInv
<1>3. CASE Condition
  <2>1. PICK key \in {"true", "false"} : At({"condition"}) /\ GoTo(nodes[id].to[key])
    BY <1>3 DEF Condition
  <2>2. validated => nodes[id].to[key] \in Targets(id)
    BY <1>0, <1>1, <2>1, ValidRoutes DEF Terminal, Keys, requiredRoutes
  <2>3. nodes[id].to[key] \in Routes
    BY <1>1, <2>1 DEF Keys
  <2> QED
    BY <2>1, <2>2, <2>3, GoToInv
<1>4. CASE FrequencyCap
  <2>1. At({"frequency_cap"})
    BY <1>4 DEF FrequencyCap
  <2>2. CASE GoTo(nodes[id].to["next"])
    <3>1. validated => nodes[id].to["next"] \in Targets(id)
      BY <1>0, <1>1, <2>1, ValidRoutes DEF Terminal, Keys, requiredRoutes
    <3>2. nodes[id].to["next"] \in Routes
      BY <1>1, <2>1 DEF Keys
    <3> QED
      BY <2>1, <2>2, <3>1, <3>2, GoToInv
  <2>3. CASE GoTo(cappedRoute(nodes[id]))
    <3>1. cappedRoute(nodes[id]) \in Routes
      BY <1>1, <2>1 DEF Keys, cappedRoute, either
    <3>2. validated => \/ cappedRoute(nodes[id]) \in Targets(id)
                       \/ cappedRoute(nodes[id]) = NoRoute /\ CappedWithoutRoute(id)
                       \/ cappedRoute(nodes[id]) = Blank /\ PrefersBlank(id)
      <4>1. nodes[id].type = "frequency_cap"
        BY <1>1, <2>1
      <4>2. validated => \A k \in Keys : nodes[id].to[k] \in Targets(id) \cup {NoRoute, Blank}
        BY <1>0, <1>1, <2>1, <4>1, ValidRoutes DEF Terminal
      <4> QED
        BY <4>1, <4>2 DEF Keys, cappedRoute, either, CappedWithoutRoute, PrefersBlank
    <3> QED
      BY <2>1, <2>3, <3>1, <3>2, GoToInv
  <2> QED
    BY <1>4, <2>2, <2>3 DEF FrequencyCap
<1>5. CASE ExperimentSplit
  <2>1. PICK route \in variantRoutes(nodes[id]) : At({"experiment_split"}) /\ GoTo(route)
    BY <1>5 DEF ExperimentSplit
  <2>2. validated => route \in Targets(id)
    BY <1>0, <1>1, <2>1, ValidRoutes DEF Terminal, variantRoutes
  <2>3. route \in Routes
    <3>1. spareRoute(nodes[id]) \in Routes
      BY <1>1, <2>1 DEF Keys, spareRoute, either
    <3>2. nodes[id].variants \subseteq Routes
      BY <1>1, <2>1 DEF Routes
    <3> QED
      BY <2>1, <3>1, <3>2 DEF variantRoutes
  <2> QED
    BY <2>1, <2>2, <2>3, GoToInv
<1>6. CASE SubDecision
  <2>1. At({"sub-decision"}) /\ GoTo(spareRoute(nodes[id]))
    BY <1>6 DEF SubDecision
  <2>2. validated => \/ spareRoute(nodes[id]) \in Targets(id)
                     \/ spareRoute(nodes[id]) = Blank /\ PrefersBlank(id)
    <3>1. nodes[id].type = "sub-decision"
      BY <1>1, <2>1
    <3>2. validated => /\ nodes[id].to["fallback"] \in Targets(id) \cup {NoRoute, Blank}
                       /\ nodes[id].to["next"] \in Targets(id)
      BY <1>0, <1>1, <2>1, <3>1, ValidRoutes DEF Terminal, Keys, requiredRoutes
    <3> QED
      BY <3>1, <3>2 DEF spareRoute, either, PrefersBlank
  <2>3. spareRoute(nodes[id]) \in Routes
    BY <1>1, <2>1 DEF Keys, spareRoute, either
  <2> QED
    BY <2>1, <2>2, <2>3, GoToInv
<1>7. CASE TerminalNode
  <2>1. /\ UNCHANGED <<definition, validated, current, step, branch, matchedRules, errors>>
        /\ phase' = "done" /\ outcome' = [by |-> "graph", error |-> "none"]
        /\ visited' \subseteq Ids \cup {Blank}
    BY <1>0, <1>1, <1>7 DEF TerminalNode, TypeOK
  <2>2. Stored'
    BY <1>0, <2>1 DEF Stored, validateRuleDefinition
  <2>3. TypeOK'
    BY <1>0, <2>1 DEF TypeOK, Deciders
  <2> QED
    BY <2>1, <2>2, <2>3 DEF IInv, Counted, Led, Clear, NeverTooDeep, NoDanglingRoute, NoCircularWalk
<1>8. CASE ExpressionThrows
  <2>1. /\ phase = "walking" /\ Fail("expression") /\ step' = step
        /\ visited \subseteq visited' /\ visited' \subseteq Ids \cup {Blank}
    BY <1>0, <1>1, <1>8 DEF ExpressionThrows, TypeOK
  <2> QED
    BY <2>1, FailInv DEF Errors
<1>9. CASE UnsupportedType
  <2>1. /\ phase = "walking" /\ Fail("unsupported") /\ step' = step
        /\ visited \subseteq visited' /\ visited' \subseteq Ids \cup {Blank}
    BY <1>0, <1>9 DEF UnsupportedType, TypeOK
  <2> QED
    BY <2>1, FailInv DEF Errors
<1>10. CASE TooDeep
  <2>1. /\ phase = "walking" /\ Fail("depth") /\ step' = step /\ visited' = visited
        /\ visited \subseteq Ids \cup {Blank} /\ ~ (step < StepLimit)
    BY <1>0, <1>10 DEF TooDeep, iterates, TypeOK
  <2>2. ~validated
    <3> SUFFICES ASSUME validated PROVE FALSE
      OBVIOUS
    <3>1. /\ visited \subseteq DOMAIN nodes /\ step = Cardinality(visited)
          /\ Cardinality(DOMAIN nodes) <= NodeLimit
      BY <1>0, <2>1, ValidGraph DEF IInv, Counted
    <3>2. IsFiniteSet(DOMAIN nodes)
      BY <1>0, <2>1, LimitAssumption, FS_Subset
    <3>3. /\ Cardinality(visited) <= Cardinality(DOMAIN nodes)
          /\ Cardinality(DOMAIN nodes) \in Nat
      BY <3>1, <3>2, FS_Subset, FS_CardinalityType
    <3> QED
      BY <1>0, <2>1, <3>1, <3>3, LimitAssumption DEF TypeOK
  <2> QED
    BY <2>1, <2>2, FailInv DEF Errors
<1>11. CASE NoNextNode
  <2>1. /\ phase = "walking" /\ Fail("no_next") /\ step' = step /\ visited' = visited
        /\ visited \subseteq Ids \cup {Blank} /\ current = NoRoute
    BY <1>0, <1>11 DEF NoNextNode, hasNext, TypeOK
  <2>2. validated => \E i \in visited : CappedWithoutRoute(i)
    BY <2>1 DEF IInv, Led
  <2> QED
    BY <2>1, <2>2, FailInv DEF Errors
<1>12. CASE CircularPath
  <2>1. /\ phase = "walking" /\ Fail("circular") /\ step' = step /\ visited' = visited
        /\ visited \subseteq Ids \cup {Blank}
    BY <1>0, <1>12 DEF CircularPath, TypeOK
  <2>2. ~validated
    <3>1. current \in visited /\ current \in Ids /\ visited \in SUBSET Ids
      BY <1>0, <1>12, <2>1 DEF CircularPath, IInv, Counted
    <3>2. validated => ~visits(definition.graph)[visited][current].circular
      BY <2>1, <3>1 DEF IInv, Clear
    <3> QED
      BY <3>1, <3>2, VisitGoesOn
  <2> QED
    BY <2>1, <2>2, FailInv DEF Errors
<1>13. CASE NodeNotFound
  <2>1. /\ phase = "walking" /\ Fail("not_found") /\ step' = step
        /\ visited' = visited \cup {current} /\ visited' \subseteq Ids \cup {Blank}
        /\ current # NoRoute /\ current \notin DOMAIN nodes
    BY <1>0, <1>13 DEF NodeNotFound, hasNext, TypeOK, Routes
  <2>2. validated => current = Blank /\ \E i \in visited \ {Blank} : PrefersBlank(i)
    BY <2>1 DEF IInv, Led
  <2> QED
    BY <2>1, <2>2, FailInv DEF Errors
<1> QED
  BY <1>2, <1>3, <1>4, <1>5, <1>6, <1>7, <1>8, <1>9, <1>10, <1>11, <1>12, <1>13 DEF Walk

(* Trying branches does not concern graphs. *)
LEMMA BranchesInv ==
  ASSUME IInv, TryBranches
  PROVE  IInv'
<1>1. /\ UNCHANGED <<definition, validated, current, step, visited>>
      /\ phase = "trying" /\ phase' \in {"trying", "done"}
      /\ outcome' = outcome \/ outcome' \in [by : {"branch", "fallback"}, error : {"none"}]
      /\ branch' \in {branch, branch + 1}
      /\ matchedRules' \in {matchedRules, Append(matchedRules, branch), Append(matchedRules, 0)}
      /\ errors' \in {errors, errors \cup {branch}}
  BY DEF TryBranches, BranchThrows, BranchPassedOver, BranchDecides, BranchOutputsThrow,
         NoBranchDecides, Try
<1>2. nodes' = nodes /\ isGraph' = isGraph /\ Stored'
  BY <1>1 DEF nodes, isGraph, IInv, Stored, validateRuleDefinition
<1>3. TypeOK'
  <2>0. matchedRules \in Seq(Nat) /\ branch \in Nat \ {0} /\ errors \subseteq Nat
    BY DEF IInv, TypeOK
  <2>1. matchedRules' \in Seq(Nat) /\ branch' \in Nat \ {0} /\ errors' \subseteq Nat
    BY <1>1, <2>0
  <2>2. outcome' \in [by : Deciders, error : Errors \cup {"none"}]
    BY <1>1 DEF IInv, TypeOK, Deciders
  <2> QED
    BY <1>1, <2>1, <2>2 DEF IInv, TypeOK
<1>4. Counted' /\ Led' /\ Clear'
  BY <1>1, <1>2 DEF IInv, Counted, Led, Clear
<1>5. NeverTooDeep' /\ NoDanglingRoute' /\ NoCircularWalk'
  BY <1>1, <1>2 DEF IInv, NeverTooDeep, NoDanglingRoute, NoCircularWalk
<1> QED
  BY <1>2, <1>3, <1>4, <1>5 DEF IInv

(* The next request starts as the first one did. *)
LEMMA NextRequestInv ==
  ASSUME IInv, NextRequest
  PROVE  IInv'
<1>1. UNCHANGED <<definition, validated>> /\ nodes' = nodes /\ isGraph' = isGraph /\ Stored'
  BY DEF NextRequest, nodes, isGraph, IInv, Stored, validateRuleDefinition
<1>2. /\ visited' = {} /\ step' = 0 /\ branch' = 1
      /\ matchedRules' = <<>> /\ errors' = {} /\ outcome' = Undecided
  BY DEF NextRequest
<1>3. Undecided.error = "none" /\ Undecided \in [by : Deciders, error : Errors \cup {"none"}]
  BY DEF Undecided, Deciders
<1>4. CASE isGraph
  <2>1. /\ phase' = "walking" /\ current' \in Ids
        /\ validated => current' \in DOMAIN nodes
    BY <1>4, GraphParts, ValidGraph DEF NextRequest, IInv, Stored
  <2>2. current' # NoRoute /\ current' # Blank
    BY <2>1, LimitAssumption
  <2>3. Cardinality(visited') = 0
    BY <1>2, FS_EmptySet
  <2>4. Clear'
    BY <1>1, <1>2, <1>4, ValidGraph DEF NextRequest, IInv, Clear
  <2> QED
    BY <1>1, <1>2, <1>3, <1>4, <2>1, <2>2, <2>3, <2>4, LimitAssumption
    DEF IInv, Counted, Led, NeverTooDeep, NoDanglingRoute, NoCircularWalk, TypeOK, Routes
<1>5. CASE ~isGraph
  BY <1>1, <1>2, <1>3, <1>5, LimitAssumption
  DEF NextRequest, IInv, Counted, Led, Clear, NeverTooDeep, NoDanglingRoute, NoCircularWalk, TypeOK, Routes
<1> QED
  BY <1>4, <1>5

(* The invariant is inductive. *)
LEMMA StepInv == IInv /\ [Next]_vars => IInv'
<1> SUFFICES ASSUME IInv, [Next]_vars PROVE IInv'
  OBVIOUS
<1>1. CASE UNCHANGED vars
  <2>1. nodes' = nodes /\ isGraph' = isGraph
    BY <1>1 DEF vars, nodes, isGraph
  <2>2. TypeOK' /\ Stored'
    BY <1>1 DEF vars, IInv, TypeOK, Stored, validateRuleDefinition
  <2>3. Counted' /\ Led' /\ Clear'
    BY <1>1, <2>1 DEF vars, IInv, Counted, Led, Clear, CappedWithoutRoute, PrefersBlank
  <2>4. NeverTooDeep' /\ NoDanglingRoute' /\ NoCircularWalk'
    BY <1>1, <2>1 DEF vars, IInv, NeverTooDeep, NoDanglingRoute, NoCircularWalk
  <2> QED
    BY <2>2, <2>3, <2>4 DEF IInv
<1> QED
  BY <1>1, WalkInv, BranchesInv, NextRequestInv DEF Next

THEOREM Invariant == Spec => []IInv
  BY InitInv, StepInv, PTL DEF Spec

-----------------------------------------------------------------------------
(* Every variable of the evaluation has its type, whatever the definition. *)
THEOREM TypeCorrect == Spec => []TypeOK
<1>1. IInv => TypeOK
  BY DEF IInv
<1> QED
  BY <1>1, Invariant, PTL

(* The loop bound of the walk never decides on a validated graph. *)
THEOREM DepthSafe == Spec => []NeverTooDeep
<1>1. IInv => NeverTooDeep
  BY DEF IInv
<1> QED
  BY <1>1, Invariant, PTL

(* Of a validated graph, only the routes that the validator does not ask   *)
(* for lead to no node: the capped one of a frequency cap, absent or       *)
(* blank, and a blank fallback of a sub-decision.                          *)
THEOREM RoutesSafe == Spec => []NoDanglingRoute
<1>1. IInv => NoDanglingRoute
  BY DEF IInv
<1> QED
  BY <1>1, Invariant, PTL

(* The walk of a validated graph comes to no node twice: it takes routes   *)
(* the validator's depth-first visit has followed.                         *)
THEOREM CircleSafe == Spec => []NoCircularWalk
<1>1. IInv => NoCircularWalk
  BY DEF IInv
<1> QED
  BY <1>1, Invariant, PTL

-----------------------------------------------------------------------------
(***************************************************************************)
(* The parser.  The rows of a parse follow one from another, from the end  *)
(* of the text backwards, so there is one; and a call reads past the       *)
(* position it is made at.  Then an induction over the length of the       *)
(* sentences: at the start of a sentence the parser returns what the while *)
(* loop of its level makes of the value behind it, or it gives up, throwing *)
(* or returning before an operand that was not evaluated.  Every sentence  *)
(* begins with a token that ends no loop and no bracket, so that what gave *)
(* up never comes to the end of the text.                                  *)
(***************************************************************************)

(* Induction over the natural numbers, for a set of them. *)
LEMMA AllNumbers ==
  ASSUME NEW T \in SUBSET Nat, 0 \in T, \A n \in T : n + 1 \in T
  PROVE  T = Nat
<1> SUFFICES ASSUME Nat \ T # {} PROVE FALSE
  OBVIOUS
<1>1. PICK n \in Nat \ T : \A m \in Nat \ T : n <= m
  BY LeastElement
<1>2. n # 0 /\ n - 1 \in Nat
  OBVIOUS
<1>3. n - 1 \in T
  BY <1>1, <1>2
<1>4. (n - 1) + 1 = n
  OBVIOUS
<1> QED
  BY <1>3, <1>4

-----------------------------------------------------------------------------
Verdicts == [ok : BOOLEAN, value : BOOLEAN, at : Nat]

(* What a call returns is read past position p, at most to the end. *)
Returns(tokens, r, p) ==
  /\ r \in Verdicts
  /\ r.ok => r.at \in p .. Len(tokens) + 1

RowOK(tokens, row, p) ==
  /\ \A level \in Levels : Returns(tokens, row.read[level], p + 1)
  /\ \A level \in Loops, left \in BOOLEAN : Returns(tokens, row.loop[level][left], p)

RowsAfter(tokens, f, p) == \A i \in p + 1 .. Len(tokens) + 1 : RowOK(tokens, f[i], i)

SameAfter(tokens, f, g, p) == \A i \in p + 1 .. Len(tokens) + 1 : f[i] = g[i]

LEMMA PeekToken ==
  ASSUME NEW tokens \in Seq(Tokens), NEW p \in Nat \ {0}, peek(tokens, p) # "end"
  PROVE  p \in 1 .. Len(tokens)
BY DEF peek

LEMMA LoopRow ==
  ASSUME NEW tokens \in Seq(Tokens), NEW f, NEW p \in 1 .. Len(tokens) + 1,
         RowsAfter(tokens, f, p), NEW level \in Loops, NEW left \in BOOLEAN
  PROVE  /\ Returns(tokens, loopAt(tokens, f, p, level, left), p)
         /\ \A g : SameAfter(tokens, f, g, p) =>
                     loopAt(tokens, f, p, level, left) = loopAt(tokens, g, p, level, left)
<1>0. Len(tokens) \in Nat
  OBVIOUS
<1>1. CASE peek(tokens, p) # operator(level)
  BY <1>0, <1>1 DEF loopAt, Read, Returns, Verdicts
<1>2. CASE peek(tokens, p) = operator(level)
  <2>1. p + 1 \in p + 1 .. Len(tokens) + 1
    <3>1. peek(tokens, p) # "end"
      BY <1>2 DEF operator
    <3> QED
      BY <3>1, <1>0, PeekToken
  <2>2. RowOK(tokens, f[p + 1], p + 1)
    BY <2>1 DEF RowsAfter
  <2>3. \A g : SameAfter(tokens, f, g, p) => f[p + 1] = g[p + 1]
    BY <2>1 DEF SameAfter
  <2>4. CASE decides(level, left)
    <3>1. loopAt(tokens, f, p, level, left) = f[p + 1].loop[level][left]
      BY <1>2, <2>4 DEF loopAt
    <3>2. \A g : loopAt(tokens, g, p, level, left) = g[p + 1].loop[level][left]
      BY <1>2, <2>4 DEF loopAt
    <3>3. Returns(tokens, f[p + 1].loop[level][left], p + 1)
      BY <2>2 DEF RowOK
    <3>4. Returns(tokens, f[p + 1].loop[level][left], p)
      BY <3>3, <1>0 DEF Returns
    <3> QED
      BY <3>1, <3>2, <3>4, <2>3
  <2>5. CASE ~decides(level, left)
    <3>1. PICK right : right = f[p + 1].read[operand(level)]
      OBVIOUS
    <3>2. Returns(tokens, right, p + 2)
      <4>1. operand(level) \in Levels
        BY DEF operand, Levels
      <4>2. (p + 1) + 1 = p + 2
        OBVIOUS
      <4> QED
        BY <4>1, <4>2, <2>2, <3>1 DEF RowOK
    <3>3. loopAt(tokens, f, p, level, left)
            = IF right.ok THEN f[right.at].loop[level][right.value] ELSE Threw
      BY <1>2, <2>5, <3>1 DEF loopAt
    <3>4. ASSUME NEW g, SameAfter(tokens, f, g, p)
          PROVE  loopAt(tokens, g, p, level, left)
                   = IF right.ok THEN g[right.at].loop[level][right.value] ELSE Threw
      <4>1. right = g[p + 1].read[operand(level)]
        BY <3>1, <2>3, <3>4
      <4> QED
        BY <1>2, <2>5, <4>1 DEF loopAt
    <3>5. CASE right.ok
      <4>1. right.at \in p + 1 .. Len(tokens) + 1 /\ right.value \in BOOLEAN
        BY <3>2, <3>5, <1>0 DEF Returns, Verdicts
      <4>2. RowOK(tokens, f[right.at], right.at)
        BY <4>1 DEF RowsAfter
      <4>3. Returns(tokens, f[right.at].loop[level][right.value], right.at)
        BY <4>1, <4>2 DEF RowOK
      <4>4. Returns(tokens, f[right.at].loop[level][right.value], p)
        BY <4>1, <4>3, <1>0 DEF Returns
      <4>5. \A g : SameAfter(tokens, f, g, p) => f[right.at] = g[right.at]
        BY <4>1 DEF SameAfter
      <4> QED
        BY <3>3, <3>4, <3>5, <4>4, <4>5
    <3>6. CASE ~right.ok
      <4>1. Returns(tokens, Threw, p)
        BY DEF Threw, Returns, Verdicts
      <4> QED
        BY <3>3, <3>4, <3>6, <4>1
    <3> QED
      BY <3>5, <3>6
  <2> QED
    BY <2>4, <2>5
<1> QED
  BY <1>1, <1>2

LEMMA UnaryRow ==
  ASSUME NEW tokens \in Seq(Tokens), NEW f, NEW p \in 1 .. Len(tokens) + 1,
         RowsAfter(tokens, f, p)
  PROVE  /\ Returns(tokens, unaryAt(tokens, f, p), p + 1)
         /\ \A g : SameAfter(tokens, f, g, p) => unaryAt(tokens, f, p) = unaryAt(tokens, g, p)
<1>0. Len(tokens) \in Nat
  OBVIOUS
<1>1. CASE peek(tokens, p) \in {"true", "false"}
  <2>1. p \in 1 .. Len(tokens)
    BY <1>1, PeekToken
  <2>2. \A g : unaryAt(tokens, g, p) = Read(peek(tokens, p) = "true", p + 1)
    BY <1>1 DEF unaryAt
  <2>3. Returns(tokens, Read(peek(tokens, p) = "true", p + 1), p + 1)
    BY <2>1, <1>0 DEF Read, Returns, Verdicts
  <2> QED
    BY <2>2, <2>3
<1>2. CASE peek(tokens, p) \in {"!", "("}
  <2>1. p + 1 \in p + 1 .. Len(tokens) + 1
    BY <1>0, <1>2, PeekToken
  <2>2. RowOK(tokens, f[p + 1], p + 1)
    BY <2>1 DEF RowsAfter
  <2>3. \A g : SameAfter(tokens, f, g, p) => f[p + 1] = g[p + 1]
    BY <2>1 DEF SameAfter
  <2>5. Returns(tokens, Threw, p + 1)
    BY DEF Threw, Returns, Verdicts
  <2>6. CASE peek(tokens, p) = "!"
    <3>1. \A g : unaryAt(tokens, g, p) = IF g[p + 1].read["unary"].ok
                                         THEN Read(~g[p + 1].read["unary"].value, g[p + 1].read["unary"].at)
                                         ELSE Threw
      BY <2>6 DEF unaryAt
    <3>2. Returns(tokens, f[p + 1].read["unary"], p + 2)
      <4>1. (p + 1) + 1 = p + 2
        OBVIOUS
      <4> QED
        BY <2>2, <4>1 DEF RowOK, Levels
    <3>3. f[p + 1].read["unary"].ok =>
            Returns(tokens, Read(~f[p + 1].read["unary"].value, f[p + 1].read["unary"].at), p + 1)
      BY <3>2, <1>0 DEF Returns, Verdicts, Read
    <3> QED
      BY <3>1, <3>3, <2>3, <2>5
  <2>7. CASE peek(tokens, p) = "("
    <3>1. \A g : unaryAt(tokens, g, p) = IF g[p + 1].read["or"].ok /\ peek(tokens, g[p + 1].read["or"].at) = ")"
                                         THEN Read(g[p + 1].read["or"].value, g[p + 1].read["or"].at + 1)
                                         ELSE Threw
      BY <2>7 DEF unaryAt
    <3>2. Returns(tokens, f[p + 1].read["or"], p + 2)
      <4>1. (p + 1) + 1 = p + 2
        OBVIOUS
      <4> QED
        BY <2>2, <4>1 DEF RowOK, Levels
    <3>3. PICK inner : inner = f[p + 1].read["or"]
      OBVIOUS
    <3>4. inner.ok /\ peek(tokens, inner.at) = ")" =>
            Returns(tokens, Read(inner.value, inner.at + 1), p + 1)
      <4> SUFFICES ASSUME inner.ok, peek(tokens, inner.at) = ")"
                   PROVE  Returns(tokens, Read(inner.value, inner.at + 1), p + 1)
        OBVIOUS
      <4>1. inner.at \in p + 2 .. Len(tokens) + 1 /\ inner.value \in BOOLEAN
        BY <3>2, <3>3 DEF Returns, Verdicts
      <4>2. inner.at \in 1 .. Len(tokens)
        BY <4>1, PeekToken
      <4> QED
        BY <4>1, <4>2, <1>0 DEF Returns, Verdicts, Read
    <3> QED
      BY <3>1, <3>3, <3>4, <2>3, <2>5
  <2> QED
    BY <1>2, <2>6, <2>7
<1>3. CASE peek(tokens, p) \notin {"true", "false", "!", "("}
  <2>1. \A g : unaryAt(tokens, g, p) = Threw
    BY <1>3 DEF unaryAt
  <2>2. Returns(tokens, Threw, p + 1)
    BY DEF Threw, Returns, Verdicts
  <2> QED
    BY <2>1, <2>2
<1> QED
  BY <1>1, <1>2, <1>3

LEMMA ContinueRow ==
  ASSUME NEW tokens \in Seq(Tokens), NEW f, NEW p \in 1 .. Len(tokens) + 1,
         RowsAfter(tokens, f, p), NEW level \in Loops,
         NEW first, Returns(tokens, first, p + 1)
  PROVE  /\ Returns(tokens, continue(f, level, first), p + 1)
         /\ \A g : SameAfter(tokens, f, g, p) => continue(f, level, first) = continue(g, level, first)
<1>0. Len(tokens) \in Nat
  OBVIOUS
<1>1. CASE first.ok
  <2>1. first.at \in p + 1 .. Len(tokens) + 1 /\ first.value \in BOOLEAN
    BY <1>1 DEF Returns, Verdicts
  <2>2. Returns(tokens, f[first.at].loop[level][first.value], first.at)
    BY <2>1 DEF RowsAfter, RowOK
  <2>3. Returns(tokens, f[first.at].loop[level][first.value], p + 1)
    BY <2>1, <2>2, <1>0 DEF Returns
  <2>4. \A g : SameAfter(tokens, f, g, p) => f[first.at] = g[first.at]
    BY <2>1 DEF SameAfter
  <2> QED
    BY <1>1, <2>3, <2>4 DEF continue
<1>2. CASE ~first.ok
  BY <1>2 DEF continue, Threw, Returns, Verdicts
<1> QED
  BY <1>1, <1>2

LEMMA ReadRow ==
  ASSUME NEW tokens \in Seq(Tokens), NEW f, NEW p \in 1 .. Len(tokens) + 1,
         RowsAfter(tokens, f, p), NEW level \in Levels
  PROVE  /\ Returns(tokens, readAt(tokens, f, p, level), p + 1)
         /\ \A g : SameAfter(tokens, f, g, p) =>
                     readAt(tokens, f, p, level) = readAt(tokens, g, p, level)
<1>1. PICK unary : unary = unaryAt(tokens, f, p)
  OBVIOUS
<1>2. /\ Returns(tokens, unary, p + 1)
      /\ \A g : SameAfter(tokens, f, g, p) => unary = unaryAt(tokens, g, p)
  BY <1>1, UnaryRow
<1>3. PICK and : and = continue(f, "and", unary)
  OBVIOUS
<1>4. "and" \in Loops /\ "or" \in Loops
  BY DEF Loops
<1>5. /\ Returns(tokens, and, p + 1)
      /\ \A g : SameAfter(tokens, f, g, p) => and = continue(g, "and", unary)
  BY <1>2, <1>3, <1>4, ContinueRow
<1>6. /\ Returns(tokens, continue(f, "or", and), p + 1)
      /\ \A g : SameAfter(tokens, f, g, p) => continue(f, "or", and) = continue(g, "or", and)
  BY <1>4, <1>5, ContinueRow
<1>7. CASE level = "unary"
  <2>1. \A g : readAt(tokens, g, p, level) = unaryAt(tokens, g, p)
    BY <1>7 DEF readAt
  <2> QED
    BY <2>1, <1>1, <1>2
<1>8. CASE level = "and"
  <2>1. \A g : readAt(tokens, g, p, level) = continue(g, "and", unaryAt(tokens, g, p))
    BY <1>8 DEF readAt
  <2> QED
    BY <2>1, <1>1, <1>2, <1>3, <1>5
<1>9. CASE level = "or"
  <2>1. \A g : readAt(tokens, g, p, level)
                 = continue(g, "or", continue(g, "and", unaryAt(tokens, g, p)))
    BY <1>9 DEF readAt
  <2> QED
    BY <2>1, <1>1, <1>2, <1>3, <1>5, <1>6
<1> QED
  BY <1>7, <1>8, <1>9 DEF Levels

(* A row is made of the rows after it, and no other. *)
LEMMA RowAt ==
  ASSUME NEW tokens \in Seq(Tokens), NEW f, NEW p \in 1 .. Len(tokens) + 1,
         RowsAfter(tokens, f, p)
  PROVE  /\ RowOK(tokens, rowAt(tokens, f, p), p)
         /\ \A g : SameAfter(tokens, f, g, p) => rowAt(tokens, f, p) = rowAt(tokens, g, p)
<1>1. RowOK(tokens, rowAt(tokens, f, p), p)
  <2>1. \A level \in Levels : rowAt(tokens, f, p).read[level] = readAt(tokens, f, p, level)
    BY DEF rowAt
  <2>2. \A level \in Loops, left \in BOOLEAN :
          rowAt(tokens, f, p).loop[level][left] = loopAt(tokens, f, p, level, left)
    BY DEF rowAt
  <2> QED
    BY <2>1, <2>2, ReadRow, LoopRow DEF RowOK
<1>2. ASSUME NEW g, SameAfter(tokens, f, g, p)
      PROVE  rowAt(tokens, f, p) = rowAt(tokens, g, p)
  <2>1. [level \in Levels |-> readAt(tokens, f, p, level)]
          = [level \in Levels |-> readAt(tokens, g, p, level)]
    BY <1>2, ReadRow
  <2>2. [level \in Loops |-> [left \in BOOLEAN |-> loopAt(tokens, f, p, level, left)]]
          = [level \in Loops |-> [left \in BOOLEAN |-> loopAt(tokens, g, p, level, left)]]
    BY <1>2, LoopRow
  <2> QED
    BY <2>1, <2>2 DEF rowAt
<1> QED
  BY <1>1, <1>2

-----------------------------------------------------------------------------
Parses(tokens, f) == f = [p \in 1 .. Len(tokens) + 1 |-> rowAt(tokens, f, p)]

(* The rows of a parse follow one from another, from the end backwards. *)
ParsedAfter(tokens, f, p) ==
  \A i \in p + 1 .. Len(tokens) + 1 : f[i] = rowAt(tokens, f, i)

LEMMA ParsedRows ==
  ASSUME NEW tokens \in Seq(Tokens), NEW f, NEW p \in 0 .. Len(tokens) + 1,
         ParsedAfter(tokens, f, p)
  PROVE  RowsAfter(tokens, f, p)
<1> DEFINE n == Len(tokens)
           T == {k \in Nat : \A i \in p + 1 .. n + 1 : i > n + 1 - k => RowOK(tokens, f[i], i)}
<1>0. n \in Nat
  OBVIOUS
<1>1. 0 \in T
  BY <1>0
<1>2. ASSUME NEW k \in T  PROVE k + 1 \in T
  <2> SUFFICES ASSUME NEW i \in p + 1 .. n + 1, i > n + 1 - (k + 1)
               PROVE  RowOK(tokens, f[i], i)
    BY <1>0
  <2>1. RowsAfter(tokens, f, i)
    BY <1>0 DEF RowsAfter
  <2>2. f[i] = rowAt(tokens, f, i)
    BY DEF ParsedAfter
  <2>3. i \in 1 .. n + 1
    BY <1>0
  <2> QED
    BY <2>1, <2>2, <2>3, RowAt
<1>3. T = Nat
  <2> HIDE DEF T
  <2>1. T \in SUBSET Nat
    BY DEF T
  <2> QED
    BY <1>1, <1>2, <2>1, AllNumbers
<1>4. n + 1 \in T
  <2> HIDE DEF T
  <2> QED
    BY <1>0, <1>3
<1>5. \A i \in p + 1 .. n + 1 : RowOK(tokens, f[i], i)
  BY <1>0, <1>4
<1> QED
  BY <1>5 DEF RowsAfter

(* So there is a parse. *)
LEMMA ParseExists ==
  ASSUME NEW tokens \in Seq(Tokens)
  PROVE  \E f : Parses(tokens, f)
<1> DEFINE n == Len(tokens)
           T == {k \in Nat : k <= n + 1 =>
                   \E f : f = [i \in 1 .. n + 1 |-> f[i]] /\ ParsedAfter(tokens, f, n + 1 - k)}
<1>0. n \in Nat
  OBVIOUS
<1>1. 0 \in T
  <2>1. PICK f : f = [i \in 1 .. n + 1 |-> 0]
    OBVIOUS
  <2>2. f = [i \in 1 .. n + 1 |-> f[i]]
    BY <2>1
  <2>3. ParsedAfter(tokens, f, n + 1 - 0)
    BY <1>0 DEF ParsedAfter
  <2> QED
    BY <2>2, <2>3
<1>2. ASSUME NEW k \in T  PROVE k + 1 \in T
  <2> SUFFICES ASSUME k + 1 <= n + 1
               PROVE  \E f : f = [i \in 1 .. n + 1 |-> f[i]] /\ ParsedAfter(tokens, f, n + 1 - (k + 1))
    OBVIOUS
  <2>1. PICK f : f = [i \in 1 .. n + 1 |-> f[i]] /\ ParsedAfter(tokens, f, n + 1 - k)
    BY <1>0
  <2>2. PICK m : m = n + 1 - k
    OBVIOUS
  <2>3. m \in 1 .. n + 1 /\ n + 1 - (k + 1) = m - 1
    BY <1>0, <2>2
  <2>4. PICK g : g = [i \in 1 .. n + 1 |-> IF i = m THEN rowAt(tokens, f, m) ELSE f[i]]
    OBVIOUS
  <2>5. g = [i \in 1 .. n + 1 |-> g[i]]
    BY <2>4
  <2>6. RowsAfter(tokens, f, m)
    BY <2>1, <2>2, <2>3, ParsedRows
  <2>7. ASSUME NEW i \in m .. n + 1  PROVE rowAt(tokens, f, i) = rowAt(tokens, g, i)
    <3>1. RowsAfter(tokens, f, i)
      BY <2>3, <2>6, <1>0 DEF RowsAfter
    <3>2. SameAfter(tokens, f, g, i)
      BY <2>3, <2>4, <1>0 DEF SameAfter
    <3>3. i \in 1 .. n + 1
      BY <2>3, <1>0
    <3> QED
      BY <3>1, <3>2, <3>3, RowAt
  <2>8. ASSUME NEW i \in m .. n + 1  PROVE g[i] = rowAt(tokens, g, i)
    <3>1. i \in 1 .. n + 1
      BY <2>3, <1>0
    <3>2. CASE i = m
      BY <2>4, <2>7, <3>1, <3>2
    <3>3. CASE i # m
      <4>1. i \in m + 1 .. n + 1
        BY <3>3, <2>3, <1>0
      <4>2. f[i] = rowAt(tokens, f, i)
        BY <4>1, <2>1, <2>2 DEF ParsedAfter
      <4> QED
        BY <2>4, <2>7, <3>1, <3>3, <4>2
    <3> QED
      BY <3>2, <3>3
  <2>9. ParsedAfter(tokens, g, m - 1)
    <3>1. (m - 1) + 1 = m
      BY <2>3
    <3> QED
      BY <2>8, <3>1 DEF ParsedAfter
  <2> QED
    BY <2>3, <2>5, <2>9
<1>3. T = Nat
  <2> HIDE DEF T
  <2>1. T \in SUBSET Nat
    BY DEF T
  <2> QED
    BY <1>1, <1>2, <2>1, AllNumbers
<1>4. n + 1 \in T
  <2> HIDE DEF T
  <2> QED
    BY <1>0, <1>3
<1>5. PICK f : f = [i \in 1 .. n + 1 |-> f[i]] /\ ParsedAfter(tokens, f, n + 1 - (n + 1))
  BY <1>0, <1>4
<1>6. n + 1 - (n + 1) = 0
  BY <1>0
<1>7. \A i \in 1 .. n + 1 : f[i] = rowAt(tokens, f, i)
  BY <1>5, <1>6 DEF ParsedAfter
<1>8. f = [i \in 1 .. n + 1 |-> rowAt(tokens, f, i)]
  BY <1>5, <1>7
<1> QED
  BY <1>8 DEF Parses

(* The parser of the model is one, and it keeps to the text. *)
LEMMA ParserRows ==
  ASSUME NEW tokens \in Seq(Tokens)
  PROVE  \E f : /\ Parses(tokens, f)
                /\ RowsAfter(tokens, f, 0)
                /\ parseExpression(tokens) = f[1].read["or"]
<1>1. PICK f : f = CHOOSE g : Parses(tokens, g)
  OBVIOUS
<1>2. Parses(tokens, f)
  BY <1>1, ParseExists
<1>3. parseExpression(tokens) = f[1].read["or"]
  BY <1>1 DEF parseExpression, Parses
<1>4. ParsedAfter(tokens, f, 0)
  BY <1>2 DEF Parses, ParsedAfter
<1> QED
  BY <1>2, <1>3, <1>4, ParsedRows

-----------------------------------------------------------------------------
(* A text stands in the tokens, from position p on. *)
Occurs(tokens, text, p) ==
  /\ p \in Nat \ {0} /\ p + Len(text) <= Len(tokens) + 1
  /\ \A i \in 1 .. Len(text) : tokens[p + i - 1] = text[i]

LEMMA OccursConcat ==
  ASSUME NEW tokens \in Seq(Tokens), NEW x \in Seq(Tokens), NEW y \in Seq(Tokens), NEW p,
         Occurs(tokens, x \o y, p)
  PROVE  /\ Occurs(tokens, x, p)
         /\ Occurs(tokens, y, p + Len(x))
         /\ Len(x \o y) = Len(x) + Len(y)
<1>0. Len(x) \in Nat /\ Len(y) \in Nat /\ Len(tokens) \in Nat
  OBVIOUS
<1>1. Len(x \o y) = Len(x) + Len(y)
  OBVIOUS
<1>2. p \in Nat \ {0} /\ p + (Len(x) + Len(y)) <= Len(tokens) + 1
  BY <1>1 DEF Occurs
<1>3. \A i \in 1 .. Len(x) + Len(y) : tokens[p + i - 1] = (x \o y)[i]
  BY <1>1 DEF Occurs
<1>4. \A i \in 1 .. Len(x) : (x \o y)[i] = x[i]
  OBVIOUS
<1>5. \A i \in 1 .. Len(y) : (x \o y)[Len(x) + i] = y[i]
  OBVIOUS
<1>6. \A i \in 1 .. Len(x) : tokens[p + i - 1] = x[i]
  BY <1>0, <1>3, <1>4
<1>7. ASSUME NEW i \in 1 .. Len(y)  PROVE tokens[(p + Len(x)) + i - 1] = y[i]
  <2>1. Len(x) + i \in 1 .. Len(x) + Len(y) /\ p + (Len(x) + i) - 1 = (p + Len(x)) + i - 1
    BY <1>0, <1>2
  <2> QED
    BY <2>1, <1>3, <1>5
<1>8. Occurs(tokens, x, p)
  BY <1>0, <1>2, <1>6 DEF Occurs
<1>9. Occurs(tokens, y, p + Len(x))
  BY <1>0, <1>2, <1>7 DEF Occurs
<1> QED
  BY <1>1, <1>8, <1>9

LEMMA OccursOne ==
  ASSUME NEW tokens \in Seq(Tokens), NEW t \in Tokens, NEW p, Occurs(tokens, <<t>>, p)
  PROVE  p \in 1 .. Len(tokens) /\ peek(tokens, p) = t
<1>0. Len(tokens) \in Nat /\ Len(<<t>>) = 1 /\ <<t>>[1] = t
  OBVIOUS
<1>1. p \in 1 .. Len(tokens)
  BY <1>0 DEF Occurs
<1>2. tokens[p + 1 - 1] = t
  BY <1>0 DEF Occurs
<1>3. p + 1 - 1 = p
  BY <1>1
<1> QED
  BY <1>0, <1>1, <1>2, <1>3 DEF peek

(* One token between two texts, before one, or around one. *)
LEMMA OccursJoined ==
  ASSUME NEW tokens \in Seq(Tokens), NEW x \in Seq(Tokens), NEW y \in Seq(Tokens),
         NEW t \in Tokens, NEW p, Occurs(tokens, x \o <<t>> \o y, p)
  PROVE  /\ Occurs(tokens, x, p)
         /\ p + Len(x) \in 1 .. Len(tokens) /\ peek(tokens, p + Len(x)) = t
         /\ Occurs(tokens, y, p + Len(x) + 1)
         /\ Len(x \o <<t>> \o y) = Len(x) + 1 + Len(y)
<1>0. <<t>> \in Seq(Tokens) /\ Len(<<t>>) = 1
  OBVIOUS
<1>1. PICK one \in Seq(Tokens) : one = <<t>> /\ Len(one) = 1
  BY ONLY <1>0
<1>2. PICK left : left = x \o one
  OBVIOUS
<1>3. left \in Seq(Tokens) /\ Occurs(tokens, left \o y, p) /\ x \o <<t>> \o y = left \o y
  BY <1>1, <1>2
<1>4. Occurs(tokens, left, p) /\ Occurs(tokens, y, p + Len(left)) /\ Len(left \o y) = Len(left) + Len(y)
  BY <1>3, OccursConcat
<1>5. Occurs(tokens, x, p) /\ Occurs(tokens, one, p + Len(x)) /\ Len(left) = Len(x) + Len(one)
  BY <1>2, <1>4, OccursConcat
<1>6. Len(x) \in Nat /\ p \in Nat
  BY <1>5 DEF Occurs
<1>7. p + Len(left) = p + Len(x) + 1
  BY <1>1, <1>5, <1>6
<1>8. p + Len(x) \in 1 .. Len(tokens) /\ peek(tokens, p + Len(x)) = t
  BY <1>1, <1>5, OccursOne
<1> QED
  BY <1>1, <1>3, <1>4, <1>5, <1>7, <1>8

LEMMA OccursPrefixed ==
  ASSUME NEW tokens \in Seq(Tokens), NEW x \in Seq(Tokens), NEW t \in Tokens, NEW p,
         Occurs(tokens, <<t>> \o x, p)
  PROVE  /\ p \in 1 .. Len(tokens) /\ peek(tokens, p) = t
         /\ Occurs(tokens, x, p + 1)
         /\ Len(<<t>> \o x) = 1 + Len(x)
<1>0. <<t>> \in Seq(Tokens) /\ Len(<<t>>) = 1
  OBVIOUS
<1>1. PICK one \in Seq(Tokens) : one = <<t>> /\ Len(one) = 1
  BY ONLY <1>0
<1>2. one \o x = <<t>> \o x
  BY <1>1
<1>3. one \in Seq(Tokens) /\ Occurs(tokens, one \o x, p)
  BY <1>2, Zenon
<1>4. Occurs(tokens, one, p) /\ Occurs(tokens, x, p + Len(one)) /\ Len(one \o x) = Len(one) + Len(x)
  BY ONLY tokens \in Seq(Tokens), x \in Seq(Tokens), <1>3, OccursConcat
<1>5. p \in 1 .. Len(tokens) /\ peek(tokens, p) = t
  BY <1>1, <1>4, OccursOne
<1> QED
  BY <1>1, <1>2, <1>4, <1>5

LEMMA OccursAround ==
  ASSUME NEW tokens \in Seq(Tokens), NEW x \in Seq(Tokens), NEW t \in Tokens, NEW u \in Tokens,
         NEW p, Occurs(tokens, <<t>> \o x \o <<u>>, p)
  PROVE  /\ p \in 1 .. Len(tokens) /\ peek(tokens, p) = t
         /\ Occurs(tokens, x, p + 1)
         /\ p + 1 + Len(x) \in 1 .. Len(tokens) /\ peek(tokens, p + 1 + Len(x)) = u
         /\ Len(<<t>> \o x \o <<u>>) = Len(x) + 2
<1>0. <<u>> \in Seq(Tokens) /\ Len(<<u>>) = 1
  OBVIOUS
<1>1. PICK one \in Seq(Tokens) : one = <<u>> /\ Len(one) = 1
  BY ONLY <1>0
<1>2. PICK left : left = <<t>> \o x
  OBVIOUS
<1>9. left \in Seq(Tokens)
  BY <1>2
<1>3. one \in Seq(Tokens) /\ Occurs(tokens, left \o one, p) /\ <<t>> \o x \o <<u>> = left \o one
  BY <1>1, <1>2, Zenon
<1>4. Occurs(tokens, left, p) /\ Occurs(tokens, one, p + Len(left)) /\ Len(left \o one) = Len(left) + Len(one)
  BY ONLY tokens \in Seq(Tokens), <1>9, <1>3, OccursConcat
<1>5. /\ p \in 1 .. Len(tokens) /\ peek(tokens, p) = t
      /\ Occurs(tokens, x, p + 1)
      /\ Len(left) = 1 + Len(x)
  BY <1>2, <1>4, OccursPrefixed
<1>6. Len(x) \in Nat /\ p \in Nat
  BY <1>5
<1>7. p + Len(left) = p + 1 + Len(x) /\ Len(left \o one) = Len(x) + 2
  BY <1>1, <1>4, <1>5, <1>6
<1>8. p + 1 + Len(x) \in 1 .. Len(tokens) /\ peek(tokens, p + 1 + Len(x)) = u
  BY <1>1, <1>4, <1>7, OccursOne
<1> QED
  BY <1>3, <1>5, <1>7, <1>8

-----------------------------------------------------------------------------
(* Every sentence begins with one of these, and none of them is an         *)
(* operator or a closing bracket.                                          *)
Starters == {"true", "false", "!", "("}
Begins(text) == Len(text) \in Nat \ {0} /\ text[1] \in Starters

(* The parser gave up on a text that ends before q: it threw, or returned  *)
(* before an operand that it left unread.                                  *)
GaveUp(tokens, r, q) == r.ok => r.at < q /\ peek(tokens, r.at) \in Starters

(* After a sentence: the value and the position after it for an operand of *)
(* "&&", whatever the loop makes of them for the rest.                     *)
After(f, level, value, q) ==
  IF level = "unary" THEN Read(value, q) ELSE f[q].loop[level][value]

ReadsSentence(tokens, f, strict, level, s) ==
  \A p, q \in 1 .. Len(tokens) + 1 :
    Occurs(tokens, s.text, p) /\ q = p + Len(s.text) /\ (level = "or" => peek(tokens, q) # "&&")
      => \/ f[p].read[level] = After(f, level, s.value, q)
         \/ ~strict /\ GaveUp(tokens, f[p].read[level], q)

(* The sentences of fewer than k tokens. *)
Short(L, level, k) == {s \in L[level] : Len(s.text) < k}

Known(tokens, f, strict, L, k, level) ==
  \A s \in Short(L, level, k) : Begins(s.text) /\ ReadsSentence(tokens, f, strict, level, s)

(* What the rows of a parse hold. *)
LEMMA ParseRows ==
  ASSUME NEW tokens \in Seq(Tokens), NEW f, Parses(tokens, f), NEW p \in 1 .. Len(tokens) + 1
  PROVE  /\ f[p].read["unary"] = unaryAt(tokens, f, p)
         /\ f[p].read["and"] = continue(f, "and", f[p].read["unary"])
         /\ f[p].read["or"] = continue(f, "or", f[p].read["and"])
         /\ \A level \in Loops, left \in BOOLEAN : f[p].loop[level][left] = loopAt(tokens, f, p, level, left)
<1>1. f[p] = rowAt(tokens, f, p)
  BY DEF Parses
<1>2. \A level \in Levels : f[p].read[level] = readAt(tokens, f, p, level)
  BY <1>1 DEF rowAt
<1>3. \A level \in Loops, left \in BOOLEAN : f[p].loop[level][left] = loopAt(tokens, f, p, level, left)
  BY <1>1 DEF rowAt
<1>4. f[p].read["unary"] = unaryAt(tokens, f, p)
  BY <1>2 DEF readAt, Levels
<1>5. f[p].read["and"] = continue(f, "and", unaryAt(tokens, f, p))
  BY <1>2 DEF readAt, Levels
<1>6. f[p].read["or"] = continue(f, "or", continue(f, "and", unaryAt(tokens, f, p)))
  BY <1>2 DEF readAt, Levels
<1> QED
  BY <1>3, <1>4, <1>5, <1>6

LEMMA ReadReturns ==
  ASSUME NEW tokens, NEW f, RowsAfter(tokens, f, 0), NEW p \in 1 .. Len(tokens) + 1,
         NEW level \in Levels
  PROVE  Returns(tokens, f[p].read[level], p + 1)
<1>1. RowOK(tokens, f[p], p)
  BY DEF RowsAfter
<1> QED
  BY <1>1 DEF RowOK

(* The loop stops before a token that is not its operator. *)
LEMMA LoopStops ==
  ASSUME NEW tokens \in Seq(Tokens), NEW f, Parses(tokens, f), NEW p \in 1 .. Len(tokens) + 1,
         NEW level \in Loops, NEW left \in BOOLEAN, peek(tokens, p) # operator(level)
  PROVE  f[p].loop[level][left] = Read(left, p)
BY ParseRows DEF loopAt

LEMMA StopsBeforeOperand ==
  ASSUME NEW tokens \in Seq(Tokens), NEW f, Parses(tokens, f), NEW p \in 1 .. Len(tokens) + 1,
         NEW level \in Loops, NEW left \in BOOLEAN, peek(tokens, p) \in Starters,
         NEW q \in Nat, p < q
  PROVE  GaveUp(tokens, f[p].loop[level][left], q)
<1>1. f[p].loop[level][left] = Read(left, p)
  BY LoopStops DEF Starters, operator
<1> QED
  BY <1>1 DEF GaveUp, Read

(* A loop after an operand that gave up gives up. *)
LEMMA GivesUpToo ==
  ASSUME NEW tokens \in Seq(Tokens), NEW f, Parses(tokens, f), NEW p \in Nat,
         NEW first, Returns(tokens, first, p + 1), NEW q \in Nat, GaveUp(tokens, first, q),
         NEW level \in Loops
  PROVE  GaveUp(tokens, continue(f, level, first), q)
<1>1. CASE first.ok
  <2>1. first.at \in 1 .. Len(tokens) + 1 /\ first.value \in BOOLEAN
    BY <1>1 DEF Returns, Verdicts
  <2>2. first.at < q /\ peek(tokens, first.at) \in Starters
    BY <1>1 DEF GaveUp
  <2>3. GaveUp(tokens, f[first.at].loop[level][first.value], q)
    BY <2>1, <2>2, StopsBeforeOperand
  <2> QED
    BY <1>1, <2>3 DEF continue
<1>2. CASE ~first.ok
  BY <1>2 DEF continue, Threw, GaveUp
<1> QED
  BY <1>1, <1>2

-----------------------------------------------------------------------------
(* One lemma for each way to make a sentence. *)
LEMMA LiteralRead ==
  ASSUME NEW tokens \in Seq(Tokens), NEW f, Parses(tokens, f), NEW strict \in BOOLEAN,
         NEW s \in Literals
  PROVE  Begins(s.text) /\ ReadsSentence(tokens, f, strict, "unary", s)
<1>1. PICK t \in {"true", "false"} : s.text = <<t>> /\ s.value = (t = "true")
  <2>1. CASE s = [text |-> <<"true">>, value |-> TRUE]
    BY <2>1
  <2>2. CASE s = [text |-> <<"false">>, value |-> FALSE]
    <3>1. s.text = <<"false">> /\ s.value = ("false" = "true")
      BY <2>2
    <3> QED
      BY <3>1
  <2> QED
    BY <2>1, <2>2 DEF Literals
<1>2. Len(s.text) = 1 /\ s.text[1] = t /\ t \in Tokens /\ t \in Starters
  BY <1>1 DEF Tokens, Starters
<1>3. Begins(s.text)
  BY <1>2 DEF Begins
<1>4. ASSUME NEW p \in 1 .. Len(tokens) + 1, Occurs(tokens, s.text, p)
      PROVE  f[p].read["unary"] = Read(s.value, p + Len(s.text))
  <2>1. Occurs(tokens, <<t>>, p)
    BY <1>1, <1>4
  <2>2. peek(tokens, p) = t
    BY <2>1, <1>2, OccursOne
  <2>3. f[p].read["unary"] = Read(peek(tokens, p) = "true", p + 1)
    BY <2>2, ParseRows DEF unaryAt
  <2> QED
    BY <2>2, <2>3, <1>1, <1>2
<1>5. ReadsSentence(tokens, f, strict, "unary", s)
  BY <1>4 DEF ReadsSentence, After
<1> QED
  BY <1>3, <1>5

LEMMA NegationRead ==
  ASSUME NEW tokens \in Seq(Tokens), NEW f, Parses(tokens, f), NEW strict \in BOOLEAN,
         NEW x \in [text : Seq(Tokens), value : BOOLEAN],
         ReadsSentence(tokens, f, strict, "unary", x),
         NEW s, s = [text |-> <<"!">> \o x.text, value |-> ~x.value]
  PROVE  Begins(s.text) /\ ReadsSentence(tokens, f, strict, "unary", s)
<1>0. Len(tokens) \in Nat /\ Len(x.text) \in Nat /\ x.text \in Seq(Tokens) /\ x.value \in BOOLEAN
  OBVIOUS
<1>1. s.text = <<"!">> \o x.text /\ s.value = ~x.value
  OBVIOUS
<1>2. Begins(s.text)
  <2>1. Len(<<"!">> \o x.text) = 1 + Len(x.text) /\ (<<"!">> \o x.text)[1] = "!"
    BY <1>0
  <2> QED
    BY <2>1, <1>0, <1>1 DEF Begins, Starters
<1>3. ASSUME NEW p \in 1 .. Len(tokens) + 1, NEW q \in 1 .. Len(tokens) + 1,
             Occurs(tokens, s.text, p), q = p + Len(s.text)
      PROVE  \/ f[p].read["unary"] = Read(s.value, q)
             \/ ~strict /\ GaveUp(tokens, f[p].read["unary"], q)
  <2>0. "!" \in Tokens /\ Occurs(tokens, <<"!">> \o x.text, p)
    BY <1>1, <1>3 DEF Tokens
  <2>1. /\ p \in 1 .. Len(tokens) /\ peek(tokens, p) = "!"
        /\ Occurs(tokens, x.text, p + 1)
        /\ Len(<<"!">> \o x.text) = 1 + Len(x.text)
    BY <2>0, <1>0, OccursPrefixed
  <2>2. p + 1 \in 1 .. Len(tokens) + 1 /\ q = (p + 1) + Len(x.text)
    BY <2>1, <1>0, <1>1, <1>3
  <2>3. PICK inner : inner = f[p + 1].read["unary"]
    OBVIOUS
  <2>4. \/ inner = Read(x.value, q)
        \/ ~strict /\ GaveUp(tokens, inner, q)
    BY <2>1, <2>2, <2>3 DEF ReadsSentence, After
  <2>5. f[p].read["unary"] = IF inner.ok THEN Read(~inner.value, inner.at) ELSE Threw
    BY <2>1, <2>3, ParseRows DEF unaryAt
  <2>6. CASE inner = Read(x.value, q)
    BY <2>5, <2>6, <1>1 DEF Read
  <2>7. CASE ~strict /\ GaveUp(tokens, inner, q)
    BY <2>5, <2>7 DEF Read, Threw, GaveUp
  <2> QED
    BY <2>4, <2>6, <2>7
<1>4. ReadsSentence(tokens, f, strict, "unary", s)
  BY <1>3 DEF ReadsSentence, After
<1> QED
  BY <1>2, <1>4

LEMMA GroupRead ==
  ASSUME NEW tokens \in Seq(Tokens), NEW f, Parses(tokens, f), NEW strict \in BOOLEAN,
         NEW x \in [text : Seq(Tokens), value : BOOLEAN],
         ReadsSentence(tokens, f, strict, "or", x),
         NEW s, s = [text |-> <<"(">> \o x.text \o <<")">>, value |-> x.value]
  PROVE  Begins(s.text) /\ ReadsSentence(tokens, f, strict, "unary", s)
<1>0. Len(tokens) \in Nat /\ Len(x.text) \in Nat /\ x.text \in Seq(Tokens) /\ x.value \in BOOLEAN
  OBVIOUS
<1>1. s.text = <<"(">> \o x.text \o <<")">> /\ s.value = x.value
  OBVIOUS
<1>2. Begins(s.text)
  <2>1. PICK y \in Seq(Tokens) : y = x.text
    BY <1>0
  <2>2. Len(<<"(">> \o y \o <<")">>) = Len(y) + 2 /\ (<<"(">> \o y \o <<")">>)[1] = "("
    OBVIOUS
  <2> QED
    BY <2>1, <2>2, <1>0, <1>1 DEF Begins, Starters
<1>3. ASSUME NEW p \in 1 .. Len(tokens) + 1, NEW q \in 1 .. Len(tokens) + 1,
             Occurs(tokens, s.text, p), q = p + Len(s.text)
      PROVE  \/ f[p].read["unary"] = Read(s.value, q)
             \/ ~strict /\ GaveUp(tokens, f[p].read["unary"], q)
  <2>0. "(" \in Tokens /\ ")" \in Tokens /\ Occurs(tokens, <<"(">> \o x.text \o <<")">>, p)
    BY <1>1, <1>3 DEF Tokens
  <2>1. /\ p \in 1 .. Len(tokens) /\ peek(tokens, p) = "("
        /\ Occurs(tokens, x.text, p + 1)
        /\ p + 1 + Len(x.text) \in 1 .. Len(tokens) /\ peek(tokens, p + 1 + Len(x.text)) = ")"
        /\ Len(<<"(">> \o x.text \o <<")">>) = Len(x.text) + 2
    BY <2>0, <1>0, OccursAround
  <2>2. PICK m : m = (p + 1) + Len(x.text)
    OBVIOUS
  <2>3. /\ p + 1 \in 1 .. Len(tokens) + 1 /\ m \in 1 .. Len(tokens) + 1 /\ q = m + 1
        /\ peek(tokens, m) = ")"
    BY <2>1, <2>2, <1>0, <1>1, <1>3
  <2>4. PICK inner : inner = f[p + 1].read["or"]
    OBVIOUS
  <2>5. \/ inner = f[m].loop["or"][x.value]
        \/ ~strict /\ GaveUp(tokens, inner, m)
    BY <2>1, <2>2, <2>3, <2>4 DEF ReadsSentence, After
  <2>6. f[m].loop["or"][x.value] = Read(x.value, m)
    <3>1. "or" \in Loops /\ peek(tokens, m) # operator("or")
      BY <2>3 DEF operator, Loops
    <3> QED
      BY <3>1, <2>3, <1>0, LoopStops
  <2>7. f[p].read["unary"] = IF inner.ok /\ peek(tokens, inner.at) = ")"
                             THEN Read(inner.value, inner.at + 1) ELSE Threw
    BY <2>1, <2>4, ParseRows DEF unaryAt
  <2>8. CASE inner = Read(x.value, m)
    BY <2>3, <2>7, <2>8, <1>1 DEF Read
  <2>9. CASE ~strict /\ GaveUp(tokens, inner, m)
    BY <2>7, <2>9 DEF Threw, GaveUp, Starters
  <2> QED
    BY <2>5, <2>6, <2>8, <2>9
<1>4. ReadsSentence(tokens, f, strict, "unary", s)
  BY <1>3 DEF ReadsSentence, After
<1> QED
  BY <1>2, <1>4

(* A unary sentence is read as a conjunction of one. *)
LEMMA UnaryAsAnd ==
  ASSUME NEW tokens \in Seq(Tokens), NEW f, Parses(tokens, f), RowsAfter(tokens, f, 0),
         NEW strict \in BOOLEAN, NEW s \in [text : Seq(Tokens), value : BOOLEAN],
         ReadsSentence(tokens, f, strict, "unary", s)
  PROVE  ReadsSentence(tokens, f, strict, "and", s)
<1> SUFFICES ASSUME NEW p \in 1 .. Len(tokens) + 1, NEW q \in 1 .. Len(tokens) + 1,
                    Occurs(tokens, s.text, p), q = p + Len(s.text)
             PROVE  \/ f[p].read["and"] = f[q].loop["and"][s.value]
                    \/ ~strict /\ GaveUp(tokens, f[p].read["and"], q)
  BY DEF ReadsSentence, After
<1>1. PICK first : first = f[p].read["unary"]
  OBVIOUS
<1>2. first = Read(s.value, q) \/ (~strict /\ GaveUp(tokens, first, q))
  BY <1>1 DEF ReadsSentence, After
<1>3. f[p].read["and"] = continue(f, "and", first)
  BY <1>1, ParseRows
<1>4. CASE first = Read(s.value, q)
  BY <1>3, <1>4 DEF continue, Read
<1>5. CASE ~strict /\ GaveUp(tokens, first, q)
  <2>1. Returns(tokens, first, p + 1)
    BY <1>1, ReadReturns DEF Levels
  <2>2. "and" \in Loops /\ p \in Nat /\ q \in Nat
    BY DEF Loops
  <2> QED
    BY <2>1, <2>2, <1>3, <1>5, GivesUpToo
<1> QED
  BY <1>2, <1>4, <1>5

(* And a conjunction as a disjunction of one, when no "&&" follows. *)
LEMMA AndAsOr ==
  ASSUME NEW tokens \in Seq(Tokens), NEW f, Parses(tokens, f), RowsAfter(tokens, f, 0),
         NEW strict \in BOOLEAN, NEW s \in [text : Seq(Tokens), value : BOOLEAN],
         ReadsSentence(tokens, f, strict, "and", s)
  PROVE  ReadsSentence(tokens, f, strict, "or", s)
<1> SUFFICES ASSUME NEW p \in 1 .. Len(tokens) + 1, NEW q \in 1 .. Len(tokens) + 1,
                    Occurs(tokens, s.text, p), q = p + Len(s.text), peek(tokens, q) # "&&"
             PROVE  \/ f[p].read["or"] = f[q].loop["or"][s.value]
                    \/ ~strict /\ GaveUp(tokens, f[p].read["or"], q)
  BY DEF ReadsSentence, After
<1>1. PICK first : first = f[p].read["and"]
  OBVIOUS
<1>2. first = f[q].loop["and"][s.value] \/ (~strict /\ GaveUp(tokens, first, q))
  BY <1>1 DEF ReadsSentence, After
<1>3. f[p].read["or"] = continue(f, "or", first)
  BY <1>1, ParseRows
<1>4. CASE first = f[q].loop["and"][s.value]
  <2>1. first = Read(s.value, q)
    BY <1>4, LoopStops DEF operator, Loops
  <2> QED
    BY <1>3, <2>1 DEF continue, Read
<1>5. CASE ~strict /\ GaveUp(tokens, first, q)
  <2>1. Returns(tokens, first, p + 1)
    BY <1>1, ReadReturns DEF Levels
  <2>2. "or" \in Loops /\ p \in Nat /\ q \in Nat
    BY DEF Loops
  <2> QED
    BY <2>1, <2>2, <1>3, <1>5, GivesUpToo
<1> QED
  BY <1>2, <1>4, <1>5

(* Two operands and the operator between them: where they stand. *)
LEMMA OperandsOccur ==
  ASSUME NEW tokens \in Seq(Tokens), NEW t \in Tokens,
         NEW x \in Seq(Tokens), NEW y \in Seq(Tokens), Begins(x), Begins(y),
         NEW p, Occurs(tokens, x \o <<t>> \o y, p),
         NEW q, q = p + Len(x \o <<t>> \o y),
         NEW m, m = p + Len(x)
  PROVE  /\ Occurs(tokens, x, p)
         /\ m \in 1 .. Len(tokens) /\ m \in 1 .. Len(tokens) + 1 /\ peek(tokens, m) = t
         /\ m + 1 \in 1 .. Len(tokens) + 1 /\ peek(tokens, m + 1) \in Starters
         /\ Occurs(tokens, y, m + 1)
         /\ q = (m + 1) + Len(y) /\ m < q /\ m + 1 < q
<1>0. Len(tokens) \in Nat /\ Len(x) \in Nat \ {0} /\ Len(y) \in Nat \ {0}
  BY DEF Begins
<1>1. /\ Occurs(tokens, x, p)
      /\ p + Len(x) \in 1 .. Len(tokens) /\ peek(tokens, p + Len(x)) = t
      /\ Occurs(tokens, y, p + Len(x) + 1)
      /\ Len(x \o <<t>> \o y) = Len(x) + 1 + Len(y)
  BY OccursJoined
<1>2. p \in Nat
  BY <1>1 DEF Occurs
<1>3. /\ m \in 1 .. Len(tokens) /\ peek(tokens, m) = t
      /\ m \in 1 .. Len(tokens) + 1 /\ m + 1 \in 1 .. Len(tokens) + 1
      /\ Occurs(tokens, y, m + 1) /\ q = (m + 1) + Len(y)
      /\ m + 1 < q /\ m < q
  BY <1>0, <1>1, <1>2
<1>4. peek(tokens, m + 1) \in Starters
  <2>1. tokens[(m + 1) + 1 - 1] = y[1] /\ m + 1 <= Len(tokens)
    BY <1>3, <1>0 DEF Occurs
  <2>2. (m + 1) + 1 - 1 = m + 1
    BY <1>3
  <2> QED
    BY <2>1, <2>2 DEF peek, Begins
<1> QED
  BY <1>1, <1>3, <1>4

(* The left operand, up to the operator. *)
LEMMA LeftRead ==
  ASSUME NEW tokens \in Seq(Tokens), NEW f, Parses(tokens, f), RowsAfter(tokens, f, 0),
         NEW strict \in BOOLEAN, NEW level \in Loops,
         NEW x \in [text : Seq(Tokens), value : BOOLEAN],
         ReadsSentence(tokens, f, strict, level, x),
         NEW p \in 1 .. Len(tokens) + 1, NEW m \in 1 .. Len(tokens) + 1,
         Occurs(tokens, x.text, p), m = p + Len(x.text), peek(tokens, m) = operator(level),
         NEW q \in Nat, m < q
  PROVE  \/ f[p].read[level] = loopAt(tokens, f, m, level, x.value)
         \/ ~strict /\ GaveUp(tokens, f[p].read[level], q)
<1>1. \/ f[p].read[level] = f[m].loop[level][x.value]
      \/ ~strict /\ GaveUp(tokens, f[p].read[level], m)
  BY DEF ReadsSentence, After, Loops, operator
<1>2. CASE f[p].read[level] = f[m].loop[level][x.value]
  <2>1. x.value \in BOOLEAN
    OBVIOUS
  <2> QED
    BY <1>2, <2>1, ParseRows
<1>3. CASE ~strict /\ GaveUp(tokens, f[p].read[level], m)
  <2>1. Returns(tokens, f[p].read[level], p + 1)
    BY ReadReturns DEF Levels, Loops
  <2> QED
    BY <2>1, <1>3 DEF GaveUp, Returns
<1> QED
  BY <1>1, <1>2, <1>3

(* A left value that decides leaves the right operand unread, and the loop *)
(* stops at its first token.                                               *)
LEMMA DecidedGivesUp ==
  ASSUME NEW tokens \in Seq(Tokens), NEW f, Parses(tokens, f), RowsAfter(tokens, f, 0),
         NEW strict \in BOOLEAN, NEW level \in Loops,
         NEW x \in [text : Seq(Tokens), value : BOOLEAN], NEW y \in Seq(Tokens),
         Begins(x.text), Begins(y),
         ReadsSentence(tokens, f, strict, level, x), decides(level, x.value),
         NEW p \in 1 .. Len(tokens) + 1, NEW q \in 1 .. Len(tokens) + 1,
         NEW t \in Tokens, t = operator(level),
         Occurs(tokens, x.text \o <<t>> \o y, p), q = p + Len(x.text \o <<t>> \o y)
  PROVE  GaveUp(tokens, f[p].read[level], q)
<1>0. x.text \in Seq(Tokens) /\ x.value \in BOOLEAN
  OBVIOUS
<1>1. PICK m : m = p + Len(x.text)
  OBVIOUS
<1>2. /\ Occurs(tokens, x.text, p)
      /\ m \in 1 .. Len(tokens) /\ m \in 1 .. Len(tokens) + 1 /\ peek(tokens, m) = t
      /\ m + 1 \in 1 .. Len(tokens) + 1 /\ peek(tokens, m + 1) \in Starters
      /\ m < q /\ m + 1 < q
  BY <1>0, <1>1, OperandsOccur
<1>3. \/ f[p].read[level] = loopAt(tokens, f, m, level, x.value)
      \/ GaveUp(tokens, f[p].read[level], q)
  <2>1. q \in Nat /\ peek(tokens, m) = operator(level)
    BY <1>2
  <2> QED
    BY <2>1, <1>1, <1>2, LeftRead
<1>4. CASE f[p].read[level] = loopAt(tokens, f, m, level, x.value)
  <2>0. peek(tokens, m) = operator(level)
    BY <1>2
  <2>1. f[p].read[level] = f[m + 1].loop[level][x.value]
    BY <2>0, <1>4 DEF loopAt
  <2>2. q \in Nat /\ m + 1 < q /\ m + 1 \in 1 .. Len(tokens) + 1 /\ peek(tokens, m + 1) \in Starters
    BY <1>2
  <2>3. GaveUp(tokens, f[m + 1].loop[level][x.value], q)
    BY ONLY tokens \in Seq(Tokens), Parses(tokens, f), level \in Loops, <1>0, <2>2, StopsBeforeOperand
  <2> QED
    BY <2>1, <2>3
<1> QED
  BY <1>3, <1>4

Joined(level, left, right) == IF level = "or" THEN left \/ right ELSE left /\ right

LEMMA OperatorRead ==
  ASSUME NEW tokens \in Seq(Tokens), NEW f, Parses(tokens, f), RowsAfter(tokens, f, 0),
         NEW strict \in BOOLEAN, NEW level \in Loops,
         NEW x \in [text : Seq(Tokens), value : BOOLEAN],
         NEW y \in [text : Seq(Tokens), value : BOOLEAN],
         Begins(x.text), Begins(y.text),
         ReadsSentence(tokens, f, strict, level, x),
         ReadsSentence(tokens, f, strict, operand(level), y),
         strict => ~decides(level, x.value),
         NEW s, s = [text |-> x.text \o <<operator(level)>> \o y.text,
                     value |-> Joined(level, x.value, y.value)]
  PROVE  Begins(s.text) /\ ReadsSentence(tokens, f, strict, level, s)
<1>0. /\ Len(tokens) \in Nat /\ Len(x.text) \in Nat \ {0} /\ Len(y.text) \in Nat \ {0}
      /\ x.text \in Seq(Tokens) /\ y.text \in Seq(Tokens)
      /\ x.value \in BOOLEAN /\ y.value \in BOOLEAN /\ operator(level) \in Tokens
  BY DEF Begins, operator, Tokens
<1>1. PICK t \in Tokens : t = operator(level)
  BY <1>0
<1>2. s.text = x.text \o <<t>> \o y.text /\ s.value = Joined(level, x.value, y.value)
  BY <1>1
<1>3. Begins(s.text)
  <2>1. ASSUME NEW u \in Seq(Tokens), NEW v \in Seq(Tokens), Len(u) > 0
        PROVE  Len(u \o <<t>> \o v) \in Nat \ {0} /\ (u \o <<t>> \o v)[1] = u[1]
    BY <2>1
  <2> QED
    BY <2>1, <1>0, <1>2 DEF Begins
<1>4. ASSUME NEW p \in 1 .. Len(tokens) + 1, NEW q \in 1 .. Len(tokens) + 1,
             Occurs(tokens, s.text, p), q = p + Len(s.text),
             level = "or" => peek(tokens, q) # "&&"
      PROVE  \/ f[p].read[level] = f[q].loop[level][s.value]
             \/ ~strict /\ GaveUp(tokens, f[p].read[level], q)
  <2>0. Occurs(tokens, x.text \o <<t>> \o y.text, p) /\ q = p + Len(x.text \o <<t>> \o y.text)
    BY <1>2, <1>4
  <2>1. CASE decides(level, x.value)
    <3>1. GaveUp(tokens, f[p].read[level], q)
      BY <2>0, <2>1, <1>0, <1>1, DecidedGivesUp
    <3> QED
      BY <2>1, <3>1
  <2>2. CASE ~decides(level, x.value)
    <3>1. PICK m : m = p + Len(x.text)
      OBVIOUS
    <3>2. /\ Occurs(tokens, x.text, p) /\ Occurs(tokens, y.text, m + 1)
          /\ m \in 1 .. Len(tokens) + 1 /\ peek(tokens, m) = t /\ m < q
          /\ m + 1 \in 1 .. Len(tokens) + 1 /\ q = (m + 1) + Len(y.text)
      BY <2>0, <3>1, <1>0, OperandsOccur
    <3>3. CASE f[p].read[level] = loopAt(tokens, f, m, level, x.value)
      <4>1. PICK right : right = f[m + 1].read[operand(level)]
        OBVIOUS
      <4>2. f[p].read[level] = continue(f, level, right)
        BY <2>2, <3>2, <3>3, <1>1, <4>1 DEF loopAt, continue
      <4>3. s.value = y.value
        BY <2>2, <1>0, <1>2 DEF decides, Joined, Loops
      <4>4. \/ right = After(f, operand(level), y.value, q)
            \/ ~strict /\ GaveUp(tokens, right, q)
        BY <3>2, <4>1 DEF ReadsSentence, operand
      <4>5. After(f, operand(level), y.value, q) = Read(y.value, q)
        <5>1. CASE level = "and"
          BY <5>1 DEF After, operand
        <5>2. CASE level = "or"
          <6>1. After(f, operand(level), y.value, q) = f[q].loop["and"][y.value]
            BY <5>2 DEF After, operand
          <6>2. peek(tokens, q) # operator("and")
            BY <5>2, <1>4 DEF operator
          <6> QED
            BY <6>1, <6>2, <1>0, LoopStops DEF Loops
        <5> QED
          BY <5>1, <5>2 DEF Loops
      <4>6. CASE right = Read(y.value, q)
        BY <4>2, <4>3, <4>6 DEF continue, Read
      <4>7. CASE ~strict /\ GaveUp(tokens, right, q)
        <5>1. Returns(tokens, right, (m + 1) + 1)
          <6>1. operand(level) \in Levels
            BY DEF operand, Levels
          <6> QED
            BY <6>1, <3>2, <4>1, ReadReturns
        <5>2. m + 1 \in Nat /\ q \in Nat
          BY <3>2
        <5> QED
          BY <5>1, <5>2, <4>2, <4>7, GivesUpToo
      <4> QED
        BY <4>4, <4>5, <4>6, <4>7
    <3>4. \/ f[p].read[level] = loopAt(tokens, f, m, level, x.value)
          \/ ~strict /\ GaveUp(tokens, f[p].read[level], q)
      <4>1. q \in Nat /\ peek(tokens, m) = operator(level)
        BY <3>2, <1>1
      <4> QED
        BY ONLY tokens \in Seq(Tokens), Parses(tokens, f), RowsAfter(tokens, f, 0),
                strict \in BOOLEAN, level \in Loops, x \in [text : Seq(Tokens), value : BOOLEAN],
                ReadsSentence(tokens, f, strict, level, x), p \in 1 .. Len(tokens) + 1,
                <4>1, <3>1, <3>2, LeftRead
    <3> QED
      BY <3>3, <3>4
  <2> QED
    BY <2>1, <2>2
<1>5. ReadsSentence(tokens, f, strict, level, s)
  BY <1>4 DEF ReadsSentence, After, Loops
<1> QED
  BY <1>3, <1>5

-----------------------------------------------------------------------------
(* What the sentences of a language are made of. *)
LEMMA SentenceType ==
  ASSUME NEW L, NEW strict \in BOOLEAN, Language(L, strict),
         NEW level \in Levels, NEW s \in L[level]
  PROVE  /\ s \in [text : Seq(Tokens), value : BOOLEAN]
         /\ s.text \in Seq(Tokens) /\ Len(s.text) \in Nat /\ s.value \in BOOLEAN
<1>1. s \in [text : Seq(Tokens), value : BOOLEAN]
  BY DEF Language
<1>2. s.text \in Seq(Tokens) /\ s.value \in BOOLEAN
  BY <1>1
<1> QED
  BY <1>1, <1>2

LEMMA UnaryMadeOf ==
  ASSUME NEW L, NEW strict \in BOOLEAN, Language(L, strict), NEW s \in L["unary"]
  PROVE  \/ s \in Literals
         \/ \E x \in L["unary"] : s = [text |-> <<"!">> \o x.text, value |-> ~x.value]
         \/ \E x \in L["or"] : s = [text |-> <<"(">> \o x.text \o <<")">>, value |-> x.value]
<1>1. s \in Literals \/ s \in Negations(L["unary"]) \/ s \in Groups(L["or"])
  BY DEF Language
<1> QED
  BY <1>1, Zenon DEF Negations, Groups

Conjunction(x, y) == [text |-> x.text \o <<"&&">> \o y.text, value |-> x.value /\ y.value]
Disjunction(x, y) == [text |-> x.text \o <<"||">> \o y.text, value |-> x.value \/ y.value]

LEMMA OfTwoOperands ==
  ASSUME NEW S, NEW T, NEW s
  PROVE  /\ s \in Conjunctions(S, T) => \E x \in S, y \in T : s = Conjunction(x, y)
         /\ s \in Disjunctions(S, T) => \E x \in S, y \in T : s = Disjunction(x, y)
<1>1. Conjunctions(S, T) = {Conjunction(x, y) : x \in S, y \in T}
  BY SMT DEF Conjunctions, Conjunction
<1>2. Disjunctions(S, T) = {Disjunction(x, y) : x \in S, y \in T}
  BY SMT DEF Disjunctions, Disjunction
<1> QED
  BY <1>1, <1>2, SMT

LEMMA AndMadeOf ==
  ASSUME NEW L, NEW strict \in BOOLEAN, Language(L, strict), NEW s \in L["and"]
  PROVE  \/ s \in L["unary"]
         \/ \E x \in L["and"], y \in L["unary"] :
              /\ strict => ~decides("and", x.value)
              /\ s = [text |-> x.text \o <<"&&">> \o y.text, value |-> x.value /\ y.value]
<1>1. PICK lefts : lefts = {x \in L["and"] : strict => ~decides("and", x.value)}
  OBVIOUS
<1>2. s \in L["unary"] \/ s \in Conjunctions(lefts, L["unary"])
  BY <1>1 DEF Language
<1>3. ASSUME s \in Conjunctions(lefts, L["unary"])
      PROVE  \E x \in lefts, y \in L["unary"] :
               s = [text |-> x.text \o <<"&&">> \o y.text, value |-> x.value /\ y.value]
  <2>1. \E x \in lefts, y \in L["unary"] : s = Conjunction(x, y)
    BY <1>3, OfTwoOperands
  <2> QED
    BY <2>1, Zenon DEF Conjunction
<1>4. \A x \in lefts : x \in L["and"] /\ (strict => ~decides("and", x.value))
  BY <1>1
<1> QED
  BY <1>2, <1>3, <1>4, Zenon

LEMMA OrMadeOf ==
  ASSUME NEW L, NEW strict \in BOOLEAN, Language(L, strict), NEW s \in L["or"]
  PROVE  \/ s \in L["and"]
         \/ \E x \in L["or"], y \in L["and"] :
              /\ strict => ~decides("or", x.value)
              /\ s = [text |-> x.text \o <<"||">> \o y.text, value |-> x.value \/ y.value]
<1>1. PICK lefts : lefts = {x \in L["or"] : strict => ~decides("or", x.value)}
  OBVIOUS
<1>2. s \in L["and"] \/ s \in Disjunctions(lefts, L["and"])
  BY <1>1 DEF Language
<1>3. ASSUME s \in Disjunctions(lefts, L["and"])
      PROVE  \E x \in lefts, y \in L["and"] :
               s = [text |-> x.text \o <<"||">> \o y.text, value |-> x.value \/ y.value]
  <2>1. \E x \in lefts, y \in L["and"] : s = Disjunction(x, y)
    BY <1>3, OfTwoOperands
  <2> QED
    BY <2>1, Zenon DEF Disjunction
<1>4. \A x \in lefts : x \in L["or"] /\ (strict => ~decides("or", x.value))
  BY <1>1
<1> QED
  BY <1>2, <1>3, <1>4, Zenon

LEMMA JoinedLength ==
  ASSUME NEW x \in Seq(Tokens), NEW y \in Seq(Tokens), NEW t \in Tokens
  PROVE  /\ Len(x \o <<t>> \o y) = Len(x) + 1 + Len(y)
         /\ Len(<<t>> \o x) = 1 + Len(x)
OBVIOUS

LEMMA GroupLength ==
  ASSUME NEW x \in Seq(Tokens)
  PROVE  Len(<<"(">> \o x \o <<")">>) = Len(x) + 2
OBVIOUS

LEMMA ShorterParts ==
  ASSUME NEW m \in Nat, NEW n \in Nat, NEW k \in Nat, m + 1 + n < k + 1
  PROVE  m < k /\ n < k
OBVIOUS

(* Longer sentences, from shorter ones. *)
LEMMA OneLonger ==
  ASSUME NEW tokens \in Seq(Tokens), NEW f, Parses(tokens, f), RowsAfter(tokens, f, 0),
         NEW strict \in BOOLEAN, NEW L, Language(L, strict), NEW k \in Nat,
         \A level \in Levels : Known(tokens, f, strict, L, k, level)
  PROVE  \A level \in Levels : Known(tokens, f, strict, L, k + 1, level)
<1> DEFINE Fine(level, s) == Begins(s.text) /\ ReadsSentence(tokens, f, strict, level, s)
<1>0. /\ "!" \in Tokens /\ "&&" \in Tokens /\ "||" \in Tokens
      /\ "unary" \in Levels /\ "and" \in Levels /\ "or" \in Levels
      /\ "and" \in Loops /\ "or" \in Loops
      /\ operator("and") = "&&" /\ operator("or") = "||"
      /\ operand("and") = "unary" /\ operand("or") = "and"
  BY DEF Tokens, Levels, Loops, operator, operand
<1>1. \A level \in Levels : \A s \in L[level] : Len(s.text) < k => Fine(level, s)
  BY DEF Known, Short
<1>2. \A level \in Levels : \A s \in L[level] :
        s \in [text : Seq(Tokens), value : BOOLEAN] /\ s.text \in Seq(Tokens) /\ Len(s.text) \in Nat
  BY SentenceType
<1>3. ASSUME NEW s \in L["unary"], Len(s.text) < k + 1  PROVE Fine("unary", s)
  <2>1. CASE s \in Literals
    BY <2>1, LiteralRead
  <2>2. ASSUME NEW x \in L["unary"], s = [text |-> <<"!">> \o x.text, value |-> ~x.value]
        PROVE  Fine("unary", s)
    <3>1. s.text = <<"!">> \o x.text
      BY <2>2
    <3>2. Len(<<"!">> \o x.text) = 1 + Len(x.text)
      BY <1>0, <1>2, JoinedLength
    <3>3. Fine("unary", x)
      BY <3>1, <3>2, <1>0, <1>1, <1>2, <1>3
    <3> QED
      BY <3>3, <2>2, <1>0, <1>2, NegationRead
  <2>3. ASSUME NEW x \in L["or"], s = [text |-> <<"(">> \o x.text \o <<")">>, value |-> x.value]
        PROVE  Fine("unary", s)
    <3>1. s.text = <<"(">> \o x.text \o <<")">>
      BY <2>3
    <3>2. Len(<<"(">> \o x.text \o <<")">>) = Len(x.text) + 2
      BY <1>0, <1>2, GroupLength
    <3>3. Fine("or", x)
      BY <3>1, <3>2, <1>0, <1>1, <1>2, <1>3
    <3> QED
      BY <3>3, <2>3, <1>0, <1>2, GroupRead
  <2> QED
    BY <2>1, <2>2, <2>3, UnaryMadeOf
<1>4. ASSUME NEW s \in L["and"], Len(s.text) < k + 1  PROVE Fine("and", s)
  <2>1. CASE s \in L["unary"]
    BY <2>1, <1>0, <1>2, <1>3, <1>4, UnaryAsAnd
  <2>2. ASSUME NEW x \in L["and"], NEW y \in L["unary"],
               strict => ~decides("and", x.value),
               s = [text |-> x.text \o <<"&&">> \o y.text, value |-> x.value /\ y.value]
        PROVE  Fine("and", s)
    <3>1. s.text = x.text \o <<"&&">> \o y.text
      BY <2>2
    <3>2. Len(x.text \o <<"&&">> \o y.text) = Len(x.text) + 1 + Len(y.text)
      BY <1>0, <1>2, JoinedLength
    <3>5. Len(x.text) \in Nat /\ Len(y.text) \in Nat
      BY <1>0, <1>2
    <3>7. Len(s.text) = Len(x.text) + 1 + Len(y.text)
      BY <3>1, <3>2, Zenon
    <3>6. Len(x.text) < k /\ Len(y.text) < k
      BY <3>5, <3>7, <1>4, ShorterParts
    <3>3. Fine("and", x) /\ Fine("unary", y)
      BY <3>6, <1>0, <1>1
    <3>4. s = [text |-> x.text \o <<operator("and")>> \o y.text, value |-> Joined("and", x.value, y.value)]
      BY <2>2, <1>0 DEF Joined
    <3> QED
      BY <3>3, <3>4, <2>2, <1>0, <1>2, OperatorRead
  <2> QED
    BY <2>1, <2>2, AndMadeOf
<1>5. ASSUME NEW s \in L["or"], Len(s.text) < k + 1  PROVE Fine("or", s)
  <2>1. CASE s \in L["and"]
    BY <2>1, <1>0, <1>2, <1>4, <1>5, AndAsOr
  <2>2. ASSUME NEW x \in L["or"], NEW y \in L["and"],
               strict => ~decides("or", x.value),
               s = [text |-> x.text \o <<"||">> \o y.text, value |-> x.value \/ y.value]
        PROVE  Fine("or", s)
    <3>1. s.text = x.text \o <<"||">> \o y.text
      BY <2>2
    <3>2. Len(x.text \o <<"||">> \o y.text) = Len(x.text) + 1 + Len(y.text)
      BY <1>0, <1>2, JoinedLength
    <3>5. Len(x.text) \in Nat /\ Len(y.text) \in Nat
      BY <1>0, <1>2
    <3>7. Len(s.text) = Len(x.text) + 1 + Len(y.text)
      BY <3>1, <3>2, Zenon
    <3>6. Len(x.text) < k /\ Len(y.text) < k
      BY <3>5, <3>7, <1>5, ShorterParts
    <3>3. Fine("or", x) /\ Fine("and", y)
      BY <3>6, <1>0, <1>1
    <3>4. s = [text |-> x.text \o <<operator("or")>> \o y.text, value |-> Joined("or", x.value, y.value)]
      BY <2>2, <1>0 DEF Joined
    <3> QED
      BY <3>3, <3>4, <2>2, <1>0, <1>2, OperatorRead
  <2> QED
    BY <2>1, <2>2, OrMadeOf
<1> QED
  BY <1>3, <1>4, <1>5 DEF Known, Short, Levels

LEMMA AllRead ==
  ASSUME NEW tokens \in Seq(Tokens), NEW f, Parses(tokens, f), RowsAfter(tokens, f, 0),
         NEW strict \in BOOLEAN, NEW L, Language(L, strict), NEW level \in Levels, NEW s \in L[level]
  PROVE  Begins(s.text) /\ ReadsSentence(tokens, f, strict, level, s)
<1> DEFINE T == {k \in Nat : \A l \in Levels : Known(tokens, f, strict, L, k, l)}
<1>1. 0 \in T
  <2>1. \A l \in Levels : \A x \in L[l] : ~(Len(x.text) < 0)
    BY SentenceType
  <2> QED
    BY <2>1 DEF Known, Short
<1>2. ASSUME NEW k \in T  PROVE k + 1 \in T
  BY OneLonger
<1>3. T = Nat
  <2>1. T \in SUBSET Nat
    OBVIOUS
  <2> HIDE DEF T
  <2> QED
    BY <1>1, <1>2, <2>1, AllNumbers
<1>4. Len(s.text) \in Nat
  BY SentenceType
<1>5. Len(s.text) + 1 \in T
  <2> HIDE DEF T
  <2> QED
    BY <1>3, <1>4
<1>6. Known(tokens, f, strict, L, Len(s.text) + 1, level)
  BY <1>5
<1>7. Len(s.text) < Len(s.text) + 1
  BY <1>4
<1> QED
  BY <1>6, <1>7 DEF Known, Short

(* A sentence that is read to its end has its value; and one in which no   *)
(* left operand decides is read to its end.                                *)
THEOREM SentenceRead ==
  ASSUME NEW L, NEW strict \in BOOLEAN, Language(L, strict), NEW s \in L["or"]
  PROVE  \/ evaluateExpression(s.text) = Read(s.value, Len(s.text) + 1)
         \/ ~strict /\ evaluateExpression(s.text) = Threw
<1>2. s.text \in Seq(Tokens) /\ s.value \in BOOLEAN
  BY SentenceType DEF Levels
<1>1. PICK tokens \in Seq(Tokens) : tokens = s.text
  BY <1>2
<1>3. PICK f : /\ Parses(tokens, f)
               /\ RowsAfter(tokens, f, 0)
               /\ parseExpression(tokens) = f[1].read["or"]
  BY ParserRows
<1>4. PICK parsed : parsed = f[1].read["or"]
  OBVIOUS
<1>5. PICK q : q = Len(tokens) + 1
  OBVIOUS
<1>6. Len(tokens) \in Nat /\ 1 \in 1 .. Len(tokens) + 1 /\ q \in 1 .. Len(tokens) + 1
      /\ q = 1 + Len(tokens)
  BY <1>5
<1>7. Occurs(tokens, s.text, 1)
  <2>1. \A i \in 1 .. Len(tokens) : tokens[1 + i - 1] = tokens[i]
    OBVIOUS
  <2> QED
    BY <2>1, <1>1, <1>6 DEF Occurs
<1>8. peek(tokens, q) = "end"
  BY <1>5, <1>6 DEF peek
<1>9. \/ parsed = f[q].loop["or"][s.value]
      \/ ~strict /\ GaveUp(tokens, parsed, q)
  <2>1. ReadsSentence(tokens, f, strict, "or", s)
    BY <1>3, AllRead DEF Levels
  <2> QED
    BY <2>1, <1>1, <1>4, <1>6, <1>7, <1>8 DEF ReadsSentence, After
<1>10. evaluateExpression(tokens) = IF parsed.ok /\ parsed.at = q THEN parsed ELSE Threw
  BY <1>3, <1>4, <1>5 DEF evaluateExpression
<1>11. CASE parsed = f[q].loop["or"][s.value]
  <2>1. "or" \in Loops /\ peek(tokens, q) # operator("or")
    BY <1>8 DEF operator, Loops
  <2>2. parsed = Read(s.value, q)
    BY <2>1, <1>2, <1>3, <1>6, <1>11, LoopStops
  <2> QED
    BY <2>2, <1>1, <1>5, <1>10 DEF Read
<1>12. CASE ~strict /\ GaveUp(tokens, parsed, q)
  <2>1. Returns(tokens, parsed, 1 + 1)
    BY <1>3, <1>4, <1>6, ReadReturns DEF Levels
  <2>2. ~(parsed.ok /\ parsed.at = q)
    BY <1>6, <1>12, <2>1 DEF GaveUp, Returns
  <2> QED
    BY <2>2, <1>1, <1>10, <1>12
<1> QED
  BY <1>9, <1>11, <1>12

(* An operator that its left operand decides, at the top of an expression, *)
(* makes it throw, whatever the operands are.                              *)
THEOREM DecidedThrows ==
  ASSUME NEW L, Language(L, FALSE), NEW level \in Loops,
         NEW x \in L[level], NEW y \in L[operand(level)], decides(level, x.value)
  PROVE  evaluateExpression(x.text \o <<operator(level)>> \o y.text) = Threw
<1>1. level \in Levels /\ operand(level) \in Levels
  BY DEF operand, Levels, Loops
<1>2. /\ x \in [text : Seq(Tokens), value : BOOLEAN] /\ x.text \in Seq(Tokens)
      /\ y.text \in Seq(Tokens)
  BY <1>1, SentenceType
<1>3. PICK t \in Tokens : t = operator(level)
  BY DEF operator, Tokens
<1>4. PICK tokens \in Seq(Tokens) : tokens = x.text \o <<t>> \o y.text
  <2>1. \A u, v \in Seq(Tokens) : u \o <<t>> \o v \in Seq(Tokens)
    OBVIOUS
  <2> QED
    BY <2>1, <1>2
<1>5. PICK f : /\ Parses(tokens, f)
               /\ RowsAfter(tokens, f, 0)
               /\ parseExpression(tokens) = f[1].read["or"]
  BY ParserRows
<1>6. PICK q : q = Len(tokens) + 1
  OBVIOUS
<1>7. Len(tokens) \in Nat /\ 1 \in 1 .. Len(tokens) + 1 /\ q \in 1 .. Len(tokens) + 1
      /\ q = 1 + Len(tokens) /\ q \in Nat
  BY <1>6
<1>8. Occurs(tokens, tokens, 1)
  <2>1. \A i \in 1 .. Len(tokens) : tokens[1 + i - 1] = tokens[i]
    OBVIOUS
  <2> QED
    BY <2>1, <1>7 DEF Occurs
<1>9. /\ Begins(x.text) /\ ReadsSentence(tokens, f, FALSE, level, x)
      /\ Begins(y.text)
  BY <1>1, <1>5, AllRead
<1>10. GaveUp(tokens, f[1].read[level], q)
  <2>1. Occurs(tokens, x.text \o <<t>> \o y.text, 1) /\ q = 1 + Len(x.text \o <<t>> \o y.text)
    BY <1>4, <1>7, <1>8
  <2> QED
    BY <2>1, <1>2, <1>3, <1>5, <1>7, <1>9, DecidedGivesUp
<1>11. PICK parsed : parsed = f[1].read["or"]
  OBVIOUS
<1>12. GaveUp(tokens, parsed, q)
  <2>1. CASE level = "or"
    BY <2>1, <1>10, <1>11
  <2>2. CASE level = "and"
    <3>1. parsed = continue(f, "or", f[1].read["and"])
      BY <1>5, <1>7, <1>11, ParseRows
    <3>2. Returns(tokens, f[1].read["and"], 1 + 1)
      BY <1>5, <1>7, ReadReturns DEF Levels
    <3> QED
      BY <3>1, <3>2, <2>2, <1>5, <1>7, <1>10, GivesUpToo DEF Loops
  <2> QED
    BY <2>1, <2>2 DEF Loops
<1>13. Returns(tokens, parsed, 1 + 1)
  BY <1>5, <1>7, <1>11, ReadReturns DEF Levels
<1>14. ~(parsed.ok /\ parsed.at = q)
  BY <1>7, <1>12, <1>13 DEF GaveUp, Returns
<1>15. evaluateExpression(tokens) = IF parsed.ok /\ parsed.at = q THEN parsed ELSE Threw
  BY <1>5, <1>6, <1>11 DEF evaluateExpression
<1> QED
  BY <1>3, <1>4, <1>14, <1>15

-----------------------------------------------------------------------------
(* A condition read to its end has the value that the sentence denotes. *)
LEMMA ReadsRight ==
  \A l \in BranchLists : \A b \in DOMAIN l :
    LET read == evaluateExpression(l[b].text) IN read.ok => read.value = l[b].value
<1> SUFFICES ASSUME NEW l \in BranchLists, NEW b \in DOMAIN l,
                    evaluateExpression(l[b].text).ok
             PROVE  evaluateExpression(l[b].text).value = l[b].value
  OBVIOUS
<1>1. l \in Seq(Sentences["or"]) /\ Language(Sentences, FALSE)
  BY DefinitionAssumption
<1>2. PICK s \in Sentences["or"] : s = l[b]
  BY <1>1
<1>3. \/ evaluateExpression(s.text) = Read(s.value, Len(s.text) + 1)
      \/ evaluateExpression(s.text) = Threw
  BY <1>1, SentenceRead
<1> QED
  BY <1>2, <1>3 DEF Read, Threw

(* The branches before the one to try are false or reported, and so are    *)
(* the branches matched so far.                                            *)
Tried ==
  phase = "trying" =>
    /\ branch <= Len(branches) + 1
    /\ \A b \in 1 .. branch - 1 : branches[b].value => b \in errors
    /\ \A i \in 1 .. Len(matchedRules) : matchedRules[i] \in errors

(* The parser's verdict on the branch to try. *)
LEMMA VerdictRight ==
  ASSUME IInv, Try
  PROVE  /\ ~isGraph /\ branches \in BranchLists
         /\ branch \in 1 .. Len(branches)
         /\ verdict.ok => verdict.value = branches[branch].value
<1>1. ~isGraph /\ branches \in BranchLists
  BY DEF Try, IInv, Counted, Stored, Definitions, isGraph, branches
<1>2. Len(branches) \in Nat /\ DOMAIN branches = 1 .. Len(branches)
  BY <1>1, DefinitionAssumption
<1>3. branch \in 1 .. Len(branches)
  BY <1>2 DEF Try, IInv, TypeOK
<1> QED
  BY <1>1, <1>2, <1>3, ReadsRight DEF verdict

(* Trying the branches in order keeps both. *)
LEMMA TriedStep ==
  ASSUME IInv, Tried, FirstTrueBranchDecides, [Next]_vars
  PROVE  Tried' /\ FirstTrueBranchDecides'
<1>1. CASE Walk \/ UNCHANGED vars
  <2>1. CASE Walk
    <3>1. phase = "walking" /\ phase' \in {"walking", "done"} /\ definition' = definition
      BY <2>1 DEF Walk, PlainNode, Condition, FrequencyCap, ExperimentSplit, SubDecision, TerminalNode,
                  ExpressionThrows, UnsupportedType, TooDeep, NoNextNode, CircularPath, NodeNotFound,
                  At, GoTo, Fail
    <3>2. isGraph'
      BY <3>1 DEF IInv, Counted, isGraph
    <3> QED
      BY <3>1, <3>2 DEF Tried, FirstTrueBranchDecides
  <2>2. CASE UNCHANGED vars
    BY <2>2 DEF vars, Tried, FirstTrueBranchDecides, isGraph, branches
  <2> QED
    BY <1>1, <2>1, <2>2
<1>2. CASE NextRequest
  <2>1. /\ phase' = IF isGraph THEN "walking" ELSE "trying"
        /\ branch' = 1 /\ matchedRules' = <<>> /\ definition' = definition
    BY <1>2 DEF NextRequest
  <2>2. ~isGraph => Len(branches) \in Nat /\ branches' = branches
    BY <2>1, DefinitionAssumption DEF IInv, Stored, Definitions, isGraph, branches
  <2> QED
    BY <2>1, <2>2 DEF Tried, FirstTrueBranchDecides
<1>3. ASSUME TryBranches  PROVE Tried' /\ FirstTrueBranchDecides'
  <2>1. /\ phase = "trying" /\ ~isGraph /\ definition' = definition
        /\ ~isGraph' /\ branches' = branches
    BY <1>3 DEF TryBranches, BranchThrows, BranchPassedOver, BranchDecides, BranchOutputsThrow,
                NoBranchDecides, Try, IInv, Counted, isGraph, branches
  <2>2. branches \in BranchLists
    BY <2>1 DEF IInv, Stored, Definitions, isGraph, branches
  <2>3. /\ Len(branches) \in Nat /\ branch \in Nat \ {0} /\ branch <= Len(branches) + 1
        /\ matchedRules \in Seq(Nat) /\ Len(matchedRules) \in Nat
        /\ \A b \in 1 .. branch - 1 : branches[b].value => b \in errors
        /\ \A i \in 1 .. Len(matchedRules) : matchedRules[i] \in errors
    <3>1. Len(branches) \in Nat
      BY <2>2, DefinitionAssumption
    <3>2. branch \in Nat \ {0} /\ matchedRules \in Seq(Nat) /\ Len(matchedRules) \in Nat
      BY DEF IInv, TypeOK
    <3> QED
      BY <2>1, <3>1, <3>2 DEF Tried
  <2>4. ASSUME NEW r \in Nat
        PROVE  /\ Len(Append(matchedRules, r)) = Len(matchedRules) + 1
               /\ Append(matchedRules, r)[Len(matchedRules) + 1] = r
               /\ \A i \in 1 .. Len(matchedRules) : Append(matchedRules, r)[i] = matchedRules[i]
    BY <2>3
  <2>5. CASE BranchThrows \/ BranchPassedOver
    <3>1. /\ Try /\ (verdict.ok => ~verdict.value)
          /\ phase' = phase /\ branch' = branch + 1 /\ matchedRules' = matchedRules
          /\ errors \subseteq errors' /\ (~verdict.ok => branch \in errors')
      BY <2>5 DEF BranchThrows, BranchPassedOver
    <3>2. branch <= Len(branches) /\ (branches[branch].value => branch \in errors')
      BY <3>1, VerdictRight
    <3> QED
      BY <2>1, <2>3, <3>1, <3>2 DEF Tried, FirstTrueBranchDecides
  <2>6. CASE BranchOutputsThrow
    <3>1. /\ Try /\ branch <= Len(branches)
          /\ phase' = phase /\ branch' = branch + 1 /\ matchedRules' = Append(matchedRules, branch)
          /\ errors' = errors \cup {branch}
      BY <2>6 DEF BranchOutputsThrow, Try
    <3>2. \A b \in 1 .. branch' - 1 : branches'[b].value => b \in errors'
      BY <2>1, <2>3, <3>1
    <3>3. \A i \in 1 .. Len(matchedRules') : matchedRules'[i] \in errors'
      BY <2>3, <2>4, <3>1
    <3>4. branch' <= Len(branches') + 1
      BY <2>1, <2>3, <3>1
    <3> QED
      BY <2>1, <3>1, <3>2, <3>3, <3>4 DEF Tried, FirstTrueBranchDecides
  <2>7. CASE BranchDecides
    <3>1. /\ Try /\ verdict.ok /\ verdict.value
          /\ phase' = "done" /\ outcome'.by = "branch" /\ branch' = branch /\ errors' = errors
          /\ matchedRules' = Append(matchedRules, branch)
      BY <2>7 DEF BranchDecides
    <3>2. branches[branch].value
      BY <3>1, VerdictRight
    <3> QED
      BY <2>1, <2>3, <2>4, <3>1, <3>2 DEF Tried, FirstTrueBranchDecides
  <2>8. CASE NoBranchDecides
    <3>1. /\ branch > Len(branches)
          /\ phase' = "done" /\ outcome'.by = "fallback" /\ branch' = branch /\ errors' = errors
          /\ matchedRules' = Append(matchedRules, 0)
      BY <2>8 DEF NoBranchDecides
    <3>2. branch = Len(branches) + 1
      BY <2>3, <3>1
    <3> QED
      BY <2>1, <2>3, <2>4, <3>1, <3>2 DEF Tried, FirstTrueBranchDecides
  <2> QED
    BY <1>3, <2>5, <2>6, <2>7, <2>8 DEF TryBranches
<1> QED
  BY <1>1, <1>2, <1>3 DEF Next

(* The first branch that is true and does not throw decides                *)
(* (evaluateBranches), whatever sentences the conditions are.              *)
THEOREM BranchesSafe == Spec => []FirstTrueBranchDecides
<1>1. Init => Tried /\ FirstTrueBranchDecides
  <2> SUFFICES ASSUME Init  PROVE Tried /\ FirstTrueBranchDecides
    OBVIOUS
  <2>1. /\ phase = IF isGraph THEN "walking" ELSE "trying"
        /\ branch = 1 /\ matchedRules = <<>> /\ definition \in Definitions
    BY DEF Init
  <2>2. ~isGraph => Len(branches) \in Nat
    BY <2>1, DefinitionAssumption DEF Definitions, isGraph, branches
  <2> QED
    BY <2>1, <2>2 DEF Tried, FirstTrueBranchDecides
<1>2. IInv /\ (Tried /\ FirstTrueBranchDecides) /\ [Next]_vars => (Tried /\ FirstTrueBranchDecides)'
  BY TriedStep
<1> QED
  BY <1>1, <1>2, Invariant, PTL DEF Spec

(* Conditions in which no left operand decides its operator always         *)
(* evaluate: the operands the parser skips are the only reason for a       *)
(* sentence to be refused.                                                 *)
THEOREM UndecidedEvaluate ==
  ASSUME Language(Sentences, TRUE)
  PROVE  Spec => []SentencesEvaluate
<1>1. IInv => SentencesEvaluate
  <2> SUFFICES ASSUME IInv, phase = "trying", branch <= Len(branches)  PROVE verdict.ok
    BY DEF SentencesEvaluate
  <2>1. branches \in BranchLists
    BY DEF IInv, Counted, Stored, Definitions, isGraph, branches
  <2>2. branches \in Seq(Sentences["or"])
    BY <2>1, DefinitionAssumption
  <2>3. branch \in 1 .. Len(branches)
    BY <2>2 DEF IInv, TypeOK
  <2>4. PICK s \in Sentences["or"] : s = branches[branch]
    BY <2>2, <2>3
  <2>5. evaluateExpression(s.text) = Read(s.value, Len(s.text) + 1)
    BY SentenceRead
  <2> QED
    BY <2>4, <2>5 DEF verdict, Read
<1> QED
  BY <1>1, Invariant, PTL

-----------------------------------------------------------------------------
(***************************************************************************)
(* Several rule sets: a stack remembers in `stopped' and in its result what *)
(* the trace shows, so the trace explains the answer; a surface keeps the  *)
(* places still to evaluate behind those evaluated, so that the first      *)
(* eligible candidate is the best one.                                     *)
(***************************************************************************)
TraceStep == [key : DecisionKeys, status : {"evaluated", "skipped", "error"},
              result : StepResults \cup {"none"}]
Candidate == [key : DecisionKeys, result : Results]

(* What the type invariant leaves open. *)
StacksTypes ==
  /\ StacksTypeOK
  /\ changes \in Nat
  /\ trace \in Seq(TraceStep)
  /\ candidates \in Seq(Candidate)
  /\ run \in [eligible : Nat, not_selected : Nat, errors : Nat]

(* The trace is of the stack asked for, which is one of Stacks. *)
OfStack ==
  /\ progress = "" => trace = <<>>
  /\ progress \in {"running", "answered"} => stack \in Stacks
  /\ trace # <<>> => stack \in Stacks /\ Len(trace) <= Len(stack.steps)

(* What stops a stack is kept in `stopped'. *)
Stops(i) ==
  \/ trace[i].status = "evaluated" /\ trace[i].result \in stack.steps[i].stop_on
  \/ trace[i].status = "error" /\ stack.steps[i].stop_on_error
StopRemembered == \A i \in DOMAIN trace : Stops(i) => stopped

EligibleSoFar == result = "eligible" => \E i \in DOMAIN trace : trace[i].result = "eligible"

StackInv ==
  /\ OfStack /\ StopRemembered /\ EligibleSoFar
  /\ NothingRunsAfterStop /\ ConditionalStepHadCause /\ ReadyStackDoesNotFail

(* The places still planned are allowed and come after those evaluated. *)
PlanIsRest ==
  /\ \A y \in plan : allowed = {} \/ Surface[y] \in allowed
  /\ \A i \in DOMAIN candidates, x \in DOMAIN Surface, y \in plan :
       candidates[i].key = Surface[x] => x < y
NoneSelected ==
  selected = None => \A i \in DOMAIN candidates : candidates[i].result # "eligible"
BatchOver == profiles = {} => candidates = <<>> /\ selected = None

SurfaceInv == PlanIsRest /\ NoneSelected /\ BatchOver /\ SurfaceSelectsBest

StacksIInv == StacksTypes /\ StackInv /\ SurfaceInv

-----------------------------------------------------------------------------
(* What Append does to a sequence. *)
LEMMA AppendParts ==
  ASSUME NEW T, NEW s \in Seq(T), NEW x \in T
  PROVE  /\ Append(s, x) \in Seq(T)
         /\ Len(Append(s, x)) = Len(s) + 1
         /\ DOMAIN Append(s, x) = DOMAIN s \cup {Len(s) + 1}
         /\ DOMAIN s = 1 .. Len(s) /\ Len(s) \in Nat
         /\ \A i \in DOMAIN s : Append(s, x)[i] = s[i]
         /\ Append(s, x)[Len(s) + 1] = x
  OBVIOUS

LEMMA StacksInitInv == StacksInit => StacksIInv
<1> SUFFICES ASSUME StacksInit PROVE StacksIInv
  OBVIOUS
<1>1. /\ changes = 0 /\ stack = None /\ allowed = {} /\ trace = <<>> /\ stopped = FALSE
      /\ result = "deferred" /\ progress = "" /\ profiles = {} /\ plan = {}
      /\ selected = None /\ candidates = <<>> /\ run = NoCounts
  BY DEF StacksInit
<1>2. rules \in [DecisionKeys -> Rule]
  BY DEF StacksInit
<1>3. NoCounts \in [eligible : Nat, not_selected : Nat, errors : Nat]
  BY DEF NoCounts
<1>4. run.eligible = 0 /\ run.not_selected = 0 /\ run.errors = 0
  BY <1>1 DEF NoCounts
<1>5. StacksTypeOK
  <2>1. run.eligible + run.not_selected + run.errors = 0
    BY <1>4
  <2>2. /\ stack \in Stacks \cup {None} /\ allowed \subseteq DecisionKeys /\ stopped \in BOOLEAN
        /\ result \in StepResults
        /\ progress \in {"", "running", "answered", "refused"}
        /\ profiles \subseteq Profiles
        /\ plan \subseteq DOMAIN Surface /\ selected \in DecisionKeys \cup {None}
    BY <1>1 DEF StepResults
  <2> QED
    BY <1>1, <1>2, <2>1, <2>2 DEF StacksTypeOK
<1>6. <<>> \in Seq(TraceStep) /\ <<>> \in Seq(Candidate) /\ DOMAIN <<>> = {}
  OBVIOUS
<1>7. StacksTypes
  BY <1>1, <1>3, <1>5, <1>6 DEF StacksTypes
<1>8. StackInv
  BY <1>1, <1>6 DEF StackInv, OfStack, StopRemembered, EligibleSoFar,
         NothingRunsAfterStop, ConditionalStepHadCause, ReadyStackDoesNotFail
<1>9. SurfaceInv
  BY <1>1, <1>6 DEF SurfaceInv, PlanIsRest, NoneSelected, BatchOver, SurfaceSelectsBest
<1> QED
  BY <1>7, <1>8, <1>9 DEF StacksIInv

-----------------------------------------------------------------------------
(* The step a running stack is at is one of its steps. *)
LEMMA RunningStep ==
  ASSUME StacksIInv, MoreSteps
  PROVE  /\ stack \in Stacks /\ stack.steps \in Seq(StackStep)
         /\ StepAt \in StackStep
         /\ Len(trace) \in Nat /\ Len(trace) + 1 \in DOMAIN stack.steps
<1>1. stack \in Stacks /\ trace \in Seq(TraceStep)
  BY DEF StacksIInv, StackInv, OfStack, MoreSteps, StacksTypes
<1>2. stack.steps \in Seq(StackStep)
  BY <1>1, StacksAssumption
<1>3. Len(trace) \in Nat /\ Len(trace) + 1 \in DOMAIN stack.steps
  BY <1>1, <1>2 DEF MoreSteps
<1> QED
  BY <1>1, <1>2, <1>3 DEF StepAt

(***************************************************************************)
(* A step of the stack that appends one entry to the trace keeps the       *)
(* invariant: it ran only if nothing stopped the stack before, and with    *)
(* its cause the last step evaluated.                                      *)
(***************************************************************************)
LEMMA TraceGrows ==
  ASSUME StacksIInv, MoreSteps, NEW status \in {"evaluated", "skipped", "error"},
         NEW r \in StepResults \cup {"none"}, Traced(StepAt, status, r),
         UNCHANGED <<ruleVars, surfaceVars, stack, progress>>,
         stopped' \in BOOLEAN, result' \in StepResults,
         stopped => status = "skipped",
         status # "skipped" => shouldRunStep(StepAt, trace),
         stopped => stopped',
         status = "evaluated" /\ r \in StepAt.stop_on => stopped',
         status = "error" /\ StepAt.stop_on_error => stopped',
         result' \in {result, r},
         status = "error" => getVersionFails(StepAt.key, StepAt.pinned)
  PROVE  StacksIInv'
<1> DEFINE at == Len(trace) + 1
           entry == [key |-> StepAt.key, status |-> status, result |-> r]
<1>1. /\ stack \in Stacks /\ StepAt \in StackStep /\ stack.steps \in Seq(StackStep)
      /\ Len(trace) \in Nat /\ at \in DOMAIN stack.steps
      /\ StepAt = stack.steps[at]
  BY RunningStep DEF StepAt
<1>2. entry \in TraceStep /\ trace \in Seq(TraceStep)
  BY <1>1 DEF TraceStep, StackStep, StacksIInv, StacksTypes
<1>3. trace' = Append(trace, entry)
  BY DEF Traced
<1>4. /\ trace' \in Seq(TraceStep)
      /\ Len(trace') = at
      /\ DOMAIN trace' = DOMAIN trace \cup {at}
      /\ DOMAIN trace = 1 .. Len(trace)
      /\ \A i \in DOMAIN trace : trace'[i] = trace[i]
      /\ trace'[at] = entry
  <2> HIDE DEF entry
  <2> QED
    BY <1>2, <1>3, AppendParts
<1>5. StacksTypes'
  BY <1>4 DEF StacksIInv, StacksTypes, StacksTypeOK, ruleVars, surfaceVars
<1>6. OfStack'
  <2>1. Len(trace') <= Len(stack.steps)
    BY <1>1, <1>4
  <2>2. progress' = "running"
    BY DEF MoreSteps
  <2> QED
    BY <1>1, <2>1, <2>2 DEF OfStack
<1>7. entry.status = status /\ entry.result = r
  OBVIOUS
<1> HIDE DEF entry
<1>8. \A i \in DOMAIN trace : Stops(i)' <=> Stops(i)
  BY <1>4 DEF Stops
<1>9. ASSUME NEW i, i = at, Stops(i)' PROVE stopped'
  BY <1>1, <1>4, <1>7, <1>9 DEF Stops
<1>10. StopRemembered'
  BY <1>4, <1>8, <1>9 DEF StopRemembered, StacksIInv, StackInv
<1>11. NothingRunsAfterStop'
  <2> SUFFICES ASSUME NEW i \in DOMAIN trace', NEW j \in DOMAIN trace', i < j, Stops(i)'
               PROVE  trace'[j].status = "skipped"
    BY DEF NothingRunsAfterStop, Stops
  <2>1. i \in DOMAIN trace /\ Stops(i)
    BY <1>1, <1>4, <1>8
  <2>2. stopped
    BY <2>1 DEF StacksIInv, StackInv, StopRemembered
  <2>3. CASE j = at
    BY <2>2, <2>3, <1>4, <1>7
  <2>4. CASE j \in DOMAIN trace
    BY <2>1, <2>4, <1>4 DEF StacksIInv, StackInv, NothingRunsAfterStop, Stops
  <2> QED
    BY <2>3, <2>4, <1>4
<1>12. ConditionalStepHadCause'
  <2> SUFFICES ASSUME NEW j \in DOMAIN trace', trace'[j].status # "skipped",
                      stack.steps[j].mode # "always"
               PROVE  \E i \in 1 .. j - 1 :
                        /\ trace'[i].status = "evaluated"
                        /\ trace'[i].result = stack.steps[j].required
                        /\ \A n \in i + 1 .. j - 1 : trace'[n].status # "evaluated"
    BY DEF ConditionalStepHadCause
  <2>1. CASE j = at
    <3>1. shouldRunStep(StepAt, trace)
      BY <2>1, <1>4, <1>7
    <3>2. PICK i \in Evaluated(trace) : /\ trace[i].result = StepAt.required
                                        /\ \A n \in Evaluated(trace) : n <= i
      BY <1>1, <2>1, <3>1 DEF shouldRunStep
    <3>3. i \in DOMAIN trace /\ i \in 1 .. j - 1 /\ trace[i].status = "evaluated"
      BY <1>1, <1>4, <2>1, <3>2 DEF Evaluated
    <3>4. ASSUME NEW n \in i + 1 .. j - 1 PROVE trace'[n].status # "evaluated"
      <4>1. n \in DOMAIN trace /\ ~ (n <= i)
        BY <1>1, <1>4, <2>1, <3>3
      <4> QED
        BY <1>4, <3>2, <4>1 DEF Evaluated
    <3> QED
      BY <1>1, <1>4, <2>1, <3>2, <3>3, <3>4
  <2>2. CASE j \in DOMAIN trace
    <3>1. PICK i \in 1 .. j - 1 :
            /\ trace[i].status = "evaluated" /\ trace[i].result = stack.steps[j].required
            /\ \A n \in i + 1 .. j - 1 : trace[n].status # "evaluated"
      BY <1>4, <2>2 DEF StacksIInv, StackInv, ConditionalStepHadCause
    <3>2. i \in DOMAIN trace /\ \A n \in i + 1 .. j - 1 : n \in DOMAIN trace
      BY <1>1, <1>4, <2>2
    <3> QED
      BY <1>4, <3>1, <3>2
  <2> QED
    BY <2>1, <2>2, <1>4
<1>13. EligibleSoFar'
  BY <1>4, <1>7 DEF EligibleSoFar, StacksIInv, StackInv
<1>14. ReadyStackDoesNotFail'
  <2> SUFFICES ASSUME NEW i \in DOMAIN trace', trace'[i].status = "error",
                      ~ stack.steps[i].pinned
               PROVE  ~ decisionStackReadiness(stack) \/ changes > 0
    BY DEF ReadyStackDoesNotFail, decisionStackReadiness, ruleVars
  <2>1. CASE i \in DOMAIN trace
    BY <1>4, <2>1 DEF StacksIInv, StackInv, ReadyStackDoesNotFail
  <2>2. CASE i = at
    BY <1>1, <1>4, <1>7, <2>2 DEF getVersionFails, decisionStackReadiness
  <2> QED
    BY <2>1, <2>2, <1>4
<1>15. SurfaceInv'
  BY DEF StacksIInv, SurfaceInv, PlanIsRest, NoneSelected, BatchOver, SurfaceSelectsBest, surfaceVars
<1> QED
  BY <1>5, <1>6, <1>10, <1>11, <1>12, <1>13, <1>14, <1>15 DEF StacksIInv, StackInv

-----------------------------------------------------------------------------
(* The steps of a batch leave the stack alone. *)
LEMMA StackKept ==
  ASSUME StackInv, UNCHANGED <<ruleVars, stackVars>>
  PROVE  StackInv'
<1>1. /\ stack' = stack /\ trace' = trace /\ stopped' = stopped /\ result' = result
      /\ progress' = progress /\ rules' = rules /\ changes' = changes
  BY DEF ruleVars, stackVars
<1>2. OfStack'
  BY <1>1 DEF StackInv, OfStack
<1>3. StopRemembered' /\ NothingRunsAfterStop'
  BY <1>1 DEF StackInv, StopRemembered, NothingRunsAfterStop, Stops
<1>4. EligibleSoFar'
  BY <1>1 DEF StackInv, EligibleSoFar
<1>5. ConditionalStepHadCause'
  BY <1>1 DEF StackInv, ConditionalStepHadCause
<1>6. ReadyStackDoesNotFail'
  BY <1>1 DEF StackInv, ReadyStackDoesNotFail, decisionStackReadiness
<1> QED
  BY <1>2, <1>3, <1>4, <1>5, <1>6 DEF StackInv

(* The steps of a stack leave the batch alone. *)
LEMMA SurfaceKept ==
  ASSUME SurfaceInv, UNCHANGED surfaceVars
  PROVE  SurfaceInv'
<1>1. /\ allowed' = allowed /\ profiles' = profiles /\ plan' = plan
      /\ selected' = selected /\ candidates' = candidates
  BY DEF surfaceVars
<1>2. PlanIsRest' /\ NoneSelected' /\ BatchOver'
  BY <1>1 DEF SurfaceInv, PlanIsRest, NoneSelected, BatchOver
<1>3. SurfaceSelectsBest'
  BY <1>1 DEF SurfaceInv, SurfaceSelectsBest
<1> QED
  BY <1>2, <1>3 DEF SurfaceInv

(* The plan made for an empty set of candidates holds allowed places only. *)
LEMMA FreshPlan ==
  ASSUME candidates' = <<>>, NEW keys,
         plan' \in {{}, surfaceEvaluationPlan(keys)}, allowed' = keys
  PROVE  plan' \subseteq DOMAIN Surface /\ PlanIsRest'
<1>1. DOMAIN candidates' = {}
  OBVIOUS
<1>2. /\ plan' \subseteq DOMAIN Surface
      /\ \A y \in plan' : keys = {} \/ Surface[y] \in keys
  BY DEF surfaceEvaluationPlan
<1> QED
  BY <1>1, <1>2 DEF PlanIsRest

(* The profile that is done is counted once. *)
LEMMA CountOne ==
  ASSUME StacksIInv, NEW count \in {"eligible", "not_selected", "errors"}, NextProfile(count)
  PROVE  StacksIInv'
<1>1. /\ run \in [eligible : Nat, not_selected : Nat, errors : Nat]
      /\ StacksTypeOK /\ IsFiniteSet(Profiles) /\ profiles \subseteq Profiles
  BY ProfilesAssumption DEF StacksIInv, StacksTypes, StacksTypeOK
<1>2. PICK p \in profiles : profiles' = profiles \ {p}
  BY DEF NextProfile
<1>3. run' = [run EXCEPT ![count] = @ + 1]
  BY DEF NextProfile, Count
<1>4. /\ run' \in [eligible : Nat, not_selected : Nat, errors : Nat]
      /\ run'.eligible + run'.not_selected + run'.errors
           = run.eligible + run.not_selected + run.errors + 1
      /\ run' # NoCounts
  <2>1. CASE count = "eligible"
    BY <1>1, <1>3, <2>1 DEF NoCounts
  <2>2. CASE count = "not_selected"
    BY <1>1, <1>3, <2>2 DEF NoCounts
  <2>3. CASE count = "errors"
    BY <1>1, <1>3, <2>3 DEF NoCounts
  <2> QED
    BY <2>1, <2>2, <2>3
<1>5. Cardinality(Profiles \ profiles') = Cardinality(Profiles \ profiles) + 1
  <2>1. IsFiniteSet(Profiles \ profiles)
    BY <1>1, FS_Difference
  <2>2. Profiles \ profiles' = (Profiles \ profiles) \cup {p} /\ p \notin Profiles \ profiles
    BY <1>1, <1>2
  <2> QED
    BY <2>1, <2>2, FS_AddElement
<1>6. run.eligible + run.not_selected + run.errors = Cardinality(Profiles \ profiles)
  BY <1>1, <1>2 DEF StacksTypeOK
<1>7. run'.eligible + run'.not_selected + run'.errors = Cardinality(Profiles \ profiles')
  BY <1>4, <1>5, <1>6
<1>8. /\ candidates' = <<>> /\ selected' = None /\ allowed' = allowed
      /\ plan' = IF profiles' = {} THEN {} ELSE surfaceEvaluationPlan(allowed)
      /\ UNCHANGED <<ruleVars, stackVars>>
  BY DEF NextProfile
<1>9. plan' \subseteq DOMAIN Surface /\ PlanIsRest'
  BY <1>8, FreshPlan
<1>10. <<>> \in Seq(Candidate) /\ DOMAIN <<>> = {}
  OBVIOUS
<1>11. StacksTypeOK'
  BY <1>1, <1>2, <1>4, <1>7, <1>8, <1>9 DEF StacksTypeOK, ruleVars, stackVars
<1>12. StacksTypes'
  <2>1. changes' \in Nat /\ trace' \in Seq(TraceStep)
    BY <1>8 DEF StacksIInv, StacksTypes, ruleVars, stackVars
  <2>2. candidates' \in Seq(Candidate)
    BY <1>8, <1>10
  <2> QED
    BY <1>4, <1>11, <2>1, <2>2 DEF StacksTypes
<1>13. StackInv'
  BY <1>8, StackKept DEF StacksIInv
<1>14. SurfaceInv'
  BY <1>8, <1>9, <1>10 DEF SurfaceInv, NoneSelected, BatchOver, SurfaceSelectsBest
<1> QED
  BY <1>12, <1>13, <1>14 DEF StacksIInv

-----------------------------------------------------------------------------
(***************************************************************************)
(* The candidate evaluated is the place of the highest priority left, so   *)
(* it comes after all those evaluated before.                              *)
(***************************************************************************)
LEMMA CandidateInv ==
  ASSUME StacksIInv, EvaluateCandidate
  PROVE  StacksIInv'
<1>1. PICK i \in plan, r \in Results :
        /\ IsNext(i)
        /\ selected' = Select(Surface[i], r)
        /\ candidates' = Append(candidates, [key |-> Surface[i], result |-> r])
        /\ plan' = plan \ {i}
  BY DEF EvaluateCandidate
<1> DEFINE entry == [key |-> Surface[i], result |-> r]
           at == Len(candidates) + 1
<1>2. /\ profiles # {}
      /\ UNCHANGED <<ruleVars, stackVars, allowed, profiles, run>>
  BY DEF EvaluateCandidate
<1>3. /\ candidates \in Seq(Candidate) /\ plan \subseteq DOMAIN Surface
      /\ \A y \in DOMAIN Surface : y \in Nat /\ Surface[y] \in DecisionKeys
      /\ \A x, y \in DOMAIN Surface : Surface[x] = Surface[y] => x = y
      /\ SurfaceInv
  <2>1. /\ candidates \in Seq(Candidate) /\ plan \subseteq DOMAIN Surface /\ SurfaceInv
    BY DEF StacksIInv, StacksTypes, StacksTypeOK
  <2>2. \A y \in DOMAIN Surface : y \in Nat /\ Surface[y] \in DecisionKeys
    BY SurfaceAssumption
  <2> QED
    BY <2>1, <2>2, SurfaceAssumption
<1>4. entry \in Candidate /\ entry.key = Surface[i] /\ entry.result = r /\ i \in DOMAIN Surface
  BY <1>1, <1>3 DEF Candidate
<1> HIDE DEF entry
<1>5. /\ candidates' \in Seq(Candidate)
      /\ DOMAIN candidates' = DOMAIN candidates \cup {at}
      /\ DOMAIN candidates = 1 .. Len(candidates) /\ Len(candidates) \in Nat
      /\ \A n \in DOMAIN candidates : candidates'[n] = candidates[n]
      /\ candidates'[at] = entry
  <2>1. candidates' = Append(candidates, entry)
    BY <1>1 DEF entry
  <2> QED
    BY <1>3, <1>4, <2>1, AppendParts
<1>6. StacksTypes'
  <2>1. selected' \in DecisionKeys \cup {None}
    BY <1>1, <1>3, <1>4 DEF Select, StacksIInv, StacksTypes, StacksTypeOK
  <2>2. changes' \in Nat /\ trace' \in Seq(TraceStep) /\ run' \in [eligible : Nat, not_selected : Nat, errors : Nat]
    BY <1>2 DEF StacksIInv, StacksTypes, ruleVars, stackVars
  <2>3. plan' \subseteq DOMAIN Surface
    BY <1>1, <1>3
  <2>4. StacksTypeOK'
    BY <1>2, <2>1, <2>3 DEF StacksIInv, StacksTypes, StacksTypeOK, ruleVars, stackVars
  <2> QED
    BY <1>5, <2>2, <2>4 DEF StacksTypes
<1>7. StackInv'
  BY <1>2, StackKept DEF StacksIInv
<1>8. PlanIsRest'
  <2>1. \A y \in plan' : allowed' = {} \/ Surface[y] \in allowed'
    BY <1>1, <1>2, <1>3 DEF SurfaceInv, PlanIsRest
  <2>2. ASSUME NEW n \in DOMAIN candidates', NEW x \in DOMAIN Surface, NEW y \in plan',
               candidates'[n].key = Surface[x]
        PROVE  x < y
    <3>1. CASE n \in DOMAIN candidates
      BY <1>1, <1>3, <1>5, <2>2, <3>1 DEF SurfaceInv, PlanIsRest
    <3>2. CASE n = at
      <4>1. x = i
        BY <1>3, <1>4, <1>5, <2>2, <3>2
      <4>2. i <= y /\ y # i /\ i \in Nat /\ y \in Nat
        BY <1>1, <1>3, <1>4 DEF IsNext
      <4> QED
        BY <4>1, <4>2
    <3> QED
      BY <1>5, <3>1, <3>2
  <2> QED
    BY <2>1, <2>2 DEF PlanIsRest
<1>9. NoneSelected'
  <2>1. selected' = None => selected = None /\ r # "eligible"
    BY <1>1, <1>3, <1>4, NoneAssumption DEF Select
  <2> QED
    BY <1>3, <1>4, <1>5, <2>1 DEF NoneSelected, SurfaceInv
<1>10. BatchOver'
  BY <1>2 DEF BatchOver
<1>11. SurfaceSelectsBest'
  <2>1. \A n \in DOMAIN candidates' : allowed' = {} \/ candidates'[n].key \in allowed'
    BY <1>1, <1>2, <1>3, <1>4, <1>5 DEF SurfaceInv, PlanIsRest, SurfaceSelectsBest
  <2>2. ASSUME NEW m \in DOMAIN candidates', NEW n \in DOMAIN candidates',
               NEW x \in DOMAIN Surface, NEW y \in DOMAIN Surface,
               candidates'[m].key = Surface[x], candidates'[n].key = Surface[y], x < y
        PROVE  m < n
    <3>1. CASE m \in DOMAIN candidates /\ n \in DOMAIN candidates
      BY <1>3, <1>5, <2>2, <3>1 DEF SurfaceInv, SurfaceSelectsBest
    <3>2. CASE m \in DOMAIN candidates /\ n = at
      BY <1>5, <3>2
    <3>3. CASE m = at /\ n \in DOMAIN candidates
      <4>1. x = i
        BY <1>3, <1>4, <1>5, <2>2, <3>3
      <4>2. y < i
        BY <1>1, <1>3, <1>4, <1>5, <2>2, <3>3 DEF SurfaceInv, PlanIsRest
      <4> QED
        BY <1>3, <1>4, <2>2, <4>1, <4>2
    <3>4. CASE m = at /\ n = at
      <4>1. x = i /\ y = i
        BY <1>3, <1>4, <1>5, <2>2, <3>4
      <4> QED
        BY <1>3, <1>4, <2>2, <4>1
    <3> QED
      BY <1>5, <3>1, <3>2, <3>3, <3>4
  <2>3. ASSUME selected' # None
        PROVE  \E m \in DOMAIN candidates' :
                 /\ candidates'[m] = [key |-> selected', result |-> "eligible"]
                 /\ \A n \in 1 .. m - 1 : candidates'[n].result # "eligible"
    <3>1. CASE selected # None
      <4>1. selected' = selected
        BY <1>1, <3>1 DEF Select
      <4>2. PICK m \in DOMAIN candidates :
              /\ candidates[m] = [key |-> selected, result |-> "eligible"]
              /\ \A n \in 1 .. m - 1 : candidates[n].result # "eligible"
        BY <1>3, <3>1 DEF SurfaceInv, SurfaceSelectsBest
      <4>3. \A n \in 1 .. m - 1 : n \in DOMAIN candidates
        BY <1>5
      <4> QED
        BY <1>5, <4>1, <4>2, <4>3
    <3>2. CASE selected = None
      <4>1. r = "eligible" /\ selected' = Surface[i]
        BY <1>1, <2>3, <3>2 DEF Select
      <4>2. candidates'[at] = [key |-> selected', result |-> "eligible"]
        BY <1>5, <4>1 DEF entry
      <4>3. \A n \in 1 .. at - 1 : n \in DOMAIN candidates /\ candidates'[n].result # "eligible"
        BY <1>3, <1>5, <3>2 DEF SurfaceInv, NoneSelected
      <4> QED
        BY <1>5, <4>2, <4>3
    <3> QED
      BY <3>1, <3>2
  <2> QED
    BY <2>1, <2>2, <2>3 DEF SurfaceSelectsBest
<1> QED
  BY <1>6, <1>7, <1>8, <1>9, <1>10, <1>11 DEF StacksIInv, SurfaceInv

-----------------------------------------------------------------------------
LEMMA StacksStepInv == StacksIInv /\ [StacksNext]_stacksVars => StacksIInv'
<1> SUFFICES ASSUME StacksIInv, [StacksNext]_stacksVars PROVE StacksIInv'
  OBVIOUS
<1>0. StacksTypes /\ StacksTypeOK /\ StackInv /\ SurfaceInv
  BY DEF StacksIInv, StacksTypes
<1>1. ASSUME NEW k \in DecisionKeys, RuleChanges(k) PROVE StacksIInv'
  <2>1. changes' = changes + 1 /\ changes \in Nat /\ UNCHANGED <<stackVars, surfaceVars>>
    BY <1>0, <1>1 DEF RuleChanges, StacksTypes
  <2>2. rules' \in [DecisionKeys -> Rule]
    BY <1>0, <1>1 DEF RuleChanges, StacksTypeOK
  <2>3. StacksTypeOK'
    BY <1>0, <2>1, <2>2 DEF StacksTypeOK, stackVars, surfaceVars
  <2>4. StacksTypes'
    BY <1>0, <2>1, <2>3 DEF StacksTypes, stackVars, surfaceVars
  <2>5. OfStack' /\ EligibleSoFar'
    BY <1>0, <2>1 DEF StackInv, OfStack, EligibleSoFar, stackVars
  <2>6. StopRemembered' /\ NothingRunsAfterStop' /\ ConditionalStepHadCause'
    BY <1>0, <2>1 DEF StackInv, StopRemembered, Stops, NothingRunsAfterStop,
                      ConditionalStepHadCause, stackVars
  <2>7. ReadyStackDoesNotFail'
    BY <2>1 DEF ReadyStackDoesNotFail
  <2>8. SurfaceInv'
    BY <1>0, <2>1, SurfaceKept
  <2> QED
    BY <2>4, <2>5, <2>6, <2>7, <2>8 DEF StacksIInv, StackInv
<1>2. CASE evaluateDecisionStackRequest
  <2>1. /\ progress = "" /\ trace = <<>> /\ stack' \in Stacks
        /\ progress' \in {"running", "refused"}
        /\ UNCHANGED <<ruleVars, surfaceVars, trace, stopped, result>>
    BY <1>0, <1>2 DEF evaluateDecisionStackRequest, StackInv, OfStack
  <2>2. StacksTypeOK'
    BY <1>0, <2>1 DEF StacksTypeOK, ruleVars, surfaceVars
  <2>3. StacksTypes'
    BY <1>0, <2>1, <2>2 DEF StacksTypes, ruleVars, surfaceVars
  <2>4. DOMAIN trace' = {} /\ trace' = trace
    <3>1. DOMAIN <<>> = {}
      OBVIOUS
    <3> QED
      BY <2>1, <3>1
  <2>5. OfStack'
    BY <2>1 DEF OfStack
  <2>6. EligibleSoFar'
    BY <1>0, <2>1 DEF StackInv, EligibleSoFar
  <2>7. /\ StopRemembered' /\ NothingRunsAfterStop' /\ ConditionalStepHadCause'
        /\ ReadyStackDoesNotFail'
    BY <2>4 DEF StopRemembered, NothingRunsAfterStop, ConditionalStepHadCause,
                ReadyStackDoesNotFail
  <2>8. SurfaceInv'
    BY <1>0, <2>1, SurfaceKept
  <2> QED
    BY <2>3, <2>5, <2>6, <2>7, <2>8 DEF StacksIInv, StackInv
<1>3. CASE SkipStep
  BY <1>0, <1>3, TraceGrows DEF SkipStep, StacksTypeOK
<1>4. CASE EvaluateStep
  <2>1. PICK r \in Results : /\ Traced(StepAt, "evaluated", r) /\ result' = r
                             /\ stopped' = shouldStopStep(StepAt, r)
    BY <1>4 DEF EvaluateStep
  <2>2. MoreSteps /\ ~ stopped /\ shouldRunStep(StepAt, trace)
        /\ UNCHANGED <<ruleVars, surfaceVars, stack, progress>>
    BY <1>4 DEF EvaluateStep
  <2>3. stopped' \in BOOLEAN /\ (r \in StepAt.stop_on => stopped')
    <3>1. stopped' = (r \in StepAt.stop_on)
      BY <2>1 DEF shouldStopStep
    <3>2. (r \in StepAt.stop_on) \in BOOLEAN
      OBVIOUS
    <3>3. stopped' \in BOOLEAN
      BY ONLY <3>1, <3>2
    <3> QED
      BY ONLY <3>1, <3>3
  <2>4. r \in StepResults
    BY DEF StepResults
  <2> QED
    BY <2>1, <2>2, <2>3, <2>4, TraceGrows
<1>5. CASE StepFails
  <2>1. /\ MoreSteps /\ ~ stopped /\ shouldRunStep(StepAt, trace)
        /\ getVersionFails(StepAt.key, StepAt.pinned)
        /\ Traced(StepAt, "error", StepAt.on_error_result)
        /\ result' = StepAt.on_error_result
        /\ stopped' = StepAt.stop_on_error
        /\ UNCHANGED <<ruleVars, surfaceVars, stack, progress>>
    BY <1>5 DEF StepFails
  <2>2. StepAt.on_error_result \in StepResults /\ StepAt.stop_on_error \in BOOLEAN
    BY <2>1, RunningStep DEF StackStep
  <2> QED
    BY <2>1, <2>2, TraceGrows
<1>6. CASE AnswerStack
  <2>1. /\ progress = "running" /\ progress' = "answered"
        /\ result' = normalizeStackResult(stack.policy, result, trace)
        /\ UNCHANGED <<ruleVars, surfaceVars, stack, trace, stopped>>
    BY <1>6 DEF AnswerStack
  <2>2. result' = "eligible" => \E i \in DOMAIN trace : trace[i].result = "eligible"
    <3>1. CASE result' = result
      BY <1>0, <3>1 DEF StackInv, EligibleSoFar
    <3>2. CASE result' # result /\ result' = "eligible"
      BY <2>1, <3>2 DEF normalizeStackResult, Evaluated
    <3> QED
      BY <3>1, <3>2
  <2>3. result' \in StepResults
    BY <1>0, <2>1 DEF normalizeStackResult, StepResults, Results, StacksTypeOK
  <2>4. StacksTypes'
    <3>1. StacksTypeOK'
      BY <1>0, <2>1, <2>3 DEF StacksTypeOK, ruleVars, surfaceVars
    <3> QED
      BY <1>0, <2>1, <3>1 DEF StacksTypes, ruleVars, surfaceVars
  <2>5. OfStack' /\ EligibleSoFar'
    BY <1>0, <2>1, <2>2 DEF StackInv, OfStack, EligibleSoFar
  <2>6. /\ StopRemembered' /\ NothingRunsAfterStop' /\ ConditionalStepHadCause'
    BY <1>0, <2>1 DEF StackInv, StopRemembered, Stops, NothingRunsAfterStop,
                      ConditionalStepHadCause
  <2>7. ReadyStackDoesNotFail'
    BY <1>0, <2>1 DEF StackInv, ReadyStackDoesNotFail, decisionStackReadiness, ruleVars
  <2>8. SurfaceInv'
    BY <1>0, <2>1, SurfaceKept
  <2> QED
    BY <2>4, <2>5, <2>6, <2>7, <2>8 DEF StacksIInv, StackInv
<1>7. CASE BeginBatch
  <2>1. /\ profiles = {} /\ run = NoCounts /\ profiles' = Profiles /\ run' = run
        /\ candidates' = <<>> /\ selected' = None
        /\ UNCHANGED <<ruleVars, stackVars, candidates, selected>>
    BY <1>0, <1>7 DEF BeginBatch, SurfaceInv, BatchOver
  <2>2. plan' = surfaceEvaluationPlan(allowed') /\ allowed' \subseteq DecisionKeys
    BY <1>7 DEF BeginBatch
  <2>3. plan' \subseteq DOMAIN Surface /\ PlanIsRest'
    <3> DEFINE keys == allowed'
    <3>1. plan' = surfaceEvaluationPlan(keys) /\ allowed' = keys
      BY <2>2
    <3> HIDE DEF keys
    <3> QED
      BY <2>1, <3>1, FreshPlan
  <2>4. run'.eligible + run'.not_selected + run'.errors = Cardinality(Profiles \ profiles')
    <3>1. Profiles \ profiles' = {} /\ Cardinality({}) = 0
      BY <2>1, FS_EmptySet
    <3>2. run'.eligible = 0 /\ run'.not_selected = 0 /\ run'.errors = 0
      BY <2>1 DEF NoCounts
    <3> QED
      BY <3>1, <3>2
  <2>5. run'.eligible + run'.not_selected + run'.errors = 0
    BY <2>1 DEF NoCounts
  <2>6. StacksTypeOK'
    BY <1>0, <2>1, <2>2, <2>3, <2>4, <2>5 DEF StacksTypeOK, ruleVars, stackVars
  <2>7. StacksTypes'
    BY <1>0, <2>1, <2>6 DEF StacksTypes, ruleVars, stackVars
  <2>8. DOMAIN candidates' = {}
    BY <2>1
  <2>9. SurfaceInv'
    <3>1. NoneSelected' /\ BatchOver' /\ SurfaceSelectsBest'
      BY <2>1, <2>2, <2>8 DEF NoneSelected, BatchOver, SurfaceSelectsBest, surfaceEvaluationPlan
    <3> QED
      BY <2>3, <3>1 DEF SurfaceInv
  <2> QED
    BY <1>0, <2>1, <2>7, <2>9, StackKept DEF StacksIInv
<1>8. CASE EvaluateCandidate
  BY <1>8, CandidateInv
<1>9. CASE ProfileDone
  BY <1>9, CountOne DEF ProfileDone
<1>10. CASE ProfileFails
  BY <1>10, CountOne DEF ProfileFails
<1>11. CASE UNCHANGED stacksVars
  <2>1. UNCHANGED <<ruleVars, stackVars>> /\ UNCHANGED surfaceVars
    BY <1>11 DEF stacksVars
  <2>2. StacksTypes'
    BY <1>0, <2>1 DEF StacksTypes, StacksTypeOK, ruleVars, stackVars, surfaceVars
  <2> QED
    BY <1>0, <2>1, <2>2, StackKept, SurfaceKept DEF StacksIInv
<1> QED
  BY <1>1, <1>2, <1>3, <1>4, <1>5, <1>6, <1>7, <1>8, <1>9, <1>10, <1>11 DEF StacksNext

-----------------------------------------------------------------------------
(* The inductive invariant holds in every reachable state. *)
LEMMA StacksInvariant == StacksSpec => []StacksIInv
BY StacksInitInv, StacksStepInv, PTL DEF StacksSpec

(***************************************************************************)
(* Every variable of stacks and surfaces keeps its type, and the counts of *)
(* a batch add up to the profiles that were done.                          *)
(***************************************************************************)
THEOREM StacksTypeCorrect == StacksSpec => []StacksTypeOK
<1>1. StacksIInv => StacksTypeOK
  BY DEF StacksIInv, StacksTypes
<1> QED
  BY <1>1, StacksInvariant, PTL

(***************************************************************************)
(* The trace of a stack explains its answer.                               *)
(***************************************************************************)
THEOREM TraceSafe == StacksSpec => []StackTraceSound
<1>1. StacksIInv => StackTraceSound
  BY DEF StacksIInv, StackInv, EligibleSoFar, StackTraceSound, EligibleHasStep
<1> QED
  BY <1>1, StacksInvariant, PTL

(***************************************************************************)
(* A stack that readiness accepts does not fail.                           *)
(***************************************************************************)
THEOREM ReadySafe == StacksSpec => []ReadyStackDoesNotFail
<1>1. StacksIInv => ReadyStackDoesNotFail
  BY DEF StacksIInv, StackInv
<1> QED
  BY <1>1, StacksInvariant, PTL

(***************************************************************************)
(* A surface selects the first eligible rule by priority.                  *)
(***************************************************************************)
THEOREM SurfaceSafe == StacksSpec => []SurfaceSelectsBest
<1>1. StacksIInv => SurfaceSelectsBest
  BY DEF StacksIInv, SurfaceInv
<1> QED
  BY <1>1, StacksInvariant, PTL
=============================================================================
