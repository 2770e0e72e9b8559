-------------------------- MODULE DecisionRunProofs --------------------------
(***************************************************************************)
(* Every step of the run MCDecisions is a step of one of its three parts   *)
(* that leaves the others alone.  So what DecisionProofs and               *)
(* NativeStoreProofs prove of the parts holds of the run, for every value  *)
(* of the constants.                                                       *)
(***************************************************************************)
EXTENDS DecisionProofs, NativeStoreProofs, MCDecisions

(***************************************************************************)
(* What decides, what a stack or a surface makes of it, and the rows it    *)
(* was published from: all that the run checks holds of every instance.    *)
(***************************************************************************)
THEOREM RunSafe ==
  MCSpec => [](/\ TypesOK
               /\ NeverTooDeep /\ NoDanglingRoute /\ NoCircularWalk /\ FirstTrueBranchDecides
               /\ StackTraceSound /\ ReadyStackDoesNotFail /\ SurfaceSelectsBest
               /\ DurableUnlessOverlapped /\ SignedWasReviewed)
<1> DEFINE runVars == <<part, vars, stacksVars, nativeVars>>
<1>1. MCSpec => Spec
  <2>1. MCInit => Init
    BY DEF MCInit
  <2>2. [MCNext]_runVars => [Next]_vars
    BY DEF MCNext
  <2> QED
    BY <2>1, <2>2, PTL DEF MCSpec, Spec
<1>2. MCSpec => StacksSpec
  <2>1. MCInit => StacksInit
    BY DEF MCInit
  <2>2. [MCNext]_runVars => [StacksNext]_stacksVars
    BY DEF MCNext
  <2> QED
    BY <2>1, <2>2, PTL DEF MCSpec, StacksSpec
<1>3. MCSpec => NativeSpec
  <2>1. MCInit => NativeInit
    BY DEF MCInit
  <2>2. [MCNext]_runVars => [NativeNext]_nativeVars
    BY DEF MCNext
  <2> QED
    BY <2>1, <2>2, PTL DEF MCSpec, NativeSpec
<1>4. TypeOK /\ StacksTypeOK /\ NativeTypeOK => TypesOK
  BY DEF TypesOK
<1> QED
  BY <1>1, <1>2, <1>3, <1>4, TypeCorrect, DepthSafe, RoutesSafe, CircleSafe, BranchesSafe, StacksTypeCorrect,
     TraceSafe, ReadySafe, SurfaceSafe, NativeTypeCorrect, DurableSafe, SignedSafe, PTL
=============================================================================
