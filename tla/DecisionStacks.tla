---------------------------- MODULE DecisionStacks ----------------------------
(***************************************************************************)
(* Decisions made of several rule sets: a stack evaluates its steps in     *)
(* order, each on the version published when the step's turn comes; a      *)
(* surface evaluates its in-app rules by priority and selects the first    *)
(* eligible one; the precompute batch does so for many profiles.  Rules    *)
(* are published, archived and imported between the steps.  What a rule    *)
(* set decides is any result.                                              *)
(***************************************************************************)
EXTENDS Naturals, Sequences, FiniteSets

CONSTANTS
    DecisionKeys,           \* decision keys
    Stacks,         \* stacks to look at, as upsertDecisionStack normalises them
    Surface,        \* the in-app rules of the surface, highest priority first
    Profiles,       \* profiles of one precompute batch
    MaxChanges,     \* the bound on changes of rules
    None

Results == {"eligible", "ineligible", "suppressed"}
StepResults == Results \cup {"deferred"}
Modes == {"always", "on_result", "on_output"}
Policies == {"last_evaluated", "any_eligible", "all_eligible"}

\* The outputs of a rule set are a function of its result here.
StackStep == [key : DecisionKeys, mode : Modes, required : Results, pinned : BOOLEAN, stop_on : SUBSET Results,
         stop_on_error : BOOLEAN, on_error_result : StepResults]

ASSUME StacksAssumption ==
    \A s \in Stacks : /\ s.policy \in Policies
                      /\ s.status \in {"draft", "active", "archived"}
                      /\ s.steps \in Seq(StackStep) \ {<<>>}
ASSUME SurfaceAssumption ==
    /\ Surface \in Seq(DecisionKeys)
    /\ \A i, j \in DOMAIN Surface : Surface[i] = Surface[j] => i = j
ASSUME ProfilesAssumption == IsFiniteSet(Profiles)
ASSUME NoneAssumption == None \notin DecisionKeys

VARIABLES
    rules,          \* key -> missing, or status and whether it has a published version
    changes,        \* changes of rules so far
    stack,          \* the stack evaluated, or None
    allowed,        \* the decision_keys of the batch's token
    trace,          \* the steps evaluated, skipped or failed so far
    stopped,        \* the stack has stopped
    result,         \* finalResult, and the answer when the stack is done
    progress,       \* "", "running", "answered" or "refused"
    profiles,       \* profiles of the batch that wait
    plan,           \* places in Surface that the current profile has still to evaluate
    selected,       \* the selected candidate of the current profile
    candidates,     \* its candidates so far, with their results
    run             \* the counts of the precompute run

ruleVars == <<rules, changes>>
stackVars == <<stack, trace, stopped, result, progress>>
surfaceVars == <<allowed, profiles, plan, selected, candidates, run>>
stacksVars == <<ruleVars, stackVars, surfaceVars>>

Rule == [status : {"missing", "draft", "published", "archived"}, version : BOOLEAN]
NoCounts == [eligible |-> 0, not_selected |-> 0, errors |-> 0]

StacksInit ==
    /\ rules \in [DecisionKeys -> {r \in Rule : /\ r.status \in {"missing", "draft"} => ~ r.version
                                        /\ r.status = "published" => r.version}]
    /\ changes = 0
    /\ stack = None
    /\ allowed = {}
    /\ trace = <<>> /\ stopped = FALSE /\ result = "deferred" /\ progress = ""
    /\ profiles = {} /\ plan = {} /\ selected = None /\ candidates = <<>> /\ run = NoCounts

(***************************************************************************)
(* The rules: publish, edit, archive, and an import that may replace the   *)
(* versions.  getVersion looks for a version only, not for the status.     *)
(***************************************************************************)
RuleChanges(k) ==
    /\ changes < MaxChanges
    /\ changes' = changes + 1
    /\ \E to \in Rule : /\ to.status = "published" => to.version
                        /\ to.status # "missing"
                        /\ rules' = [rules EXCEPT ![k] = to]
    /\ UNCHANGED <<stackVars, surfaceVars>>

getVersionFails(k, pinned) == rules[k].status = "missing" \/ ~ rules[k].version \/ pinned

(***************************************************************************)
(* Stacks.                                                                 *)
(***************************************************************************)
\* Mut... are faulty variants of the definition that follows them.
MutErrorIsPrevious(steps) == {i \in DOMAIN steps : steps[i].status # "skipped"}

Evaluated(steps) == {i \in DOMAIN steps : steps[i].status = "evaluated"}

\* on_result and on_output look at the last step that was evaluated; a step
\* that failed, or was skipped, is passed over.
shouldRunStep(step, steps) ==
    \/ step.mode = "always"
    \/ \E i \in Evaluated(steps) : /\ steps[i].result = step.required
                                  /\ \A n \in Evaluated(steps) : n <= i

shouldStopStep(step, r) == r \in step.stop_on

normalizeStackResult(policy, final, steps) ==
    CASE policy = "any_eligible" /\ (\E i \in DOMAIN steps : steps[i].result = "eligible") -> "eligible"
      [] policy = "all_eligible" ->
            IF Evaluated(steps) # {} /\ \A i \in Evaluated(steps) : steps[i].result = "eligible"
            THEN "eligible" ELSE "deferred"
      [] OTHER -> final

StepAt == stack.steps[Len(trace) + 1]
Traced(step, status, r) == trace' = Append(trace, [key |-> step.key, status |-> status, result |-> r])

\* The bound: a behavior evaluates the stack or a batch.  Neither reads what
\* the other writes.
evaluateDecisionStackRequest ==
    /\ progress = ""
    /\ profiles = {} /\ run = NoCounts
    /\ stack' \in Stacks
    /\ progress' = IF stack'.status = "archived" THEN "refused" ELSE "running"
    /\ UNCHANGED <<ruleVars, surfaceVars, trace, stopped, result>>

MoreSteps == progress = "running" /\ Len(trace) < Len(stack.steps)

SkipStep ==
    /\ MoreSteps
    /\ stopped \/ ~ shouldRunStep(StepAt, trace)
    /\ Traced(StepAt, "skipped", "none")
    /\ UNCHANGED <<ruleVars, surfaceVars, stack, stopped, result, progress>>

EvaluateStep ==
    /\ MoreSteps
    /\ ~ stopped /\ shouldRunStep(StepAt, trace)
    /\ ~ getVersionFails(StepAt.key, StepAt.pinned)
    /\ \E r \in Results :
        /\ Traced(StepAt, "evaluated", r)
        /\ result' = r
        /\ stopped' = shouldStopStep(StepAt, r)
    /\ UNCHANGED <<ruleVars, surfaceVars, stack, progress>>

\* A missing rule or version, or a pinned version that does not exist.
StepFails ==
    /\ MoreSteps
    /\ ~ stopped /\ shouldRunStep(StepAt, trace)
    /\ getVersionFails(StepAt.key, StepAt.pinned)
    /\ Traced(StepAt, "error", StepAt.on_error_result)
    /\ result' = StepAt.on_error_result
    /\ stopped' = StepAt.stop_on_error
    /\ UNCHANGED <<ruleVars, surfaceVars, stack, progress>>

AnswerStack ==
    /\ progress = "running"
    /\ Len(trace) = Len(stack.steps)
    /\ result' = normalizeStackResult(stack.policy, result, trace)
    /\ progress' = "answered"
    /\ UNCHANGED <<ruleVars, surfaceVars, stack, trace, stopped>>

MutAskStatusOnly(s) == \A i \in DOMAIN s.steps : rules[s.steps[i].key].status \notin {"missing", "archived"}

\* The error checks of decisionStackReadiness; the warnings block nothing.
\* A pinned version is not looked up.
decisionStackReadiness(s) ==
    \A i \in DOMAIN s.steps :
        /\ rules[s.steps[i].key].status \notin {"missing", "archived"}
        /\ rules[s.steps[i].key].version

(***************************************************************************)
(* Surfaces.                                                               *)
(***************************************************************************)
\* A token without decision_keys may evaluate every rule.
surfaceEvaluationPlan(keys) ==
    {i \in DOMAIN Surface : /\ rules[Surface[i]].status = "published"
                            /\ keys = {} \/ Surface[i] \in keys}

\* The candidate whose turn it is: the one of the highest priority left.
IsNext(i) == i \in plan /\ \A n \in plan : i <= n

BeginBatch ==
    /\ profiles = {} /\ run = NoCounts
    /\ progress = ""
    /\ profiles' = Profiles
    /\ allowed' \in SUBSET DecisionKeys
    /\ plan' = surfaceEvaluationPlan(allowed')
    /\ UNCHANGED <<ruleVars, stackVars, selected, candidates, run>>

MutLastEligible(k, r) == IF r = "eligible" THEN k ELSE selected

\* The first eligible candidate, the later ones are evaluated all the same.
Select(k, r) == IF selected = None /\ r = "eligible" THEN k ELSE selected

\* evaluateClientRequest, or what the failure policy decides for the rule when
\* the profile lookup fails: any result.
EvaluateCandidate ==
    /\ profiles # {}
    /\ \E i \in plan, r \in Results :
        /\ IsNext(i)
        /\ ~ getVersionFails(Surface[i], FALSE)
        /\ selected' = Select(Surface[i], r)
        /\ candidates' = Append(candidates, [key |-> Surface[i], result |-> r])
        /\ plan' = plan \ {i}
    /\ UNCHANGED <<ruleVars, stackVars, allowed, profiles, run>>

MutCountBoth(count) ==
    run' = [run EXCEPT !.eligible = @ + IF count = "eligible" THEN 1 ELSE 0, !.not_selected = @ + 1]

Count(count) == run' = [run EXCEPT ![count] = @ + 1]

\* The next profile: listRuleSets is asked again.
NextProfile(count) ==
    /\ \E p \in profiles : profiles' = profiles \ {p}
    /\ plan' = IF profiles' = {} THEN {} ELSE surfaceEvaluationPlan(allowed)
    /\ selected' = None /\ candidates' = <<>>
    /\ Count(count)
    /\ UNCHANGED <<ruleVars, stackVars, allowed>>

ProfileDone ==
    /\ profiles # {} /\ plan = {}
    /\ NextProfile(IF selected # None THEN "eligible" ELSE "not_selected")

\* A rule whose versions are gone since the plan, or a profile the token may
\* not ask for: the candidates evaluated before count for nothing.
ProfileFails ==
    /\ profiles # {}
    /\ \/ \E i \in plan : IsNext(i) /\ getVersionFails(Surface[i], FALSE)
       \/ candidates = <<>> /\ allowed # {}
    /\ NextProfile("errors")

StacksNext ==
    \/ \E k \in DecisionKeys : RuleChanges(k)
    \/ evaluateDecisionStackRequest \/ SkipStep \/ EvaluateStep \/ StepFails \/ AnswerStack
    \/ BeginBatch \/ EvaluateCandidate \/ ProfileDone \/ ProfileFails

StacksSpec == StacksInit /\ [][StacksNext]_stacksVars

-----------------------------------------------------------------------------

\* Every variable keeps its type, and the counts of a precompute run and the
\* profiles that wait add up to the batch.
StacksTypeOK ==
    /\ rules \in [DecisionKeys -> Rule]
    /\ stack \in Stacks \cup {None} /\ allowed \subseteq DecisionKeys /\ stopped \in BOOLEAN
    /\ result \in StepResults
    /\ progress \in {"", "running", "answered", "refused"}
    /\ profiles \subseteq Profiles
    /\ plan \subseteq DOMAIN Surface /\ selected \in DecisionKeys \cup {None}
    /\ LET counted == run.eligible + run.not_selected + run.errors
       IN  counted = IF profiles = {} /\ run = NoCounts THEN 0 ELSE Cardinality(Profiles \ profiles)

NothingRunsAfterStop ==
    \A i, j \in DOMAIN trace :
        /\ i < j
        /\ \/ trace[i].status = "evaluated" /\ trace[i].result \in stack.steps[i].stop_on
           \/ trace[i].status = "error" /\ stack.steps[i].stop_on_error
        => trace[j].status = "skipped"

ConditionalStepHadCause ==
    \A j \in DOMAIN trace :
        trace[j].status # "skipped" /\ stack.steps[j].mode # "always" =>
            \E i \in 1 .. j - 1 :
                /\ trace[i].status = "evaluated" /\ trace[i].result = stack.steps[j].required
                /\ \A n \in i + 1 .. j - 1 : trace[n].status # "evaluated"

EligibleHasStep ==
    progress = "answered" /\ result = "eligible" => \E i \in DOMAIN trace : trace[i].result = "eligible"

\* The trace of a stack explains its answer.  Once a step was evaluated to
\* one of its stop results, or failed with stop_on_error, no later step runs,
\* whatever its mode.  A conditional step that ran has its cause among the
\* steps that were evaluated, and no later one contradicts it: a failed step
\* with a convenient on_error_result starts nothing.  And a stack answers
\* eligible only when some step came out eligible: also when all its steps
\* were skipped or failed, under every result policy.
StackTraceSound == NothingRunsAfterStop /\ ConditionalStepHadCause /\ EligibleHasStep

\* A step fails only for a reason readiness shows when asked now, a version
\* pinned by the step, or a rule changed during the evaluation.
ReadyStackDoesNotFail ==
    (\E i \in DOMAIN trace : trace[i].status = "error" /\ ~ stack.steps[i].pinned) =>
        ~ decisionStackReadiness(stack) \/ changes > 0

\* The candidates are evaluated by priority, each is allowed to the token, and
\* the selected one is the first that came out eligible, although rules change
\* between the candidates.
SurfaceSelectsBest ==
    /\ \A i \in DOMAIN candidates : allowed = {} \/ candidates[i].key \in allowed
    /\ \A i, n \in DOMAIN candidates, x, y \in DOMAIN Surface :
        candidates[i].key = Surface[x] /\ candidates[n].key = Surface[y] /\ x < y => i < n
    /\ selected # None =>
        \E i \in DOMAIN candidates :
            /\ candidates[i] = [key |-> selected, result |-> "eligible"]
            /\ \A n \in 1 .. i - 1 : candidates[n].result # "eligible"
=============================================================================
