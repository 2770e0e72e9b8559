--------------------------- MODULE AssistantPlans ---------------------------
(***************************************************************************)
(* The assistant: the server plans drafts, the page shows the plan with a  *)
(* checkbox for each action, the approved actions are applied one after    *)
(* the other, and a rollback list takes them back (src/src/                *)
(* assistantPlanner.js, assistantProvider.js and the routes of server.js). *)
(*                                                                         *)
(* Applying and rolling back run without an await, so each is one step on  *)
(* the store; the answers come back to the page in any order, with other   *)
(* people's edits and a newer plan in between.  A rule set is reduced to   *)
(* its status and draft, a message to its content.                         *)
(***************************************************************************)
EXTENDS Naturals, Sequences, SequencesExt

CONSTANTS
    PlanKeys,      \* decision keys
    PlanMessages,  \* message ids
    Contents,      \* drafts and message contents
    MaxActions,    \* bound on the actions of a plan
    MaxCalls,      \* bound on the calls of the page and of other people
    Missing        \* no such row, nothing to show

VARIABLES
    tables,     \* the rule_sets and messages tables
    plan,       \* cachedAssistantPlan.actions
    rollback,   \* cachedAssistantRollback
    answers,    \* answers on their way to the page
    applied,    \* history: the apply that ended last, and the tables around it
    calls       \* calls so far

planVars == <<tables, plan, rollback, answers, applied, calls>>

Rule == [status : {"draft", "published", "archived"}, draft : Contents]
Tables == [rules : [PlanKeys -> Rule \cup {Missing}], messages : [PlanMessages -> Contents \cup {Missing}]]

ASSUME PlanAssumption == MaxActions \in Nat /\ Contents # {} /\ Missing \notin Rule \cup Contents

Action == [action : {"upsert_message"}, id : PlanMessages, object : Contents]
            \cup [action : {"create_rule_draft", "update_rule_draft"}, id : PlanKeys, object : Contents]
Entry == [action : {"restore_message", "manual_review"}, id : PlanMessages, object : Contents \cup {Missing}]
           \cup [action : {"restore_rule_draft", "archive_rule_draft"}, id : PlanKeys, object : Contents \cup {Missing}]

\* assistantActionKey
actionKey(item) == <<item.action, item.id>>

-----------------------------------------------------------------------------
(***************************************************************************)
(* The plan: without a provider a message and a rule set, created or       *)
(* updated by what the tables hold at that time; from a provider any list  *)
(* of the three actions.                                                   *)
(***************************************************************************)
createAssistantPlan(key, message, object) ==
    LET rule == [action |-> IF tables.rules[key] = Missing THEN "create_rule_draft" ELSE "update_rule_draft",
                 id |-> key, object |-> object]
    IN  {<<rule>>, <<[action |-> "upsert_message", id |-> message, object |-> object], rule>>}

sanitizeProviderPlan == SeqOf(Action, MaxActions) \ {<<>>}

Plans == sanitizeProviderPlan
           \cup UNION {createAssistantPlan(key, message, object) :
                          key \in PlanKeys, message \in PlanMessages, object \in Contents}

-----------------------------------------------------------------------------
(***************************************************************************)
(* Applying a plan: one action on [tables, rollback, refused].  An action  *)
(* that throws ends it, and what came before stays.                        *)
(***************************************************************************)
entry(action, id, object) == <<[action |-> action, id |-> id, object |-> object]>>

applyMessage(was, item) ==
    LET before == was.tables.messages[item.id]
    IN  [was EXCEPT !.tables.messages[item.id] = item.object,
                    !.rollback = @ \o IF before = Missing THEN entry("manual_review", item.id, Missing)
                                                          ELSE entry("restore_message", item.id, before)]

createRuleDraft(was, item) ==
    IF was.tables.rules[item.id] # Missing THEN [was EXCEPT !.refused = TRUE]
    ELSE [was EXCEPT !.tables.rules[item.id] = [status |-> "draft", draft |-> item.object],
                     !.rollback = @ \o entry("archive_rule_draft", item.id, Missing)]

Edited(rule, object) == [status |-> IF rule.status = "archived" THEN "archived" ELSE "draft", draft |-> object]

MutRestoreNew(was, item) ==
    IF was.tables.rules[item.id] = Missing THEN [was EXCEPT !.refused = TRUE]
    ELSE [was EXCEPT !.tables.rules[item.id] = Edited(@, item.object),
                     !.rollback = @ \o entry("restore_rule_draft", item.id, item.object)]
updateRuleDraft(was, item) ==
    IF was.tables.rules[item.id] = Missing THEN [was EXCEPT !.refused = TRUE]
    ELSE [was EXCEPT !.tables.rules[item.id] = Edited(@, item.object),
                     !.rollback = @ \o entry("restore_rule_draft", item.id, was.tables.rules[item.id].draft)]

applyAction(was, item, approved) ==
    CASE was.refused \/ actionKey(item) \notin approved -> was
      [] OTHER -> CASE item.action = "upsert_message"    -> applyMessage(was, item)
                    [] item.action = "create_rule_draft" -> createRuleDraft(was, item)
                    [] item.action = "update_rule_draft" -> updateRuleDraft(was, item)

applyAssistantPlan(approved) ==
    LET after[n \in 0 .. Len(plan)] ==
          IF n = 0 THEN [tables |-> tables, rollback |-> <<>>, refused |-> FALSE]
          ELSE applyAction(after[n - 1], plan[n], approved)
    IN  after[Len(plan)]

(***************************************************************************)
(* Rolling back: the list from its first entry to its last.                *)
(***************************************************************************)
restore(was, item) ==
    CASE item.action = "restore_message"    -> [was EXCEPT !.messages[item.id] = item.object]
      [] item.action = "restore_rule_draft" -> [was EXCEPT !.rules[item.id] = Edited(@, item.object)]
      [] item.action = "archive_rule_draft" -> [was EXCEPT !.rules[item.id].status = "archived"]
      [] OTHER                              -> was

rollbackAssistantPlan ==
    LET after[n \in 0 .. Len(rollback)] ==
          IF n = 0 THEN tables ELSE restore(after[n - 1], rollback[n])
    IN  after[Len(rollback)]

-----------------------------------------------------------------------------
\* Contents are interchangeable: what there is at first has one of them.
PlanInit ==
    /\ LET first == CHOOSE content \in Contents : TRUE
       IN  tables \in [rules : [PlanKeys -> {Missing, [status |-> "published", draft |-> first]}],
                        messages : [PlanMessages -> {Missing, first}]]
    /\ plan = <<>> /\ rollback = <<>> /\ answers = <<>>
    /\ applied = Missing
    /\ calls = 0

OneCall == calls < MaxCalls /\ calls' = calls + 1

(* POST /v1/assistant/plan is answered; after an error there is no plan *)
ShowPlan ==
    /\ OneCall
    /\ plan' \in Plans \cup {<<>>}
    /\ rollback' = <<>>
    /\ UNCHANGED <<tables, answers, applied>>

(* POST /v1/assistant/apply, up to its answer; the save may fail *)
Apply(approved, saved) ==
    /\ OneCall
    /\ approved # {}
    /\ LET result == applyAssistantPlan(approved)
           ok == saved /\ ~ result.refused
       IN  /\ tables' = result.tables
           /\ answers' = Append(answers, [ok |-> ok, rollback |-> IF ok THEN result.rollback ELSE <<>>])
           /\ applied' = IF ok THEN [plan |-> plan, rollback |-> result.rollback,
                                     before |-> tables, after |-> result.tables] ELSE Missing
    /\ UNCHANGED <<plan, rollback>>

(* POST /v1/assistant/rollback, up to its answer; the save may fail *)
Rollback(saved) ==
    /\ OneCall
    /\ rollback # <<>>
    /\ tables' = rollbackAssistantPlan
    /\ answers' = Append(answers, [ok |-> saved, rollback |-> <<>>])
    /\ UNCHANGED <<plan, rollback, applied>>

(* the page has the answer; after an error it keeps the list it had *)
ShowAnswer(n) ==
    /\ answers' = RemoveAt(answers, n)
    /\ rollback' = IF answers[n].ok THEN answers[n].rollback ELSE rollback
    /\ UNCHANGED <<tables, plan, applied, calls>>

(* other people: create, edit, publish, archive, message edit *)
OthersEdit ==
    /\ OneCall
    /\ \/ \E key \in PlanKeys, content \in Contents :
             tables' = [tables EXCEPT !.rules[key] = IF @ = Missing THEN [status |-> "draft", draft |-> content]
                                                                    ELSE Edited(@, content)]
       \/ \E key \in PlanKeys, status \in {"published", "archived"} :
             /\ tables.rules[key] # Missing
             /\ tables.rules[key].status # "archived"
             /\ tables' = [tables EXCEPT !.rules[key].status = status]
       \/ \E message \in PlanMessages, content \in Contents :
             tables' = [tables EXCEPT !.messages[message] = content]
    /\ UNCHANGED <<plan, rollback, answers, applied>>

PlanNext ==
    \/ ShowPlan
    \/ \E approved \in SUBSET {actionKey(plan[n]) : n \in DOMAIN plan}, saved \in BOOLEAN : Apply(approved, saved)
    \/ \E saved \in BOOLEAN : Rollback(saved)
    \/ \E n \in DOMAIN answers : ShowAnswer(n)
    \/ OthersEdit

PlanSpec == PlanInit /\ [][PlanNext]_planVars

-----------------------------------------------------------------------------
PlanTypeOK ==
    /\ tables \in Tables
    /\ \A n \in DOMAIN plan : plan[n] \in Action
    /\ \A n \in DOMAIN rollback : rollback[n] \in Entry
    /\ \A n \in DOMAIN answers : answers[n].rollback = <<>> \/ answers[n].ok

Once(list) == \A m, n \in DOMAIN list : list[m].id = list[n].id => m = n

\* Nothing that was there before is different, what was created is archived.
Restored(before, now) ==
    /\ \A key \in PlanKeys :
          IF before.rules[key] # Missing THEN now.rules[key].draft = before.rules[key].draft
          ELSE now.rules[key] # Missing => now.rules[key].status = "archived"
    /\ \A message \in PlanMessages : before.messages[message] \in {Missing, now.messages[message]}

(***************************************************************************)
(* A rollback with the list the last apply returned, on the tables as that *)
(* apply left them, restores every draft and message there was and         *)
(* archives what the plan created, whichever of its actions were approved  *)
(* and whatever the page was told in between.  A plan with two actions on  *)
(* one item is the exception: the list is not reversed, and the second     *)
(* entry puts back what the first action had written.                      *)
(***************************************************************************)
RollbackRestores ==
    [][\A kept \in BOOLEAN :
          /\ Rollback(kept)
          /\ applied # Missing /\ rollback = applied.rollback /\ tables = applied.after
          /\ Once(applied.plan)
          => Restored(applied.before, tables')]_planVars
=============================================================================
