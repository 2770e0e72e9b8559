------------------------------ MODULE MCEditing -------------------------------
(* What people do on the administration page, one beside the other: the     *)
(* handlers of its editors, how the rule editor turns a definition into     *)
(* fields and back, the assistant's plans, and the actions on campaigns.    *)
(* `part' says which of them a behaviour is about, the others stay in an    *)
(* initial state.                                                           *)
EXTENDS Console, RuleBuilder, AssistantPlans, CampaignActions, TLC

CONSTANT Parts
VARIABLE part

-----------------------------------------------------------------------------
\* Conditions of one and two leaves, groups inside groups, and what the page
\* or the server refuses; values of every type, that read back or do not.
Digits == {"0", "7"}
Red   == Str(<<"red">>)
Seven == [type |-> "number", text |-> <<"7">>]
Scalars == {Str(t) : t \in {<<"">>, <<"red">>, <<" red">>, <<"7">>, <<"true">>, <<"red", "7">>}}
             \cup {[type |-> "number", text |-> <<n>>] : n \in Digits}
             \cup {[type |-> "boolean", text |-> <<"true">>], Null}
Lists == {List(items) : items \in {<<>>, <<Red>>, <<Seven, Red>>, <<Null>>, <<Str(<<"red", "7">>)>>, <<Str(<<" red">>)>>}}

Leaves == {Leaf("k1", operator, value, "") : operator \in {"equals", "in"}, value \in Scalars \cup Lists}
            \cup {Leaf("k1", "is_blank", Absent, ""), Leaf("k1", "equals", Absent, "k2"), Leaf("k1", "equals", Absent, ""),
                  Leaf("k2", "equals", Red, "")}
FewLeaves == {Leaf("k1", "equals", Red, ""), Leaf("k2", "in", List(<<Seven>>), ""), Leaf("k2", "is_blank", Absent, "")}

Pairs(firsts, seconds) == {[op |-> o, of |-> <<x, y>>] : o \in {"all", "any"}, x \in firsts, y \in seconds}
Nested == Pairs(FewLeaves, Pairs(FewLeaves, FewLeaves))

MCConditions ==
  Leaves \cup Pairs(Leaves, FewLeaves) \cup Nested
    \cup {[op |-> o, of |-> <<x>>] : o \in {"all", "any", "not"}, x \in FewLeaves}
    \cup {[op |-> o, of |-> <<x>>] : o \in {"all", "not"}, x \in Nested}
    \cup {[op |-> "expression"], [op |-> "none"]}
MCTyped == {<<"">>, <<"red">>, <<" red">>, <<"7">>, <<"red", "7">>, <<"null">>}
MCTypedDrafts == {Leaf("k1", "unsupported", Red, ""), Leaf("other", "equals", Red, ""), Leaf("k1", "equals", Absent, "other"),
                  Leaf("", "equals", Red, ""), Leaf("k1", "in", List(<<Seven, Red>>), ""), [op |-> "none"]}
                   \cup Pairs({Leaf("k1", "equals", Red, "")}, Pairs({Leaf("k2", "is_blank", Absent, "")}, {Leaf("other", "equals", Red, "")}))
MCBare == [s \in Strings |-> CASE s = " red" -> "red" [] s = " 7" -> "7" [] s = " " -> "" [] OTHER -> s]
MCSpaced == [s \in Strings |-> CASE s = "red" -> " red" [] s = "7" -> " 7" [] s = "" -> " " [] OTHER -> s]
MCVisitors == [{"k1", "k2"} -> Scalars]

-----------------------------------------------------------------------------
ConsoleAtRest == /\ kind = "rule"
                 /\ stored = [i \in Items |-> Original(i)]
                 /\ form.key = CHOOSE i \in Items : TRUE
BuilderAtRest == draft = Leaf("k2", "equals", Red, "")
AssistantAtRest == tables = [rules |-> [key \in PlanKeys |-> Missing], messages |-> [id \in PlanMessages |-> Missing]]
CampaignsAtRest == workflow = TRUE /\ assets = [id \in Ids |-> NoAsset]

\* Two message ids whose copies get one id.
MCCopyId(id) == CASE id = "rule" -> "rule_copy" [] id \in {"hero", "Hero"} -> "hero_copy" [] OTHER -> "beyond"

Init == /\ part \in Parts
        /\ ConsoleInit  /\ (part # "console" => ConsoleAtRest)
        /\ part = "builder" \/ BuilderAtRest
        /\ BuilderInit
        /\ PlanInit     /\ (part # "assistant" => AssistantAtRest)
        /\ part = "campaigns" \/ CampaignsAtRest
        /\ CampaignInit

Next == /\ \/ part = "console" /\ ConsoleNext /\ UNCHANGED <<builderVars, planVars, campaignVars>>
           \/ part = "builder" /\ BuilderNext /\ UNCHANGED <<consoleVars, planVars, campaignVars>>
           \/ part = "assistant" /\ PlanNext /\ UNCHANGED <<consoleVars, builderVars, campaignVars>>
           \/ part = "campaigns" /\ CampaignNext /\ UNCHANGED <<consoleVars, builderVars, planVars>>
        /\ UNCHANGED part

Spec == Init /\ [][Next]_<<part, consoleVars, builderVars, planVars, campaignVars>>

Symmetry == Permutations(Items) \cup Permutations(Handlers)

\* Every variable of the four parts keeps its type.
TypesOK == ConsoleTypeOK /\ BuilderTypeOK /\ PlanTypeOK /\ CampaignTypeOK
=============================================================================
