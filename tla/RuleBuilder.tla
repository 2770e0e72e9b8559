---------------------------- MODULE RuleBuilder ----------------------------
(***************************************************************************)
(* The branch builder of the rule editor (public/app.js): a definition is  *)
(* taken apart into the fields of a form, and put together again whenever  *)
(* a field changes and before every save.  The evaluator reads what comes  *)
(* out, so the way there and back must not change a decision.              *)
(*                                                                         *)
(* A text is the sequence of its pieces between commas; blanks are only in *)
(* front of a piece.  A literal is a text with the type JSON gives it; a   *)
(* value is a literal or a list.  A key stands for the source with the     *)
(* key.  A definition is the condition of its one branch; what the server  *)
(* says of the rest of it, the number of branches, their ids, results and  *)
(* outputs, the fallback, the declared inputs, is left open.               *)
(***************************************************************************)
EXTENDS Naturals, Sequences, SequencesExt

CONSTANTS
    Strings,        \* keys, and the pieces texts are made of
    Inputs,         \* keys of the sources the server supports
    Bare,           \* piece -> the piece without its outer blanks
    Spaced,         \* piece -> the piece with a blank in front
    Numerals,       \* pieces that read as numbers
    Zero,           \* the numeral that is falsy
    Conditions,         \* definitions, each the condition of its one branch
    Typed,          \* texts a user types into a value field
    TypedDrafts,    \* definitions a user types into the draft field
    Visitors,       \* key -> literal: what a profile answers
    Absent

VARIABLES
    draft,         \* the draft the server has: its branches' conditions
    json,           \* the draft field of the form
    builder,        \* builderBranches: the condition fields
    typed,          \* whether the fields hold what was typed as a definition
    happened        \* what happened last

builderVars == <<draft, json, builder, typed, happened>>

(***************************************************************************)
(* Literals and fields.                                                    *)
(***************************************************************************)
Empty == <<"">>
Str(text) == [type |-> "string", text |-> text]
Null == [type |-> "null", text |-> <<"null">>]
List(items) == [type |-> "list", items |-> items]

TextType == Seq(Strings) \ {<<>>}
Scalar == [type : {"string"}, text : TextType] \cup [type : {"number"}, text : {<<n>> : n \in Numerals}]
            \cup [type : {"boolean"}, text : {<<"true">>, <<"false">>}] \cup {Null}
Value == Scalar \cup [type : {"list"}, items : Seq(Scalar)] \cup {Absent}

\* The operators of the menu, all of which the server supports, and others.
Supported == {"equals", "in", "is_blank"}
Operators == Supported \cup {"unsupported"}
LeafType == [op : {"leaf"}, key : Strings, operator : Operators, value : Value, from : Strings]
RowType == [key : Strings, operator : Operators, mode : {"value", "field"}, value : Scalar \ {Null}, from : Strings]

\* What is not nested deeper than the builder looks has leaves as they should be.
Proper(group) ==
    /\ group.op = "leaf" => group \in LeafType
    /\ group.op \in {"all", "any"} =>
         /\ group.of \in Seq({group.of[k] : k \in DOMAIN group.of})
         /\ \A k \in DOMAIN group.of : group.of[k].op = "leaf" => group.of[k] \in LeafType

ASSUME BuilderAssumption ==
    /\ Numerals \cup {"", "k1", "true", "false", "null"} \subseteq Strings
    /\ "k1" \in Inputs /\ Inputs \subseteq Strings \ {""}
    /\ Numerals \cap {"true", "false", "null"} = {}
    /\ Bare \in [Strings -> Strings] /\ Spaced \in [Strings -> Strings]
    /\ \A s \in Strings : Bare[Spaced[s]] = Bare[s]
    /\ \A s \in Numerals \cup {"true", "false", "null"} : Bare[s] = s
    /\ \E n \in Numerals : n # Zero
    /\ Absent \notin Scalar \cup [type : {"list"}, items : Seq(Scalar)]
    /\ Typed \subseteq TextType
    /\ \A group \in Conditions \cup TypedDrafts : Proper(group)

\* String(value ?? ""), and String(value || "") where zero and false go too.
Shown(literal) == IF literal = Null THEN Empty ELSE literal.text
Falsy(literal) == literal.text \in {<<"false">>, <<Zero>>} /\ literal.type # "string"
ShownOr(literal) == IF Falsy(literal) THEN Empty ELSE Shown(literal)

parseLiteral(text) ==
    CASE text = <<"null">>                  -> Null
      [] text \in {<<"true">>, <<"false">>} -> [type |-> "boolean", text |-> text]
      [] Len(text) = 1 /\ text[1] \in Numerals -> [type |-> "number", text |-> text]
      [] OTHER                              -> Str(text)

\* String.trim.
Trim(text) == [text EXCEPT ![1] = Bare[@]]

\* value.join(", "): the pieces of all items, one after the other, with a
\* blank before every item but the first.
Joined(items) ==
    IF items = <<>> THEN Empty
    ELSE FlattenSeq([k \in DOMAIN items |->
             IF k = 1 THEN Shown(items[k]) ELSE [Shown(items[k]) EXCEPT ![1] = Spaced[@]]])

Takes == {"in"}             \* operators whose value is a list (in, not_in)
Unary == {"is_blank"}       \* operators without a value (is_blank, is_not_blank)

\* One row of the form.  A group in the place of a condition leaves the
\* row's key empty.
Row(condition) ==
    IF condition.op # "leaf"
    THEN [key |-> "", operator |-> "equals", mode |-> "value", value |-> Str(Empty), from |-> ""]
    ELSE [key |-> condition.key, operator |-> condition.operator,
          mode |-> IF condition.from = "" THEN "value" ELSE "field",
          value |-> IF condition.value \in {Absent, Null} THEN Str(Empty)
                    ELSE IF condition.value.type = "list" THEN Str(Joined(condition.value.items))
                    ELSE condition.value,
          from |-> condition.from]

Leaf(key, operator, value, from) ==
    [op |-> "leaf", key |-> key, operator |-> operator, value |-> value, from |-> from]

\* A plausible bug: the items of a list keep their blanks.
MutKeepBlanks(row) ==
    CASE row.operator \in Unary -> Leaf(row.key, row.operator, Absent, "")
      [] row.operator \notin Unary /\ row.mode = "field" -> Leaf(row.key, row.operator, Absent, row.from)
      [] row.operator \in Takes /\ row.mode = "value" ->
             LET pieces == ShownOr(row.value)
             IN  Leaf(row.key, row.operator, List([k \in DOMAIN pieces |-> parseLiteral(<<pieces[k]>>)]), "")
      [] OTHER -> Leaf(row.key, row.operator, parseLiteral(Trim(Shown(row.value))), "")

conditionFromBuilder(row) ==
    CASE row.operator \in Unary -> Leaf(row.key, row.operator, Absent, "")
      [] row.operator \notin Unary /\ row.mode = "field" -> Leaf(row.key, row.operator, Absent, row.from)
      [] row.operator \in Takes /\ row.mode = "value" ->
             LET pieces == ShownOr(row.value)
             IN  Leaf(row.key, row.operator, List([k \in DOMAIN pieces |-> parseLiteral(<<Bare[pieces[k]]>>)]), "")
      [] OTHER -> Leaf(row.key, row.operator, parseLiteral(Trim(Shown(row.value))), "")

\* A definition here has one branch, or none; a branch has a condition.
branchToBuilder(group) ==
    [logic |-> IF group.op = "any" THEN "any" ELSE "all",
     rows  |-> LET conditions == IF group.op \in {"all", "any"} THEN group.of ELSE <<group>>
               IN  [k \in DOMAIN conditions |-> Row(conditions[k])]]

draftFromBuilder(branch) ==
    LET conditions == [k \in DOMAIN branch.rows |-> conditionFromBuilder(branch.rows[k])]
    IN  IF Len(conditions) = 1 THEN conditions[1] ELSE [op |-> branch.logic, of |-> conditions]

\* What the builder shows for a new rule.
newBranch == [logic |-> "all", rows |-> <<Row(Leaf("k1", "equals", parseLiteral(<<CHOOSE n \in Numerals : n # Zero>>), ""))>>]

(***************************************************************************)
(* Validation: the page's of a definition and the server's of a condition. *)
(* The page only asks that there is a source, a key and an operator.       *)
(***************************************************************************)
\* A plausible bug: a row without a key passes the page's validation.
MutAnyKey(group) == group.op = "leaf"
Complete(group) == group.op = "leaf" /\ group.key # ""

\* Both go down three levels and refuse whatever is below.  `accepted' is
\* which members of a group are accepted, one level below.
Grouped(group, accepted) == group.of # <<>> /\ accepted = DOMAIN group.of

PageLevel(group, accepted) ==
    IF group.op \in {"all", "any"} THEN Grouped(group, accepted) ELSE Complete(group)
PageThird(group) == PageLevel(group, {})
PageSecond(group) == PageLevel(group, {k \in DOMAIN group.of : PageThird(group.of[k])})
validateDraft(group) == PageLevel(group, {k \in DOMAIN group.of : PageSecond(group.of[k])})

ServerLevel(group, accepted) ==
    CASE group.op \in {"all", "any"} -> Grouped(group, accepted)
      [] group.op = "not"           -> 1 \in accepted
      [] group.op = "leaf"          -> /\ group.key \in Inputs /\ group.operator \in Supported
                                       /\ group.from \in Inputs \cup {""}
      [] OTHER                      -> TRUE      \* an expression, or no branch at all
ServerThird(group) == ServerLevel(group, {})
ServerSecond(group) == ServerLevel(group, {k \in DOMAIN group.of : ServerThird(group.of[k])})
validateConditionGroup(group) == ServerLevel(group, {k \in DOMAIN group.of : ServerSecond(group.of[k])})

(***************************************************************************)
(* Evaluation, by the server.                                              *)
(***************************************************************************)
evaluateLeafCondition(leaf, profile) ==
    LET actual == profile[leaf.key]
        expected == IF leaf.from # "" THEN profile[leaf.from] ELSE leaf.value
    IN  CASE leaf.operator = "equals"   -> actual = expected
          [] leaf.operator = "in"       -> /\ expected # Absent /\ expected.type = "list"
                                           /\ \E k \in DOMAIN expected.items : expected.items[k] = actual
          [] leaf.operator = "is_blank" -> actual \in {Null, Str(Empty)}
          [] OTHER                      -> FALSE         \* it throws: the branch is passed over

\* What the server has accepted has three levels.  `holding' is which members
\* of a group are true.
EvaluateLevel(group, profile, holding) ==
    CASE group.op = "all"  -> holding = DOMAIN group.of
      [] group.op = "any"  -> holding # {}
      [] group.op = "not"  -> 1 \notin holding
      [] group.op = "leaf" -> evaluateLeafCondition(group, profile)
      [] OTHER             -> FALSE         \* no branch matches: the fallback
EvaluateThird(group, profile) == EvaluateLevel(group, profile, {})
EvaluateSecond(group, profile) ==
    EvaluateLevel(group, profile, {k \in DOMAIN group.of : EvaluateThird(group.of[k], profile)})
evaluateConditionGroup(group, profile) ==
    EvaluateLevel(group, profile, {k \in DOMAIN group.of : EvaluateSecond(group.of[k], profile)})

(***************************************************************************)
(* The editor.                                                             *)
(***************************************************************************)
BuilderInit ==
    /\ draft \in Conditions /\ validateConditionGroup(draft)
    /\ builder = newBranch
    /\ json = draftFromBuilder(newBranch)
    /\ typed = FALSE
    /\ happened = "new"

syncBuilderFromJson(group) ==
    builder' = IF validateDraft(group) THEN branchToBuilder(group) ELSE builder

\* A draft the page refuses is not written: the field keeps what it had.
Synced(branch) ==
    LET written == draftFromBuilder(branch) IN IF validateDraft(written) THEN written ELSE json

openRule ==
    /\ happened \in {"new", "saved"}
    /\ json' = draft
    /\ syncBuilderFromJson(draft)
    /\ typed' = (typed /\ ~validateDraft(draft))
    /\ happened' = "opened"
    /\ UNCHANGED draft

\* A field of the builder changes, and the draft field with it.
EditBuilder(edited) ==
    /\ happened = "opened"
    /\ builder' = edited
    /\ json' = Synced(edited)
    /\ happened' = "edited"
    /\ UNCHANGED <<draft, typed>>

\* Typing into the value field makes the value a text.
typeValue(k, text) ==
    k \in DOMAIN builder.rows /\ EditBuilder([builder EXCEPT !.rows[k].value = Str(text)])

\* The sources of the menu are supported; to choose one empties the key.
typeKey(k, key) ==
    k \in DOMAIN builder.rows /\ EditBuilder([builder EXCEPT !.rows[k].key = key])

chooseOperator(k, operator) ==
    k \in DOMAIN builder.rows /\ EditBuilder([builder EXCEPT !.rows[k].operator = operator])

switchLogic == EditBuilder([builder EXCEPT !.logic = IF @ = "all" THEN "any" ELSE "all"])

\* A definition is typed into the draft field; the builder shows it, if the
\* page accepts it.
typeDraft(group) ==
    /\ happened = "opened"
    /\ json' = group
    /\ syncBuilderFromJson(group)
    /\ typed' = TRUE
    /\ happened' = "edited"
    /\ UNCHANGED draft

\* The draft field is written from the builder, or keeps what it had; the
\* page checks what is there.  The server may refuse it for its condition,
\* and for the rest of the definition.
saveDraft ==
    /\ happened \in {"opened", "edited"}
    /\ json' = Synced(builder)
    /\ \E taken \in BOOLEAN :
         draft' = IF taken /\ validateDraft(json') /\ validateConditionGroup(json') THEN json' ELSE draft
    /\ happened' = "saved"
    /\ UNCHANGED <<builder, typed>>

BuilderNext ==
    \/ openRule \/ switchLogic \/ saveDraft
    \/ \E k \in 1 .. 2 :
         \/ \E text \in Typed : typeValue(k, text)
         \/ \E key \in Inputs \cup {""} : typeKey(k, key)
         \/ \E operator \in Supported : chooseOperator(k, operator)
    \/ \E group \in TypedDrafts : typeDraft(group)

BuilderSpec == BuilderInit /\ [][BuilderNext]_builderVars

(***************************************************************************)
(* Properties.                                                             *)
(***************************************************************************)
BuilderTypeOK ==
    /\ Proper(draft) /\ Proper(json)
    /\ builder \in [logic : {"all", "any"}, rows : Seq(RowType)]
    /\ typed \in BOOLEAN
    /\ happened \in {"new", "opened", "edited", "saved"}

\* Some leaf has a name the server does not support.
UnsupportedLeaf(leaf) ==
    \/ leaf.operator \notin Supported
    \/ leaf.key \notin Inputs \cup {""}
    \/ leaf.from \notin Inputs \cup {""}
UnsupportedLevel(group, below) ==
    \/ group.op = "leaf" /\ UnsupportedLeaf(group)
    \/ group.op \in {"all", "any"} /\ below # {}
UnsupportedThird(group) == UnsupportedLevel(group, {})
UnsupportedSecond(group) == UnsupportedLevel(group, {k \in DOMAIN group.of : UnsupportedThird(group.of[k])})
HasUnsupportedName(group) == UnsupportedLevel(group, {k \in DOMAIN group.of : UnsupportedSecond(group.of[k])})

\* The editor leads nobody from a draft the server has to one whose condition
\* the server refuses: whatever was opened before, and whichever fields were
\* changed, what the page's check lets through has such a condition only if it
\* was typed as a definition, with a source or an operator nobody supports.
OnlyTypedNamesRefused ==
    validateDraft(json) /\ ~validateConditionGroup(json) => typed /\ HasUnsupportedName(json)

\* Values that read back as what they are: no number, boolean or null kept
\* as a string, no outer blanks, no null, no missing value, no list that is
\* empty or has an item with a comma, and a list exactly where the operator
\* takes one.
Reserved == Numerals \cup {"true", "false", "null"}
ReadsBack(literal) ==
    /\ literal # Null
    /\ literal.type = "string" => /\ ~(Len(literal.text) = 1 /\ literal.text[1] \in Reserved)
                                   /\ Trim(literal.text) = literal.text
PlainLeaf(leaf) ==
    \/ leaf.operator \in Unary \/ leaf.from # ""
    \/ /\ leaf.value # Absent
       /\ \/ leaf.operator \notin Takes /\ leaf.value.type # "list" /\ ReadsBack(leaf.value)
          \/ /\ leaf.operator \in Takes /\ leaf.value.type = "list" /\ leaf.value.items # <<>>
             /\ \A k \in DOMAIN leaf.value.items :
                    ReadsBack(leaf.value.items[k]) /\ Len(leaf.value.items[k].text) = 1
PlainGroup(group) ==
    IF group.op = "leaf" THEN PlainLeaf(group)
    ELSE \A k \in DOMAIN group.of : group.of[k].op = "leaf" => PlainLeaf(group.of[k])

\* Opening a draft and saving it untouched changes no decision, if the page
\* accepts the draft at all and its values are plain ones.
SavingUntouchedKeepsOutcome ==
    [][(happened = "opened" /\ happened' = "saved" /\ validateDraft(draft) /\ PlainGroup(draft)) =>
          \A p \in Visitors :
              evaluateConditionGroup(draft', p) = evaluateConditionGroup(draft, p)]_builderVars

=============================================================================
