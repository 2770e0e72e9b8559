----------------------------- MODULE Expressions -----------------------------
(***************************************************************************)
(* The expression language of rules (src/expression.js).  The parser       *)
(* evaluates while it parses: it never builds a tree.  A text is the       *)
(* sequence of its tokens; operands that compare, compute or call a        *)
(* function are abstracted to the truth value they have in a request.      *)
(***************************************************************************)
EXTENDS Integers, Sequences

Tokens == {"true", "false", "!", "(", ")", "&&", "||"}
Levels == {"or", "and", "unary"}

Threw == [ok |-> FALSE, value |-> FALSE, at |-> 0]
Read(v, p) == [ok |-> TRUE, value |-> v, at |-> p]

(* The operands of "||" are conjunctions, those of "&&" are unary.  A left *)
(* value that decides the operator keeps JavaScript's own || and && from   *)
(* calling the parser for the right operand, whose tokens stay unread.     *)
Loops == {"or", "and"}
operator(level) == IF level = "or" THEN "||" ELSE "&&"
operand(level) == IF level = "or" THEN "and" ELSE "unary"
decides(level, left) == left = (level = "or")

peek(tokens, p) == IF p <= Len(tokens) THEN tokens[p] ELSE "end"

(* A function of the parser returns a value and the position of the first  *)
(* unread token, or throws.  What it returns at a position follows from    *)
(* what the functions return at the later ones: `read' is the call of a    *)
(* level's function there, `loop' its while loop with a left value.        *)
loopAt(tokens, later, p, level, left) ==
  IF peek(tokens, p) # operator(level) THEN Read(left, p)
  ELSE IF decides(level, left) THEN later[p + 1].loop[level][left]
  ELSE LET right == later[p + 1].read[operand(level)]
       IN  IF right.ok THEN later[right.at].loop[level][right.value] ELSE Threw

unaryAt(tokens, later, p) ==
  CASE peek(tokens, p) \in {"true", "false"} -> Read(peek(tokens, p) = "true", p + 1)
    [] peek(tokens, p) = "!" ->
         LET inner == later[p + 1].read["unary"]
         IN  IF inner.ok THEN Read(~inner.value, inner.at) ELSE Threw
    [] peek(tokens, p) = "(" ->
         LET inner == later[p + 1].read["or"]
         IN  IF inner.ok /\ peek(tokens, inner.at) = ")"
             THEN Read(inner.value, inner.at + 1)
             ELSE Threw
    [] OTHER -> Threw

continue(later, level, first) ==
  IF first.ok THEN later[first.at].loop[level][first.value] ELSE Threw

readAt(tokens, later, p, level) ==
  LET unary == unaryAt(tokens, later, p)
  IN  CASE level = "unary" -> unary
        [] level = "and" -> continue(later, "and", unary)
        [] OTHER -> continue(later, "or", continue(later, "and", unary))

rowAt(tokens, later, p) ==
  [read |-> [level \in Levels |-> readAt(tokens, later, p, level)],
   loop |-> [level \in Loops |-> [left \in BOOLEAN |-> loopAt(tokens, later, p, level, left)]]]

parseExpression(tokens) ==
  LET parse[p \in 1 .. Len(tokens) + 1] == rowAt(tokens, parse, p)
  IN  parse[1].read["or"]

(* A mutant: the parser does not look for unread tokens at the end.        *)
MutNoExpectEnd(tokens) == parseExpression(tokens)

(* The whole text has to be read, or evaluation throws.                    *)
evaluateExpression(tokens) ==
  LET parsed == parseExpression(tokens)
  IN  IF parsed.ok /\ parsed.at = Len(tokens) + 1 THEN parsed ELSE Threw

-----------------------------------------------------------------------------
(* The reference: sentences of the language with the value they denote.    *)
(* Sets of sentences are built from smaller ones, one operator at a time.  *)
Literals == {[text |-> <<"true">>, value |-> TRUE], [text |-> <<"false">>, value |-> FALSE]}
Negations(S) == {[text |-> <<"!">> \o s.text, value |-> ~s.value] : s \in S}
Groups(S) == {[text |-> <<"(">> \o s.text \o <<")">>, value |-> s.value] : s \in S}
Conjunctions(S, T) ==
  {[text |-> s.text \o <<"&&">> \o t.text, value |-> s.value /\ t.value] : s \in S, t \in T}
Disjunctions(S, T) ==
  {[text |-> s.text \o <<"||">> \o t.text, value |-> s.value \/ t.value] : s \in S, t \in T}

(* A language: sets of sentences, one for each level of the parser, whose  *)
(* sentences are made of shorter ones that are in the sets.  With strict   *)
(* set, no left operand of a sentence decides its operator.                *)
Language(L, strict) ==
  LET lefts(level) == {s \in L[level] : strict => ~decides(level, s.value)}
  IN  /\ \A level \in Levels : L[level] \subseteq [text : Seq(Tokens), value : BOOLEAN]
      /\ L["unary"] \subseteq Literals \cup Negations(L["unary"]) \cup Groups(L["or"])
      /\ L["and"] \subseteq L["unary"] \cup Conjunctions(lefts("and"), L["unary"])
      /\ L["or"] \subseteq L["and"] \cup Disjunctions(lefts("or"), L["and"])
=============================================================================
