---------------------------- MODULE EditingProofs ----------------------------
(***************************************************************************)
(* Proofs about Console, RuleBuilder, CampaignActions and AssistantPlans,  *)
(* for any items, handlers, conditions, assets, contents and bounds.  Each *)
(* has its own part, with the idea of its invariant at the head of it; the *)
(* last one is about the run that puts them beside each other.             *)
(*                                                                         *)
(* Console.  What is stored under an item was once in the form, in a       *)
(* request or in an answer.  So the inductive invariant says of every text *)
(* of the page whose it is: the builder's is of the item in the key field, *)
(* a list's entries are of their items, and the text that travels with a   *)
(* call is of the item that the handler will use it for.                   *)
(***************************************************************************)
EXTENDS MCEditing, TLAPS, FiniteSetTheorems, WellFoundedInduction

(* Nothing has come to be about another item, as far as it matters. *)
Clean == moved \cap Crosses = {}

(* The texts that may go where item i is meant. *)
Of(i) == {t \in Text : (Clean => t.about = i) /\ (kind # "rule" => t.fits)}

Thens == {<<>>, <<"list">>, <<"versions">>, <<"open">>, <<"review">>, <<"list", "versions">>,
          <<"list", "open">>, <<"publish", "list", "versions">>}
Handler == [op : Ops \cup {"none"}, key : Items \cup {None}, body : Items \cup {None},
            text : Text \cup {None}, texts : Texts \cup {None}, version : 0 .. MaxSaves + 1,
            answered : BOOLEAN, ok : BOOLEAN, then : Thens]

(* What a handler does next, by what it does now. *)
ThenRight(c) ==
  /\ c.op # "none" => c.key \in Items
  /\ c.op = "conflicts" <=> c.then \in {<<"review">>, <<"publish", "list", "versions">>}
  /\ c.then = <<"open">> => c.op = "list"
  /\ c.then = <<"list", "open">> => c.op = "restore"
  /\ c.op = "restore" \/ c.then = <<"open">> => kind # "rule"

(* These calls are about an item that there is. *)
Exists(c) ==
  \/ c.op \in {"get", "conflicts", "publish"}
  \/ c.op \in {"save", "create", "restore"} /\ c.answered
  \/ c.op = "list" /\ c.then = <<"open">>

(* The text that travels with a call is of its item, or for the draft of a *)
(* rule of the key that travels with it.                                   *)
TextRight(c) ==
  /\ Exists(c) => stored[c.key] # None
  /\ c.op \in {"get", "rollback", "load_version"} /\ c.answered => c.text \in Of(c.key)
  /\ c.op \in {"save", "create"} /\ ~c.answered =>
       c.text \in Of(IF c.op = "save" /\ kind = "rule" THEN c.body ELSE c.key)
  /\ c.op = "list" /\ c.answered =>
       /\ c.texts \in Texts
       /\ \A i \in Items : c.texts[i] = None \/ (c.texts[i] \in Of(i) /\ stored[i] # None)
       /\ c.then = <<"open">> => c.texts[c.key] # None

ServerRight ==
  \A i \in Items :
    /\ stored[i] = None \/ stored[i] \in Of(i)
    /\ \A v \in DOMAIN history[i] : history[i][v] \in Of(i)
PageRight ==
  /\ \A i \in Items : cached[i] = None \/ (cached[i] \in Of(i) /\ stored[i] # None)
  /\ selected # None => stored[selected] # None
  /\ \A i \in {form.key} : form.builder \in Of(i)
  /\ kind # "rule" /\ Clean => selected \in {None, form.key}
  /\ listed.upto > 0 => listed.key # None
CallsRight == \A h \in Handlers : \A c \in {handler[h]} : c \in Handler /\ ThenRight(c) /\ TextRight(c)

ConsoleIInv ==
  /\ kind \in {"rule", "message", "lookup"} /\ DOMAIN handler = Handlers
  /\ history \in [Items -> Seq(Text)] /\ ConsoleTypeOK /\ ServerRight /\ PageRight /\ CallsRight

-----------------------------------------------------------------------------
(* The records of the model. *)
LEMMA Rests ==
  /\ Tail(<<"list">>) = <<>> /\ Tail(<<"versions">>) = <<>>
  /\ Tail(<<"list", "versions">>) = <<"versions">> /\ Tail(<<"list", "open">>) = <<"open">>
  /\ Tail(<<"publish", "list", "versions">>) = <<"list", "versions">>
  /\ Head(<<"list">>) = "list" /\ Head(<<"versions">>) = "versions"
  /\ Head(<<"list", "versions">>) = "list" /\ Head(<<"list", "open">>) = "list"
OBVIOUS

LEMMA Different ==
  /\ <<"list">> # <<>> /\ <<"versions">> # <<>> /\ <<"list", "versions">> # <<>>
  /\ <<"list", "open">> # <<>> /\ <<"open">> # <<>> /\ <<"review">> # <<>>
  /\ <<"publish", "list", "versions">> # <<>> /\ <<"list">> # <<"open">> /\ <<"versions">> # <<"open">>
  /\ <<"list">> # <<"review">> /\ <<"versions">> # <<"review">> /\ <<"open">> # <<"review">>
  /\ \A x, y \in {<<"list", "versions">>, <<"list", "open">>} : x = y <=> x[2] = y[2]
  /\ <<"publish", "list", "versions">> # <<"list", "versions">>
  /\ <<"publish", "list", "versions">> # <<"list", "open">>
  /\ \A x \in {<<"list">>, <<"versions">>, <<"open">>, <<"review">>} :
       \A y \in {<<"list", "versions">>, <<"list", "open">>, <<"publish", "list", "versions">>} : x # y
OBVIOUS

LEMMA Fixed == <<>> \in Thens /\ 0 \in 0 .. MaxSaves + 1
BY ConsoleBounds DEF Thens

LEMMA FreeShape ==
  /\ Free \in Handler /\ Free.op = "none" /\ Free.then = <<>>
  /\ [WithAnswer(Free, None) EXCEPT !.ok = FALSE] \in Handler
  /\ [WithAnswer(Free, None) EXCEPT !.ok = FALSE].op = "none"
  /\ [WithAnswer(Free, None) EXCEPT !.ok = FALSE].then = <<>>
BY Fixed DEF Free, WithAnswer, Call, Handler

LEMMA CallShape ==
  ASSUME NEW op \in Ops, NEW key \in Items, NEW then \in Thens
  PROVE  /\ Call(op, key, then) \in Handler
         /\ Call(op, key, then).op = op /\ Call(op, key, then).key = key
         /\ Call(op, key, then).then = then /\ ~Call(op, key, then).answered
BY Fixed DEF Call, Free, Handler

LEMMA AnswerShape ==
  ASSUME NEW c \in Handler, c.op \in Ops, c.key \in Items, NEW t \in Text \cup {None}
  PROVE  /\ WithAnswer(c, t) \in Handler
         /\ WithAnswer(c, t).op = c.op /\ WithAnswer(c, t).key = c.key
         /\ WithAnswer(c, t).then = c.then /\ WithAnswer(c, t).text = t
         /\ WithAnswer(c, t).answered
BY Fixed DEF WithAnswer, Call, Free, Handler

(* A call that does nothing any more is right. *)
LEMMA NoneRight ==
  ASSUME NEW c, c.op = "none", c.then = <<>>
  PROVE  ThenRight(c)' /\ TextRight(c)'
BY Different DEF ThenRight, TextRight, Exists

-----------------------------------------------------------------------------
(* What came to be about another item stays so. *)
LEMMA OfGrows ==
  ASSUME kind' = kind, moved \subseteq moved'
  PROVE  /\ Clean' => Clean
         /\ \A i : Of(i) \subseteq Of(i)'
<1>1. Crosses' = Crosses
  BY DEF Crosses
<1>2. Clean' => Clean
  BY <1>1 DEF Clean
<1> QED
  BY <1>2 DEF Of

LEMMA NotNone == \A i : \A t \in Of(i) : t # None /\ t \in Text
BY ConsoleNone DEF Of

(* A call stays right while nothing is taken away. *)
LEMMA CallKept ==
  ASSUME NEW c, ThenRight(c), TextRight(c), kind' = kind, moved \subseteq moved',
         Exists(c) => stored'[c.key] # None,
         \A i \in Items : stored[i] # None => stored'[i] # None
  PROVE  ThenRight(c)' /\ TextRight(c)'
<1>1. ThenRight(c)'
  BY DEF ThenRight
<1>2. TextRight(c)'
  BY OfGrows DEF TextRight, Exists
<1> QED
  BY <1>1, <1>2

(* One handler goes on to another call, or none does. *)
LEMMA CallChanges ==
  ASSUME CallsRight, DOMAIN handler = Handlers, NEW h \in Handlers, NEW c \in Handler,
         handler' = [handler EXCEPT ![h] = c], ThenRight(c)', TextRight(c)',
         kind' = kind, moved \subseteq moved',
         \A i \in Items : stored[i] # None => stored'[i] # None
  PROVE  CallsRight' /\ DOMAIN handler' = Handlers
<1>1. ASSUME NEW g \in Handlers, NEW d, d = handler'[g]
      PROVE  d \in Handler /\ ThenRight(d)' /\ TextRight(d)'
  <2>1. CASE g = h
    BY <1>1, <2>1
  <2>2. CASE g # h
    <3>1. d \in Handler /\ ThenRight(d) /\ TextRight(d)
      BY <1>1, <2>2 DEF CallsRight
    <3>2. Exists(d) => stored'[d.key] # None
      BY <3>1 DEF TextRight, ThenRight, Exists
    <3> QED
      BY <3>1, <3>2, CallKept
  <2> QED
    BY <2>1, <2>2
<1> QED
  BY <1>1 DEF CallsRight

LEMMA CallsStay ==
  ASSUME CallsRight, DOMAIN handler = Handlers, UNCHANGED <<handler, kind, stored>>, moved \subseteq moved'
  PROVE  CallsRight' /\ DOMAIN handler' = Handlers
<1>1. ASSUME NEW g \in Handlers, NEW d, d = handler'[g]
      PROVE  d \in Handler /\ ThenRight(d)' /\ TextRight(d)'
  <2>1. d \in Handler /\ ThenRight(d) /\ TextRight(d)
    BY <1>1 DEF CallsRight
  <2>2. Exists(d) => stored'[d.key] # None
    BY <2>1 DEF TextRight
  <2> QED
    BY <2>1, <2>2, CallKept
<1> QED
  BY <1>1 DEF CallsRight

(* The server stores a text of an item. *)
LEMMA Stores ==
  ASSUME ConsoleIInv, NEW i \in Items, NEW t \in Of(i), Store(i, t), UNCHANGED <<kind, moved>>
  PROVE  /\ stored' \in Texts /\ stored'[i] = t /\ t # None
         /\ \A j \in Items : stored[j] # None => stored'[j] # None
         /\ \A j \in Items : stored'[j] = None \/ stored'[j] \in Of(j)'
<1>1. stored \in [Items -> Text \cup {None}]
  BY DEF ConsoleIInv, ConsoleTypeOK, Texts
<1>2. stored' = [stored EXCEPT ![i] = t]
  BY DEF Store
<1>3. t \in Text /\ t # None
  BY NotNone
<1>4. \A j \in Items : stored'[j] = IF j = i THEN t ELSE stored[j]
  BY <1>1, <1>2
<1>5. stored' \in Texts
  BY <1>1, <1>2, <1>3 DEF Texts
<1>6. \A j \in Items : stored'[j] = None \/ stored'[j] \in Of(j)'
  BY <1>4, OfGrows DEF ConsoleIInv, ServerRight
<1> QED
  BY <1>3, <1>4, <1>5, <1>6

HistoryRight ==
  /\ history \in [Items -> Seq(Text)]
  /\ \A j \in Items : /\ Len(history[j]) <= MaxSaves + 1
                      /\ \A v \in DOMAIN history[j] : history[j][v] \in Of(j)

LEMMA HistoryIsRight == ConsoleIInv => HistoryRight
BY DEF ConsoleIInv, ConsoleTypeOK, ServerRight, HistoryRight

(* The server adds a version. *)
LEMMA Adds ==
  ASSUME ConsoleIInv, NEW i \in Items, NEW t \in Of(i), AddVersion(i, t), UNCHANGED <<kind, moved>>
  PROVE  HistoryRight'
<1>1. /\ history \in [Items -> Seq(Text)]
      /\ \A j \in Items : /\ Len(history[j]) <= MaxSaves + 1
                          /\ \A v \in DOMAIN history[j] : history[j][v] \in Of(j)
  BY HistoryIsRight DEF HistoryRight
<1>2. t \in Text /\ \A j : Of(j) \subseteq Of(j)'
  BY NotNone, OfGrows
<1>3. /\ Len(history[i]) <= MaxSaves
      /\ history' = [history EXCEPT ![i] = Append(history[i], t)]
  BY DEF AddVersion
<1> DEFINE s == history[i]
<1>4. s \in Seq(Text)
  BY <1>1
<1>5. /\ Append(s, t) \in Seq(Text) /\ Len(Append(s, t)) = Len(s) + 1 /\ Len(s) \in Nat
      /\ DOMAIN s = 1 .. Len(s) /\ DOMAIN Append(s, t) = 1 .. Len(s) + 1
      /\ \A v \in 1 .. Len(s) : Append(s, t)[v] = s[v]
      /\ Append(s, t)[Len(s) + 1] = t
  BY <1>2, <1>4
<1>6. \A v \in DOMAIN Append(s, t) : Append(s, t)[v] \in Of(i)
  BY <1>1, <1>5
<1>7. Len(Append(s, t)) <= MaxSaves + 1
  BY <1>3, <1>5, ConsoleBounds
<1> HIDE DEF s
<1>8. \A j \in Items : history'[j] = IF j = i THEN Append(s, t) ELSE history[j]
  BY <1>1, <1>3 DEF s
<1>9. history' \in [Items -> Seq(Text)]
  BY <1>1, <1>3, <1>5 DEF s
<1> QED
  BY <1>1, <1>2, <1>6, <1>7, <1>8, <1>9 DEF HistoryRight

-----------------------------------------------------------------------------
(* The page and the handlers, when the server has taken a request. *)
LEMMA Served ==
  ASSUME ConsoleIInv, NEW h \in Handlers, NEW c, c = handler[h], NEW d \in Handler,
         UNCHANGED <<kind, cached, selected, form, listed, review, moved, starts>>,
         stored' \in Texts, \A i \in Items : stored[i] # None => stored'[i] # None,
         \A i \in Items : stored'[i] = None \/ stored'[i] \in Of(i)',
         HistoryRight', handler' = [handler EXCEPT ![h] = d],
         \/ d.op = "none" /\ d.then = <<>>
         \/ d.op = c.op /\ d.key = c.key /\ d.then = c.then /\ TextRight(d)'
  PROVE  ConsoleIInv'
<1>1. CallsRight /\ DOMAIN handler = Handlers /\ c \in Handler /\ ThenRight(c)
  BY DEF ConsoleIInv, CallsRight
<1>2. ThenRight(d)' /\ TextRight(d)'
  BY <1>1, NoneRight DEF ThenRight
<1>3. CallsRight' /\ DOMAIN handler' = Handlers
  BY <1>1, <1>2, CallChanges
<1>4. ServerRight'
  BY DEF ServerRight, HistoryRight
<1>5. PageRight'
  <2>1. PageRight /\ (selected # None => selected \in Items) /\ form.key \in Items
    BY DEF ConsoleIInv, ConsoleTypeOK
  <2>2. \A i : Of(i) \subseteq Of(i)'
    BY OfGrows
  <2>3. \A i \in Items : cached'[i] = None \/ (cached'[i] \in Of(i)' /\ stored'[i] # None)
    BY <2>1, <2>2 DEF PageRight
  <2>4. Clean' <=> Clean
    BY DEF Clean, Crosses
  <2> QED
    BY <2>1, <2>2, <2>3, <2>4 DEF PageRight
<1>6. ConsoleTypeOK' /\ history' \in [Items -> Seq(Text)]
  <2>1. /\ cached \in Texts /\ selected \in Items \cup {None}
        /\ form \in [key : Items, text : Text, builder : Text]
        /\ listed \in [key : Items \cup {None}, upto : 0 .. MaxSaves + 1]
        /\ review \in BOOLEAN /\ moved \subseteq {"selection", "text", "builder"}
    BY DEF ConsoleIInv, ConsoleTypeOK
  <2>2. \A g \in Handlers : handler'[g].op \in Ops \cup {"none"}
    BY <1>3 DEF CallsRight, Handler
  <2>3. history' \in [Items -> Seq(Text)] /\ \A i \in Items : Len(history'[i]) <= MaxSaves + 1
    BY DEF HistoryRight
  <2> QED
    BY <2>1, <2>2, <2>3 DEF ConsoleTypeOK
<1> QED
  BY <1>3, <1>4, <1>5, <1>6 DEF ConsoleIInv

LEMMA ServeInv ==
  ASSUME ConsoleIInv, NEW h \in Handlers, serve(h)
  PROVE  ConsoleIInv'
<1>0. PICK c : c = handler[h]
  OBVIOUS
<1>1. /\ c \in Handler /\ ThenRight(c) /\ TextRight(c) /\ ~c.answered
      /\ UNCHANGED <<kind, cached, selected, form, listed, review, moved, starts>>
  BY <1>0 DEF ConsoleIInv, CallsRight, serve, Handler
<1>2. c.op # "none" => c.op \in Ops /\ c.key \in Items
  BY <1>1 DEF ThenRight, Handler
<1>3. /\ stored \in Texts /\ HistoryRight /\ \A i : Of(i) \subseteq Of(i)'
      /\ \A i \in Items : stored[i] = None \/ stored[i] \in Of(i)
  BY <1>1, HistoryIsRight, OfGrows DEF ConsoleIInv, ConsoleTypeOK, ServerRight
<1>4. /\ UNCHANGED history => HistoryRight'
      /\ UNCHANGED stored => /\ stored' \in Texts
                             /\ \A i \in Items : stored[i] # None => stored'[i] # None
                             /\ \A i \in Items : stored'[i] = None \/ stored'[i] \in Of(i)'
  BY <1>3 DEF HistoryRight
<1>5. CASE Refuse(h)
  BY <1>0, <1>1, <1>4, <1>5, FreeShape, Served DEF Refuse, Kept
(* An answer with a text, when its kind of call needs no more. *)
<1>6. ASSUME NEW t \in Text \cup {None}, Answer(h, t), c.op # "none", c.op # "list",
             stored' \in Texts, \A i \in Items : stored[i] # None => stored'[i] # None,
             \A i \in Items : stored'[i] = None \/ stored'[i] \in Of(i)',
             HistoryRight',
             c.op \in {"get", "conflicts", "publish", "save", "create", "restore"} => stored'[c.key] # None,
             c.op \in {"get", "rollback", "load_version"} => t \in Of(c.key)
      PROVE  ConsoleIInv'
  <2> DEFINE d == WithAnswer(c, t)
  <2>1. /\ d \in Handler /\ d.op = c.op /\ d.key = c.key /\ d.then = c.then /\ d.text = t
        /\ d.answered
    BY <1>1, <1>2, <1>6, AnswerShape
  <2>2. handler' = [handler EXCEPT ![h] = d]
    BY <1>0, <1>6 DEF Answer
  <2> HIDE DEF d
  <2>3. TextRight(d)'
    BY <1>3, <1>6, <2>1 DEF TextRight, Exists
  <2> QED
    BY <1>0, <1>1, <1>6, <2>1, <2>2, <2>3, Served
<1>7. ASSUME c.op = "get", sendRuleSet(h, c) PROVE ConsoleIInv'
  <2>1. PICK t : t = stored[c.key]
    OBVIOUS
  <2>2. t # None /\ t \in Of(c.key) /\ t \in Text
    BY <1>1, <1>2, <1>3, <1>7, <2>1 DEF TextRight, Exists, Texts
  <2>3. Answer(h, t) /\ UNCHANGED <<stored, history>>
    BY <1>7, <2>1 DEF sendRuleSet, Kept
  <2> QED
    BY <1>4, <1>6, <1>7, <2>1, <2>2, <2>3
<1>8. ASSUME NEW t \in Of(c.key), Store(c.key, t), Answer(h, None) \/ Answer(h, t),
             UNCHANGED history \/ AddVersion(c.key, t),
             c.op \in {"save", "create", "rollback", "restore"},
             c.op = "rollback" => Answer(h, t)
      PROVE  ConsoleIInv'
  <2>1. /\ stored' \in Texts /\ stored'[c.key] # None
        /\ \A i \in Items : stored[i] # None => stored'[i] # None
        /\ \A i \in Items : stored'[i] = None \/ stored'[i] \in Of(i)'
    BY <1>1, <1>2, <1>8, Stores
  <2>2. HistoryRight'
    BY <1>1, <1>2, <1>4, <1>8, Adds
  <2>3. t \in Text
    BY NotNone
  <2>4. CASE Answer(h, t)
    BY <1>6, <1>8, <2>1, <2>2, <2>3, <2>4
  <2>5. CASE Answer(h, None) /\ c.op # "rollback"
    BY <1>6, <1>8, <2>1, <2>2, <2>5
  <2> QED
    BY <1>8, <2>4, <2>5
<1>9. ASSUME c.op = "create", postRuleSet(h, c) PROVE ConsoleIInv'
  <2>1. c.text \in Of(c.key)
    BY <1>1, <1>9 DEF TextRight
  <2> QED
    BY <1>5, <1>8, <1>9, <2>1 DEF postRuleSet
<1>10. ASSUME c.op = "save", kind = "rule", putDraft(h, c) PROVE ConsoleIInv'
  <2>1. CASE AcceptsDraft(c)
    <3>1. c.text \in Of(c.key)
      BY <1>1, <1>10, <2>1 DEF TextRight, AcceptsDraft
    <3> QED
      BY <1>8, <1>10, <2>1, <3>1 DEF putDraft
  <2> QED
    BY <1>5, <1>10, <2>1 DEF putDraft
<1>11. ASSUME c.op = "save", kind # "rule", upsertMessage(h, c, c.text) PROVE ConsoleIInv'
  <2>1. c.text \in Of(c.key)
    BY <1>1, <1>11 DEF TextRight
  <2> QED
    BY <1>8, <1>11, <2>1 DEF upsertMessage
(* A version of the item. *)
<1>12. ASSUME HasVersion(c), c.op # "none" PROVE Version(c) \in Of(c.key)
  BY <1>2, <1>3, <1>12 DEF HasVersion, Version, HistoryRight
<1>13. ASSUME c.op = "rollback", postRollback(h, c) PROVE ConsoleIInv'
  <2>1. CASE HasVersion(c)
    BY <1>8, <1>12, <1>13, <2>1 DEF postRollback
  <2> QED
    BY <1>5, <1>13, <2>1 DEF postRollback
<1>14. ASSUME c.op = "restore", restoreMessageVersion(h, c) PROVE ConsoleIInv'
  <2>1. CASE HasVersion(c)
    BY <1>8, <1>12, <1>14, <2>1 DEF restoreMessageVersion, upsertMessage
  <2> QED
    BY <1>5, <1>14, <2>1 DEF restoreMessageVersion
<1>15. ASSUME c.op = "load_version", getLookupTableVersion(h, c) PROVE ConsoleIInv'
  <2>1. CASE HasVersion(c)
    <3>1. PICK t : t = Version(c)
      OBVIOUS
    <3>2. t \in Of(c.key) /\ t \in Text
      BY <1>12, <1>15, <2>1, <3>1, NotNone
    <3>3. Answer(h, t) /\ UNCHANGED <<stored, history>>
      BY <1>15, <2>1, <3>1 DEF getLookupTableVersion, Kept
    <3> QED
      BY <1>4, <1>6, <1>15, <3>2, <3>3
  <2> QED
    BY <1>5, <1>15, <2>1 DEF getLookupTableVersion
<1>16. ASSUME c.op = "conflicts", Kept, Answer(h, None) PROVE ConsoleIInv'
  <2>1. stored[c.key] # None /\ UNCHANGED <<stored, history>>
    BY <1>1, <1>16 DEF TextRight, Exists, Kept
  <2> QED
    BY <1>4, <1>6, <1>16, <2>1
<1>17. ASSUME c.op = "publish", postPublish(h, c) PROVE ConsoleIInv'
  <2>1. PICK t : t = stored[c.key]
    OBVIOUS
  <2>2. t # None /\ t \in Of(c.key)
    BY <1>1, <1>2, <1>3, <1>17, <2>1 DEF TextRight, Exists
  <2>3. AddVersion(c.key, t) /\ UNCHANGED stored /\ Answer(h, None)
    BY <1>17, <2>1 DEF postPublish
  <2>4. HistoryRight'
    BY <1>1, <1>2, <1>17, <2>2, <2>3, Adds
  <2> QED
    BY <1>4, <1>6, <1>17, <2>1, <2>2, <2>3, <2>4
<1>18. ASSUME c.op = "list", listItems(h) PROVE ConsoleIInv'
  <2>1. PICK list : list = [i \in Items |-> Listed(i)]
    OBVIOUS
  <2>2. \A i \in Items : \/ list[i] = None /\ stored[i] = None
                         \/ list[i] \in Of(i) /\ stored[i] # None /\ list[i] # None
    <3>1. ASSUME NEW i \in Items PROVE Original(i) \in Of(i)
      BY ConsoleBounds DEF Original, Of, Text
    <3> QED
      BY <1>3, <2>1, <3>1, NotNone DEF Listed
  <2>3. list \in Texts
    BY <2>1, <2>2, NotNone DEF Texts
  <2>4. PICK d : d = [c EXCEPT !.answered = TRUE, !.texts = list]
    OBVIOUS
  <2>5. /\ d \in Handler /\ d.op = c.op /\ d.key = c.key /\ d.then = c.then /\ d.texts = list
        /\ d.answered
    BY <1>1, <2>3, <2>4 DEF Handler
  <2>6. handler' = [handler EXCEPT ![h] = d] /\ UNCHANGED <<stored, history>>
    BY <1>0, <1>18, <2>1, <2>4 DEF listItems, Kept
  <2>7. TextRight(d)'
    BY <1>1, <1>2, <1>3, <1>18, <2>2, <2>3, <2>5, <2>6 DEF TextRight, Exists
  <2> QED
    BY <1>0, <1>1, <1>4, <2>5, <2>6, <2>7, Served
<1>19. ASSUME c.op = "versions", listVersions(h, c) PROVE ConsoleIInv'
  <2>1. PICK d : d = [c EXCEPT !.answered = TRUE, !.version = Len(history[c.key])]
    OBVIOUS
  <2>2. Len(history[c.key]) \in 0 .. MaxSaves + 1
    BY <1>2, <1>3, <1>19, ConsoleBounds DEF HistoryRight
  <2>3. d \in Handler /\ d.op = c.op /\ d.key = c.key /\ d.then = c.then
    BY <1>1, <2>1, <2>2 DEF Handler
  <2>4. handler' = [handler EXCEPT ![h] = d] /\ UNCHANGED <<stored, history>>
    BY <1>0, <1>19, <2>1 DEF listVersions, Kept
  <2>5. TextRight(d)'
    BY <1>19, <2>3 DEF TextRight, Exists
  <2> QED
    BY <1>0, <1>1, <1>4, <2>3, <2>4, <2>5, Served
<1> QED
  BY <1>0, <1>7, <1>9, <1>10, <1>11, <1>13, <1>14, <1>15, <1>16, <1>17, <1>18, <1>19 DEF serve

-----------------------------------------------------------------------------
PageTypes ==
  /\ cached \in Texts /\ selected \in Items \cup {None}
  /\ form \in [key : Items, text : Text, builder : Text]
  /\ listed \in [key : Items \cup {None}, upto : 0 .. MaxSaves + 1]
  /\ review \in BOOLEAN /\ moved \subseteq {"selection", "text", "builder"}

LEMMA HasPageTypes == ConsoleIInv => PageTypes
BY DEF ConsoleIInv, ConsoleTypeOK, PageTypes

(* A step of the page that the server takes no part in. *)
LEMMA OnPage ==
  ASSUME ConsoleIInv, ServerAlone, moved \subseteq moved', PageTypes', PageRight',
         CallsRight', DOMAIN handler' = Handlers
  PROVE  ConsoleIInv'
<1>1. \A i : Of(i) \subseteq Of(i)'
  BY OfGrows DEF ServerAlone
<1>2. ServerRight'
  BY <1>1 DEF ConsoleIInv, ServerRight, ServerAlone
<1>3. \A g \in Handlers : handler'[g].op \in Ops \cup {"none"}
  BY DEF CallsRight, Handler
<1>4. ConsoleTypeOK' /\ history' \in [Items -> Seq(Text)] /\ kind' \in {"rule", "message", "lookup"}
  BY <1>3 DEF ConsoleIInv, ConsoleTypeOK, PageTypes, ServerAlone
<1> QED
  BY <1>2, <1>4 DEF ConsoleIInv

(* A handler starts with a call that is right. *)
LEMMA Started ==
  ASSUME ConsoleIInv, ServerAlone, UNCHANGED moved, NEW h \in Handlers,
         NEW c \in Handler, Await(h, c), ThenRight(c), TextRight(c)
  PROVE  /\ CallsRight' /\ DOMAIN handler' = Handlers
         /\ listed' \in [key : Items \cup {None}, upto : 0 .. MaxSaves + 1]
         /\ listed'.upto > 0 => listed'.key # None
<1>1. ThenRight(c)' /\ TextRight(c)'
  BY CallKept DEF ServerAlone, TextRight
<1>2. CallsRight' /\ DOMAIN handler' = Handlers
  BY <1>1, CallChanges DEF ConsoleIInv, ServerAlone, Await
<1>3. /\ Nothing \in [key : Items \cup {None}, upto : 0 .. MaxSaves + 1]
      /\ Nothing.upto = 0
  BY Fixed DEF Nothing
<1>4. listed' = Nothing \/ listed' = listed
  BY DEF Await
<1> QED
  BY <1>2, <1>3, <1>4 DEF ConsoleIInv, PageRight, ConsoleTypeOK

(* Showing an item whose text is in hand. *)
LEMMA ShowRight ==
  ASSUME ConsoleIInv, UNCHANGED kind, moved \subseteq moved', NEW i \in Items, NEW t \in Of(i), Show(i, t),
         Strayed(i, t) => kind # "rule" \/ "builder" \in moved'
  PROVE  /\ selected' = i /\ form' \in [key : Items, text : Text, builder : Text]
         /\ form'.key = i /\ form'.builder \in Of(i)'
<1>1. t \in Text /\ form.builder \in Text /\ Of(i) \subseteq Of(i)'
  BY NotNone, OfGrows, HasPageTypes DEF PageTypes
<1>2. form' = [key |-> i, text |-> t, builder |-> IntoBuilder(t)] /\ selected' = i
  BY DEF Show
<1>3. CASE t.fits
  BY <1>1, <1>2, <1>3 DEF IntoBuilder
<1>4. CASE ~t.fits
  <2>1. kind = "rule" /\ (Clean' => form.builder.about = i)
    BY <1>4 DEF Of, Strayed, Clean, Crosses
  <2>2. form.builder \in Of(i)'
    BY <1>1, <2>1 DEF Of
  <2> QED
    BY <1>1, <1>2, <1>4, <2>2 DEF IntoBuilder
<1> QED
  BY <1>3, <1>4

(* Steps of the page that start no handler. *)
LEMMA EditInv ==
  ASSUME ConsoleIInv,
         (\E i \in Items : newItem(i) \/ duplicateSelectedMessage(i)) \/ EditForm \/ closePublishConfirm
  PROVE  ConsoleIInv'
<1>1. PageTypes /\ PageRight /\ CallsRight /\ DOMAIN handler = Handlers
  BY HasPageTypes DEF ConsoleIInv
<1>2. ServerAlone /\ UNCHANGED <<cached, handler, moved>>
  BY DEF newItem, duplicateSelectedMessage, EditForm, closePublishConfirm
<1>3. /\ CallsRight' /\ DOMAIN handler' = Handlers
      /\ \A i : Of(i) \subseteq Of(i)'
      /\ Clean' <=> Clean
  BY <1>1, <1>2, CallsStay, OfGrows DEF ServerAlone, Clean, Crosses
<1>4. \A i \in Items : cached'[i] = None \/ (cached'[i] \in Of(i)' /\ stored'[i] # None)
  BY <1>1, <1>2, <1>3 DEF PageRight, ServerAlone
<1>5. /\ Nothing \in [key : Items \cup {None}, upto : 0 .. MaxSaves + 1]
      /\ Nothing.upto = 0
  BY Fixed DEF Nothing
<1>6. ASSUME NEW i \in Items, NEW t \in Of(i), selected' = None, form' = Made(i, t),
             listed' \in {Nothing, listed}, UNCHANGED review
      PROVE  ConsoleIInv'
  <2>1. form' \in [key : Items, text : Text, builder : Text] /\ form'.key = i /\ form'.builder = t
    BY <1>6, NotNone DEF Made
  <2>2. t \in Of(i)'
    BY <1>3
  <2>3. listed'.upto > 0 => listed'.key # None
    BY <1>1, <1>5, <1>6 DEF PageRight
  <2>4. PageRight'
    BY <1>4, <1>6, <2>1, <2>2, <2>3 DEF PageRight
  <2>5. PageTypes'
    BY <1>1, <1>2, <1>5, <1>6, <2>1 DEF PageTypes
  <2> QED
    BY <1>2, <1>3, <2>4, <2>5, OnPage
<1>7. ASSUME NEW i \in Items, newItem(i) PROVE ConsoleIInv'
  <2>1. Original(i) \in Of(i)
    BY ConsoleBounds DEF Original, Of, Text
  <2> QED
    BY <1>6, <1>7, <2>1 DEF newItem
<1>8. ASSUME NEW i \in Items, duplicateSelectedMessage(i) PROVE ConsoleIInv'
  <2>1. PICK j \in Items : j = Target
    BY <1>1 DEF Target, PageTypes
  <2>2. cached[j] \in Of(j)
    BY <1>1, <1>8, <2>1 DEF PageRight, duplicateSelectedMessage
  <2>3. PICK t : t = [cached[j] EXCEPT !.about = i]
    OBVIOUS
  <2>4. t \in Of(i)
    BY <2>2, <2>3 DEF Of, Text
  <2> QED
    BY <1>6, <1>8, <2>1, <2>3, <2>4 DEF duplicateSelectedMessage
<1>9. ASSUME EditForm PROVE ConsoleIInv'
  <2>1. PICK i \in Items : i = form.key
    BY <1>1 DEF PageTypes
  <2>2. form.builder \in Of(i) /\ form.builder.n < MaxEdits
    BY <1>1, <1>9, <2>1 DEF PageRight, EditForm
  <2>3. PICK t : t = [form.builder EXCEPT !.n = form.builder.n + 1]
    OBVIOUS
  <2>4. t \in Of(i)
    <3>1. form.builder \in Text /\ form.builder.n + 1 \in 0 .. MaxEdits
      BY <2>2, NotNone, ConsoleBounds DEF Text
    <3> QED
      BY <2>2, <2>3, <3>1 DEF Of, Text
  <2>5. form' = Made(i, t) /\ UNCHANGED <<selected, listed, review>>
    BY <1>9, <2>1, <2>3 DEF EditForm
  <2>6. form' \in [key : Items, text : Text, builder : Text] /\ form'.key = i /\ form'.builder = t
    BY <2>4, <2>5, NotNone DEF Made
  <2>7. t \in Of(i)'
    BY <1>3, <2>4
  <2>8. PageRight'
    BY <1>1, <1>2, <1>3, <1>4, <2>1, <2>5, <2>6, <2>7 DEF PageRight, ServerAlone
  <2>9. PageTypes'
    BY <1>1, <1>2, <2>5, <2>6 DEF PageTypes
  <2> QED
    BY <1>2, <1>3, <2>8, <2>9, OnPage
<1>10. ASSUME closePublishConfirm PROVE ConsoleIInv'
  <2>1. UNCHANGED <<cached, selected, form, listed>> /\ review' \in BOOLEAN
    BY <1>10 DEF closePublishConfirm
  <2>2. PageRight'
    BY <1>1, <1>2, <1>3, <1>4, <2>1 DEF PageRight, ServerAlone
  <2>3. PageTypes'
    BY <1>1, <1>2, <2>1 DEF PageTypes
  <2> QED
    BY <1>2, <1>3, <2>2, <2>3, OnPage
<1> QED
  BY <1>7, <1>8, <1>9, <1>10

(* The page, when a handler starts and neither the form's item nor the *)
(* selection changes.                                                  *)
LEMMA StartedHere ==
  ASSUME ConsoleIInv, ServerAlone, UNCHANGED <<cached, selected, review, moved>>,
         form' = form \/ syncJsonFromBuilder,
         NEW h \in Handlers, NEW c \in Handler, Await(h, c), ThenRight(c), TextRight(c)
  PROVE  ConsoleIInv'
<1>1. PageTypes /\ PageRight
  BY HasPageTypes DEF ConsoleIInv
<1>2. /\ CallsRight' /\ DOMAIN handler' = Handlers
      /\ listed' \in [key : Items \cup {None}, upto : 0 .. MaxSaves + 1]
      /\ listed'.upto > 0 => listed'.key # None
  BY Started
<1>3. (\A i : Of(i) \subseteq Of(i)') /\ (Clean' <=> Clean)
  BY OfGrows DEF ServerAlone, Clean, Crosses
<1>4. /\ form' \in [key : Items, text : Text, builder : Text]
      /\ form'.key = form.key /\ form'.builder = form.builder
  BY <1>1 DEF PageTypes, syncJsonFromBuilder, Made
<1>5. PageTypes'
  BY <1>1, <1>2, <1>4 DEF PageTypes
<1>6. PageRight'
  <2>1. \A i \in Items : cached'[i] = None \/ (cached'[i] \in Of(i)' /\ stored'[i] # None)
    BY <1>1, <1>3 DEF PageRight, ServerAlone
  <2>2. \A i \in {form'.key} : form'.builder \in Of(i)'
    BY <1>1, <1>3, <1>4 DEF PageRight
  <2> QED
    BY <1>1, <1>2, <1>3, <1>4, <2>1, <2>2 DEF PageRight, ServerAlone
<1> QED
  BY <1>2, <1>5, <1>6, OnPage

LEMMA StartInv ==
  ASSUME ConsoleIInv, NEW h \in Handlers,
         \/ \E i \in Items : loadRule(h, i) \/ loadMessage(h, i)
         \/ save(h) \/ publishSelectedRule(h) \/ confirmPublishSelectedRule(h)
         \/ \E v \in 1 .. MaxSaves + 1 : versionAction(h, v)
  PROVE  ConsoleIInv'
<1>1. PageTypes /\ PageRight
  BY HasPageTypes DEF ConsoleIInv
<1>2. /\ <<"versions">> \in Thens /\ <<>> \in Thens /\ <<"list">> \in Thens /\ <<"list", "versions">> \in Thens
      /\ <<"list", "open">> \in Thens /\ <<"review">> \in Thens
      /\ <<"publish", "list", "versions">> \in Thens
      /\ {"get", "save", "create", "rollback", "restore", "load_version", "conflicts", "versions"} \subseteq Ops
  BY DEF Thens, Ops
<1>3. ASSUME NEW i \in Items, loadRule(h, i) PROVE ConsoleIInv'
  <2>1. PICK c : c = Call("get", i, <<"versions">>)
    OBVIOUS
  <2>2. /\ c \in Handler /\ c.op = "get" /\ c.key = i /\ c.then = <<"versions">> /\ ~c.answered
    <3>1. "get" \in Ops /\ <<"versions">> \in Thens
      BY <1>2
    <3> QED
      BY <2>1, <3>1, CallShape
  <2>3. stored[i] # None
    BY <1>1, <1>3 DEF PageRight, loadRule
  <2>4. ThenRight(c) /\ TextRight(c)
    BY <2>2, <2>3, Different DEF ThenRight, TextRight, Exists
  <2> QED
    BY <1>3, <2>1, <2>2, <2>4, StartedHere DEF loadRule
<1>4. ASSUME NEW i \in Items, loadMessage(h, i) PROVE ConsoleIInv'
  <2>1. PICK c : c = Call("versions", i, <<>>)
    OBVIOUS
  <2>2. /\ c \in Handler /\ c.op = "versions" /\ c.key = i /\ c.then = <<>> /\ ~c.answered
    <3>1. "versions" \in Ops /\ <<>> \in Thens
      BY <1>2
    <3> QED
      BY <2>1, <3>1, CallShape
  <2>3. ThenRight(c) /\ TextRight(c)
    BY <2>2, Different DEF ThenRight, TextRight, Exists
  <2>4. kind # "rule" /\ ServerAlone /\ UNCHANGED <<cached, review, moved>> /\ Await(h, c)
    BY <1>4, <2>1 DEF loadMessage
  <2>5. PICK t : t = cached[i]
    OBVIOUS
  <2>6. t \in Of(i) /\ stored[i] # None /\ Show(i, t)
    BY <1>1, <1>4, <2>5 DEF PageRight, loadMessage
  <2>7. /\ selected' = i /\ form' \in [key : Items, text : Text, builder : Text]
        /\ form'.key = i /\ form'.builder \in Of(i)'
    BY <2>4, <2>6, ShowRight DEF ServerAlone
  <2>8. /\ CallsRight' /\ DOMAIN handler' = Handlers
        /\ listed' \in [key : Items \cup {None}, upto : 0 .. MaxSaves + 1]
        /\ listed'.upto > 0 => listed'.key # None
    BY <2>2, <2>3, <2>4, Started
  <2>9. \A j \in Items : cached'[j] = None \/ (cached'[j] \in Of(j)' /\ stored'[j] # None)
    BY <1>1, <2>4, OfGrows DEF PageRight, ServerAlone
  <2>10. PageRight'
    BY <2>4, <2>6, <2>7, <2>8, <2>9 DEF PageRight, ServerAlone
  <2>11. PageTypes'
    BY <1>1, <2>4, <2>7, <2>8 DEF PageTypes
  <2> QED
    BY <2>4, <2>8, <2>10, <2>11, OnPage
<1>5. ASSUME save(h) PROVE ConsoleIInv'
  <2>1. PICK i \in Items : i = Target
    BY <1>1 DEF Target, PageTypes
  <2>2. PICK op, then : /\ op = IF kind = "rule" /\ selected = None THEN "create" ELSE "save"
                        /\ then = IF kind = "rule" THEN <<"list">> ELSE <<"list", "versions">>
    OBVIOUS
  <2>3. PICK k \in Items : k = form.key
    BY <1>1 DEF PageTypes
  <2>4. PICK t : t = form.builder
    OBVIOUS
  <2>5. t \in Of(k) /\ t \in Text
    BY <1>1, <2>3, <2>4, NotNone DEF PageRight
  <2>6. PICK c : c = [Call(op, i, then) EXCEPT !.text = t, !.body = k]
    OBVIOUS
  <2>7. op \in Ops /\ then \in Thens
    BY <1>2, <2>2
  <2>8. /\ c \in Handler /\ c.op = op /\ c.key = i /\ c.then = then /\ ~c.answered
        /\ c.text = t /\ c.body = k
    <3>1. PICK b : b = Call(op, i, then)
      OBVIOUS
    <3>2. b \in Handler /\ b.op = op /\ b.key = i /\ b.then = then /\ ~b.answered
      BY <2>7, <3>1, CallShape
    <3>3. c = [b EXCEPT !.text = t, !.body = k]
      BY <2>6, <3>1
    <3> QED
      BY <2>3, <2>5, <3>2, <3>3 DEF Handler
  <2>9. op # "save" \/ kind # "rule" => t \in Of(i)
    BY <1>1, <2>1, <2>2, <2>3, <2>5 DEF Target, PageRight, Of
  <2>10. ThenRight(c) /\ TextRight(c)
    BY <2>1, <2>2, <2>5, <2>8, <2>9, Different DEF ThenRight, TextRight, Exists
  <2>11. Await(h, c) /\ syncJsonFromBuilder /\ ServerAlone /\ UNCHANGED <<cached, selected, review, moved>>
    BY <1>5, <2>1, <2>2, <2>3, <2>4, <2>6 DEF save
  <2> QED
    BY <2>8, <2>10, <2>11, StartedHere
<1>6. ASSUME NEW then \in {<<"review">>, <<"publish", "list", "versions">>}, selected # None,
             Await(h, Call("conflicts", selected, then)),
             syncJsonFromBuilder, ServerAlone, UNCHANGED <<cached, selected, review, moved>>
      PROVE  ConsoleIInv'
  <2>1. PICK i \in Items : i = selected
    BY <1>1, <1>6 DEF PageTypes
  <2>2. PICK c : c = Call("conflicts", i, then)
    OBVIOUS
  <2>3. /\ c \in Handler /\ c.op = "conflicts" /\ c.key = i /\ c.then = then /\ ~c.answered
    <3>1. "conflicts" \in Ops /\ then \in Thens
      BY <1>2, <1>6
    <3> QED
      BY <2>2, <3>1, CallShape
  <2>4. stored[i] # None
    BY <1>1, <1>6, <2>1 DEF PageRight
  <2>5. ThenRight(c) /\ TextRight(c)
    BY <1>6, <2>3, <2>4, Different DEF ThenRight, TextRight, Exists
  <2> QED
    BY <1>6, <2>1, <2>2, <2>3, <2>5, StartedHere
<1>7. ASSUME NEW v \in 1 .. MaxSaves + 1, versionAction(h, v) PROVE ConsoleIInv'
  <2>1. /\ v \in 1 .. listed.upto /\ ServerAlone /\ UNCHANGED <<cached, selected, form, review, moved>>
    BY <1>7 DEF versionAction
  <2>2. listed.key \in Items /\ v \in 0 .. MaxSaves + 1
    <3>1. listed.upto \in 0 .. MaxSaves + 1 /\ listed.key \in Items \cup {None}
      BY <1>1 DEF PageTypes
    <3>2. listed.upto > 0
      BY <2>1, <3>1, ConsoleBounds
    <3> QED
      BY <1>1, <3>1, <3>2 DEF PageRight
  <2>3. ASSUME NEW op \in {"rollback", "restore", "load_version"}, NEW i \in Items, NEW then \in Thens,
               op = "restore" => kind # "rule",
               then = IF op = "restore" THEN <<"list", "open">>
                      ELSE IF op = "rollback" THEN <<"list", "versions">> ELSE <<>>,
               Await(h, [Call(op, i, then) EXCEPT !.version = v])
        PROVE  ConsoleIInv'
    <3>1. PICK c : c = [Call(op, i, then) EXCEPT !.version = v]
      OBVIOUS
    <3>2. /\ c \in Handler /\ c.op = op /\ c.key = i /\ c.then = then /\ ~c.answered
      <4>1. PICK b : b = Call(op, i, then)
        OBVIOUS
      <4>2. op \in Ops
        BY <1>2, <2>3
      <4>3. b \in Handler /\ b.op = op /\ b.key = i /\ b.then = then /\ ~b.answered
        BY <2>3, <4>1, <4>2, CallShape
      <4>4. c = [b EXCEPT !.version = v]
        BY <3>1, <4>1
      <4> QED
        BY <2>2, <4>3, <4>4 DEF Handler
    <3>3. ThenRight(c) /\ TextRight(c)
      BY <2>3, <3>2, Different DEF ThenRight, TextRight, Exists
    <3> QED
      BY <2>1, <2>3, <3>1, <3>2, <3>3, StartedHere
  <2>4. selected # None => selected \in Items
    BY <1>1 DEF PageTypes
  <2>5. PICK i, k : i = selected /\ k = listed.key
    OBVIOUS
  <2> QED
    BY <1>2, <1>7, <2>2, <2>3, <2>4, <2>5 DEF versionAction
<1> QED
  BY <1>3, <1>4, <1>5, <1>6, <1>7 DEF publishSelectedRule, confirmPublishSelectedRule

-----------------------------------------------------------------------------
(* A handler whose call was answered goes on with the call that comes next. *)
LEMMA GoesOn ==
  ASSUME ConsoleIInv, ServerAlone, moved \subseteq moved', NEW h \in Handlers, NEW d \in Handler,
         handler' = [handler EXCEPT ![h] = d], ThenRight(d), TextRight(d)
  PROVE  CallsRight' /\ DOMAIN handler' = Handlers
<1>1. ThenRight(d)' /\ TextRight(d)'
  BY CallKept DEF ServerAlone, TextRight
<1> QED
  BY <1>1, CallChanges DEF ConsoleIInv, ServerAlone

LEMMA Stops ==
  ASSUME ConsoleIInv, ServerAlone, moved \subseteq moved', NEW h \in Handlers,
         handler' = [handler EXCEPT ![h] = Free]
  PROVE  CallsRight' /\ DOMAIN handler' = Handlers
<1>1. PICK d : d = Free
  OBVIOUS
<1>2. d \in Handler /\ d.op = "none" /\ d.then = <<>>
  BY <1>1, FreeShape
<1>3. ThenRight(d) /\ TextRight(d)
  BY <1>2, Different DEF ThenRight, TextRight, Exists
<1> QED
  BY <1>1, <1>2, <1>3, GoesOn

LEMMA ContinueRight ==
  ASSUME ConsoleIInv, ServerAlone, moved \subseteq moved', NEW h \in Handlers, NEW c, c = handler[h],
         c.op \notin {"none", "conflicts"}, c.answered, c.then # <<"open">>, Continue(h, c)
  PROVE  /\ CallsRight' /\ DOMAIN handler' = Handlers
         /\ listed' \in [key : Items \cup {None}, upto : 0 .. MaxSaves + 1]
         /\ listed'.upto > 0 => listed'.key # None
<1>1. c \in Handler /\ ThenRight(c) /\ TextRight(c)
  BY DEF ConsoleIInv, CallsRight
<1>2. c.then \in {<<>>, <<"list">>, <<"versions">>, <<"list", "versions">>, <<"list", "open">>}
  BY <1>1 DEF ThenRight, Handler, Thens
<1>3. /\ listed' \in [key : Items \cup {None}, upto : 0 .. MaxSaves + 1]
      /\ listed'.upto > 0 => listed'.key # None
  <2>1. /\ Nothing \in [key : Items \cup {None}, upto : 0 .. MaxSaves + 1]
        /\ Nothing.upto = 0
    BY Fixed DEF Nothing
  <2>2. listed' = Nothing \/ listed' = listed
    BY DEF Continue
  <2> QED
    BY <2>1, <2>2 DEF ConsoleIInv, PageRight, ConsoleTypeOK
<1>4. CASE handler' = [handler EXCEPT ![h] = Free]
  BY <1>3, <1>4, Stops
<1>5. CASE handler' # [handler EXCEPT ![h] = Free]
  <2>1. PICK key : key = IF Head(c.then) = "versions" THEN VersionsOf(c) ELSE c.key
    OBVIOUS
  <2>2. PICK op, then : op = Head(c.then) /\ then = Tail(c.then)
    OBVIOUS
  <2>3. /\ c.then # <<>> /\ key # None
        /\ handler' = [handler EXCEPT ![h] = Call(op, key, then)]
    BY <1>5, <2>1, <2>2 DEF Continue
  <2>4. c.key \in Items /\ selected \in Items \cup {None}
    BY <1>1, HasPageTypes DEF ThenRight, PageTypes
  <2>5. key \in Items /\ (op # "versions" => key = c.key)
    BY <2>1, <2>2, <2>3, <2>4 DEF VersionsOf
  <2>6. /\ op \in {"list", "versions"} /\ then \in {<<>>, <<"versions">>, <<"open">>}
        /\ then = <<"open">> => c.then = <<"list", "open">> /\ op = "list"
    BY <1>2, <2>2, <2>3, Rests, Different
  <2>7. op \in Ops /\ then \in Thens
    BY <2>6 DEF Ops, Thens
  <2>8. PICK d : d = Call(op, key, then)
    OBVIOUS
  <2>9. d \in Handler /\ d.op = op /\ d.key = key /\ d.then = then /\ ~d.answered
    BY <2>5, <2>7, <2>8, CallShape
  <2>10. then = <<"open">> => kind # "rule" /\ stored[c.key] # None /\ key = c.key
    BY <1>1, <2>5, <2>6 DEF ThenRight, TextRight, Exists
  <2>11. ThenRight(d)
    BY <2>5, <2>6, <2>9, <2>10, Different DEF ThenRight
  <2>12. TextRight(d)
    BY <2>6, <2>9, <2>10 DEF TextRight, Exists
  <2> QED
    BY <1>3, <2>3, <2>8, <2>9, <2>11, <2>12, GoesOn
<1> QED
  BY <1>4, <1>5

(* The page, when an answer changes neither its form nor its selection. *)
LEMMA SamePage ==
  ASSUME ConsoleIInv, ServerAlone, UNCHANGED <<cached, selected, form, moved>>,
         CallsRight', DOMAIN handler' = Handlers, review' \in BOOLEAN,
         listed' \in [key : Items \cup {None}, upto : 0 .. MaxSaves + 1],
         listed'.upto > 0 => listed'.key # None
  PROVE  ConsoleIInv'
<1>1. PageTypes /\ PageRight
  BY HasPageTypes DEF ConsoleIInv
<1>2. (\A i : Of(i) \subseteq Of(i)') /\ (Clean' <=> Clean)
  BY OfGrows DEF ServerAlone, Clean, Crosses
<1>3. PageTypes'
  BY <1>1 DEF PageTypes
<1>4. PageRight'
  <2>1. \A i \in Items : cached'[i] = None \/ (cached'[i] \in Of(i)' /\ stored'[i] # None)
    BY <1>1, <1>2 DEF PageRight, ServerAlone
  <2>2. \A i \in {form'.key} : form'.builder \in Of(i)'
    BY <1>1, <1>2 DEF PageRight
  <2> QED
    BY <1>1, <1>2, <2>1, <2>2 DEF PageRight, ServerAlone
<1> QED
  BY <1>3, <1>4, OnPage

LEMMA AnsweredInv ==
  ASSUME ConsoleIInv, NEW h \in Handlers, answered(h)
  PROVE  ConsoleIInv'
<1>0. PICK c : c = handler[h]
  OBVIOUS
<1>1. c \in Handler /\ ThenRight(c) /\ TextRight(c) /\ c.answered /\ ServerAlone
  BY <1>0 DEF ConsoleIInv, CallsRight, answered
<1>2. PageTypes /\ PageRight
  BY HasPageTypes DEF ConsoleIInv
<1>3. c.op # "none" => c.key \in Items
  BY <1>1 DEF ThenRight
<1>4. /\ listed \in [key : Items \cup {None}, upto : 0 .. MaxSaves + 1]
      /\ listed.upto > 0 => listed.key # None
      /\ review \in BOOLEAN
  BY <1>2 DEF PageTypes, PageRight
<1>5. moved \subseteq moved' => /\ \A i : Of(i) \subseteq Of(i)'
                                /\ Clean' => Clean
  BY <1>1, OfGrows DEF ServerAlone
<1>6. ASSUME refused(h, c) PROVE ConsoleIInv'
  BY <1>1, <1>4, <1>6, Stops, SamePage DEF refused
<1>7. ASSUME ruleLoaded(h, c) PROVE ConsoleIInv'
  <2>1. PICK t : t = c.text
    OBVIOUS
  <2>2. /\ c.op = "get" /\ c.then # <<"open">> /\ t \in Of(c.key) /\ stored[c.key] # None
        /\ Show(c.key, t) /\ Continue(h, c) /\ UNCHANGED <<cached, review>>
        /\ moved' = IF Strayed(c.key, t) THEN moved \cup {"builder"} ELSE moved
    BY <1>1, <1>7, <2>1 DEF ruleLoaded, ThenRight, TextRight, Exists
  <2>3. moved \subseteq moved' /\ moved' \subseteq {"selection", "text", "builder"}
    BY <1>2, <2>2 DEF PageTypes
  <2>4. /\ selected' = c.key /\ form' \in [key : Items, text : Text, builder : Text]
        /\ form'.key = c.key /\ form'.builder \in Of(c.key)'
    <3>1. PICK i \in Items : i = c.key
      BY <1>3, <2>2
    <3> QED
      BY <1>1, <2>2, <2>3, <3>1, ShowRight DEF ServerAlone
  <2>5. /\ CallsRight' /\ DOMAIN handler' = Handlers
        /\ listed' \in [key : Items \cup {None}, upto : 0 .. MaxSaves + 1]
        /\ listed'.upto > 0 => listed'.key # None
    BY <1>0, <1>1, <2>2, <2>3, ContinueRight
  <2>6. PageTypes'
    BY <1>2, <1>3, <2>2, <2>3, <2>4, <2>5 DEF PageTypes
  <2>7. \A j \in Items : cached'[j] = None \/ (cached'[j] \in Of(j)' /\ stored'[j] # None)
    BY <1>1, <1>2, <1>5, <2>2, <2>3 DEF PageRight, ServerAlone
  <2>8. PageRight'
    BY <1>1, <2>2, <2>4, <2>5, <2>7 DEF PageRight, ServerAlone
  <2> QED
    BY <1>1, <2>3, <2>5, <2>6, <2>8, OnPage
<1>8. ASSUME saved(h, c) PROVE ConsoleIInv'
  <2>1. /\ c.op \in {"save", "create"} /\ c.then # <<"open">> /\ stored[c.key] # None
        /\ selected' = c.key /\ Continue(h, c) /\ UNCHANGED <<cached, form, review>>
        /\ moved' = IF form.key # c.key THEN moved \cup {"selection"} ELSE moved
    BY <1>1, <1>8 DEF saved, ThenRight, TextRight, Exists
  <2>2. moved \subseteq moved' /\ moved' \subseteq {"selection", "text", "builder"}
    BY <1>2, <2>1 DEF PageTypes
  <2>3. /\ CallsRight' /\ DOMAIN handler' = Handlers
        /\ listed' \in [key : Items \cup {None}, upto : 0 .. MaxSaves + 1]
        /\ listed'.upto > 0 => listed'.key # None
    BY <1>0, <1>1, <2>1, <2>2, ContinueRight
  <2>4. PageTypes'
    BY <1>2, <1>3, <2>1, <2>2, <2>3 DEF PageTypes
  <2>5. /\ \A j \in Items : cached'[j] = None \/ (cached'[j] \in Of(j)' /\ stored'[j] # None)
        /\ \A i \in {form'.key} : form'.builder \in Of(i)'
    BY <1>1, <1>2, <1>5, <2>1, <2>2 DEF PageRight, ServerAlone
  <2>6. kind' # "rule" /\ Clean' => selected' \in {None, form'.key}
    BY <1>1, <2>1 DEF Clean, Crosses, ServerAlone
  <2>7. PageRight'
    BY <1>1, <2>1, <2>3, <2>5, <2>6 DEF PageRight, ServerAlone
  <2> QED
    BY <1>1, <2>2, <2>3, <2>4, <2>7, OnPage
<1>9. ASSUME versionLoaded(h, c) PROVE ConsoleIInv'
  <2>1. PICK t, i : t = c.text /\ i = form.key
    OBVIOUS
  <2>2. /\ c.op \in {"rollback", "load_version"} /\ c.then # <<"open">> /\ t \in Of(c.key)
        /\ form' = [form EXCEPT !.text = t, !.builder = IntoBuilder(t)]
        /\ moved' = moved \cup (IF i # c.key THEN {"text"} ELSE {})
                          \cup (IF Strayed(i, t) THEN {"builder"} ELSE {})
        /\ Continue(h, c) /\ UNCHANGED <<cached, selected, review>>
    BY <1>1, <1>9, <2>1 DEF versionLoaded, ThenRight, TextRight, Exists
  <2>3. moved \subseteq moved' /\ moved' \subseteq {"selection", "text", "builder"}
    BY <1>2, <2>2 DEF PageTypes
  <2>4. t \in Text /\ form.builder \in Text /\ form \in [key : Items, text : Text, builder : Text]
    BY <1>2, <2>2, NotNone DEF PageTypes
  <2>5. /\ form' \in [key : Items, text : Text, builder : Text] /\ form'.key = i
        /\ form'.builder = IntoBuilder(t)
    BY <2>1, <2>2, <2>4 DEF IntoBuilder
  <2>6. form'.builder \in Of(i)'
    <3>1. CASE t.fits
      <4>1. Clean' => i = c.key
        BY <2>2 DEF Clean, Crosses
      <4>2. form'.builder = t /\ t \in Of(c.key)'
        BY <1>5, <2>2, <2>3, <2>5, <3>1 DEF IntoBuilder
      <4> QED
        BY <4>1, <4>2 DEF Of
    <3>2. CASE ~t.fits
      <4>1. kind = "rule" /\ kind' = kind
        BY <1>1, <2>2, <3>2 DEF Of, ServerAlone
      <4>2. Clean' => form.builder.about = i
        BY <2>2, <3>2, <4>1 DEF Strayed, Clean, Crosses
      <4>3. form'.builder = form.builder
        BY <2>5, <3>2 DEF IntoBuilder
      <4> QED
        BY <2>4, <4>1, <4>2, <4>3 DEF Of
    <3> QED
      BY <3>1, <3>2
  <2>7. /\ CallsRight' /\ DOMAIN handler' = Handlers
        /\ listed' \in [key : Items \cup {None}, upto : 0 .. MaxSaves + 1]
        /\ listed'.upto > 0 => listed'.key # None
    BY <1>0, <1>1, <2>2, <2>3, ContinueRight
  <2>8. PageTypes'
    BY <1>2, <2>2, <2>3, <2>5, <2>7 DEF PageTypes
  <2>9. \A j \in Items : cached'[j] = None \/ (cached'[j] \in Of(j)' /\ stored'[j] # None)
    BY <1>1, <1>2, <1>5, <2>2, <2>3 DEF PageRight, ServerAlone
  <2>10. kind' # "rule" /\ Clean' => selected' \in {None, form'.key}
    BY <1>1, <1>2, <1>5, <2>1, <2>2, <2>3, <2>5 DEF PageRight, ServerAlone
  <2>11. PageRight'
    BY <1>1, <1>2, <2>2, <2>5, <2>6, <2>7, <2>9, <2>10 DEF PageRight, ServerAlone
  <2> QED
    BY <1>1, <2>3, <2>7, <2>8, <2>11, OnPage
<1>10. ASSUME conflictsLoaded(h, c) PROVE ConsoleIInv'
  <2>1. /\ c.op = "conflicts" /\ UNCHANGED <<cached, selected, form, listed, moved>>
        /\ review' \in BOOLEAN
    BY <1>4, <1>10 DEF conflictsLoaded
  <2>2. CASE handler' = [handler EXCEPT ![h] = Free]
    BY <1>1, <1>4, <2>1, <2>2, Stops, SamePage
  <2>3. CASE /\ c.then # <<"review">> /\ selected # None
             /\ handler' = [handler EXCEPT ![h] = Call("publish", selected, Tail(c.then))]
    <3>1. PICK i \in Items : i = selected
      BY <1>2, <2>3 DEF PageTypes
    <3>2. PICK then : then = Tail(c.then)
      OBVIOUS
    <3>3. "publish" \in Ops
      BY DEF Ops
    <3>4. ASSUME then \in Thens \ {<<"review">>, <<"publish", "list", "versions">>, <<"open">>, <<"list", "open">>}
          PROVE  ConsoleIInv'
      <4>1. PICK d : d = Call("publish", i, then)
        OBVIOUS
      <4>2. d \in Handler /\ d.op = "publish" /\ d.key = i /\ d.then = then /\ ~d.answered
        BY <3>3, <3>4, <4>1, CallShape
      <4>3. stored[i] # None
        BY <1>2, <2>3, <3>1 DEF PageRight
      <4>4. ThenRight(d) /\ TextRight(d)
        BY <3>4, <4>2, <4>3 DEF ThenRight, TextRight, Exists
      <4>5. CallsRight' /\ DOMAIN handler' = Handlers
        BY <1>1, <2>1, <2>3, <3>1, <3>2, <4>1, <4>2, <4>4, GoesOn
      <4> QED
        BY <1>1, <1>4, <2>1, <4>5, SamePage
    <3>5. c.then = <<"publish", "list", "versions">>
      BY <1>1, <2>1, <2>3 DEF ThenRight
    <3>6. then = <<"list", "versions">>
      BY <3>2, <3>5, Rests
    <3> QED
      BY <3>4, <3>6, Different DEF Thens
  <2> QED
    BY <1>10, <2>2, <2>3 DEF conflictsLoaded
<1>11. ASSUME published(h, c) PROVE ConsoleIInv'
  <2>1. /\ c.op = "publish" /\ c.then # <<"open">> /\ Continue(h, c) /\ review' \in BOOLEAN
        /\ UNCHANGED <<cached, selected, form, moved>>
    BY <1>1, <1>11 DEF published, ThenRight
  <2> QED
    BY <1>0, <1>1, <2>1, ContinueRight, SamePage
<1>12. ASSUME restored(h, c) PROVE ConsoleIInv'
  <2>1. /\ c.op = "restore" /\ c.then # <<"open">> /\ Continue(h, c)
        /\ UNCHANGED <<cached, selected, form, review, moved>>
    BY <1>1, <1>12 DEF restored, ThenRight
  <2> QED
    BY <1>0, <1>1, <1>4, <2>1, ContinueRight, SamePage
<1>13. ASSUME listLoaded(h, c) PROVE ConsoleIInv'
  <2>1. /\ c.op = "list" /\ cached' = c.texts /\ UNCHANGED <<review, moved>>
        /\ \A i \in Items : c.texts[i] = None \/ (c.texts[i] \in Of(i) /\ stored[i] # None)
    BY <1>1, <1>13 DEF listLoaded, TextRight
  <2>2. /\ \A j \in Items : cached'[j] = None \/ (cached'[j] \in Of(j)' /\ stored'[j] # None)
        /\ Clean' <=> Clean
        /\ cached' \in Texts
    BY <1>1, <1>5, <1>13, <2>1 DEF ServerAlone, Clean, Crosses, TextRight
  <2>3. CASE c.then = <<"open">>
    <3>1. PICK i \in Items : i = c.key
      BY <1>3, <2>1
    <3>2. PICK t : t = c.texts[i]
      OBVIOUS
    <3>3. /\ t \in Of(i) /\ stored[i] # None /\ kind # "rule"
          /\ Show(i, t) /\ listed' = Nothing
          /\ handler' = [handler EXCEPT ![h] = Call("versions", i, <<>>)]
      BY <1>1, <1>13, <2>1, <2>3, <3>1, <3>2 DEF listLoaded, ThenRight, TextRight
    <3>4. /\ selected' = i /\ form' \in [key : Items, text : Text, builder : Text]
          /\ form'.key = i /\ form'.builder \in Of(i)'
      BY <1>1, <2>1, <3>3, ShowRight DEF ServerAlone
    <3>5. PICK d : d = Call("versions", i, <<>>)
      OBVIOUS
    <3>6. "versions" \in Ops /\ <<>> \in Thens
      BY Fixed DEF Ops
    <3>7. d \in Handler /\ d.op = "versions" /\ d.key = i /\ d.then = <<>> /\ ~d.answered
      BY <3>5, <3>6, CallShape
    <3>8. ThenRight(d) /\ TextRight(d)
      BY <3>7, Different DEF ThenRight, TextRight, Exists
    <3>9. CallsRight' /\ DOMAIN handler' = Handlers
      BY <1>1, <2>1, <3>3, <3>5, <3>7, <3>8, GoesOn
    <3>10. Nothing \in [key : Items \cup {None}, upto : 0 .. MaxSaves + 1] /\ Nothing.upto = 0
      BY Fixed DEF Nothing
    <3>11. PageTypes'
      BY <1>2, <2>1, <2>2, <3>3, <3>4, <3>10 DEF PageTypes
    <3>12. PageRight'
      BY <1>1, <2>2, <3>3, <3>4, <3>10 DEF PageRight, ServerAlone
    <3> QED
      BY <1>1, <2>1, <3>9, <3>11, <3>12, OnPage
  <2>4. CASE c.then # <<"open">>
    <3>1. Continue(h, c) /\ UNCHANGED <<selected, form>>
      BY <1>13, <2>4 DEF listLoaded
    <3>2. /\ CallsRight' /\ DOMAIN handler' = Handlers
          /\ listed' \in [key : Items \cup {None}, upto : 0 .. MaxSaves + 1]
          /\ listed'.upto > 0 => listed'.key # None
      BY <1>0, <1>1, <2>1, <2>4, <3>1, ContinueRight
    <3>3. PageTypes'
      BY <1>2, <2>1, <2>2, <3>1, <3>2 DEF PageTypes
    <3>4. \A i \in {form'.key} : form'.builder \in Of(i)'
      BY <1>2, <1>5, <2>1, <3>1 DEF PageRight
    <3>5. PageRight'
      BY <1>1, <1>2, <2>2, <3>1, <3>2, <3>4 DEF PageRight, ServerAlone
    <3> QED
      BY <1>1, <2>1, <3>2, <3>3, <3>5, OnPage
  <2> QED
    BY <2>3, <2>4
<1>14. ASSUME versionsLoaded(h, c) PROVE ConsoleIInv'
  <2>1. /\ c.op = "versions" /\ handler' = [handler EXCEPT ![h] = Free]
        /\ listed' = [key |-> c.key, upto |-> IF c.version > listed.upto THEN c.version ELSE listed.upto]
        /\ UNCHANGED <<cached, selected, form, review, moved>>
    BY <1>14 DEF versionsLoaded
  <2>2. c.version \in 0 .. MaxSaves + 1 /\ c.key \in Items
    BY <1>1, <1>3, <2>1 DEF Handler
  <2>3. /\ listed' \in [key : Items \cup {None}, upto : 0 .. MaxSaves + 1]
        /\ listed'.upto > 0 => listed'.key # None
    BY <1>4, <2>1, <2>2, ConsoleNone
  <2> QED
    BY <1>1, <1>4, <2>1, <2>3, Stops, SamePage
<1> QED
  BY <1>0, <1>6, <1>7, <1>8, <1>9, <1>10, <1>11, <1>12, <1>13, <1>14 DEF answered

LEMMA ConsoleInitInv == ConsoleInit => ConsoleIInv
<1> SUFFICES ASSUME ConsoleInit PROVE ConsoleIInv
  OBVIOUS
<1>1. PICK known \in (SUBSET Items) \ {{}}, odd \in SUBSET Items :
        /\ kind # "rule" => odd = {}
        /\ stored = [i \in Items |-> IF i \in known THEN [Original(i) EXCEPT !.fits = i \notin odd] ELSE None]
        /\ history = [i \in Items |-> IF i \in known THEN <<[Original(i) EXCEPT !.fits = i \notin odd]>> ELSE <<>>]
  BY DEF ConsoleInit
<1>2. PICK k \in Items : form = Made(k, Original(k))
  BY DEF ConsoleInit
<1>3. /\ kind \in {"rule", "message", "lookup"} /\ cached = stored /\ selected = None
      /\ listed = [key |-> None, upto |-> 0] /\ review = FALSE
      /\ handler = [h \in Handlers |-> Free] /\ moved = {}
  BY DEF ConsoleInit
<1>4. ASSUME NEW i \in Items
      PROVE  /\ Original(i) \in Of(i)
             /\ [Original(i) EXCEPT !.fits = i \notin odd] \in Of(i)
  <2>1. Original(i) \in Text /\ Original(i).about = i /\ Original(i).fits
    BY ConsoleBounds DEF Original, Text
  <2>2. [Original(i) EXCEPT !.fits = i \notin odd] \in Text
    BY <2>1 DEF Text
  <2>3. kind # "rule" => i \notin odd
    BY <1>1
  <2> QED
    BY <2>1, <2>2, <2>3 DEF Of, Original
<1>5. \A i \in Items : stored[i] = None \/ stored[i] \in Of(i)
  BY <1>1, <1>4
<1>6. stored \in Texts
  BY <1>1, <1>4, NotNone DEF Texts
<1>7. ASSUME NEW i \in Items
      PROVE  /\ history[i] \in Seq(Text) /\ Len(history[i]) <= MaxSaves + 1
             /\ \A v \in DOMAIN history[i] : history[i][v] \in Of(i)
  <2>1. PICK t \in Of(i) : t = [Original(i) EXCEPT !.fits = i \notin odd]
    BY <1>4
  <2>2. history[i] = <<t>> \/ history[i] = <<>>
    BY <1>1, <2>1
  <2>3. t \in Text
    BY NotNone
  <2>4. /\ <<t>> \in Seq(Text) /\ Len(<<t>>) = 1 /\ DOMAIN <<t>> = {1} /\ <<t>>[1] = t
        /\ <<>> \in Seq(Text) /\ Len(<<>>) = 0
    BY <2>3
  <2>5. DOMAIN <<>> = {}
    OBVIOUS
  <2>6. 0 <= MaxSaves + 1 /\ 1 <= MaxSaves + 1
    BY ConsoleBounds
  <2>7. CASE history[i] = <<t>>
    BY <2>4, <2>6, <2>7
  <2>8. CASE history[i] = <<>>
    BY <2>4, <2>5, <2>6, <2>8
  <2> QED
    BY <2>2, <2>7, <2>8
<1>8. history \in [Items -> Seq(Text)]
  BY <1>1, <1>7
<1>9. ServerRight
  BY <1>5, <1>7 DEF ServerRight
<1>10. form \in [key : Items, text : Text, builder : Text] /\ form.key = k /\ form.builder \in Of(k)
  BY <1>2, <1>4, NotNone DEF Made
<1>11. PageRight
  BY <1>3, <1>5, <1>10 DEF PageRight
<1>12. CallsRight
  <2>1. PICK d : d = Free
    OBVIOUS
  <2>2. d \in Handler /\ d.op = "none" /\ d.then = <<>>
    BY <2>1, FreeShape
  <2>3. ThenRight(d) /\ TextRight(d)
    BY <2>2, Different DEF ThenRight, TextRight, Exists
  <2> QED
    BY <1>3, <2>1, <2>2, <2>3 DEF CallsRight
<1>13. ConsoleTypeOK
  <2>1. \A h \in Handlers : handler[h].op \in Ops \cup {"none"}
    BY <1>3, FreeShape
  <2>2. listed \in [key : Items \cup {None}, upto : 0 .. MaxSaves + 1]
    BY <1>3, Fixed
  <2> QED
    BY <1>3, <1>6, <1>7, <1>10, <2>1, <2>2 DEF ConsoleTypeOK
<1> QED
  BY <1>3, <1>8, <1>9, <1>11, <1>12, <1>13 DEF ConsoleIInv

LEMMA ConsoleStepInv == ConsoleIInv /\ [ConsoleNext]_consoleVars => ConsoleIInv'
<1> SUFFICES ASSUME ConsoleIInv, [ConsoleNext]_consoleVars PROVE ConsoleIInv'
  OBVIOUS
<1>1. CASE UNCHANGED consoleVars
  <2>1. PageTypes /\ PageRight /\ CallsRight /\ DOMAIN handler = Handlers
    BY HasPageTypes DEF ConsoleIInv
  <2>2. CallsRight' /\ DOMAIN handler' = Handlers
    BY <1>1, <2>1, CallsStay DEF consoleVars
  <2> QED
    BY <1>1, <2>1, <2>2, SamePage DEF consoleVars, ServerAlone, PageTypes, PageRight
<1> QED
  BY <1>1, EditInv, StartInv, ServeInv, AnsweredInv DEF ConsoleNext

LEMMA ConsoleInvariant == ConsoleSpec => []ConsoleIInv
BY ConsoleInitInv, ConsoleStepInv, PTL DEF ConsoleSpec

(***************************************************************************)
(* The variables of page and server keep their types, and the version list *)
(* offers no version its item cannot have.                                 *)
(***************************************************************************)
THEOREM ConsoleTypeCorrect == ConsoleSpec => []ConsoleTypeOK
<1>1. ConsoleIInv => ConsoleTypeOK
  BY DEF ConsoleIInv
<1> QED
  BY <1>1, ConsoleInvariant, PTL

(***************************************************************************)
(* What is stored under an item, and every version of it, was written for  *)
(* that item, unless what the form shows, the selection or the builder had *)
(* come to be about another one.                                           *)
(***************************************************************************)
THEOREM TextSafe == ConsoleSpec => []TextStaysWithItem
<1>1. ConsoleIInv => TextStaysWithItem
  BY DEF ConsoleIInv, ServerRight, Of, Clean, TextStaysWithItem
<1> QED
  BY <1>1, ConsoleInvariant, PTL

-----------------------------------------------------------------------------
(***************************************************************************)
(* CampaignActions.  A preview nobody has disturbed lists what the loop    *)
(* wants on the assets as they are.  A dry run never changes the table, so *)
(* its loop takes what it wants; the real loop writes rows that no later   *)
(* iteration looks at, unless two copies share a row, so it takes the same.*)
(* Both are inductions over the iterations.                                *)
(***************************************************************************)

(* A set of natural numbers has a least element: induction without an      *)
(* operator as a parameter.                                                *)
LEMMA LeastElement ==
  ASSUME NEW T \in SUBSET Nat, T # {}
  PROVE  \E n \in T : \A m \in T : n <= m
<1> DEFINE R == {p \in Nat \X Nat : p[1] < p[2]}
<1>1. IsWellFoundedOn(R, Nat)
  BY NatLessThanWellFounded DEF OpToRel
<1> HIDE DEF R
<1>2. PICK n \in T : \A m \in T : <<m, n>> \notin R
  BY <1>1, WFMin
<1>3. ASSUME NEW m \in T  PROVE n <= m
  <2>1. m \in Nat /\ n \in Nat
    OBVIOUS
  <2>2. ~(m < n)
    BY <1>2, <2>1 DEF R
  <2> QED
    BY <2>1, <2>2
<1> QED
  BY <1>3

(* Induction over the natural numbers, for a set of them. *)
LEMMA AllNumbers ==
  ASSUME NEW T \in SUBSET Nat, 0 \in T, \A n \in T : n + 1 \in T
  PROVE  T = Nat
<1> SUFFICES ASSUME Nat \ T # {} PROVE FALSE
  OBVIOUS
<1>1. PICK n \in Nat \ T : \A m \in Nat \ T : n <= m
  BY LeastElement
<1>2. n # 0 /\ n - 1 \in Nat
  OBVIOUS
<1>3. n - 1 \in T
  BY <1>1, <1>2
<1>4. (n - 1) + 1 = n
  OBVIOUS
<1> QED
  BY <1>3, <1>4

-----------------------------------------------------------------------------
(* The loop over the assets, iteration by iteration. *)
Loop(f, first, action, target, dryRun, ids) ==
  f = [n \in 0 .. Len(ids) |-> IF n = 0 THEN first
                                  ELSE affectOne(f[n - 1], action, target, dryRun, ids[n])]

LEMMA LoopExists ==
  ASSUME NEW first, NEW action, NEW target, NEW dryRun, NEW ids, Len(ids) \in Nat
  PROVE  \E f : Loop(f, first, action, target, dryRun, ids)
<1> DEFINE step(x, n) == affectOne(x, action, target, dryRun, ids[n])
           Solves(f, l) == f = [n \in 0 .. l |-> IF n = 0 THEN first ELSE step(f[n - 1], n)]
           Solved == {l \in Nat : \E f : Solves(f, l)}
<1> HIDE DEF step
<1>1. 0 \in Solved
  <2> DEFINE f == [n \in 0 .. 0 |-> first]
  <2>1. \A n \in 0 .. 0 : n = 0
    OBVIOUS
  <2>2. Solves(f, 0)
    BY <2>1
  <2> HIDE DEF f, Solves
  <2> QED
    BY <2>2
<1>2. ASSUME NEW l \in Solved PROVE l + 1 \in Solved
  <2>1. PICK f : Solves(f, l)
    OBVIOUS
  <2> DEFINE h == [n \in 0 .. l + 1 |-> IF n = l + 1 THEN step(f[l], n) ELSE f[n]]
  <2>2. ASSUME NEW n \in 0 .. l + 1
        PROVE  h[n] = IF n = 0 THEN first ELSE step(h[n - 1], n)
    <3>1. CASE n = 0
      BY <2>1, <3>1
    <3>2. CASE n = l + 1
      BY <3>2
    <3>3. CASE n # 0 /\ n # l + 1
      <4>1. n \in 0 .. l /\ n - 1 \in 0 .. l + 1 /\ n - 1 # l + 1
        BY <3>3
      <4>2. h[n] = f[n] /\ h[n - 1] = f[n - 1]
        BY <3>3, <4>1
      <4> QED
        BY <2>1, <3>3, <4>1, <4>2
    <3> QED
      BY <3>1, <3>2, <3>3
  <2>3. h = [n \in 0 .. l + 1 |-> h[n]]
    OBVIOUS
  <2> HIDE DEF h
  <2>4. Solves(h, l + 1)
    BY <2>2, <2>3
  <2> HIDE DEF Solves
  <2> QED
    BY <2>4
<1>3. Len(ids) \in Solved
  <2> HIDE DEF Solved
  <2>1. Solved \in SUBSET Nat
    BY DEF Solved
  <2> QED
    BY <1>1, <1>2, <2>1, AllNumbers
<1> QED
  BY <1>3 DEF step, Loop

-----------------------------------------------------------------------------
(* The assets an action is about, in the order of the loop; none for a     *)
(* move to where they are.                                                 *)
Walked(table, campaign, action, target) ==
  IF action = "move" /\ target = campaign THEN <<>> ELSE listCampaignAssets(table, campaign)

(* What the first iterations take when they look at the first table.       *)
Taken(table, action, ids, count) ==
  {id \in Ids : \E n \in 1 .. count : ids[n] = id /\ ~ skip(table, action, id)}

Want(table, campaign, action, target) ==
  LET ids == Walked(table, campaign, action, target) IN Taken(table, action, ids, Len(ids))

(* A listing is a sequence of ids without repetition. *)
LEMMA ListRight ==
  ASSUME NEW table, NEW campaign, NEW action, NEW target
  PROVE  LET ids == Walked(table, campaign, action, target)
         IN  /\ ids \in Seq(Ids) /\ Len(ids) \in Nat
             /\ \A n \in 1 .. Len(ids) : ids[n] \in Ids /\ table[ids[n]] # NoAsset
             /\ \A m, n \in 1 .. Len(ids) : ids[m] = ids[n] => m = n
             /\ ToSet(ids) \subseteq ToSet(listCampaignAssets(table, campaign))
<1> DEFINE S == {id \in Ids : table[id] # NoAsset /\ table[id].campaign = campaign}
           list == SetToSeq(S)
<1>1. IsFiniteSet(S)
  <2>1. IsFiniteSet(Ids)
    BY FS_Union, AssetsAssumption DEF Ids
  <2> QED
    BY <2>1, FS_Subset
<1>2. Cardinality(S) \in Nat /\ ExistsBijection(1 .. Cardinality(S), S)
  BY <1>1, FS_CardinalityType
<1>3. \E f \in [1 .. Cardinality(S) -> S] : IsInjective(f)
  <2> HIDE DEF S
  <2> QED
    BY <1>2 DEF ExistsBijection, Bijection, Injection
<1>4. list \in [1 .. Cardinality(S) -> S] /\ IsInjective(list)
  <2> HIDE DEF S
  <2> QED
    BY <1>3 DEF SetToSeq
<1>5. S \subseteq Ids /\ (\A id \in S : table[id] # NoAsset) /\ list = listCampaignAssets(table, campaign)
  BY DEF listCampaignAssets
<1> HIDE DEF S
<1> HIDE DEF list
<1>6. list \in Seq(Ids) /\ Len(list) = Cardinality(S)
  BY <1>2, <1>4, <1>5
<1>7. \A m, n \in 1 .. Len(list) : list[m] = list[n] => m = n
  BY <1>4, <1>6 DEF IsInjective
<1>8. CASE action = "move" /\ target = campaign
  <2>1. Walked(table, campaign, action, target) = <<>>
    BY <1>8 DEF Walked
  <2> QED
    BY <2>1 DEF ToSet
<1>9. CASE ~(action = "move" /\ target = campaign)
  <2>1. Walked(table, campaign, action, target) = list
    BY <1>5, <1>9 DEF Walked
  <2>2. \A n \in 1 .. Len(list) : list[n] \in S
    BY <1>4, <1>6
  <2>3. \A n \in 1 .. Len(list) : list[n] \in Ids /\ table[list[n]] # NoAsset
    BY <1>5, <2>2
  <2> QED
    BY <1>2, <1>5, <1>6, <1>7, <2>1, <2>3
<1> QED
  BY <1>8, <1>9

(* The action is the last value of the loop. *)
Runs(f, action, target, dryRun, ids) ==
  /\ f[0] = [affected |-> {}, assets |-> assets]
  /\ \A n \in 1 .. Len(ids) : f[n] = affectOne(f[n - 1], action, target, dryRun, ids[n])

LEMMA ActionIsLoop ==
  ASSUME NEW campaign, NEW action, NEW target, NEW dryRun
  PROVE  LET ids == Walked(assets, campaign, action, target)
         IN  \E f : /\ Runs(f, action, target, dryRun, ids)
                   /\ applyCampaignAction(campaign, action, target, dryRun) = f[Len(ids)]
<1> DEFINE ids == Walked(assets, campaign, action, target)
           first == [affected |-> {}, assets |-> assets]
           f == CHOOSE g : Loop(g, first, action, target, dryRun, ids)
<1>1. Len(ids) \in Nat
  BY ListRight
<1>2. applyCampaignAction(campaign, action, target, dryRun) = f[Len(ids)]
  BY DEF applyCampaignAction, Walked, Loop
<1> HIDE DEF ids, first
<1>3. Loop(f, first, action, target, dryRun, ids)
  BY <1>1, LoopExists
<1> HIDE DEF f
<1>4. f[0] = first
  BY <1>1, <1>3 DEF Loop
<1>5. \A n \in 1 .. Len(ids) : f[n] = affectOne(f[n - 1], action, target, dryRun, ids[n])
  BY <1>1, <1>3 DEF Loop
<1>6. Runs(f, action, target, dryRun, ids)
  BY <1>4, <1>5 DEF first, Runs
<1> QED
  BY <1>2, <1>6 DEF ids

LEMMA TakenStays ==
  ASSUME NEW table, NEW action, NEW ids, NEW n \in Nat, skip(table, action, ids[n + 1])
  PROVE  Taken(table, action, ids, n + 1) = Taken(table, action, ids, n)
<1>1. 1 .. n + 1 = (1 .. n) \cup {n + 1}
  OBVIOUS
<1> QED
  BY <1>1 DEF Taken

LEMMA TakenGrows ==
  ASSUME NEW table, NEW action, NEW ids, NEW n \in Nat,
         ids[n + 1] \in Ids, ~ skip(table, action, ids[n + 1])
  PROVE  Taken(table, action, ids, n + 1) = Taken(table, action, ids, n) \cup {ids[n + 1]}
<1>1. 1 .. n + 1 = (1 .. n) \cup {n + 1}
  OBVIOUS
<1> QED
  BY <1>1 DEF Taken

LEMMA TakenNone ==
  ASSUME NEW table, NEW action, NEW ids  PROVE Taken(table, action, ids, 0) = {}
<1>1. \A n \in 1 .. 0 : FALSE
  OBVIOUS
<1> QED
  BY <1>1 DEF Taken

LEMMA DryNext ==
  ASSUME NEW table, NEW action, NEW target, NEW ids, NEW n \in Nat, ids[n + 1] \in Ids
  PROVE  affectOne([affected |-> Taken(table, action, ids, n), assets |-> table],
                   action, target, TRUE, ids[n + 1])
           = [affected |-> Taken(table, action, ids, n + 1), assets |-> table]
<1>1. CASE skip(table, action, ids[n + 1])
  BY <1>1, TakenStays DEF affectOne
<1>2. CASE ~ skip(table, action, ids[n + 1])
  <2> DEFINE was == [affected |-> Taken(table, action, ids, n), assets |-> table]
  <2>1. was.affected = Taken(table, action, ids, n) /\ was.assets = table
    OBVIOUS
  <2> HIDE DEF was
  <2>2. affectOne(was, action, target, TRUE, ids[n + 1])
          = [affected |-> was.affected \cup {ids[n + 1]}, assets |-> was.assets]
    BY <1>2, <2>1, Zenon DEF affectOne
  <2>3. Taken(table, action, ids, n + 1) = Taken(table, action, ids, n) \cup {ids[n + 1]}
    BY <1>2, TakenGrows
  <2> QED
    BY <2>1, <2>2, <2>3 DEF was
<1> QED
  BY <1>1, <1>2

(* A dry run lists what it wants. *)
LEMMA DryLoop ==
  ASSUME NEW f, NEW action, NEW target, NEW ids,
         ids \in Seq(Ids), Len(ids) \in Nat,
         Runs(f, action, target, TRUE, ids)
  PROVE  f[Len(ids)] = [affected |-> Taken(assets, action, ids, Len(ids)), assets |-> assets]
<1> DEFINE Right == {n \in Nat : n <= Len(ids) =>
                        f[n] = [affected |-> Taken(assets, action, ids, n), assets |-> assets]}
<1>1. 0 \in Right
  BY TakenNone DEF Runs
<1>2. ASSUME NEW n \in Right PROVE n + 1 \in Right
  <2> SUFFICES ASSUME n + 1 <= Len(ids)
               PROVE  f[n + 1] = [affected |-> Taken(assets, action, ids, n + 1), assets |-> assets]
    OBVIOUS
  <2>1. n \in Nat /\ n + 1 \in 1 .. Len(ids) /\ (n + 1) - 1 = n /\ n <= Len(ids)
    OBVIOUS
  <2>2. f[n] = [affected |-> Taken(assets, action, ids, n), assets |-> assets]
    BY <2>1
  <2>3. f[n + 1] = affectOne(f[n], action, target, TRUE, ids[n + 1])
    BY <2>1 DEF Runs
  <2>4. n \in Nat /\ ids[n + 1] \in Ids
    BY <2>1
  <2> HIDE DEF Right
  <2>5. affectOne([affected |-> Taken(assets, action, ids, n), assets |-> assets], action, target, TRUE, ids[n + 1])
          = [affected |-> Taken(assets, action, ids, n + 1), assets |-> assets]
    BY ONLY <2>4, DryNext
  <2> QED
    BY <2>2, <2>3, <2>5
<1>3. Len(ids) \in Right
  <2> HIDE DEF Right
  <2>1. Right \in SUBSET Nat
    BY DEF Right
  <2> QED
    BY <1>1, <1>2, <2>1, AllNumbers
<1> QED
  BY <1>3

LEMMA DryRight ==
  ASSUME NEW campaign, NEW action, NEW target
  PROVE  LET result == applyCampaignAction(campaign, action, target, TRUE)
         IN  /\ result.affected = Want(assets, campaign, action, target)
             /\ result.affected \subseteq Ids
<1> DEFINE ids == Walked(assets, campaign, action, target)
           result == applyCampaignAction(campaign, action, target, TRUE)
<1>1. \E f : Runs(f, action, target, TRUE, ids) /\ result = f[Len(ids)]
  BY ActionIsLoop
<1> HIDE DEF result
<1>2. PICK f : Runs(f, action, target, TRUE, ids) /\ result = f[Len(ids)]
  BY <1>1
<1>3. Len(ids) \in Nat /\ ids \in Seq(Ids)
  BY ListRight
<1>4. Want(assets, campaign, action, target) = Taken(assets, action, ids, Len(ids))
  BY DEF Want
<1> HIDE DEF ids
<1>5. f[Len(ids)] = [affected |-> Taken(assets, action, ids, Len(ids)), assets |-> assets]
  BY ONLY <1>2, <1>3, DryLoop
<1>8. result.affected = Taken(assets, action, ids, Len(ids))
  BY ONLY <1>2, <1>5
<1>6. Taken(assets, action, ids, Len(ids)) \subseteq Ids
  BY DEF Taken
<1>7. result.affected = Want(assets, campaign, action, target)
         /\ result.affected \subseteq Ids
  BY <1>4, <1>8, <1>6
<1> QED
  BY ONLY <1>7 DEF result

-----------------------------------------------------------------------------
(* Every row has the type of its id's table. *)
AnyAsset == UNION {Asset(id) : id \in Ids} \cup {NoAsset}
TableTyped(table) ==
  /\ table \in [Ids -> AnyAsset]
  /\ \A id \in Ids : table[id] = NoAsset \/ table[id] \in Asset(id)

(* The rows an action writes. *)
RowOf(action, id) == IF action = "duplicate" THEN CopyId(id) ELSE id
RowsOf(action, affected) == {RowOf(action, id) : id \in affected}

Writes(table, row, asset, after) == after = [table EXCEPT ![row] = asset]

LEMMA RowTyped ==
  ASSUME NEW table, TableTyped(table), NEW row \in Ids, NEW asset \in Asset(row),
         NEW after, Writes(table, row, asset, after)
  PROVE  TableTyped(after) /\ after[row] = asset /\ \A id \in Ids \ {row} : after[id] = table[id]
<1>1. asset \in AnyAsset
  BY DEF AnyAsset
<1>2. table \in [Ids -> AnyAsset] /\ after \in [Ids -> AnyAsset]
  BY <1>1 DEF TableTyped, Writes
<1>3. after[row] = asset /\ \A id \in Ids \ {row} : after[id] = table[id]
  BY <1>2 DEF Writes
<1>4. TableTyped(after)
  BY <1>2, <1>3 DEF TableTyped
<1> QED
  BY <1>3, <1>4

(* An action on one asset writes one row, and what it writes is an asset. *)
LEMMA AffectRow ==
  ASSUME NEW table, NEW id \in Ids, table[id] \in Asset(id), NEW action \in Bulk, NEW target,
         action = "move" => target \in Campaigns,
         action = "duplicate" => CopyId(id) \in Ids,
         ~ skip(table, action, id)
  PROVE  /\ RowOf(action, id) \in Ids
         /\ \E asset \in Asset(RowOf(action, id)) :
               Writes(table, RowOf(action, id), asset, affect(table, action, target, id))
<1>1. CASE action = "submit_review"
  <2>1. id \in RuleIds
    BY <1>1 DEF skip, Ids
  <2>2. [table[id] EXCEPT !.submitted = TRUE] \in Asset(id)
    BY <2>1 DEF Asset
  <2> QED
    BY <1>1, <2>2 DEF affect, RowOf, Writes
<1>2. CASE action = "archive"
  <2>1. [table[id] EXCEPT !.status = "archived"] \in Asset(id)
    BY DEF Asset
  <2> QED
    BY <1>2, <2>1 DEF affect, RowOf, Writes
<1>3. CASE action = "duplicate"
  <2>1. CopyId(id) \in Ids /\ (CopyId(id) \in RuleIds <=> id \in RuleIds)
    BY <1>3, AssetsAssumption DEF Ids
  <2>2. [table[id] EXCEPT !.status = IF id \in RuleIds THEN "draft" ELSE "active"] \in Asset(CopyId(id))
    BY <2>1 DEF Asset
  <2> QED
    BY <1>3, <2>1, <2>2 DEF affect, RowOf, Writes
<1>4. CASE action = "move"
  <2>1. [table[id] EXCEPT !.campaign = target] \in Asset(id)
    BY <1>4 DEF Asset
  <2> QED
    BY <1>4, <2>1 DEF affect, RowOf, Writes
<1> QED
  BY <1>1, <1>2, <1>3, <1>4 DEF Bulk

(* What an action on one asset leaves of the table. *)
LEMMA AffectTable ==
  ASSUME NEW table, NEW id \in Ids, NEW action \in Bulk, NEW target,
         action = "move" => target \in Campaigns,
         action = "duplicate" => CopyId(id) \in Ids,
         TableTyped(table), table[id] \in Asset(id), ~ skip(table, action, id),
         NEW after, after = affect(table, action, target, id)
  PROVE  /\ TableTyped(after)
         /\ \A x \in Ids : table[x] \in Asset(x) => after[x] \in Asset(x)
         /\ \A x \in Ids \ {RowOf(action, id)} : after[x] = table[x]
<1>1. RowOf(action, id) \in Ids
  BY AffectRow
<1>2. PICK asset \in Asset(RowOf(action, id)) : Writes(table, RowOf(action, id), asset, after)
  BY AffectRow
<1>3. /\ TableTyped(after) /\ after[RowOf(action, id)] = asset
      /\ \A x \in Ids \ {RowOf(action, id)} : after[x] = table[x]
  BY <1>1, <1>2, RowTyped
<1> QED
  BY <1>2, <1>3

(* An asset is skipped for what it was before the loop: the loop has not   *)
(* written its row, nor the row of its copy.                               *)
LEMMA SkipSame ==
  ASSUME NEW before, NEW now, NEW action \in Bulk, NEW taken \in SUBSET Ids, NEW id \in Ids, id \notin taken,
         \A x \in Ids \ RowsOf(action, taken) : now[x] = before[x],
         action = "duplicate" => /\ CopyId(id) \in Ids
                                 /\ \A x \in taken : before[CopyId(x)] = NoAsset
                                 /\ ~ skip(before, action, id) => \A x \in taken : CopyId(x) # CopyId(id)
  PROVE  skip(now, action, id) <=> skip(before, action, id)
<1>1. CASE action = "duplicate"
  <2>1. skip(now, action, id) <=> now[CopyId(id)] # NoAsset
    BY <1>1 DEF skip
  <2>2. skip(before, action, id) <=> before[CopyId(id)] # NoAsset
    BY <1>1 DEF skip
  <2>3. CopyId(id) \notin RowsOf(action, taken)
    BY <1>1, <2>2 DEF RowsOf, RowOf
  <2> QED
    BY <1>1, <2>1, <2>2, <2>3
<1>2. CASE action # "duplicate"
  <2>1. id \notin RowsOf(action, taken)
    BY <1>2 DEF RowsOf, RowOf
  <2>2. now[id] = before[id]
    BY <2>1
  <2> QED
    BY <1>2, <2>2 DEF skip, Bulk
<1> QED
  BY <1>1, <1>2

(* What the loop has written so far is assets, and no asset is gone. *)
KeptRows(now) == TableTyped(now) /\ \A id \in Ids : assets[id] # NoAsset => now[id] \in Asset(id)

(* What confirming needs, and what the routes have checked. *)
CopiesFit(campaign, action) ==
  action = "duplicate" => \A id \in ToSet(listCampaignAssets(assets, campaign)) : CopyId(id) \in Ids

LEMMA CopyFits ==
  ASSUME NEW campaign, NEW action, NEW target, CopiesFit(campaign, action), action = "duplicate"
  PROVE  LET ids == Walked(assets, campaign, action, target)
         IN  \A n \in 1 .. Len(ids) : CopyId(ids[n]) \in Ids
<1> DEFINE ids == Walked(assets, campaign, action, target)
<1>1. ids \in Seq(Ids) /\ Len(ids) \in Nat /\ ToSet(ids) \subseteq ToSet(listCampaignAssets(assets, campaign))
  BY ListRight
<1> HIDE DEF ids
<1>2. \A n \in 1 .. Len(ids) : ids[n] \in ToSet(ids)
  BY <1>1 DEF ToSet
<1> QED
  BY <1>1, <1>2 DEF ids, CopiesFit

LEMMA RealTyped ==
  ASSUME NEW campaign, NEW action \in Bulk, NEW target, action = "move" => target \in Campaigns,
         CopiesFit(campaign, action), TableTyped(assets)
  PROVE  TableTyped(applyCampaignAction(campaign, action, target, FALSE).assets)
<1> DEFINE result == applyCampaignAction(campaign, action, target, FALSE)
<1> HIDE DEF result
<1>1. PICK ids : ids = Walked(assets, campaign, action, target)
  OBVIOUS
<1>2. \E f : Runs(f, action, target, FALSE, ids) /\ result = f[Len(ids)]
  BY <1>1, ActionIsLoop DEF result
<1>3. PICK f : Runs(f, action, target, FALSE, ids) /\ result = f[Len(ids)]
  BY <1>2
<1>4. /\ Len(ids) \in Nat
      /\ \A n \in 1 .. Len(ids) : ids[n] \in Ids /\ assets[ids[n]] # NoAsset
      /\ action = "duplicate" => \A n \in 1 .. Len(ids) : CopyId(ids[n]) \in Ids
  BY <1>1, ListRight, CopyFits
<1> DEFINE Right == {n \in Nat : n <= Len(ids) => KeptRows(f[n].assets)}
<1>5. 0 \in Right
  BY <1>3 DEF Runs, KeptRows, TableTyped
<1>6. ASSUME NEW n \in Right PROVE n + 1 \in Right
  <2> SUFFICES ASSUME n + 1 <= Len(ids)  PROVE KeptRows(f[n + 1].assets)
    OBVIOUS
  <2>1. n \in Nat /\ n + 1 \in 1 .. Len(ids) /\ (n + 1) - 1 = n /\ n <= Len(ids)
    BY <1>4
  <2>2. KeptRows(f[n].assets)
    BY <2>1
  <2>3. f[n + 1] = affectOne(f[n], action, target, FALSE, ids[n + 1])
    BY <1>3, <2>1 DEF Runs
  <2>4. PICK id \in Ids : id = ids[n + 1]
    BY <1>4, <2>1
  <2>5. TableTyped(f[n].assets) /\ f[n].assets[id] \in Asset(id) /\ (action = "duplicate" => CopyId(id) \in Ids)
    BY <1>4, <2>1, <2>2, <2>4 DEF KeptRows
  <2>6. PICK was : was = f[n]
    OBVIOUS
  <2>7. PICK is : is = affectOne(was, action, target, FALSE, id)
    OBVIOUS
  <2>8. TableTyped(is.assets) /\ \A x \in Ids : was.assets[x] \in Asset(x) => is.assets[x] \in Asset(x)
    <3>1. TableTyped(was.assets) /\ was.assets[id] \in Asset(id)
      BY <2>5, <2>6
    <3>2. CASE skip(was.assets, action, id)
      <4>1. is = was
        BY ONLY <2>7, <3>2 DEF affectOne
      <4> QED
        BY ONLY <3>1, <4>1
    <3>3. CASE ~ skip(was.assets, action, id)
      <4>1. PICK table, after : table = was.assets /\ after = affect(table, action, target, id)
        OBVIOUS
      <4>2. is = [affected |-> was.affected \cup {id}, assets |-> after]
        BY ONLY <2>7, <3>3, <4>1 DEF affectOne
      <4>3. TableTyped(after) /\ \A x \in Ids : table[x] \in Asset(x) => after[x] \in Asset(x)
        BY ONLY <2>5, <3>1, <3>3, <4>1, <4>2, AffectTable, action \in Bulk, id \in Ids, action = "move" => target \in Campaigns
      <4> QED
        BY ONLY <4>1, <4>2, <4>3
    <3> QED
      BY <3>2, <3>3
  <2>9. KeptRows(is.assets)
    BY <2>2, <2>6, <2>8 DEF KeptRows
  <2> QED
    BY <2>3, <2>4, <2>6, <2>7, <2>9
<1>7. Len(ids) \in Right
  <2> HIDE DEF Right
  <2>1. Right \in SUBSET Nat
    BY DEF Right
  <2> QED
    BY <1>4, <1>5, <1>6, <2>1, AllNumbers
<1>8. TableTyped(result.assets)
  BY <1>3, <1>4, <1>7 DEF KeptRows
<1> QED
  BY <1>8 DEF result

LEMMA TakenFacts ==
  ASSUME NEW table, NEW action, NEW ids, NEW n \in Nat, NEW count \in Nat, n + 1 <= count,
         \A m \in 1 .. count : ids[m] \in Ids,
         \A m, k \in 1 .. count : ids[m] = ids[k] => m = k
  PROVE  /\ ids[n + 1] \in Ids \ Taken(table, action, ids, n)
         /\ Taken(table, action, ids, n) \subseteq Taken(table, action, ids, count)
         /\ ~ skip(table, action, ids[n + 1]) => ids[n + 1] \in Taken(table, action, ids, count)
         /\ \A x \in Taken(table, action, ids, n) : x \in Ids /\ ~ skip(table, action, x)
<1>1. n + 1 \in 1 .. count /\ (\A m \in 1 .. n : m \in 1 .. count /\ m # n + 1)
  OBVIOUS
<1>2. ids[n + 1] \in Ids /\ \A m \in 1 .. n : ids[m] # ids[n + 1]
  BY <1>1
<1> QED
  BY <1>1, <1>2 DEF Taken

(* With nobody's copy in another's place, the loop takes what a dry run on *)
(* the table it starts with would take, and writes no other row.           *)
Carried(result, action, want) ==
  /\ result.affected = want
  /\ \A id \in Ids \ RowsOf(action, want) : result.assets[id] = assets[id]

LEMMA RealRight ==
  ASSUME NEW campaign, NEW action \in Bulk, NEW target, action = "move" => target \in Campaigns,
         CopiesFit(campaign, action), TableTyped(assets),
         NEW want, want = Want(assets, campaign, action, target),
         action = "duplicate" => ~ Collide(want),
         NEW result, result = applyCampaignAction(campaign, action, target, FALSE)
  PROVE  Carried(result, action, want)
<1>1. PICK ids : ids = Walked(assets, campaign, action, target)
  OBVIOUS
<1>2. \E f : Runs(f, action, target, FALSE, ids) /\ result = f[Len(ids)]
  BY <1>1, ActionIsLoop
<1>3. PICK f : Runs(f, action, target, FALSE, ids) /\ result = f[Len(ids)]
  BY <1>2
<1>4. /\ Len(ids) \in Nat
      /\ \A n \in 1 .. Len(ids) : ids[n] \in Ids /\ assets[ids[n]] # NoAsset
      /\ \A m, n \in 1 .. Len(ids) : ids[m] = ids[n] => m = n
      /\ action = "duplicate" => \A n \in 1 .. Len(ids) : CopyId(ids[n]) \in Ids
  BY <1>1, ListRight, CopyFits
<1> DEFINE taken(n) == Taken(assets, action, ids, n)
<1>5. want = taken(Len(ids))
  BY <1>1 DEF Want
<1>6. action = "duplicate" => \A x, y \in want : x # y => CopyId(x) # CopyId(y)
  BY DEF Collide
<1> DEFINE Same(n) == /\ f[n].affected = taken(n)
                      /\ \A x \in Ids \ RowsOf(action, taken(n)) : f[n].assets[x] = assets[x]
           Right == {n \in Nat : n <= Len(ids) => KeptRows(f[n].assets) /\ Same(n)}
<1>7. 0 \in Right
  <2>1. KeptRows(f[0].assets)
    BY <1>3 DEF Runs, KeptRows, TableTyped
  <2>2. Same(0)
    BY <1>3, TakenNone DEF Runs
  <2> QED
    BY <2>1, <2>2
<1>8. ASSUME NEW n \in Right PROVE n + 1 \in Right
  <2> SUFFICES ASSUME n + 1 <= Len(ids)  PROVE KeptRows(f[n + 1].assets) /\ Same(n + 1)
    OBVIOUS
  <2>1. n \in Nat /\ n + 1 \in 1 .. Len(ids) /\ (n + 1) - 1 = n /\ n <= Len(ids)
    BY <1>4
  <2>2. KeptRows(f[n].assets) /\ Same(n)
    BY <2>1
  <2> HIDE DEF Right
  <2>3. f[n + 1] = affectOne(f[n], action, target, FALSE, ids[n + 1])
    BY <1>3, <2>1 DEF Runs
  <2>4. PICK id \in Ids : id = ids[n + 1]
    BY <1>4, <2>1
  <2>5. TableTyped(f[n].assets) /\ f[n].assets[id] \in Asset(id) /\ (action = "duplicate" => CopyId(id) \in Ids)
    BY <1>4, <2>1, <2>2, <2>4 DEF KeptRows
  <2>6. PICK was : was = f[n]
    OBVIOUS
  <2>7. PICK is : is = affectOne(was, action, target, FALSE, id)
    OBVIOUS
  <2>8. /\ TableTyped(is.assets) /\ \A x \in Ids : was.assets[x] \in Asset(x) => is.assets[x] \in Asset(x)
        /\ skip(was.assets, action, id) => is = was
        /\ ~ skip(was.assets, action, id) =>
              is.affected = was.affected \cup {id} /\ \A x \in Ids \ {RowOf(action, id)} : is.assets[x] = was.assets[x]
    <3>1. TableTyped(was.assets) /\ was.assets[id] \in Asset(id)
      BY <2>5, <2>6
    <3>2. CASE skip(was.assets, action, id)
      <4>1. is = was
        BY ONLY <2>7, <3>2 DEF affectOne
      <4> QED
        BY ONLY <3>1, <3>2, <4>1
    <3>3. CASE ~ skip(was.assets, action, id)
      <4>1. PICK table, after : table = was.assets /\ after = affect(table, action, target, id)
        OBVIOUS
      <4>2. is = [affected |-> was.affected \cup {id}, assets |-> after]
        BY ONLY <2>7, <3>3, <4>1 DEF affectOne
      <4>3. /\ TableTyped(after)
            /\ \A x \in Ids : table[x] \in Asset(x) => after[x] \in Asset(x)
            /\ \A x \in Ids \ {RowOf(action, id)} : after[x] = table[x]
        BY ONLY <2>5, <3>1, <3>3, <4>1, <4>2, AffectTable, action \in Bulk, id \in Ids, action = "move" => target \in Campaigns
      <4> QED
        BY ONLY <3>3, <4>1, <4>2, <4>3
    <3> QED
      BY <3>2, <3>3
  <2>9. KeptRows(is.assets)
    BY <2>2, <2>6, <2>8 DEF KeptRows
  <2>10. PICK old : old = taken(n)
    OBVIOUS
  <2>11. /\ id \notin old /\ old \subseteq want
         /\ ~ skip(assets, action, id) => id \in want
         /\ \A x \in old : x \in Ids /\ ~ skip(assets, action, x)
    BY ONLY <1>4, <1>5, <2>1, <2>4, <2>10, TakenFacts, n + 1 <= Len(ids)
  <2>12. was.affected = old /\ \A x \in Ids \ RowsOf(action, old) : was.assets[x] = assets[x]
    BY <2>2, <2>6, <2>10
  <2>13. action = "duplicate" => \A x \in old : assets[CopyId(x)] = NoAsset
    BY ONLY <2>11 DEF skip
  <2>14. action = "duplicate" /\ ~ skip(assets, action, id) => \A x \in old : CopyId(x) # CopyId(id)
    BY ONLY <1>6, <2>11
  <2>15. skip(was.assets, action, id) <=> skip(assets, action, id)
    BY ONLY <2>5, <2>11, <2>12, <2>13, <2>14, SkipSame, action \in Bulk, id \in Ids
  <2>16. PICK new : new = taken(n + 1)
    OBVIOUS
  <2>17. CASE skip(assets, action, id)
    <3>1. new = old
      BY ONLY <2>1, <2>4, <2>10, <2>16, <2>17, TakenStays
    <3>2. is = was
      BY ONLY <2>8, <2>15, <2>17
    <3>3. is.affected = new /\ \A x \in Ids \ RowsOf(action, new) : is.assets[x] = assets[x]
      BY ONLY <2>12, <3>1, <3>2
    <3> QED
      BY <2>3, <2>4, <2>6, <2>7, <2>9, <2>16, <3>3
  <2>18. CASE ~ skip(assets, action, id)
    <3>1. new = old \cup {id}
      <4>1. n \in Nat /\ ids[n + 1] \in Ids /\ ~ skip(assets, action, ids[n + 1])
        BY ONLY <2>1, <2>4, <2>18, id \in Ids
      <4>2. Taken(assets, action, ids, n + 1) = Taken(assets, action, ids, n) \cup {ids[n + 1]}
        BY ONLY <4>1, TakenGrows
      <4> QED
        BY ONLY <2>4, <2>10, <2>16, <4>2
    <3>2. RowsOf(action, new) = RowsOf(action, old) \cup {RowOf(action, id)}
      BY ONLY <3>1 DEF RowsOf
    <3>3. is.affected = new /\ \A x \in Ids \ RowsOf(action, new) : is.assets[x] = assets[x]
      BY ONLY <2>8, <2>12, <2>15, <2>18, <3>1, <3>2
    <3> QED
      BY <2>3, <2>4, <2>6, <2>7, <2>9, <2>16, <3>3
  <2> QED
    BY <2>17, <2>18
<1>9. Len(ids) \in Right
  <2> HIDE DEF Right
  <2>1. Right \in SUBSET Nat
    BY DEF Right
  <2> QED
    BY <1>4, <1>7, <1>8, <2>1, AllNumbers
<1>10. Same(Len(ids))
  BY <1>4, <1>9
<1> HIDE DEF taken, Right
<1> QED
  BY <1>3, <1>5, <1>10 DEF Carried

-----------------------------------------------------------------------------
(***************************************************************************)
(* The inductive invariant: a preview nobody has disturbed lists what the  *)
(* loop wants on the assets as they are.                                   *)
(***************************************************************************)
Asked(asked) == asked.action \in Bulk /\ (asked.action = "move" => asked.target \in Campaigns)
Current(asked, table) == asked.affected = Want(table, asked.campaign, asked.action, asked.target)

CampaignIInv ==
  /\ CampaignTypeOK
  /\ TableTyped(assets)
  /\ preview # NoAsset => Asked(preview)
  /\ preview # NoAsset /\ undisturbed => Current(preview, assets)
  /\ ConfirmedIsDone

LEMMA CampaignInitInv == CampaignInit => CampaignIInv
<1> SUFFICES ASSUME CampaignInit  PROVE CampaignIInv
  OBVIOUS
<1>1. TableTyped(assets)
  BY DEF CampaignInit, TableTyped, AnyAsset
<1>2. CampaignTypeOK
  BY <1>1 DEF CampaignInit, CampaignTypeOK, TableTyped
<1> QED
  BY <1>1, <1>2 DEF CampaignInit, CampaignIInv, ConfirmedIsDone

LEMMA PreviewKeeps ==
  ASSUME CampaignIInv, NEW campaign \in Campaigns, NEW target \in Campaigns, NEW action \in Bulk,
         Preview(campaign, action, target)
  PROVE  CampaignIInv'
<1>1. PICK affected : affected = applyCampaignAction(campaign, action, target, TRUE).affected
  OBVIOUS
<1>2. affected = Want(assets, campaign, action, target) /\ affected \subseteq Ids
  BY <1>1, DryRight
<1>3. PICK asked : asked = [campaign |-> campaign, action |-> action, target |-> target, affected |-> affected]
  OBVIOUS
<1>4. preview' = asked /\ done' = NoAsset /\ assets' = assets /\ workflow' = workflow
  BY <1>1, <1>3 DEF Preview
<1>5. Asked(asked) /\ Current(asked, assets) /\ asked.affected \subseteq Ids
  BY <1>2, <1>3 DEF Asked, Current
<1> QED
  BY <1>4, <1>5 DEF CampaignIInv, CampaignTypeOK, ConfirmedIsDone, TableTyped, AnyAsset, Asset, Asked, Current

LEMMA ConfirmKeeps == ASSUME CampaignIInv, Confirm  PROVE CampaignIInv'
<1>1. PICK asked, before : asked = preview /\ before = assets
  OBVIOUS
<1>2. PICK result : result = applyCampaignAction(asked.campaign, asked.action, asked.target, FALSE)
  OBVIOUS
<1>3. /\ assets' = result.assets /\ preview' = NoAsset /\ workflow' = workflow
      /\ done' = [asked |-> asked, undisturbed |-> undisturbed, affected |-> result.affected, before |-> before]
      /\ asked # NoAsset
  BY <1>1, <1>2 DEF Confirm
<1>4. Asked(asked) /\ TableTyped(assets) /\ CopiesFit(asked.campaign, asked.action)
  BY <1>1 DEF CampaignIInv, Confirm, CopiesFit
<1>5. TableTyped(result.assets)
  BY <1>2, <1>4, RealTyped DEF Asked
<1>6. ASSUME undisturbed, asked.action = "duplicate" => ~ Collide(asked.affected)
      PROVE  /\ result.affected = asked.affected
             /\ \A id \in Ids \ RowsOf(asked.action, asked.affected) : result.assets[id] = before[id]
             /\ asked.action = "duplicate" => \A id \in RowsOf(asked.action, asked.affected) : before[id] = NoAsset
  <2>1. asked.affected = Want(assets, asked.campaign, asked.action, asked.target)
    BY <1>1, <1>3, <1>6 DEF CampaignIInv, Current
  <2>2. /\ result.affected = asked.affected
        /\ \A id \in Ids \ RowsOf(asked.action, asked.affected) : result.assets[id] = assets[id]
    <3>1. PICK campaign, action, target, want :
             campaign = asked.campaign /\ action = asked.action /\ target = asked.target /\ want = asked.affected
      OBVIOUS
    <3>2. /\ action \in Bulk /\ (action = "move" => target \in Campaigns)
          /\ CopiesFit(campaign, action) /\ TableTyped(assets)
          /\ want = Want(assets, campaign, action, target)
          /\ action = "duplicate" => ~ Collide(want)
          /\ result = applyCampaignAction(campaign, action, target, FALSE)
      BY <1>2, <1>4, <1>6, <2>1, <3>1 DEF Asked
    <3>3. Carried(result, action, want)
      BY ONLY <3>2, RealRight
    <3> QED
      BY ONLY <3>1, <3>3 DEF Carried
  <2>3. \A x \in asked.affected : ~ skip(assets, asked.action, x)
    BY <2>1 DEF Want, Taken
  <2>4. asked.action = "duplicate" => \A id \in RowsOf(asked.action, asked.affected) : assets[id] = NoAsset
    BY <2>3 DEF RowsOf, RowOf, skip
  <2> QED
    BY <1>1, <2>2, <2>4
<1>7. Written(asked) = RowsOf(asked.action, asked.affected)
  BY DEF Written, RowsOf, RowOf
<1>8. ConfirmedIsDone'
  BY <1>3, <1>6, <1>7 DEF ConfirmedIsDone
<1>9. CampaignTypeOK'
  BY <1>3, <1>5 DEF CampaignIInv, CampaignTypeOK, TableTyped
<1>10. TableTyped(assets)'
  BY <1>3, <1>5 DEF TableTyped, AnyAsset, Asset
<1> QED
  BY <1>3, <1>8, <1>9, <1>10 DEF CampaignIInv

(* Other people change one row, and the preview is no longer undisturbed. *)
LEMMA OthersKeep ==
  ASSUME CampaignIInv, TableTyped(assets'), workflow' \in BOOLEAN, UNCHANGED preview, undisturbed' = FALSE, done' = NoAsset
  PROVE  CampaignIInv'
<1>1. CampaignTypeOK' /\ ConfirmedIsDone'
  BY DEF CampaignIInv, CampaignTypeOK, ConfirmedIsDone, TableTyped
<1>2. TableTyped(assets)'
  BY DEF TableTyped, AnyAsset, Asset
<1>3. preview' # NoAsset => Asked(preview)'
  BY DEF CampaignIInv, Asked
<1> QED
  BY <1>1, <1>2, <1>3 DEF CampaignIInv

LEMMA MoveKeeps ==
  ASSUME CampaignIInv, NEW id \in Ids, NEW target \in Campaigns, moveCampaignAssets(id, target)
  PROVE  CampaignIInv'
<1>1. TableTyped(assets) /\ assets[id] \in Asset(id) /\ workflow \in BOOLEAN
  BY DEF CampaignIInv, CampaignTypeOK, moveCampaignAssets
<1>2. ~ skip(assets, "move", id) /\ "move" \in Bulk
  BY DEF skip, Bulk
<1>3. assets' = affect(assets, "move", target, id)
  BY DEF moveCampaignAssets
<1>4. TableTyped(assets')
  BY <1>1, <1>2, <1>3, AffectTable
<1> QED
  BY <1>1, <1>4, OthersKeep DEF moveCampaignAssets, Others

LEMMA SaveKeeps ==
  ASSUME CampaignIInv, NEW id \in Ids, OthersSave(id)
  PROVE  CampaignIInv'
<1>1. TableTyped(assets) /\ workflow \in BOOLEAN
  BY DEF CampaignIInv, CampaignTypeOK
<1>2. CASE \E asset \in Asset(id) : assets' = [assets EXCEPT ![id] = asset]
  <2>1. PICK asset \in Asset(id) : Writes(assets, id, asset, assets')
    BY <1>2 DEF Writes
  <2>2. TableTyped(assets')
    BY <1>1, <2>1, RowTyped
  <2> QED
    BY <1>1, <2>2, OthersKeep DEF OthersSave, Others
<1>3. CASE /\ assets[id] # NoAsset /\ assets[id].status # "archived"
           /\ assets' = affect(assets, "archive", NoAsset, id)
  <2>1. ~ skip(assets, "archive", id) /\ "archive" \in Bulk /\ assets[id] \in Asset(id)
    BY <1>1, <1>3 DEF skip, Bulk, TableTyped
  <2>2. TableTyped(assets')
    BY <1>1, <1>3, <2>1, AffectTable
  <2> QED
    BY <1>1, <2>2, OthersKeep DEF OthersSave, Others
<1> QED
  BY <1>2, <1>3 DEF OthersSave

LEMMA CampaignStepInv == CampaignIInv /\ [CampaignNext]_campaignVars => CampaignIInv'
<1> SUFFICES ASSUME CampaignIInv, [CampaignNext]_campaignVars  PROVE CampaignIInv'
  OBVIOUS
<1>1. ASSUME NEW campaign \in Campaigns, NEW target \in Campaigns, NEW action \in Bulk,
             Preview(campaign, action, target)
      PROVE  CampaignIInv'
  BY <1>1, PreviewKeeps
<1>2. CASE Confirm
  BY <1>2, ConfirmKeeps
<1>3. CASE Decline
  <2>1. preview' = NoAsset /\ UNCHANGED <<assets, workflow, done>>
    BY <1>3 DEF Decline
  <2> QED
    BY <2>1 DEF CampaignIInv, CampaignTypeOK, ConfirmedIsDone, Written, Collide, TableTyped, AnyAsset, Asset
<1>4. ASSUME NEW id \in Ids, OthersSave(id)  PROVE CampaignIInv'
  BY <1>4, SaveKeeps
<1>5. ASSUME NEW id \in Ids, NEW target \in Campaigns, moveCampaignAssets(id, target)  PROVE CampaignIInv'
  BY <1>5, MoveKeeps
<1>6. CASE SwitchWorkflow
  <2>1. TableTyped(assets) /\ workflow \in BOOLEAN
    BY DEF CampaignIInv, CampaignTypeOK
  <2> QED
    BY <1>6, <2>1, OthersKeep DEF SwitchWorkflow, Others
<1>7. CASE UNCHANGED campaignVars
  <2>1. UNCHANGED <<assets, workflow, preview, undisturbed, done>>
    BY <1>7 DEF campaignVars
  <2> QED
    BY <2>1 DEF CampaignIInv, CampaignTypeOK, ConfirmedIsDone, Written, Collide, TableTyped, AnyAsset, Asset,
                Asked, Current
<1> QED
  BY <1>1, <1>2, <1>3, <1>4, <1>5, <1>6, <1>7 DEF CampaignNext

LEMMA CampaignInvariant == CampaignSpec => []CampaignIInv
BY CampaignInitInv, CampaignStepInv, PTL DEF CampaignSpec

(***************************************************************************)
(* The tables, the dry run and what was done keep their types.             *)
(***************************************************************************)
THEOREM CampaignTypeCorrect == CampaignSpec => []CampaignTypeOK
<1>1. CampaignIInv => CampaignTypeOK
  BY DEF CampaignIInv
<1> QED
  BY <1>1, CampaignInvariant, PTL

(***************************************************************************)
(* What a person confirms is what is done.                                 *)
(***************************************************************************)
THEOREM ConfirmedSafe == CampaignSpec => []ConfirmedIsDone
<1>1. CampaignIInv => ConfirmedIsDone
  BY DEF CampaignIInv
<1> QED
  BY <1>1, CampaignInvariant, PTL

-----------------------------------------------------------------------------
(***************************************************************************)
(* AssistantPlans.  While a plan is applied its list tells of every row    *)
(* that has changed what there was before, as long as no two actions are   *)
(* about one item; while it is rolled back every row is as it was or has   *)
(* its entry still to come.  What makes the second loop go through is that *)
(* no list, shown or on its way, asks for a rule set that is not there.    *)
(***************************************************************************)

(* A recursive function over 0 .. count exists. *)
StepOf(S, count, step) == step \in [S \X (1 .. count) -> S]
Recursion(f, S, first, count, step) ==
  /\ f \in [0 .. count -> S]
  /\ f[0] = first
  /\ \A n \in 1 .. count : f[n] = step[<<f[n - 1], n>>]

LEMMA RecursionExists ==
  ASSUME NEW S, NEW first \in S, NEW count \in Nat, NEW step, StepOf(S, count, step)
  PROVE  \E f : Recursion(f, S, first, count, step)
<1> USE DEF StepOf
<1> DEFINE Solves(f, l) == /\ f \in [0 .. l -> S] /\ f[0] = first
                           /\ \A n \in 1 .. l : f[n] = step[<<f[n - 1], n>>]
           Solved == {l \in Nat : l <= count => \E f : Solves(f, l)}
<1>1. 0 \in Solved
  <2> DEFINE f == [n \in 0 .. 0 |-> first]
  <2>1. Solves(f, 0)
    OBVIOUS
  <2> HIDE DEF f, Solves
  <2> QED
    BY <2>1
<1>2. ASSUME NEW l \in Solved PROVE l + 1 \in Solved
  <2> SUFFICES ASSUME l + 1 <= count PROVE \E f : Solves(f, l + 1)
    OBVIOUS
  <2>1. l \in Nat /\ l <= count
    OBVIOUS
  <2>2. PICK f : Solves(f, l)
    BY <2>1
  <2>3. PICK next : next = step[<<f[l], l + 1>>]
    OBVIOUS
  <2>4. next \in S
    BY <2>1, <2>2, <2>3
  <2> DEFINE h == [n \in 0 .. l + 1 |-> IF n = l + 1 THEN next ELSE f[n]]
  <2>5. h \in [0 .. l + 1 -> S] /\ h[0] = first
    BY <2>1, <2>2, <2>4
  <2>6. ASSUME NEW n \in 1 .. l + 1  PROVE h[n] = step[<<h[n - 1], n>>]
    <3>1. n - 1 \in 0 .. l + 1 /\ n - 1 # l + 1 /\ n - 1 \in 0 .. l
      BY <2>1
    <3>2. h[n - 1] = f[n - 1]
      BY <3>1
    <3>3. CASE n = l + 1
      <4>1. h[n] = next /\ n - 1 = l
        BY <2>1, <3>3
      <4> QED
        BY <2>3, <3>2, <3>3, <4>1
    <3>4. CASE n # l + 1
      <4>1. n \in 1 .. l /\ n \in 0 .. l + 1
        BY <2>1, <3>4
      <4>2. h[n] = f[n] /\ f[n] = step[<<f[n - 1], n>>]
        BY <2>2, <3>4, <4>1
      <4> QED
        BY <3>2, <4>2
    <3> QED
      BY <3>3, <3>4
  <2> HIDE DEF h
  <2>7. Solves(h, l + 1)
    BY <2>5, <2>6
  <2> HIDE DEF Solves
  <2> QED
    BY <2>7
<1>3. count \in Solved
  <2> HIDE DEF Solved
  <2>1. Solved \in SUBSET Nat
    BY DEF Solved
  <2> QED
    BY <1>1, <1>2, <2>1, AllNumbers
<1> QED
  BY <1>3 DEF Recursion

-----------------------------------------------------------------------------
(* An entry says what the tables held; a list covers what has changed.     *)
OfRule(e) == e.action \in {"restore_rule_draft", "archive_rule_draft"}

Tells(e, before) ==
  CASE e.action = "restore_message"    -> e.object = before.messages[e.id] /\ e.object # Missing
    [] e.action = "manual_review"      -> before.messages[e.id] = Missing
    [] e.action = "restore_rule_draft" -> before.rules[e.id] # Missing /\ before.rules[e.id].draft = e.object
    [] e.action = "archive_rule_draft" -> before.rules[e.id] = Missing

Covers(list, before, now) ==
  /\ \A key \in PlanKeys : now.rules[key] # before.rules[key] =>
        \E n \in 1 .. Len(list) : OfRule(list[n]) /\ list[n].id = key
  /\ \A message \in PlanMessages : now.messages[message] # before.messages[message] =>
        \E n \in 1 .. Len(list) : ~ OfRule(list[n]) /\ list[n].id = message

Undoes(list, before, now) == (\A n \in 1 .. Len(list) : Tells(list[n], before)) /\ Covers(list, before, now)

(* A rule set an entry is about is there; a draft to restore is a draft.   *)
Fits(list, now) ==
  \A n \in 1 .. Len(list) : OfRule(list[n]) =>
     /\ now.rules[list[n].id] # Missing
     /\ list[n].action = "restore_rule_draft" => list[n].object \in Contents
Stay(before, now) == \A key \in PlanKeys : before.rules[key] # Missing => now.rules[key] # Missing

Reply == [ok : BOOLEAN, rollback : Seq(Entry)]
Held(list, now) == \A n \in 1 .. Len(list) : (list[n].rollback = <<>> \/ list[n].ok) /\ Fits(list[n].rollback, now)

(***************************************************************************)
(* The inductive invariant: every list, shown or on its way, fits the      *)
(* tables, and the list of the last apply undoes it.                       *)
(***************************************************************************)
PlanIInv ==
  /\ tables \in Tables /\ plan \in Seq(Action) /\ rollback \in Seq(Entry) /\ answers \in Seq(Reply)
  /\ Fits(rollback, tables) /\ Held(answers, tables)
  /\ applied # Missing /\ Once(applied.plan) => Undoes(applied.rollback, applied.before, applied.after)

(* The states of the loop of applyAssistantPlan. *)
Progress == [tables : Tables, rollback : Seq(Entry), refused : BOOLEAN]

(* What one action does: nothing, or it writes one row and says what was   *)
(* there.                                                                  *)
MessageWritten(was, is, e) ==
  /\ e \in [action : {"restore_message", "manual_review"}, id : PlanMessages, object : Contents \cup {Missing}]
  /\ Tells(e, was)
  /\ is.rules = was.rules
  /\ \A message \in PlanMessages \ {e.id} : is.messages[message] = was.messages[message]

RuleWritten(was, is, e) ==
  /\ e \in [action : {"restore_rule_draft", "archive_rule_draft"}, id : PlanKeys, object : Contents \cup {Missing}]
  /\ Tells(e, was)
  /\ is.messages = was.messages
  /\ is.rules[e.id] # Missing
  /\ \A key \in PlanKeys \ {e.id} : is.rules[key] = was.rules[key]

Recorded(was, is, item) ==
  \/ is.tables = was.tables /\ is.rollback = was.rollback
  \/ \E e \in Entry : /\ e.id = item.id /\ is.rollback = was.rollback \o <<e>>
                      /\ MessageWritten(was.tables, is.tables, e) \/ RuleWritten(was.tables, is.tables, e)

LEMMA EditedRule ==
  ASSUME NEW rule \in Rule, NEW object \in Contents
  PROVE  Edited(rule, object) \in Rule /\ Edited(rule, object) # Missing
BY PlanAssumption DEF Edited, Rule

LEMMA ApplyMessage ==
  ASSUME NEW was \in Progress, NEW item \in Action, item.action = "upsert_message"
  PROVE  applyMessage(was, item) \in Progress /\ Recorded(was, applyMessage(was, item), item)
<1>1. PICK is : is = applyMessage(was, item)
  OBVIOUS
<1>2. PICK t, before : t = was.tables /\ before = t.messages[item.id]
  OBVIOUS
<1>3. item.id \in PlanMessages /\ item.object \in Contents /\ t \in Tables /\ was.rollback \in Seq(Entry)
  BY <1>2 DEF Action, Progress
<1>4. PICK e : e = [action |-> IF before = Missing THEN "manual_review" ELSE "restore_message",
                    id |-> item.id, object |-> before]
  OBVIOUS
<1>5. before \in Contents \cup {Missing}
  BY <1>2, <1>3 DEF Tables
<1>6. e \in Entry
  BY <1>3, <1>4, <1>5 DEF Entry
<1>7. PICK messages : messages = [t.messages EXCEPT ![item.id] = item.object]
  OBVIOUS
<1>8. /\ was = [tables |-> t, rollback |-> was.rollback, refused |-> was.refused]
        /\ t = [rules |-> t.rules, messages |-> t.messages]
  BY <1>2 DEF Progress, Tables
<1>9. is = [tables |-> [rules |-> t.rules, messages |-> messages], rollback |-> was.rollback \o <<e>>, refused |-> was.refused]
  <2>1. CASE before = Missing
    <3>1. e = [action |-> "manual_review", id |-> item.id, object |-> Missing]
      BY <1>4, <2>1
    <3> QED
      BY <1>1, <1>2, <1>7, <1>8, <2>1, <3>1 DEF applyMessage, entry
  <2>2. CASE before # Missing
    <3>1. e = [action |-> "restore_message", id |-> item.id, object |-> before]
      BY <1>4, <2>2
    <3> QED
      BY <1>1, <1>2, <1>7, <1>8, <2>2, <3>1 DEF applyMessage, entry
  <2> QED
    BY <2>1, <2>2
<1>10. messages \in [PlanMessages -> Contents \cup {Missing}] /\ \A m \in PlanMessages \ {item.id} : messages[m] = t.messages[m]
  BY <1>3, <1>7 DEF Tables
<1>11. was.rollback \o <<e>> \in Seq(Entry)
  BY <1>3, <1>6
<1>12. is \in Progress
  BY <1>3, <1>9, <1>10, <1>11 DEF Progress, Tables
<1>13. is.tables = [rules |-> t.rules, messages |-> messages] /\ is.rollback = was.rollback \o <<e>>
  BY <1>9
<1>14. MessageWritten(t, is.tables, e)
  <2>1. e.action \in {"restore_message", "manual_review"} /\ e.id = item.id
    BY <1>4
  <2>2. Tells(e, t)
    BY <1>2, <1>4 DEF Tells
  <2> QED
    BY <1>3, <1>4, <1>5, <1>10, <1>13, <2>1, <2>2 DEF MessageWritten
<1>15. Recorded(was, is, item)
  BY <1>2, <1>4, <1>6, <1>13, <1>14 DEF Recorded
<1> QED
  BY <1>1, <1>12, <1>15

RuleEntry == [action : {"restore_rule_draft", "archive_rule_draft"}, id : PlanKeys, object : Contents \cup {Missing}]
WritesRule(was, is, rule, e) ==
  is = [tables |-> [rules |-> [was.tables.rules EXCEPT ![e.id] = rule], messages |-> was.tables.messages],
        rollback |-> was.rollback \o <<e>>, refused |-> was.refused]

LEMMA ApplyRule ==
  ASSUME NEW was \in Progress, NEW rule \in Rule, NEW e \in RuleEntry, Tells(e, was.tables),
         NEW is, WritesRule(was, is, rule, e), NEW item, item.id = e.id
  PROVE  is \in Progress /\ Recorded(was, is, item)
<1>1. PICK t, rules : t = was.tables /\ rules = [t.rules EXCEPT ![e.id] = rule]
  OBVIOUS
<1>2. is = [tables |-> [rules |-> rules, messages |-> t.messages], rollback |-> was.rollback \o <<e>>, refused |-> was.refused]
  BY <1>1 DEF WritesRule
<1>3. t \in Tables /\ was.rollback \in Seq(Entry) /\ was.refused \in BOOLEAN /\ e.id \in PlanKeys /\ e \in Entry
  BY <1>1 DEF Progress, RuleEntry, Entry
<1>4. /\ rules \in [PlanKeys -> Rule \cup {Missing}] /\ rules[e.id] = rule
      /\ \A key \in PlanKeys \ {e.id} : rules[key] = t.rules[key]
  BY <1>1, <1>3 DEF Tables
<1>5. rules[e.id] # Missing
  BY <1>4, PlanAssumption
<1>6. was.rollback \o <<e>> \in Seq(Entry)
  BY <1>3
<1>7. is \in Progress
  BY <1>2, <1>3, <1>4, <1>6 DEF Progress, Tables
<1>8. is.tables = [rules |-> rules, messages |-> t.messages] /\ is.rollback = was.rollback \o <<e>>
  BY <1>2
<1>9. RuleWritten(t, is.tables, e)
  BY <1>1, <1>4, <1>5, <1>8 DEF RuleWritten, RuleEntry
<1>10. Recorded(was, is, item)
  BY <1>1, <1>3, <1>8, <1>9 DEF Recorded
<1> QED
  BY <1>7, <1>10

LEMMA ApplyCreate ==
  ASSUME NEW was \in Progress, NEW item \in Action, item.action = "create_rule_draft"
  PROVE  createRuleDraft(was, item) \in Progress /\ Recorded(was, createRuleDraft(was, item), item)
<1>1. PICK is : is = createRuleDraft(was, item)
  OBVIOUS
<1>2. CASE was.tables.rules[item.id] # Missing
  <2>1. is = [was EXCEPT !.refused = TRUE]
    BY <1>1, <1>2 DEF createRuleDraft
  <2>2. is \in Progress /\ is.tables = was.tables /\ is.rollback = was.rollback
    BY <2>1 DEF Progress
  <2> QED
    BY <1>1, <2>2 DEF Recorded
<1>3. CASE was.tables.rules[item.id] = Missing
  <2>1. PICK e, rule : /\ e = [action |-> "archive_rule_draft", id |-> item.id, object |-> Missing]
                       /\ rule = [status |-> "draft", draft |-> item.object]
    OBVIOUS
  <2>2. item.id \in PlanKeys /\ item.object \in Contents
    BY DEF Action
  <2>3. e \in RuleEntry /\ rule \in Rule /\ Tells(e, was.tables) /\ e.id = item.id
    BY <1>3, <2>1, <2>2 DEF RuleEntry, Rule, Tells
  <2>4. PICK t, rules : t = was.tables /\ rules = [t.rules EXCEPT ![item.id] = rule]
    OBVIOUS
  <2>5. /\ was = [tables |-> t, rollback |-> was.rollback, refused |-> was.refused]
        /\ t = [rules |-> t.rules, messages |-> t.messages]
    BY <2>4 DEF Progress, Tables
  <2>6. is = [tables |-> [rules |-> rules, messages |-> t.messages],
              rollback |-> was.rollback \o <<e>>, refused |-> was.refused]
    BY <1>1, <1>3, <2>1, <2>4, <2>5 DEF createRuleDraft, entry
  <2>7. WritesRule(was, is, rule, e)
    BY <2>3, <2>4, <2>6 DEF WritesRule
  <2> QED
    BY <1>1, <2>3, <2>7, ApplyRule
<1> QED
  BY <1>2, <1>3

LEMMA ApplyUpdate ==
  ASSUME NEW was \in Progress, NEW item \in Action, item.action = "update_rule_draft"
  PROVE  updateRuleDraft(was, item) \in Progress /\ Recorded(was, updateRuleDraft(was, item), item)
<1>1. PICK is : is = updateRuleDraft(was, item)
  OBVIOUS
<1>2. CASE was.tables.rules[item.id] = Missing
  <2>1. is = [was EXCEPT !.refused = TRUE]
    BY <1>1, <1>2 DEF updateRuleDraft
  <2>2. is \in Progress /\ is.tables = was.tables /\ is.rollback = was.rollback
    BY <2>1 DEF Progress
  <2> QED
    BY <1>1, <2>2 DEF Recorded
<1>3. CASE was.tables.rules[item.id] # Missing
  <2>1. item.id \in PlanKeys /\ item.object \in Contents
    BY DEF Action
  <2>2. PICK old \in Rule : old = was.tables.rules[item.id]
    BY <1>3, <2>1 DEF Progress, Tables
  <2>3. PICK e, rule : /\ e = [action |-> "restore_rule_draft", id |-> item.id, object |-> old.draft]
                       /\ rule = Edited(old, item.object)
    OBVIOUS
  <2>4. rule \in Rule
    BY <2>1, <2>3, EditedRule
  <2>5. old.draft \in Contents
    BY DEF Rule
  <2>6. e \in RuleEntry /\ Tells(e, was.tables) /\ e.id = item.id
    BY <1>3, <2>1, <2>2, <2>3, <2>5 DEF RuleEntry, Tells
  <2>7. PICK t, rules : t = was.tables /\ rules = [t.rules EXCEPT ![item.id] = rule]
    OBVIOUS
  <2>8. /\ was = [tables |-> t, rollback |-> was.rollback, refused |-> was.refused]
        /\ t = [rules |-> t.rules, messages |-> t.messages]
    BY <2>7 DEF Progress, Tables
  <2>9. is = [tables |-> [rules |-> rules, messages |-> t.messages],
              rollback |-> was.rollback \o <<e>>, refused |-> was.refused]
    BY <1>1, <1>3, <2>2, <2>3, <2>7, <2>8 DEF updateRuleDraft, entry
  <2>10. WritesRule(was, is, rule, e)
    BY <2>6, <2>7, <2>9 DEF WritesRule
  <2> QED
    BY <1>1, <2>4, <2>6, <2>10, ApplyRule
<1> QED
  BY <1>2, <1>3

LEMMA ApplyAction ==
  ASSUME NEW was \in Progress, NEW item \in Action, NEW approved
  PROVE  applyAction(was, item, approved) \in Progress /\ Recorded(was, applyAction(was, item, approved), item)
<1>1. CASE was.refused \/ actionKey(item) \notin approved
  <2>1. applyAction(was, item, approved) = was
    BY <1>1 DEF applyAction
  <2> QED
    BY <2>1 DEF Recorded
<1>2. CASE ~(was.refused \/ actionKey(item) \notin approved)
  <2>1. item.action \in {"upsert_message", "create_rule_draft", "update_rule_draft"}
    BY DEF Action
  <2> QED
    BY <1>2, <2>1, ApplyMessage, ApplyCreate, ApplyUpdate DEF applyAction
<1> QED
  BY <1>1, <1>2

-----------------------------------------------------------------------------
(* The loop over the actions of a plan, the identity outside of it.        *)
Start == [tables |-> tables, rollback |-> <<>>, refused |-> FALSE]

Applies(f, approved) ==
  /\ f \in [0 .. Len(plan) -> Progress]
  /\ f[0] = Start
  /\ \A n \in 1 .. Len(plan) : f[n] = applyAction(f[n - 1], plan[n], approved)

ApplyLoop(f, approved) ==
  f = [n \in 0 .. Len(plan) |-> IF n = 0 THEN Start ELSE applyAction(f[n - 1], plan[n], approved)]

LEMMA ApplyExists ==
  ASSUME tables \in Tables, plan \in Seq(Action), NEW approved
  PROVE  \E f : ApplyLoop(f, approved) /\ Applies(f, approved)
<1> DEFINE step == [p \in Progress \X (1 .. Len(plan)) |-> applyAction(p[1], plan[p[2]], approved)]
<1>1. Len(plan) \in Nat /\ \A n \in 1 .. Len(plan) : plan[n] \in Action
  OBVIOUS
<1>2. Start \in Progress
  BY DEF Start, Progress
<1>3. step \in [Progress \X (1 .. Len(plan)) -> Progress]
  <2>1. ASSUME NEW p \in Progress \X (1 .. Len(plan))  PROVE applyAction(p[1], plan[p[2]], approved) \in Progress
    <3>1. p[1] \in Progress /\ plan[p[2]] \in Action
      BY <1>1
    <3> QED
      BY <3>1, ApplyAction
  <2> QED
    BY <2>1
<1>4. \A x \in Progress, n \in 1 .. Len(plan) : step[<<x, n>>] = applyAction(x, plan[n], approved)
  OBVIOUS
<1> HIDE DEF step
<1>5. PICK f \in [0 .. Len(plan) -> Progress] :
         f[0] = Start /\ \A n \in 1 .. Len(plan) : f[n] = step[<<f[n - 1], n>>]
  <2>1. PICK first, count, next : first = Start /\ count = Len(plan) /\ next = step
    OBVIOUS
  <2>2. first \in Progress /\ count \in Nat /\ StepOf(Progress, count, next)
    BY <1>1, <1>2, <1>3, <2>1 DEF StepOf
  <2>3. \E f : Recursion(f, Progress, first, count, next)
    BY ONLY <2>2, RecursionExists
  <2> QED
    BY <2>1, <2>3 DEF Recursion
<1>6. ASSUME NEW n \in 1 .. Len(plan)  PROVE f[n] = applyAction(f[n - 1], plan[n], approved)
  <2>1. n - 1 \in 0 .. Len(plan)
    BY <1>1
  <2>2. f[n - 1] \in Progress
    BY <2>1
  <2> QED
    BY <1>4, <1>5, <2>2
<1>7. Applies(f, approved)
  BY <1>5, <1>6 DEF Applies
<1>8. ASSUME NEW n \in 0 .. Len(plan)
      PROVE  f[n] = IF n = 0 THEN Start ELSE applyAction(f[n - 1], plan[n], approved)
  <2>1. n = 0 \/ n \in 1 .. Len(plan)
    BY <1>1
  <2> QED
    BY <1>5, <1>6, <2>1
<1>9. f = [n \in 0 .. Len(plan) |-> f[n]]
  OBVIOUS
<1>10. ApplyLoop(f, approved)
  BY <1>8, <1>9 DEF ApplyLoop
<1> QED
  BY <1>7, <1>10

LEMMA ApplyIsLoop ==
  ASSUME tables \in Tables, plan \in Seq(Action), NEW approved
  PROVE  \E f : Applies(f, approved) /\ applyAssistantPlan(approved) = f[Len(plan)]
<1> DEFINE f == CHOOSE g : ApplyLoop(g, approved)
<1>1. applyAssistantPlan(approved) = f[Len(plan)]
  BY DEF applyAssistantPlan, ApplyLoop, Start
<1>2. ApplyLoop(f, approved)
  BY ApplyExists
<1> HIDE DEF f
<1>3. f[0] = Start /\ \A n \in 1 .. Len(plan) : f[n] = applyAction(f[n - 1], plan[n], approved)
  <2>1. Len(plan) \in Nat
    OBVIOUS
  <2> QED
    BY <1>2, <2>1 DEF ApplyLoop
<1>4. f \in [0 .. Len(plan) -> Progress]
  <2>1. PICK h : ApplyLoop(h, approved) /\ Applies(h, approved)
    BY ApplyExists
  <2> DEFINE Right == {n \in Nat : n <= Len(plan) => f[n] = h[n]}
  <2>2. h[0] = Start /\ \A n \in 1 .. Len(plan) : h[n] = applyAction(h[n - 1], plan[n], approved)
    BY <2>1 DEF Applies
  <2>3. 0 \in Right
    BY <1>3, <2>2
  <2>4. ASSUME NEW n \in Right  PROVE n + 1 \in Right
    <3> SUFFICES ASSUME n + 1 <= Len(plan)  PROVE f[n + 1] = h[n + 1]
      OBVIOUS
    <3>1. n \in Nat /\ n <= Len(plan) /\ n + 1 \in 1 .. Len(plan) /\ (n + 1) - 1 = n
      OBVIOUS
    <3>2. f[n] = h[n]
      BY <3>1
    <3> HIDE DEF Right
    <3> QED
      BY <1>3, <2>2, <3>1, <3>2
  <2> HIDE DEF Right
  <2>5. Right \in SUBSET Nat
    BY DEF Right
  <2>6. Right = Nat
    BY <2>3, <2>4, <2>5, AllNumbers
  <2>7. \A n \in 0 .. Len(plan) : f[n] = h[n]
    BY <2>6 DEF Right
  <2>8. \A n \in 0 .. Len(plan) : f[n] \in Progress
    BY <2>1, <2>7 DEF Applies
  <2> QED
    BY <1>2, <2>8 DEF ApplyLoop
<1> QED
  BY <1>1, <1>3, <1>4 DEF Applies

-----------------------------------------------------------------------------
(* One entry more. *)
LEMMA Longer ==
  ASSUME NEW list \in Seq(Entry), NEW e \in Entry, NEW longer, longer = list \o <<e>>
  PROVE  /\ longer \in Seq(Entry) /\ Len(list) \in Nat /\ Len(longer) = Len(list) + 1
         /\ longer[Len(longer)] = e
         /\ \A n \in 1 .. Len(list) : longer[n] = list[n] /\ n \in 1 .. Len(longer)
         /\ \A n \in 1 .. Len(longer) : n \in 1 .. Len(list) \/ n = Len(longer)
OBVIOUS

(* An action that writes keeps the list in step with the tables. *)
LEMMA WrittenStays ==
  ASSUME NEW was \in Progress, NEW is \in Progress, NEW item, Recorded(was, is, item)
  PROVE  Stay(was.tables, is.tables)
<1>1. CASE is.tables = was.tables
  BY <1>1 DEF Stay
<1>2. ASSUME NEW e, MessageWritten(was.tables, is.tables, e)  PROVE Stay(was.tables, is.tables)
  BY <1>2 DEF MessageWritten, Stay
<1>3. ASSUME NEW e, RuleWritten(was.tables, is.tables, e)  PROVE Stay(was.tables, is.tables)
  BY <1>3 DEF RuleWritten, Stay
<1> QED
  BY <1>1, <1>2, <1>3 DEF Recorded

LEMMA FitsStays ==
  ASSUME NEW list, NEW before, NEW now, Fits(list, before), Stay(before, now), list \in Seq(Entry)
  PROVE  Fits(list, now)
<1>1. ASSUME NEW n \in 1 .. Len(list), OfRule(list[n])  PROVE list[n].id \in PlanKeys
  <2>1. list[n] \in Entry
    OBVIOUS
  <2> QED
    BY <1>1, <2>1 DEF OfRule, Entry
<1> QED
  BY <1>1 DEF Fits, Stay

LEMMA WrittenFits ==
  ASSUME NEW was \in Progress, NEW is \in Progress, NEW item, Recorded(was, is, item),
         Fits(was.rollback, was.tables)
  PROVE  Fits(is.rollback, is.tables)
<1>1. CASE is.tables = was.tables /\ is.rollback = was.rollback
  BY <1>1
<1>2. ASSUME NEW e \in Entry, is.rollback = was.rollback \o <<e>>,
             MessageWritten(was.tables, is.tables, e) \/ RuleWritten(was.tables, is.tables, e)
      PROVE  Fits(is.rollback, is.tables)
  <2>1. PICK list, longer : list = was.rollback /\ longer = is.rollback
    OBVIOUS
  <2>2. list \in Seq(Entry) /\ longer = list \o <<e>>
    BY <1>2, <2>1 DEF Progress
  <2>3. Fits(list, is.tables)
    BY <2>1, <2>2, WrittenStays, FitsStays
  <2>4. OfRule(e) => is.tables.rules[e.id] # Missing /\ (e.action = "restore_rule_draft" => e.object \in Contents)
    <3> SUFFICES ASSUME OfRule(e)
                 PROVE  is.tables.rules[e.id] # Missing /\ (e.action = "restore_rule_draft" => e.object \in Contents)
      OBVIOUS
    <3>1. RuleWritten(was.tables, is.tables, e)
      <4>1. ~ MessageWritten(was.tables, is.tables, e)
        BY DEF OfRule, MessageWritten
      <4> QED
        BY <1>2, <4>1
    <3>2. e.id \in PlanKeys /\ Tells(e, was.tables) /\ is.tables.rules[e.id] # Missing
      BY <3>1 DEF RuleWritten
    <3>3. ASSUME e.action = "restore_rule_draft"  PROVE e.object \in Contents
      <4>1. was.tables.rules[e.id] # Missing /\ was.tables.rules[e.id].draft = e.object
        BY <3>2, <3>3 DEF Tells
      <4>2. was.tables.rules[e.id] \in Rule
        BY <3>2, <4>1 DEF Progress, Tables
      <4> QED
        BY <4>1, <4>2 DEF Rule
    <3> QED
      BY <3>2, <3>3
  <2>5. Fits(longer, is.tables)
    <3>1. ASSUME NEW n \in 1 .. Len(longer), OfRule(longer[n])
          PROVE  /\ is.tables.rules[longer[n].id] # Missing
                 /\ longer[n].action = "restore_rule_draft" => longer[n].object \in Contents
      <4>1. n = Len(longer) \/ (n \in 1 .. Len(list) /\ longer[n] = list[n])
        BY <2>2, Longer
      <4>2. longer[Len(longer)] = e
        BY <2>2, Longer
      <4> QED
        BY <2>3, <2>4, <3>1, <4>1, <4>2 DEF Fits
    <3> QED
      BY <3>1 DEF Fits
  <2> QED
    BY <2>1, <2>5
<1> QED
  BY <1>1, <1>2 DEF Recorded

(* An item no action was about before is as it was: the new entry tells    *)
(* what there was at first.                                                *)
LEMMA WrittenUndoes ==
  ASSUME NEW first, NEW was \in Progress, NEW is \in Progress, NEW item, Recorded(was, is, item),
         Undoes(was.rollback, first, was.tables),
         item.id \in PlanKeys => was.tables.rules[item.id] = first.rules[item.id],
         item.id \in PlanMessages => was.tables.messages[item.id] = first.messages[item.id]
  PROVE  Undoes(is.rollback, first, is.tables)
<1>1. CASE is.tables = was.tables /\ is.rollback = was.rollback
  BY <1>1
<1>2. ASSUME NEW e \in Entry, e.id = item.id, is.rollback = was.rollback \o <<e>>,
             MessageWritten(was.tables, is.tables, e) \/ RuleWritten(was.tables, is.tables, e)
      PROVE  Undoes(is.rollback, first, is.tables)
  <2>1. PICK list, longer : list = was.rollback /\ longer = is.rollback
    OBVIOUS
  <2>2. list \in Seq(Entry) /\ longer = list \o <<e>> /\ Undoes(list, first, was.tables)
    BY <1>2, <2>1 DEF Progress
  <2>3. Tells(e, was.tables)
    BY <1>2 DEF MessageWritten, RuleWritten
  <2>4. Tells(e, first)
    <3>1. CASE MessageWritten(was.tables, is.tables, e)
      <4>1. e.action \in {"restore_message", "manual_review"} /\ e.id \in PlanMessages
        BY <3>1 DEF MessageWritten
      <4> QED
        BY <1>2, <2>3, <4>1 DEF Tells
    <3>2. CASE RuleWritten(was.tables, is.tables, e)
      <4>1. e.action \in {"restore_rule_draft", "archive_rule_draft"} /\ e.id \in PlanKeys
        BY <3>2 DEF RuleWritten
      <4> QED
        BY <1>2, <2>3, <4>1 DEF Tells
    <3> QED
      BY <1>2, <3>1, <3>2
  <2>5. ASSUME NEW n \in 1 .. Len(longer)  PROVE Tells(longer[n], first)
    BY <2>2, <2>4, Longer DEF Undoes
  <2>6. ASSUME NEW key \in PlanKeys, is.tables.rules[key] # first.rules[key]
        PROVE  \E n \in 1 .. Len(longer) : OfRule(longer[n]) /\ longer[n].id = key
    <3>1. CASE is.tables.rules[key] = was.tables.rules[key]
      <4>1. PICK n \in 1 .. Len(list) : OfRule(list[n]) /\ list[n].id = key
        BY <2>2, <2>6, <3>1 DEF Undoes, Covers
      <4>2. n \in 1 .. Len(longer) /\ longer[n] = list[n]
        BY <2>2, Longer
      <4> QED
        BY <4>1, <4>2
    <3>2. CASE is.tables.rules[key] # was.tables.rules[key]
      <4>1. OfRule(e) /\ e.id = key
        BY <1>2, <3>2 DEF MessageWritten, RuleWritten, OfRule
      <4>2. Len(longer) \in 1 .. Len(longer) /\ longer[Len(longer)] = e
        BY <2>2, Longer
      <4> QED
        BY <4>1, <4>2
    <3> QED
      BY <3>1, <3>2
  <2>7. ASSUME NEW message \in PlanMessages, is.tables.messages[message] # first.messages[message]
        PROVE  \E n \in 1 .. Len(longer) : ~ OfRule(longer[n]) /\ longer[n].id = message
    <3>1. CASE is.tables.messages[message] = was.tables.messages[message]
      <4>1. PICK n \in 1 .. Len(list) : ~ OfRule(list[n]) /\ list[n].id = message
        BY <2>2, <2>7, <3>1 DEF Undoes, Covers
      <4>2. n \in 1 .. Len(longer) /\ longer[n] = list[n]
        BY <2>2, Longer
      <4> QED
        BY <4>1, <4>2
    <3>2. CASE is.tables.messages[message] # was.tables.messages[message]
      <4>1. ~ OfRule(e) /\ e.id = message
        BY <1>2, <3>2 DEF MessageWritten, RuleWritten, OfRule
      <4>2. Len(longer) \in 1 .. Len(longer) /\ longer[Len(longer)] = e
        BY <2>2, Longer
      <4> QED
        BY <4>1, <4>2
    <3> QED
      BY <3>1, <3>2
  <2> QED
    BY <2>1, <2>5, <2>6, <2>7 DEF Undoes, Covers
<1> QED
  BY <1>1, <1>2 DEF Recorded

-----------------------------------------------------------------------------
(* What an apply leaves: typed tables, a list that fits them, and, with no *)
(* two actions on one item, undoes them.                                   *)
Left(result) ==
  /\ result \in Progress
  /\ Fits(result.rollback, result.tables)
  /\ Stay(tables, result.tables)
  /\ Once(plan) => Undoes(result.rollback, tables, result.tables)

(* Rows no action so far is about. *)
Untouched(now, count) ==
  /\ \A key \in PlanKeys : (\A m \in 1 .. count : plan[m].id # key) => now.rules[key] = tables.rules[key]
  /\ \A message \in PlanMessages :
        (\A m \in 1 .. count : plan[m].id # message) => now.messages[message] = tables.messages[message]

LEMMA StartLeft ==
  ASSUME tables \in Tables
  PROVE  Left(Start) /\ Untouched(Start.tables, 0)
<1>1. Start.tables = tables /\ Start.rollback = <<>> /\ Start.refused = FALSE
  BY DEF Start
<1>2. Start \in Progress
  BY DEF Start, Progress
<1>3. \A n \in 1 .. Len(<<>>) : FALSE
  OBVIOUS
<1>4. Fits(<<>>, tables) /\ Stay(tables, tables) /\ Undoes(<<>>, tables, tables)
  BY <1>3 DEF Fits, Stay, Undoes, Covers
<1> QED
  BY <1>1, <1>2, <1>4 DEF Left, Untouched

LEMMA WrittenLeft ==
  ASSUME NEW was \in Progress, NEW is \in Progress, NEW n \in Nat, NEW item, item = plan[n + 1],
         plan \in Seq(Action), n + 1 \in 1 .. Len(plan),
         Recorded(was, is, item), Left(was), Untouched(was.tables, n)
  PROVE  Left(is) /\ Untouched(is.tables, n + 1)
<1>1. Fits(is.rollback, is.tables)
  BY WrittenFits DEF Left
<1>2. Stay(tables, is.tables)
  BY WrittenStays DEF Left, Stay
<1>3. ASSUME Once(plan)  PROVE Undoes(is.rollback, tables, is.tables)
  <2>1. \A m \in 1 .. n : plan[m].id # item.id
    <3> SUFFICES ASSUME NEW m \in 1 .. n, plan[m].id = item.id  PROVE FALSE
      OBVIOUS
    <3>1. m \in DOMAIN plan /\ n + 1 \in DOMAIN plan /\ m # n + 1
      OBVIOUS
    <3> QED
      BY <1>3, <3>1 DEF Once
  <2>2. /\ item.id \in PlanKeys => was.tables.rules[item.id] = tables.rules[item.id]
        /\ item.id \in PlanMessages => was.tables.messages[item.id] = tables.messages[item.id]
    BY <2>1 DEF Untouched
  <2>3. Undoes(was.rollback, tables, was.tables)
    BY <1>3 DEF Left
  <2>4. PICK first : first = tables
    OBVIOUS
  <2> QED
    BY <2>2, <2>3, <2>4, WrittenUndoes
<1>4. /\ \A key \in PlanKeys : key # item.id => is.tables.rules[key] = was.tables.rules[key]
      /\ \A message \in PlanMessages : message # item.id => is.tables.messages[message] = was.tables.messages[message]
  BY DEF Recorded, MessageWritten, RuleWritten
<1>5. n + 1 \in 1 .. n + 1 /\ \A m \in 1 .. n : m \in 1 .. n + 1
  OBVIOUS
<1>6. Untouched(is.tables, n + 1)
  BY <1>4, <1>5 DEF Untouched
<1> QED
  BY <1>1, <1>2, <1>3, <1>6 DEF Left

LEMMA ApplyLeft ==
  ASSUME tables \in Tables, plan \in Seq(Action), NEW approved,
         NEW result, result = applyAssistantPlan(approved)
  PROVE  Left(result)
<1>1. PICK f : Applies(f, approved) /\ result = f[Len(plan)]
  BY ApplyIsLoop
<1>2. Len(plan) \in Nat
  OBVIOUS
<1> DEFINE Right == {n \in Nat : n <= Len(plan) => Left(f[n]) /\ Untouched(f[n].tables, n)}
<1>3. 0 \in Right
  BY <1>1, StartLeft DEF Applies
<1>4. ASSUME NEW n \in Right  PROVE n + 1 \in Right
  <2> SUFFICES ASSUME n + 1 <= Len(plan)  PROVE Left(f[n + 1]) /\ Untouched(f[n + 1].tables, n + 1)
    OBVIOUS
  <2>1. n \in Nat /\ n <= Len(plan) /\ n + 1 \in 1 .. Len(plan) /\ (n + 1) - 1 = n
    BY <1>2
  <2>2. Left(f[n]) /\ Untouched(f[n].tables, n)
    BY <2>1
  <2> HIDE DEF Right
  <2>3. PICK was, is, item : was = f[n] /\ is = f[n + 1] /\ item = plan[n + 1]
    OBVIOUS
  <2>4. item \in Action
    BY <2>1, <2>3
  <2>5. is = applyAction(was, item, approved) /\ was \in Progress
    BY <1>1, <2>1, <2>2, <2>3 DEF Applies, Left
  <2>6. is \in Progress /\ Recorded(was, is, item)
    BY <2>4, <2>5, ApplyAction
  <2>7. Left(is) /\ Untouched(is.tables, n + 1)
    BY <2>1, <2>2, <2>3, <2>5, <2>6, WrittenLeft
  <2> QED
    BY <2>3, <2>7
<1>5. Len(plan) \in Right
  <2> HIDE DEF Right
  <2>1. Right \in SUBSET Nat
    BY DEF Right
  <2> QED
    BY <1>2, <1>3, <1>4, <2>1, AllNumbers
<1> QED
  BY <1>1, <1>2, <1>5

-----------------------------------------------------------------------------
(* The loop over the entries of a rollback, in the tables it can reach.    *)
Reached == {t \in Tables : Stay(tables, t)}

Restores(g) ==
  /\ g \in [0 .. Len(rollback) -> Reached]
  /\ g[0] = tables
  /\ \A n \in 1 .. Len(rollback) : g[n] = restore(g[n - 1], rollback[n])

RestoreLoop(g) ==
  g = [n \in 0 .. Len(rollback) |-> IF n = 0 THEN tables ELSE restore(g[n - 1], rollback[n])]

(* What one entry does to the tables. *)
RestoredOne(was, e, is) ==
  /\ is \in Reached
  /\ e.action = "restore_message" => is.messages[e.id] = e.object
  /\ e.action = "restore_rule_draft" => is.rules[e.id].draft = e.object
  /\ e.action = "archive_rule_draft" => is.rules[e.id].status = "archived"
  /\ \A key \in PlanKeys : key # e.id \/ ~ OfRule(e) => is.rules[key] = was.rules[key]
  /\ \A message \in PlanMessages : message # e.id \/ OfRule(e) => is.messages[message] = was.messages[message]

WritesRow(was, key, rule, is) == is = [rules |-> [was.rules EXCEPT ![key] = rule], messages |-> was.messages]

LEMMA RestoreRule ==
  ASSUME NEW was \in Reached, NEW key \in PlanKeys, NEW rule \in Rule, NEW is, WritesRow(was, key, rule, is)
  PROVE  /\ is \in Reached /\ is.rules[key] = rule /\ is.messages = was.messages
         /\ \A x \in PlanKeys : x # key => is.rules[x] = was.rules[x]
<1>1. PICK rules : rules = [was.rules EXCEPT ![key] = rule]
  OBVIOUS
<1>2. is = [rules |-> rules, messages |-> was.messages] /\ is.rules = rules /\ is.messages = was.messages
  BY <1>1 DEF WritesRow
<1>3. was \in Tables /\ Stay(tables, was)
  BY DEF Reached
<1>4. /\ rules \in [PlanKeys -> Rule \cup {Missing}] /\ rules[key] = rule
      /\ \A x \in PlanKeys : x # key => rules[x] = was.rules[x]
  BY <1>1, <1>3 DEF Tables
<1>5. is \in Tables
  BY <1>2, <1>3, <1>4 DEF Tables
<1>6. rule # Missing
  BY PlanAssumption
<1>7. Stay(tables, is)
  BY <1>2, <1>3, <1>4, <1>6 DEF Stay
<1> QED
  BY <1>2, <1>4, <1>5, <1>7 DEF Reached

LEMMA RestoreOne ==
  ASSUME NEW was \in Reached, NEW e \in Entry,
         OfRule(e) => /\ tables.rules[e.id] # Missing
                      /\ e.action = "restore_rule_draft" => e.object \in Contents,
         NEW is, is = restore(was, e)
  PROVE  RestoredOne(was, e, is)
<1>1. was \in Tables /\ Stay(tables, was) /\ was = [rules |-> was.rules, messages |-> was.messages]
  BY DEF Reached, Tables
<1>2. CASE e.action = "restore_message"
  <2>1. e.id \in PlanMessages /\ e.object \in Contents \cup {Missing}
    BY <1>2 DEF Entry
  <2>2. PICK messages : messages = [was.messages EXCEPT ![e.id] = e.object]
    OBVIOUS
  <2>3. is = [rules |-> was.rules, messages |-> messages]
    BY <1>1, <1>2, <2>2 DEF restore
  <2>4. is.rules = was.rules /\ is.messages = messages
    BY <2>3
  <2>5. /\ messages \in [PlanMessages -> Contents \cup {Missing}] /\ messages[e.id] = e.object
        /\ \A x \in PlanMessages : x # e.id => messages[x] = was.messages[x]
    BY <1>1, <2>1, <2>2 DEF Tables
  <2>6. is \in Reached
    BY <1>1, <2>3, <2>4, <2>5 DEF Reached, Tables, Stay
  <2> QED
    BY <1>2, <2>4, <2>5, <2>6 DEF RestoredOne, OfRule
<1>3. CASE OfRule(e)
  <2>1. e.id \in PlanKeys
    BY <1>3 DEF OfRule, Entry
  <2>2. PICK old \in Rule : old = was.rules[e.id]
    BY <1>1, <1>3, <2>1 DEF Stay, Tables
  <2>3. CASE e.action = "restore_rule_draft"
    <3>1. PICK rule \in Rule : rule = Edited(old, e.object) /\ rule.draft = e.object
      BY <1>3, <2>3, EditedRule DEF Edited
    <3>2. WritesRow(was, e.id, rule, is)
      BY <1>1, <2>2, <2>3, <3>1 DEF restore, WritesRow
    <3> QED
      BY <1>3, <2>1, <2>3, <3>1, <3>2, RestoreRule DEF RestoredOne, OfRule
  <2>4. CASE e.action = "archive_rule_draft"
    <3>1. PICK rule : rule = [old EXCEPT !.status = "archived"]
      OBVIOUS
    <3>2. rule \in Rule /\ rule.status = "archived"
      BY <3>1 DEF Rule
    <3>3. WritesRow(was, e.id, rule, is)
      BY <1>1, <2>2, <2>4, <3>1 DEF restore, WritesRow
    <3> QED
      BY <1>3, <2>1, <2>4, <3>2, <3>3, RestoreRule DEF RestoredOne, OfRule
  <2> QED
    BY <1>3, <2>3, <2>4 DEF OfRule
<1>4. CASE e.action = "manual_review"
  <2>1. is = was
    BY <1>4 DEF restore
  <2> QED
    BY <1>4, <2>1 DEF RestoredOne
<1> QED
  BY <1>2, <1>3, <1>4 DEF Entry, OfRule

LEMMA RestoreExists ==
  ASSUME tables \in Tables, rollback \in Seq(Entry), Fits(rollback, tables)
  PROVE  \E g : RestoreLoop(g) /\ Restores(g)
<1> DEFINE step == [p \in Reached \X (1 .. Len(rollback)) |-> restore(p[1], rollback[p[2]])]
<1>1. Len(rollback) \in Nat /\ \A n \in 1 .. Len(rollback) : rollback[n] \in Entry
  OBVIOUS
<1>2. tables \in Reached
  BY DEF Reached, Stay
<1>3. step \in [Reached \X (1 .. Len(rollback)) -> Reached]
  <2>1. ASSUME NEW p \in Reached \X (1 .. Len(rollback))  PROVE restore(p[1], rollback[p[2]]) \in Reached
    <3>1. p[1] \in Reached /\ p[2] \in 1 .. Len(rollback)
      OBVIOUS
    <3>2. PICK was, e, is : was = p[1] /\ e = rollback[p[2]] /\ is = restore(was, e)
      OBVIOUS
    <3>3. OfRule(e) => /\ tables.rules[e.id] # Missing
                       /\ e.action = "restore_rule_draft" => e.object \in Contents
      BY <3>1, <3>2 DEF Fits
    <3>4. RestoredOne(was, e, is)
      BY <1>1, <3>1, <3>2, <3>3, RestoreOne
    <3> QED
      BY <3>2, <3>4 DEF RestoredOne
  <2> QED
    BY <2>1
<1>4. \A x \in Reached, n \in 1 .. Len(rollback) : step[<<x, n>>] = restore(x, rollback[n])
  OBVIOUS
<1> HIDE DEF step
<1>5. PICK g \in [0 .. Len(rollback) -> Reached] :
         g[0] = tables /\ \A n \in 1 .. Len(rollback) : g[n] = step[<<g[n - 1], n>>]
  <2>1. PICK first, count, next : first = tables /\ count = Len(rollback) /\ next = step
    OBVIOUS
  <2>2. PICK S : S = Reached
    OBVIOUS
  <2>3. first \in S /\ count \in Nat /\ StepOf(S, count, next)
    BY <1>1, <1>2, <1>3, <2>1, <2>2 DEF StepOf
  <2>4. \E g : Recursion(g, S, first, count, next)
    BY ONLY <2>3, RecursionExists
  <2> QED
    BY <2>1, <2>2, <2>4 DEF Recursion
<1>6. ASSUME NEW n \in 1 .. Len(rollback)  PROVE g[n] = restore(g[n - 1], rollback[n])
  <2>1. n - 1 \in 0 .. Len(rollback)
    BY <1>1
  <2>2. g[n - 1] \in Reached
    BY <2>1
  <2> QED
    BY <1>4, <1>5, <2>2
<1>7. Restores(g)
  BY <1>5, <1>6 DEF Restores
<1>8. ASSUME NEW n \in 0 .. Len(rollback)
      PROVE  g[n] = IF n = 0 THEN tables ELSE restore(g[n - 1], rollback[n])
  <2>1. n = 0 \/ n \in 1 .. Len(rollback)
    BY <1>1
  <2> QED
    BY <1>5, <1>6, <2>1
<1>9. g = [n \in 0 .. Len(rollback) |-> g[n]]
  OBVIOUS
<1>10. RestoreLoop(g)
  BY <1>8, <1>9 DEF RestoreLoop
<1> QED
  BY <1>7, <1>10

LEMMA RollbackIsLoop ==
  ASSUME tables \in Tables, rollback \in Seq(Entry), Fits(rollback, tables)
  PROVE  \E g : Restores(g) /\ rollbackAssistantPlan = g[Len(rollback)]
<1> DEFINE g == CHOOSE h : RestoreLoop(h)
<1>1. rollbackAssistantPlan = g[Len(rollback)]
  BY DEF rollbackAssistantPlan, RestoreLoop
<1>2. RestoreLoop(g)
  BY RestoreExists
<1> HIDE DEF g
<1>3. g[0] = tables /\ \A n \in 1 .. Len(rollback) : g[n] = restore(g[n - 1], rollback[n])
  <2>1. Len(rollback) \in Nat
    OBVIOUS
  <2> QED
    BY <1>2, <2>1 DEF RestoreLoop
<1>4. g \in [0 .. Len(rollback) -> Reached]
  <2>1. PICK h : RestoreLoop(h) /\ Restores(h)
    BY RestoreExists
  <2> DEFINE Right == {n \in Nat : n <= Len(rollback) => g[n] = h[n]}
  <2>2. h[0] = tables /\ \A n \in 1 .. Len(rollback) : h[n] = restore(h[n - 1], rollback[n])
    BY <2>1 DEF Restores
  <2>3. 0 \in Right
    BY <1>3, <2>2
  <2>4. ASSUME NEW n \in Right  PROVE n + 1 \in Right
    <3> SUFFICES ASSUME n + 1 <= Len(rollback)  PROVE g[n + 1] = h[n + 1]
      OBVIOUS
    <3>1. n \in Nat /\ n <= Len(rollback) /\ n + 1 \in 1 .. Len(rollback) /\ (n + 1) - 1 = n
      OBVIOUS
    <3>2. g[n] = h[n]
      BY <3>1
    <3> HIDE DEF Right
    <3> QED
      BY <1>3, <2>2, <3>1, <3>2
  <2> HIDE DEF Right
  <2>5. Right \in SUBSET Nat
    BY DEF Right
  <2>6. Right = Nat
    BY <2>3, <2>4, <2>5, AllNumbers
  <2>7. \A n \in 0 .. Len(rollback) : g[n] = h[n]
    BY <2>6 DEF Right
  <2>8. \A n \in 0 .. Len(rollback) : g[n] \in Reached
    BY <2>1, <2>7 DEF Restores
  <2> QED
    BY <1>2, <2>8 DEF RestoreLoop
<1> QED
  BY <1>1, <1>3, <1>4 DEF Restores

-----------------------------------------------------------------------------
(* A row is as it was before the plan, or an entry is still to come.       *)
RuleBack(before, now, key) ==
  IF before.rules[key] # Missing THEN now.rules[key].draft = before.rules[key].draft
  ELSE now.rules[key] # Missing => now.rules[key].status = "archived"
MessageBack(before, now, message) == before.messages[message] \in {Missing, now.messages[message]}

Pending(list, n, rule, id) == \E m \in n + 1 .. Len(list) : (OfRule(list[m]) <=> rule) /\ list[m].id = id

BackOrPending(list, n, before, now) ==
  /\ \A key \in PlanKeys : RuleBack(before, now, key) \/ Pending(list, n, TRUE, key)
  /\ \A message \in PlanMessages : MessageBack(before, now, message) \/ Pending(list, n, FALSE, message)

LEMMA BackAtFirst ==
  ASSUME NEW list, NEW before, NEW now, Covers(list, before, now), now \in Tables
  PROVE  BackOrPending(list, 0, before, now)
<1>1. ASSUME NEW key \in PlanKeys  PROVE RuleBack(before, now, key) \/ Pending(list, 0, TRUE, key)
  <2>1. CASE now.rules[key] = before.rules[key]
    BY <2>1 DEF RuleBack
  <2>2. CASE now.rules[key] # before.rules[key]
    BY <2>2 DEF Covers, Pending
  <2> QED
    BY <2>1, <2>2
<1>2. ASSUME NEW message \in PlanMessages  PROVE MessageBack(before, now, message) \/ Pending(list, 0, FALSE, message)
  <2>1. CASE now.messages[message] = before.messages[message]
    BY <2>1 DEF MessageBack
  <2>2. CASE now.messages[message] # before.messages[message]
    BY <2>2 DEF Covers, Pending
  <2> QED
    BY <2>1, <2>2
<1> QED
  BY <1>1, <1>2 DEF BackOrPending

LEMMA PendingNext ==
  ASSUME NEW list \in Seq(Entry), NEW n \in Nat, NEW rule \in BOOLEAN, NEW id, Pending(list, n, rule, id),
         ~ ((OfRule(list[n + 1]) <=> rule) /\ list[n + 1].id = id)
  PROVE  Pending(list, n + 1, rule, id)
<1>1. PICK m \in n + 1 .. Len(list) : (OfRule(list[m]) <=> rule) /\ list[m].id = id
  BY DEF Pending
<1>2. m # n + 1
  BY <1>1
<1>3. m \in (n + 1) + 1 .. Len(list)
  BY <1>2
<1> QED
  BY <1>1, <1>3 DEF Pending

LEMMA BackNext ==
  ASSUME NEW list \in Seq(Entry), NEW n \in Nat, NEW e \in Entry, e = list[n + 1],
         NEW before, Tells(e, before), NEW was, NEW is, RestoredOne(was, e, is),
         BackOrPending(list, n, before, was)
  PROVE  BackOrPending(list, n + 1, before, is)
<1>1. ASSUME NEW key \in PlanKeys  PROVE RuleBack(before, is, key) \/ Pending(list, n + 1, TRUE, key)
  <2>1. CASE OfRule(e) /\ e.id = key
    <3>1. CASE e.action = "restore_rule_draft"
      BY <2>1, <3>1 DEF Tells, RestoredOne, RuleBack
    <3>2. CASE e.action = "archive_rule_draft"
      BY <2>1, <3>2 DEF Tells, RestoredOne, RuleBack
    <3> QED
      BY <2>1, <3>1, <3>2 DEF OfRule
  <2>2. CASE ~ (OfRule(e) /\ e.id = key)
    <3>1. is.rules[key] = was.rules[key]
      BY <2>2 DEF RestoredOne
    <3>2. CASE RuleBack(before, was, key)
      BY <3>1, <3>2 DEF RuleBack
    <3>3. CASE Pending(list, n, TRUE, key)
      BY <2>2, <3>3, PendingNext
    <3> QED
      BY <3>2, <3>3 DEF BackOrPending
  <2> QED
    BY <2>1, <2>2
<1>2. ASSUME NEW message \in PlanMessages  PROVE MessageBack(before, is, message) \/ Pending(list, n + 1, FALSE, message)
  <2>1. CASE ~ OfRule(e) /\ e.id = message
    <3>1. CASE e.action = "restore_message"
      BY <2>1, <3>1 DEF Tells, RestoredOne, MessageBack
    <3>2. CASE e.action = "manual_review"
      BY <2>1, <3>2 DEF Tells, MessageBack
    <3> QED
      BY <2>1, <3>1, <3>2 DEF OfRule, Entry
  <2>2. CASE ~ (~ OfRule(e) /\ e.id = message)
    <3>1. is.messages[message] = was.messages[message]
      BY <2>2 DEF RestoredOne
    <3>2. CASE MessageBack(before, was, message)
      BY <3>1, <3>2 DEF MessageBack
    <3>3. CASE Pending(list, n, FALSE, message)
      BY <2>2, <3>3, PendingNext
    <3> QED
      BY <3>2, <3>3 DEF BackOrPending
  <2> QED
    BY <2>1, <2>2
<1> QED
  BY <1>1, <1>2 DEF BackOrPending

(* A rollback reaches typed tables, and with the list of what has changed  *)
(* since, the ones there were.                                             *)
LEMMA RollbackRight ==
  ASSUME tables \in Tables, rollback \in Seq(Entry), Fits(rollback, tables),
         NEW now, now = rollbackAssistantPlan
  PROVE  now \in Reached /\ \A before : Undoes(rollback, before, tables) => Restored(before, now)
<1>1. PICK g : Restores(g) /\ now = g[Len(rollback)]
  BY RollbackIsLoop
<1>2. Len(rollback) \in Nat
  OBVIOUS
<1>3. now \in Reached
  <2>1. Len(rollback) \in 0 .. Len(rollback)
    BY <1>2
  <2> QED
    BY <1>1, <2>1 DEF Restores
<1>4. ASSUME NEW before, Undoes(rollback, before, tables)  PROVE Restored(before, now)
  <2> DEFINE Right == {n \in Nat : n <= Len(rollback) => BackOrPending(rollback, n, before, g[n])}
  <2>1. 0 \in Right
    BY <1>1, <1>4, BackAtFirst DEF Restores, Undoes
  <2>2. ASSUME NEW n \in Right  PROVE n + 1 \in Right
    <3> SUFFICES ASSUME n + 1 <= Len(rollback)  PROVE BackOrPending(rollback, n + 1, before, g[n + 1])
      OBVIOUS
    <3>1. n \in Nat /\ n <= Len(rollback) /\ n + 1 \in 1 .. Len(rollback) /\ (n + 1) - 1 = n /\ n \in 0 .. Len(rollback)
      BY <1>2
    <3>2. BackOrPending(rollback, n, before, g[n])
      BY <3>1
    <3> HIDE DEF Right
    <3>3. PICK list, was, is, e : list = rollback /\ was = g[n] /\ is = g[n + 1] /\ e = rollback[n + 1]
      OBVIOUS
    <3>4. e \in Entry /\ Tells(e, before)
      BY <1>4, <3>1, <3>3 DEF Undoes
    <3>5. is = restore(was, e) /\ was \in Reached
      BY <1>1, <3>1, <3>3 DEF Restores
    <3>6. OfRule(e) => /\ tables.rules[e.id] # Missing
                       /\ e.action = "restore_rule_draft" => e.object \in Contents
      BY <3>1, <3>3 DEF Fits
    <3>7. RestoredOne(was, e, is)
      BY <3>4, <3>5, <3>6, RestoreOne
    <3>8. BackOrPending(list, n + 1, before, is)
      BY <3>1, <3>2, <3>3, <3>4, <3>7, BackNext
    <3> QED
      BY <3>3, <3>8
  <2>3. Len(rollback) \in Right
    <3> HIDE DEF Right
    <3>1. Right \in SUBSET Nat
      BY DEF Right
    <3> QED
      BY <1>2, <2>1, <2>2, <3>1, AllNumbers
  <2>4. BackOrPending(rollback, Len(rollback), before, now)
    BY <1>1, <1>2, <2>3
  <2>5. \A rule, id : ~ Pending(rollback, Len(rollback), rule, id)
    BY <1>2 DEF Pending
  <2> QED
    BY <2>4, <2>5 DEF BackOrPending, RuleBack, MessageBack, Restored
<1> QED
  BY <1>3, <1>4

-----------------------------------------------------------------------------
LEMMA PlanInitInv == PlanInit => PlanIInv
<1> SUFFICES ASSUME PlanInit  PROVE PlanIInv
  OBVIOUS
<1>1. tables \in Tables
  <2>1. PICK first \in Contents :
           tables \in [rules : [PlanKeys -> {Missing, [status |-> "published", draft |-> first]}],
                       messages : [PlanMessages -> {Missing, first}]]
    BY PlanAssumption DEF PlanInit
  <2>2. [status |-> "published", draft |-> first] \in Rule
    BY DEF Rule
  <2> QED
    BY <2>1, <2>2 DEF Tables
<1>2. plan = <<>> /\ rollback = <<>> /\ answers = <<>> /\ applied = Missing
  BY DEF PlanInit
<1>3. \A n \in 1 .. Len(<<>>) : FALSE
  OBVIOUS
<1>4. Fits(<<>>, tables) /\ Held(<<>>, tables)
  BY <1>3 DEF Fits, Held
<1> QED
  BY <1>1, <1>2, <1>4 DEF PlanIInv

(* A plan is a list of actions. *)
LEMMA PlansTyped == Plans \subseteq Seq(Action)
<1>1. sanitizeProviderPlan \subseteq Seq(Action)
  <2>1. ASSUME NEW m \in 0 .. MaxActions, NEW list \in [1 .. m -> Action]  PROVE list \in Seq(Action)
    <3>1. m \in Nat
      BY PlanAssumption
    <3> QED
      BY <3>1
  <2> QED
    BY <2>1 DEF sanitizeProviderPlan, SeqOf
<1>2. ASSUME NEW key \in PlanKeys, NEW message \in PlanMessages, NEW object \in Contents
      PROVE  createAssistantPlan(key, message, object) \subseteq Seq(Action)
  <2>1. PICK rule : rule = [action |-> IF tables.rules[key] = Missing THEN "create_rule_draft" ELSE "update_rule_draft",
                            id |-> key, object |-> object]
    OBVIOUS
  <2>2. PICK edit : edit = [action |-> "upsert_message", id |-> message, object |-> object]
    OBVIOUS
  <2>3. rule \in Action /\ edit \in Action
    BY <2>1, <2>2 DEF Action
  <2>4. createAssistantPlan(key, message, object) = {<<rule>>, <<edit, rule>>}
    BY <2>1, <2>2 DEF createAssistantPlan
  <2> QED
    BY <2>3, <2>4
<1> QED
  BY <1>1, <1>2 DEF Plans

(* Lists held stay in step with tables in which every rule set stays. *)
LEMMA HeldStays ==
  ASSUME NEW list \in Seq(Reply), NEW before, NEW now, Held(list, before), Stay(before, now)
  PROVE  Held(list, now)
<1>1. ASSUME NEW n \in 1 .. Len(list)  PROVE Fits(list[n].rollback, now)
  <2>1. list[n] \in Reply
    OBVIOUS
  <2>2. list[n].rollback \in Seq(Entry)
    BY <2>1 DEF Reply
  <2>3. Fits(list[n].rollback, before)
    BY DEF Held
  <2> QED
    BY <2>2, <2>3, FitsStays
<1> QED
  BY <1>1 DEF Held

(* One answer more. *)
LEMMA HeldGrows ==
  ASSUME NEW list \in Seq(Reply), NEW reply \in Reply, NEW now, Held(list, now),
         reply.rollback = <<>> \/ reply.ok, Fits(reply.rollback, now), NEW longer, longer = Append(list, reply)
  PROVE  longer \in Seq(Reply) /\ Held(longer, now)
<1>1. longer \in Seq(Reply)
  OBVIOUS
<1>2. ASSUME NEW n \in 1 .. Len(longer)
      PROVE  (longer[n].rollback = <<>> \/ longer[n].ok) /\ Fits(longer[n].rollback, now)
  <2>1. CASE n \in 1 .. Len(list)
    <3>1. longer[n] = list[n]
      BY <2>1
    <3> QED
      BY <2>1, <3>1 DEF Held
  <2>2. CASE n \notin 1 .. Len(list)
    <3>1. longer[n] = reply
      BY <2>2
    <3> QED
      BY <3>1
  <2> QED
    BY <2>1, <2>2
<1> QED
  BY <1>1, <1>2 DEF Held

LEMMA ShowPlanKeeps == ASSUME PlanIInv, ShowPlan  PROVE PlanIInv'
<1>1. plan' \in Seq(Action)
  <2>1. plan' \in Plans \/ plan' = <<>>
    BY DEF ShowPlan
  <2>2. <<>> \in Seq(Action)
    OBVIOUS
  <2> QED
    BY <2>1, <2>2, PlansTyped
<1>2. rollback' = <<>> /\ UNCHANGED <<tables, answers, applied>>
  BY DEF ShowPlan
<1>3. \A n \in 1 .. Len(<<>>) : FALSE
  OBVIOUS
<1>4. Fits(<<>>, tables)
  BY <1>3 DEF Fits
<1> QED
  BY <1>1, <1>2, <1>4 DEF PlanIInv

LEMMA ApplyKeeps == ASSUME PlanIInv, NEW approved, NEW kept \in BOOLEAN, Apply(approved, kept)  PROVE PlanIInv'
<1>1. PICK result : result = applyAssistantPlan(approved)
  OBVIOUS
<1>2. tables \in Tables /\ plan \in Seq(Action) /\ rollback \in Seq(Entry) /\ answers \in Seq(Reply)
  BY DEF PlanIInv
<1>3. Left(result)
  BY <1>1, <1>2, ApplyLeft
<1>4. PICK ok, before : ok = (kept /\ ~ result.refused) /\ before = tables
  OBVIOUS
<1>5. ok \in BOOLEAN
  BY <1>3, <1>4 DEF Left, Progress
<1>6. PICK reply : reply = [ok |-> ok, rollback |-> IF ok THEN result.rollback ELSE <<>>]
  OBVIOUS
<1>7. PICK asked : asked = [plan |-> plan, rollback |-> result.rollback, before |-> before, after |-> result.tables]
  OBVIOUS
<1>8. /\ tables' = result.tables /\ answers' = Append(answers, reply)
      /\ applied' = (IF ok THEN asked ELSE Missing)
      /\ plan' = plan /\ rollback' = rollback
  BY <1>1, <1>4, <1>6, <1>7 DEF Apply
<1>9. result.tables \in Tables /\ result.rollback \in Seq(Entry)
  BY <1>3 DEF Left, Progress
<1>10. Fits(rollback, result.tables) /\ Held(answers, result.tables)
  BY <1>2, <1>3, FitsStays, HeldStays DEF Left, PlanIInv
<1>11. Append(answers, reply) \in Seq(Reply) /\ Held(Append(answers, reply), result.tables)
  <2>1. \A n \in 1 .. Len(<<>>) : FALSE
    OBVIOUS
  <2>2. Fits(<<>>, result.tables)
    BY <2>1 DEF Fits
  <2>3. reply.ok = ok /\ reply.rollback = IF ok THEN result.rollback ELSE <<>>
    BY <1>6
  <2>4. reply \in Reply
    BY <1>5, <1>6, <1>9 DEF Reply
  <2>5. Fits(reply.rollback, result.tables) /\ (reply.rollback = <<>> \/ reply.ok)
    BY <1>3, <1>5, <2>2, <2>3 DEF Left
  <2> QED
    BY <1>2, <1>10, <2>4, <2>5, HeldGrows
<1>12. applied' # Missing /\ Once(applied'.plan) => Undoes(applied'.rollback, applied'.before, applied'.after)
  BY <1>3, <1>4, <1>5, <1>7, <1>8 DEF Left
<1> QED
  BY <1>2, <1>8, <1>9, <1>10, <1>11, <1>12 DEF PlanIInv

LEMMA RollbackKeeps == ASSUME PlanIInv, NEW kept \in BOOLEAN, Rollback(kept)  PROVE PlanIInv'
<1>1. PICK now : now = rollbackAssistantPlan
  OBVIOUS
<1>2. tables \in Tables /\ rollback \in Seq(Entry) /\ answers \in Seq(Reply) /\ Fits(rollback, tables)
  BY DEF PlanIInv
<1>3. now \in Tables /\ Stay(tables, now)
  BY <1>1, <1>2, RollbackRight DEF Reached
<1>4. PICK reply : reply = [ok |-> kept, rollback |-> <<>>]
  OBVIOUS
<1>5. tables' = now /\ answers' = Append(answers, reply) /\ UNCHANGED <<plan, rollback, applied>>
  BY <1>1, <1>4 DEF Rollback
<1>6. Fits(rollback, now) /\ Held(answers, now)
  BY <1>2, <1>3, FitsStays, HeldStays DEF PlanIInv
<1>7. Append(answers, reply) \in Seq(Reply) /\ Held(Append(answers, reply), now)
  <2>1. \A n \in 1 .. Len(<<>>) : FALSE
    OBVIOUS
  <2>2. reply \in Reply /\ reply.rollback = <<>>
    BY <1>4 DEF Reply
  <2>3. Fits(reply.rollback, now)
    BY <2>1, <2>2 DEF Fits
  <2> QED
    BY <1>2, <1>6, <2>2, <2>3, HeldGrows
<1> QED
  BY <1>3, <1>5, <1>6, <1>7 DEF PlanIInv

(* The positions of two lists, one after the other. *)
LEMMA Concatenated ==
  ASSUME NEW S, NEW first \in Seq(S), NEW last \in Seq(S), NEW both, both = first \o last
  PROVE  /\ Len(first) \in Nat /\ Len(last) \in Nat /\ Len(both) = Len(first) + Len(last)
         /\ \A m \in 1 .. Len(both) :
               both[m] = IF m <= Len(first) THEN first[m] ELSE last[m - Len(first)]
OBVIOUS

(* One answer fewer. *)
LEMMA HeldShrinks ==
  ASSUME NEW list \in Seq(Reply), NEW n \in DOMAIN list, NEW now, Held(list, now),
         NEW shorter, shorter = RemoveAt(list, n)
  PROVE  shorter \in Seq(Reply) /\ Held(shorter, now)
<1>1. Len(list) \in Nat /\ n \in 1 .. Len(list)
  OBVIOUS
<1>2. PICK first, last : first = SubSeq(list, 1, n - 1) /\ last = SubSeq(list, n + 1, Len(list))
  OBVIOUS
<1>3. shorter = first \o last
  BY <1>2 DEF RemoveAt
<1>4. /\ first \in Seq(Reply) /\ Len(first) = n - 1 /\ \A m \in 1 .. n - 1 : first[m] = list[m]
  BY <1>1, <1>2
<1>5. /\ last \in Seq(Reply) /\ Len(last) = Len(list) - n
      /\ \A m \in 1 .. Len(list) - n : last[m] = list[m + n]
  BY <1>1, <1>2
<1>6. shorter \in Seq(Reply)
  BY <1>3, <1>4, <1>5
<1>7. ASSUME NEW m \in 1 .. Len(shorter)  PROVE \E k \in 1 .. Len(list) : shorter[m] = list[k]
  <2>1. CASE m \in 1 .. n - 1
    <3>1. shorter[m] = list[m] /\ m \in 1 .. Len(list)
      BY <1>1, <1>3, <1>4, <1>5, <2>1
    <3> QED
      BY <3>1
  <2>2. CASE m \notin 1 .. n - 1
    <3>1. Len(shorter) = Len(first) + Len(last) /\ Len(first) \in Nat /\ Len(last) \in Nat
      BY <1>3, <1>4, <1>5, Concatenated
    <3>2. PICK k : k = m - Len(first)
      OBVIOUS
    <3>3. m \in Nat /\ ~ (m <= Len(first)) /\ k \in 1 .. Len(last) /\ shorter[m] = last[k]
      <4>1. m \in Nat /\ Len(first) < m /\ m <= Len(first) + Len(last)
        BY <1>1, <1>4, <2>2, <3>1
      <4>2. shorter[m] = IF m <= Len(first) THEN first[m] ELSE last[m - Len(first)]
        BY <1>3, <1>4, <1>5, Concatenated
      <4>3. ~ (m <= Len(first)) /\ k \in 1 .. Len(last)
        BY ONLY <3>1, <3>2, <4>1
      <4> QED
        BY ONLY <3>2, <4>1, <4>2, <4>3
    <3>4. shorter[m] = list[k + n] /\ k + n \in 1 .. Len(list)
      <4>1. k \in 1 .. Len(list) - n
        BY ONLY <1>5, <3>3
      <4>2. k + n \in 1 .. Len(list)
        BY ONLY <1>1, <4>1
      <4> QED
        BY ONLY <1>5, <3>3, <4>1, <4>2
    <3> QED
      BY <3>4
  <2> QED
    BY <2>1, <2>2
<1>8. Held(shorter, now)
  BY <1>7 DEF Held
<1> QED
  BY <1>6, <1>8

LEMMA ShowAnswerKeeps == ASSUME PlanIInv, NEW n \in DOMAIN answers, ShowAnswer(n)  PROVE PlanIInv'
<1>1. answers \in Seq(Reply) /\ Held(answers, tables) /\ rollback \in Seq(Entry) /\ Fits(rollback, tables)
  BY DEF PlanIInv
<1>2. answers' \in Seq(Reply) /\ Held(answers', tables)
  BY <1>1, HeldShrinks DEF ShowAnswer
<1>3. answers[n].rollback \in Seq(Entry) /\ Fits(answers[n].rollback, tables)
  <2>1. n \in 1 .. Len(answers) /\ answers[n] \in Reply
    BY <1>1
  <2> QED
    BY <1>1, <2>1 DEF Held, Reply
<1>4. rollback' \in Seq(Entry) /\ Fits(rollback', tables)
  BY <1>1, <1>3 DEF ShowAnswer
<1>5. UNCHANGED <<tables, plan, applied>>
  BY DEF ShowAnswer
<1> QED
  BY <1>2, <1>4, <1>5 DEF PlanIInv

(* Other people change one row, and remove none. *)
LEMMA OthersLeave ==
  ASSUME PlanIInv, tables' \in Tables, Stay(tables, tables'), UNCHANGED <<plan, rollback, answers, applied>>
  PROVE  PlanIInv'
<1>1. PICK now : now = tables'
  OBVIOUS
<1>2. Fits(rollback, now) /\ Held(answers, now)
  BY <1>1, FitsStays, HeldStays DEF PlanIInv
<1> QED
  BY <1>1, <1>2 DEF PlanIInv

LEMMA OthersEditKeeps == ASSUME PlanIInv, OthersEdit  PROVE PlanIInv'
<1>1. tables \in Tables /\ tables = [rules |-> tables.rules, messages |-> tables.messages]
  BY DEF PlanIInv, Tables
<1>2. tables \in Reached
  BY <1>1 DEF Reached, Stay
<1>3. ASSUME NEW key \in PlanKeys, NEW content \in Contents,
             tables' = [tables EXCEPT !.rules[key] = IF @ = Missing THEN [status |-> "draft", draft |-> content]
                                                                   ELSE Edited(@, content)]
      PROVE  tables' \in Reached
  <2>1. PICK rule : rule = IF tables.rules[key] = Missing THEN [status |-> "draft", draft |-> content]
                           ELSE Edited(tables.rules[key], content)
    OBVIOUS
  <2>2. rule \in Rule
    BY <2>1 DEF Edited, Rule
  <2>3. WritesRow(tables, key, rule, tables')
    BY <1>1, <1>3, <2>1 DEF WritesRow
  <2> QED
    BY <1>2, <2>2, <2>3, RestoreRule
<1>4. ASSUME NEW key \in PlanKeys, NEW status \in {"published", "archived"}, tables.rules[key] # Missing,
             tables' = [tables EXCEPT !.rules[key].status = status]
      PROVE  tables' \in Reached
  <2>1. PICK old \in Rule : old = tables.rules[key]
    BY <1>1, <1>4 DEF Tables
  <2>2. PICK rule : rule = [old EXCEPT !.status = status]
    OBVIOUS
  <2>3. rule \in Rule
    BY <2>2 DEF Rule
  <2>4. WritesRow(tables, key, rule, tables')
    BY <1>1, <1>4, <2>1, <2>2 DEF WritesRow
  <2> QED
    BY <1>2, <2>3, <2>4, RestoreRule
<1>5. ASSUME NEW message \in PlanMessages, NEW content \in Contents,
             tables' = [tables EXCEPT !.messages[message] = content]
      PROVE  tables' \in Reached
  <2>1. PICK messages : messages = [tables.messages EXCEPT ![message] = content]
    OBVIOUS
  <2>2. tables' = [rules |-> tables.rules, messages |-> messages]
    BY <1>1, <1>5, <2>1
  <2>3. messages \in [PlanMessages -> Contents \cup {Missing}]
    BY <1>1, <2>1 DEF Tables
  <2> QED
    BY <1>1, <2>2, <2>3 DEF Reached, Tables, Stay
<1>6. tables' \in Reached
  BY <1>3, <1>4, <1>5 DEF OthersEdit
<1> QED
  BY <1>6, OthersLeave DEF OthersEdit, Reached

LEMMA PlanStepInv == PlanIInv /\ [PlanNext]_planVars => PlanIInv'
<1> SUFFICES ASSUME PlanIInv, [PlanNext]_planVars  PROVE PlanIInv'
  OBVIOUS
<1>1. CASE ShowPlan
  BY <1>1, ShowPlanKeeps
<1>2. ASSUME NEW approved, NEW kept \in BOOLEAN, Apply(approved, kept)  PROVE PlanIInv'
  BY <1>2, ApplyKeeps
<1>3. ASSUME NEW kept \in BOOLEAN, Rollback(kept)  PROVE PlanIInv'
  BY <1>3, RollbackKeeps
<1>4. ASSUME NEW n \in DOMAIN answers, ShowAnswer(n)  PROVE PlanIInv'
  BY <1>4, ShowAnswerKeeps
<1>5. CASE OthersEdit
  BY <1>5, OthersEditKeeps
<1>6. CASE UNCHANGED planVars
  BY <1>6 DEF planVars, PlanIInv
<1> QED
  BY <1>1, <1>2, <1>3, <1>4, <1>5, <1>6 DEF PlanNext

LEMMA PlanInvariant == PlanSpec => []PlanIInv
BY PlanInitInv, PlanStepInv, PTL DEF PlanSpec

(***************************************************************************)
(* The tables, the plan, the lists and the answers keep their types.       *)
(***************************************************************************)
THEOREM PlanTypeCorrect == PlanSpec => []PlanTypeOK
<1>1. PlanIInv => PlanTypeOK
  <2> SUFFICES ASSUME PlanIInv  PROVE PlanTypeOK
    OBVIOUS
  <2>1. /\ tables \in Tables /\ plan \in Seq(Action) /\ rollback \in Seq(Entry) /\ answers \in Seq(Reply)
        /\ Held(answers, tables)
    BY DEF PlanIInv
  <2>2. \A n \in DOMAIN answers : answers[n].rollback = <<>> \/ answers[n].ok
    BY <2>1 DEF Held
  <2> QED
    BY <2>1, <2>2 DEF PlanTypeOK
<1> QED
  BY <1>1, PlanInvariant, PTL

(***************************************************************************)
(* A rollback with the list of the last apply, on the tables it left,      *)
(* restores every draft and message there was.                             *)
(***************************************************************************)
THEOREM RollbackSafe == PlanSpec => RollbackRestores
<1> DEFINE Good == \A kept \in BOOLEAN :
                     /\ Rollback(kept)
                     /\ applied # Missing /\ rollback = applied.rollback /\ tables = applied.after
                     /\ Once(applied.plan)
                     => Restored(applied.before, tables')
<1>1. PlanIInv /\ [PlanNext]_planVars => [Good]_planVars
  <2> SUFFICES ASSUME PlanIInv, NEW kept \in BOOLEAN, Rollback(kept),
                      applied # Missing, rollback = applied.rollback, tables = applied.after, Once(applied.plan)
               PROVE  Restored(applied.before, tables')
    OBVIOUS
  <2>1. PICK now, before : now = rollbackAssistantPlan /\ before = applied.before
    OBVIOUS
  <2>2. Undoes(rollback, before, tables)
    BY <2>1 DEF PlanIInv
  <2>3. Restored(before, now)
    BY <2>1, <2>2, RollbackRight DEF PlanIInv
  <2> QED
    BY <2>1, <2>3 DEF Rollback
<1> QED
  BY <1>1, PlanInvariant, PTL DEF PlanSpec, Good, RollbackRestores

-----------------------------------------------------------------------------
(***************************************************************************)
(* RuleBuilder.  The names in the fields are supported ones, unless a      *)
(* definition was typed since they were filled.  While a rule is open and  *)
(* untouched the fields are those of the draft; a group among its          *)
(* conditions leaves a row without a key, which the page refuses to write, *)
(* and a plain leaf comes back from its row as it was.                     *)
(***************************************************************************)

(* Level by level, the page lets through only what the server accepts, but *)
(* for names the server does not support.                                  *)
LEMMA RefusedForNames ==
  ASSUME NEW group, validateDraft(group), ~validateConditionGroup(group)
  PROVE  HasUnsupportedName(group)
<1>1. \A g : PageThird(g) /\ ~ServerThird(g) => UnsupportedThird(g)
  BY DEF PageThird, ServerThird, UnsupportedThird, PageLevel, ServerLevel, UnsupportedLevel, UnsupportedLeaf, Grouped, Complete
<1>2. \A g : PageSecond(g) /\ ~ServerSecond(g) => UnsupportedSecond(g)
  BY <1>1 DEF PageSecond, ServerSecond, UnsupportedSecond, PageLevel, ServerLevel, UnsupportedLevel, UnsupportedLeaf, Grouped, Complete
<1> QED
  BY <1>2 DEF validateDraft, validateConditionGroup, HasUnsupportedName, PageLevel, ServerLevel, UnsupportedLevel, UnsupportedLeaf, Grouped, Complete

-----------------------------------------------------------------------------
(* The concatenation of some texts. *)
Flattens(f, seqs) == f = [i \in 1 .. Len(seqs) |-> IF i = 1 THEN seqs[i] ELSE f[i - 1] \o seqs[i]]

LEMMA FlattenExists ==
  ASSUME NEW seqs \in Seq(Seq(Strings)), seqs # <<>>
  PROVE  \E f : Flattens(f, seqs) /\ FlattenSeq(seqs) = f[Len(seqs)]
<1>1. Len(seqs) \in Nat /\ Len(seqs) # 0 /\ \A i \in 1 .. Len(seqs) : seqs[i] \in Seq(Strings)
  OBVIOUS
<1> DEFINE S == Seq(Strings)
           step == [x \in S \X (1 .. Len(seqs)) |-> x[1] \o seqs[x[2]]]
<1>2. StepOf(S, Len(seqs), step)
  BY <1>1 DEF StepOf
<1>3. <<>> \in S
  OBVIOUS
<1>4. \E g : Recursion(g, S, <<>>, Len(seqs), step)
  <2> HIDE DEF S, step
  <2> QED
    BY ONLY <1>1, <1>2, <1>3, RecursionExists
<1>5. PICK g : Recursion(g, S, <<>>, Len(seqs), step)
  BY <1>4
<1> DEFINE f == [i \in 1 .. Len(seqs) |-> g[i]]
<1>6. ASSUME NEW i \in 1 .. Len(seqs)
      PROVE  f[i] = IF i = 1 THEN seqs[i] ELSE f[i - 1] \o seqs[i]
  <2>1. i - 1 \in 0 .. Len(seqs) /\ i \in Nat
    BY <1>1
  <2>2. g[i] = step[<<g[i - 1], i>>] /\ g[i - 1] \in S
    BY <1>5, <2>1 DEF Recursion
  <2>3. g[i] = g[i - 1] \o seqs[i]
    BY <2>2
  <2>4. CASE i = 1
    <3>1. i - 1 = 0 /\ g[0] = <<>>
      BY <1>5, <2>4 DEF Recursion
    <3>2. g[i] = <<>> \o seqs[i]
      BY ONLY <2>3, <3>1
    <3>3. seqs[i] \in Seq(Strings)
      BY <1>1
    <3>4. <<>> \o seqs[i] = seqs[i]
      BY <3>3
    <3>5. f[i] = g[i]
      OBVIOUS
    <3> QED
      BY ONLY <2>4, <3>2, <3>4, <3>5
  <2>5. CASE i # 1
    <3>1. i - 1 \in 1 .. Len(seqs)
      BY <1>1, <2>5
    <3> QED
      BY <2>3, <2>5, <3>1
  <2> QED
    BY <2>4, <2>5
<1>7. f = [i \in 1 .. Len(seqs) |-> f[i]]
  OBVIOUS
<1>8. \E h : Flattens(h, seqs)
  <2> HIDE DEF f
  <2>1. Flattens(f, seqs)
    BY <1>6, <1>7 DEF Flattens
  <2> QED
    BY <2>1
<1>9. FlattenSeq(seqs) = (CHOOSE h : Flattens(h, seqs))[Len(seqs)]
  BY <1>1 DEF FlattenSeq, Flattens
<1> QED
  BY <1>8, <1>9

(* It is a text, and when each of them is one piece it has just those.     *)
LEMMA FlattenText ==
  ASSUME NEW seqs \in Seq(TextType), seqs # <<>>
  PROVE  FlattenSeq(seqs) \in TextType
<1>1. Len(seqs) \in Nat /\ Len(seqs) # 0 /\ seqs \in Seq(Seq(Strings))
  BY DEF TextType
<1>2. \A i \in 1 .. Len(seqs) : seqs[i] \in TextType
  OBVIOUS
<1>3. PICK f : Flattens(f, seqs) /\ FlattenSeq(seqs) = f[Len(seqs)]
  BY <1>1, FlattenExists
<1>4. \A i \in 1 .. Len(seqs) : f[i] = IF i = 1 THEN seqs[i] ELSE f[i - 1] \o seqs[i]
  BY <1>3 DEF Flattens
<1> DEFINE Right == {n \in Nat : n + 1 <= Len(seqs) => f[n + 1] \in TextType}
<1>5. 0 \in Right
  BY <1>1, <1>2, <1>4
<1>6. ASSUME NEW n \in Right PROVE n + 1 \in Right
  <2> SUFFICES ASSUME n + 2 <= Len(seqs) PROVE f[n + 2] \in TextType
    OBVIOUS
  <2>1. n \in Nat /\ n + 2 \in 1 .. Len(seqs) /\ f[n + 1] \in TextType /\ n + 2 # 1 /\ (n + 2) - 1 = n + 1
    BY <1>1
  <2>2. f[n + 2] = f[n + 1] \o seqs[n + 2]
    BY ONLY <1>4, <2>1
  <2>3. seqs[n + 2] \in TextType
    BY <1>2, <2>1
  <2>4. ASSUME NEW a \in TextType, NEW b \in TextType PROVE a \o b \in TextType
    BY DEF TextType
  <2> QED
    BY <2>1, <2>2, <2>3, <2>4
<1>7. Right = Nat
  <2> HIDE DEF Right
  <2>1. Right \in SUBSET Nat
    BY DEF Right
  <2> QED
    BY <1>5, <1>6, <2>1, AllNumbers
<1>8. PICK n \in Nat : n + 1 = Len(seqs)
  <2>1. Len(seqs) - 1 \in Nat /\ (Len(seqs) - 1) + 1 = Len(seqs)
    BY <1>1
  <2> QED
    BY <2>1
<1>9. n \in Right
  BY <1>7
<1>10. f[n + 1] \in TextType
  BY <1>1, <1>8, <1>9
<1> QED
  BY <1>3, <1>8, <1>10

LEMMA OneMore ==
  ASSUME NEW S, NEW a \in Seq(S), NEW e \in S, NEW longer, longer = a \o <<e>>
  PROVE  /\ longer \in Seq(S) /\ Len(longer) = Len(a) + 1
         /\ \A i \in 1 .. Len(a) : longer[i] = a[i]
         /\ longer[Len(a) + 1] = e
OBVIOUS

LEMMA PiecesMore ==
  ASSUME NEW S, NEW a \in Seq(S), NEW b \in Seq(S), Len(b) = 1
  PROVE  /\ a \o b \in Seq(S) /\ Len(a \o b) = Len(a) + 1
         /\ \A i \in 1 .. Len(a) : (a \o b)[i] = a[i]
         /\ (a \o b)[Len(a) + 1] = b[1]
<1>1. b[1] \in S /\ b = <<b[1]>>
  OBVIOUS
<1>2. PICK e, longer : e = b[1] /\ longer = a \o <<e>>
  OBVIOUS
<1>3. a \o b = longer
  BY <1>1, <1>2
<1>4. /\ longer \in Seq(S) /\ Len(longer) = Len(a) + 1
      /\ \A i \in 1 .. Len(a) : longer[i] = a[i]
      /\ longer[Len(a) + 1] = e
  BY <1>1, <1>2, OneMore
<1> QED
  BY <1>2, <1>3, <1>4

LEMMA FlattenPieces ==
  ASSUME NEW seqs \in Seq(TextType), seqs # <<>>, \A i \in 1 .. Len(seqs) : Len(seqs[i]) = 1
  PROVE  /\ FlattenSeq(seqs) \in Seq(Strings) /\ Len(FlattenSeq(seqs)) = Len(seqs)
         /\ \A i \in 1 .. Len(seqs) : FlattenSeq(seqs)[i] = seqs[i][1]
<1>1. Len(seqs) \in Nat /\ Len(seqs) # 0 /\ seqs \in Seq(Seq(Strings))
  BY DEF TextType
<1>2. \A i \in 1 .. Len(seqs) : seqs[i] \in Seq(Strings)
  BY <1>1
<1>3. PICK f : Flattens(f, seqs) /\ FlattenSeq(seqs) = f[Len(seqs)]
  BY <1>1, FlattenExists
<1>4. \A i \in 1 .. Len(seqs) : f[i] = IF i = 1 THEN seqs[i] ELSE f[i - 1] \o seqs[i]
  BY <1>3 DEF Flattens
<1> DEFINE Pieces(t, n) == t \in Seq(Strings) /\ Len(t) = n /\ \A i \in 1 .. n : t[i] = seqs[i][1]
           Right == {n \in Nat : n + 1 <= Len(seqs) => Pieces(f[n + 1], n + 1)}
<1>5. 0 \in Right
  <2>1. f[1] = seqs[1] /\ seqs[1] \in Seq(Strings) /\ Len(seqs[1]) = 1
    BY <1>1, <1>2, <1>4
  <2>2. \A i \in 1 .. 1 : i = 1
    OBVIOUS
  <2>3. Pieces(f[1], 1)
    BY <2>1, <2>2
  <2> QED
    BY <2>3
<1>6. ASSUME NEW n \in Right PROVE n + 1 \in Right
  <2> SUFFICES ASSUME n + 2 <= Len(seqs) PROVE Pieces(f[n + 2], n + 2)
    OBVIOUS
  <2>1. n \in Nat /\ n + 2 \in 1 .. Len(seqs) /\ Pieces(f[n + 1], n + 1) /\ n + 2 # 1 /\ (n + 2) - 1 = n + 1
    BY <1>1
  <2>2. PICK a, b : a = f[n + 1] /\ b = seqs[n + 2]
    OBVIOUS
  <2>3. f[n + 2] = a \o b
    BY ONLY <1>4, <2>1, <2>2
  <2>4. b \in Seq(Strings) /\ Len(b) = 1
    BY <1>2, <2>1, <2>2
  <2>5. a \in Seq(Strings) /\ Len(a) = n + 1 /\ \A i \in 1 .. n + 1 : a[i] = seqs[i][1]
    BY <2>1, <2>2
  <2>6. /\ a \o b \in Seq(Strings) /\ Len(a \o b) = n + 2
        /\ \A i \in 1 .. n + 1 : (a \o b)[i] = a[i]
        /\ (a \o b)[n + 2] = b[1]
    <3>1. /\ a \o b \in Seq(Strings) /\ Len(a \o b) = Len(a) + 1
          /\ \A i \in 1 .. Len(a) : (a \o b)[i] = a[i]
          /\ (a \o b)[Len(a) + 1] = b[1]
      BY <2>4, <2>5, PiecesMore
    <3> QED
      BY ONLY <2>1, <2>5, <3>1
  <2>7. \A i \in 1 .. n + 2 : i \in 1 .. n + 1 \/ i = n + 2
    BY <2>1
  <2> QED
    BY <2>2, <2>3, <2>5, <2>6, <2>7
<1>7. Right = Nat
  <2> HIDE DEF Right
  <2>1. Right \in SUBSET Nat
    BY DEF Right
  <2> QED
    BY <1>5, <1>6, <2>1, AllNumbers
<1>8. PICK n \in Nat : n + 1 = Len(seqs)
  <2>1. Len(seqs) - 1 \in Nat /\ (Len(seqs) - 1) + 1 = Len(seqs)
    BY <1>1
  <2> QED
    BY <2>1
<1>9. n \in Right
  BY <1>7
<1>10. Pieces(f[n + 1], n + 1)
  BY <1>1, <1>8, <1>9
<1> QED
  BY <1>3, <1>8, <1>10

-----------------------------------------------------------------------------
(* The types. *)
LEMMA OnePiece == ASSUME NEW s \in Strings PROVE <<s>> \in TextType
BY DEF TextType

LEMMA First == ASSUME NEW S, NEW s \in Seq(S), Len(s) = 1 PROVE s[1] \in S
OBVIOUS

LEMMA LiteralTypes ==
  /\ \A literal \in Scalar : /\ literal.text \in TextType /\ literal.type # "list"
                             /\ literal # Null => literal.type # "null"
                             /\ literal.type = "null" => literal = Null
                             /\ literal = [type |-> literal.type, text |-> literal.text]
                             /\ Shown(literal) \in TextType /\ ShownOr(literal) \in TextType
  /\ Empty \in TextType /\ \A text \in TextType : Str(text) \in Scalar \ {Null}
  /\ Null \in Scalar
<1>1. Empty \in TextType /\ <<"null">> \in TextType /\ <<"true">> \in TextType /\ <<"false">> \in TextType
  BY BuilderAssumption, OnePiece DEF Empty
<1>2. \A n \in Numerals : <<n>> \in TextType
  BY BuilderAssumption, OnePiece
<1>3. ASSUME NEW literal \in Scalar
      PROVE  /\ literal.text \in TextType /\ literal.type # "list"
             /\ literal # Null => literal.type # "null"
             /\ literal.type = "null" => literal = Null
             /\ literal = [type |-> literal.type, text |-> literal.text]
  <2> HIDE DEF TextType
  <2> QED
    BY <1>1, <1>2 DEF Scalar, Null
<1>4. \A literal \in Scalar : Shown(literal) \in TextType /\ ShownOr(literal) \in TextType
  BY <1>1, <1>3 DEF Shown, ShownOr
<1>5. \A text \in TextType : Str(text) \in Scalar \ {Null}
  BY DEF Str, Scalar, Null
<1>6. Null \in Scalar
  BY DEF Scalar
<1> QED
  BY <1>1, <1>3, <1>4, <1>5, <1>6

LEMMA IsSeq ==
  ASSUME NEW S, NEW n \in Nat, NEW f, f = [k \in 1 .. n |-> f[k]], \A k \in 1 .. n : f[k] \in S
  PROVE  f \in Seq(S) /\ Len(f) = n
OBVIOUS

(* A text with another first piece is a text. *)
LEMMA FirstChanged ==
  ASSUME NEW f \in [Strings -> Strings], NEW text \in TextType
  PROVE  [text EXCEPT ![1] = f[@]] \in TextType
<1>1. text \in Seq(Strings) /\ Len(text) \in Nat /\ Len(text) # 0
  BY DEF TextType
<1>2. 1 \in 1 .. Len(text) /\ f[text[1]] \in Strings
  BY <1>1
<1>3. PICK changed : changed = [text EXCEPT ![1] = f[@]]
  OBVIOUS
<1>4. changed \in Seq(Strings) /\ Len(changed) = Len(text)
  BY <1>1, <1>2, <1>3
<1> QED
  BY <1>1, <1>3, <1>4 DEF TextType

LEMMA Trimmed == ASSUME NEW text \in TextType PROVE Trim(text) \in TextType
BY FirstChanged, BuilderAssumption DEF Trim

LEMMA JoinedText == ASSUME NEW items \in Seq(Scalar) PROVE Joined(items) \in TextType
<1>1. CASE items = <<>>
  BY <1>1, LiteralTypes DEF Joined
<1>2. CASE items # <<>>
  <2>1. PICK seqs : seqs = [k \in DOMAIN items |->
                             IF k = 1 THEN Shown(items[k]) ELSE [Shown(items[k]) EXCEPT ![1] = Spaced[@]]]
    OBVIOUS
  <2>2. \A k \in DOMAIN items : Shown(items[k]) \in TextType
    BY LiteralTypes
  <2>3. ASSUME NEW k \in DOMAIN items PROVE seqs[k] \in TextType
    <3>1. PICK text \in TextType : text = Shown(items[k])
      BY <2>2
    <3>2. [text EXCEPT ![1] = Spaced[@]] \in TextType
      BY FirstChanged, BuilderAssumption
    <3> QED
      BY <2>1, <3>1, <3>2
  <2>4. DOMAIN items = 1 .. Len(items) /\ Len(items) \in Nat /\ Len(items) # 0
    BY <1>2
  <2>5. seqs = [k \in 1 .. Len(items) |-> seqs[k]]
    BY <2>1, <2>4
  <2>6. seqs \in Seq(TextType) /\ Len(seqs) = Len(items)
    BY <2>3, <2>4, <2>5, IsSeq
  <2>7. seqs # <<>>
    BY <2>4, <2>6
  <2> QED
    BY <1>2, <2>1, <2>6, <2>7, FlattenText DEF Joined
<1> QED
  BY <1>1, <1>2

LEMMA ParsedType == ASSUME NEW text \in TextType PROVE parseLiteral(text) \in Scalar
<1>1. CASE text = <<"null">> \/ text \in {<<"true">>, <<"false">>}
  BY <1>1 DEF parseLiteral, Scalar
<1>2. CASE ~ (text = <<"null">> \/ text \in {<<"true">>, <<"false">>}) /\ Len(text) = 1 /\ text[1] \in Numerals
  <2>1. text = <<text[1]>>
    BY <1>2 DEF TextType
  <2>2. parseLiteral(text) = [type |-> "number", text |-> text]
    BY <1>2 DEF parseLiteral
  <2>3. text \in {<<n>> : n \in Numerals}
    BY <1>2, <2>1
  <2> QED
    BY <2>2, <2>3 DEF Scalar
<1>3. CASE ~ (text = <<"null">> \/ text \in {<<"true">>, <<"false">>}) /\ ~ (Len(text) = 1 /\ text[1] \in Numerals)
  <2>1. parseLiteral(text) = Str(text)
    BY <1>3 DEF parseLiteral
  <2> QED
    BY <2>1, LiteralTypes
<1> QED
  BY <1>1, <1>2, <1>3

LEMMA FormRowTyped ==
  ASSUME NEW condition, condition.op = "leaf" => condition \in LeafType
  PROVE  Row(condition) \in RowType
<1>1. CASE condition.op # "leaf"
  BY <1>1, LiteralTypes, BuilderAssumption DEF Row, RowType, Operators, Supported
<1>2. CASE condition.op = "leaf"
  <2>1. /\ condition.key \in Strings /\ condition.operator \in Operators
        /\ condition.value \in Value /\ condition.from \in Strings
    BY <1>2 DEF LeafType
  <2>2. PICK value : value = IF condition.value \in {Absent, Null} THEN Str(Empty)
                             ELSE IF condition.value.type = "list" THEN Str(Joined(condition.value.items))
                             ELSE condition.value
    OBVIOUS
  <2>3. value \in Scalar \ {Null}
    <3>1. CASE condition.value = Absent \/ condition.value = Null
      <4>1. value = Str(Empty)
        BY <2>2, <3>1
      <4>2. Empty \in TextType /\ \A text \in TextType : Str(text) \in Scalar \ {Null}
        BY LiteralTypes
      <4> QED
        BY ONLY <4>1, <4>2
    <3>2. CASE condition.value # Absent /\ condition.value # Null /\ condition.value.type = "list"
      <4>1. condition.value.items \in Seq(Scalar)
        BY <2>1, <3>2, LiteralTypes DEF Value
      <4>2. value = Str(Joined(condition.value.items))
        BY <2>2, <3>2
      <4> QED
        BY <4>1, <4>2, JoinedText, LiteralTypes
    <3>3. CASE condition.value # Absent /\ condition.value # Null /\ condition.value.type # "list"
      <4>1. condition.value \in Scalar
        BY <2>1, <3>3 DEF Value
      <4>2. value = condition.value
        BY <2>2, <3>3
      <4> QED
        BY <3>3, <4>1, <4>2
    <3> QED
      BY <3>1, <3>2, <3>3
  <2>4. Row(condition) = [key |-> condition.key, operator |-> condition.operator,
                          mode |-> IF condition.from = "" THEN "value" ELSE "field",
                          value |-> value, from |-> condition.from]
    BY <1>2, <2>2 DEF Row
  <2>5. PICK mode : mode = IF condition.from = "" THEN "value" ELSE "field"
    OBVIOUS
  <2>6. mode \in {"value", "field"}
    BY <2>5
  <2>7. Row(condition) = [key |-> condition.key, operator |-> condition.operator, mode |-> mode,
                          value |-> value, from |-> condition.from]
    BY <2>4, <2>5
  <2> QED
    BY ONLY <2>1, <2>3, <2>6, <2>7 DEF RowType
<1> QED
  BY <1>1, <1>2

LEMMA LeafTyped ==
  ASSUME NEW key \in Strings, NEW operator \in Operators, NEW value \in Value, NEW from \in Strings
  PROVE  Leaf(key, operator, value, from) \in LeafType
BY DEF Leaf, LeafType

LEMMA ConditionTyped == ASSUME NEW row \in RowType PROVE conditionFromBuilder(row) \in LeafType
<1>1. /\ row.key \in Strings /\ row.operator \in Operators /\ row.mode \in {"value", "field"}
      /\ row.value \in Scalar \ {Null} /\ row.from \in Strings
  BY DEF RowType
<1>2. Absent \in Value /\ "" \in Strings
  BY BuilderAssumption DEF Value
<1>3. CASE row.operator \in Unary
  <2>1. conditionFromBuilder(row) = Leaf(row.key, row.operator, Absent, "")
    BY <1>3 DEF conditionFromBuilder, Takes, Unary
  <2> QED
    BY <1>1, <1>2, <2>1, LeafTyped
<1>4. CASE row.operator \notin Unary /\ row.mode = "field"
  <2>1. conditionFromBuilder(row) = Leaf(row.key, row.operator, Absent, row.from)
    BY <1>4 DEF conditionFromBuilder
  <2> QED
    BY <1>1, <1>2, <2>1, LeafTyped
<1>5. CASE row.operator \in Takes /\ row.mode = "value"
  <2>1. PICK pieces : pieces = ShownOr(row.value)
    OBVIOUS
  <2>2. pieces \in TextType
    BY <1>1, <2>1, LiteralTypes
  <2>3. PICK items : items = [k \in DOMAIN pieces |-> parseLiteral(<<Bare[pieces[k]]>>)]
    OBVIOUS
  <2>4. conditionFromBuilder(row) = Leaf(row.key, row.operator, List(items), "")
    BY <1>5, <2>1, <2>3 DEF conditionFromBuilder, Takes, Unary
  <2>5. ASSUME NEW k \in DOMAIN pieces PROVE parseLiteral(<<Bare[pieces[k]]>>) \in Scalar
    <3>1. pieces[k] \in Strings
      BY <2>2 DEF TextType
    <3>2. Bare[pieces[k]] \in Strings
      BY <3>1, BuilderAssumption
    <3> QED
      BY <3>2, OnePiece, ParsedType
  <2>6. items \in Seq(Scalar)
    <3>1. DOMAIN pieces = 1 .. Len(pieces) /\ Len(pieces) \in Nat
      BY <2>2 DEF TextType
    <3> QED
      BY <2>3, <2>5, <3>1
  <2>7. List(items) \in Value
    BY <2>6 DEF List, Value
  <2> QED
    BY <1>1, <1>2, <2>4, <2>7, LeafTyped
<1>6. CASE row.operator \notin Unary /\ row.mode = "value" /\ row.operator \notin Takes
  <2>1. conditionFromBuilder(row) = Leaf(row.key, row.operator, parseLiteral(Trim(Shown(row.value))), "")
    BY <1>6 DEF conditionFromBuilder
  <2>2. parseLiteral(Trim(Shown(row.value))) \in Value
    BY <1>1, LiteralTypes, Trimmed, ParsedType DEF Value
  <2> QED
    BY <1>1, <1>2, <2>1, <2>2, LeafTyped
<1> QED
  BY <1>1, <1>3, <1>4, <1>5, <1>6

Branch == [logic : {"all", "any"}, rows : Seq(RowType)]

LEMMA BranchTyped == ASSUME NEW group, Proper(group) PROVE branchToBuilder(group) \in Branch
<1>1. PICK conditions : conditions = IF group.op \in {"all", "any"} THEN group.of ELSE <<group>>
  OBVIOUS
<1>2. \A k \in DOMAIN conditions : conditions[k].op = "leaf" => conditions[k] \in LeafType
  BY <1>1 DEF Proper
<1>3. \E n \in Nat : DOMAIN conditions = 1 .. n
  <2>1. CASE group.op \in {"all", "any"}
    <3>1. group.of \in Seq({group.of[k] : k \in DOMAIN group.of})
      BY <2>1 DEF Proper
    <3>2. Len(group.of) \in Nat /\ DOMAIN group.of = 1 .. Len(group.of)
      BY <3>1
    <3> QED
      BY <1>1, <2>1, <3>2
  <2>2. CASE group.op \notin {"all", "any"}
    <3>1. DOMAIN conditions = 1 .. 1
      BY <1>1, <2>2
    <3> QED
      BY <3>1
  <2> QED
    BY <2>1, <2>2
<1>4. PICK rows : rows = [k \in DOMAIN conditions |-> Row(conditions[k])]
  OBVIOUS
<1>5. \A k \in DOMAIN conditions : Row(conditions[k]) \in RowType
  BY <1>2, FormRowTyped
<1>6. rows \in Seq(RowType)
  BY <1>3, <1>4, <1>5
<1>7. branchToBuilder(group) = [logic |-> IF group.op = "any" THEN "any" ELSE "all", rows |-> rows]
  BY <1>1, <1>4 DEF branchToBuilder
<1> QED
  BY <1>6, <1>7 DEF Branch

LEMMA WrittenProper == ASSUME NEW branch \in Branch PROVE Proper(draftFromBuilder(branch))
<1>1. branch.logic \in {"all", "any"} /\ branch.rows \in Seq(RowType)
  BY DEF Branch
<1>2. PICK conditions : conditions = [k \in DOMAIN branch.rows |-> conditionFromBuilder(branch.rows[k])]
  OBVIOUS
<1>3. \A k \in DOMAIN branch.rows : conditionFromBuilder(branch.rows[k]) \in LeafType
  BY <1>1, ConditionTyped
<1>4. conditions \in Seq(LeafType)
  BY <1>1, <1>2, <1>3
<1>5. \A leaf \in LeafType : leaf.op = "leaf"
  BY DEF LeafType
<1>6. draftFromBuilder(branch) = IF Len(conditions) = 1 THEN conditions[1] ELSE [op |-> branch.logic, of |-> conditions]
  BY <1>2 DEF draftFromBuilder
<1>7. CASE Len(conditions) = 1
  <2>1. conditions[1] \in LeafType
    BY <1>4, <1>7, First
  <2> QED
    BY <1>5, <1>6, <1>7, <2>1 DEF Proper
<1>8. CASE Len(conditions) # 1
  <2>1. PICK group : group = [op |-> branch.logic, of |-> conditions]
    OBVIOUS
  <2>2. group.op = branch.logic /\ group.of = conditions
    BY <2>1
  <2>3. conditions \in Seq({conditions[k] : k \in DOMAIN conditions})
    BY <1>4
  <2>4. \A k \in DOMAIN conditions : conditions[k] \in LeafType
    BY <1>4
  <2>5. Proper(group)
    BY <1>1, <2>2, <2>3, <2>4 DEF Proper
  <2> QED
    BY <1>6, <1>8, <2>1, <2>5
<1> QED
  BY <1>7, <1>8

-----------------------------------------------------------------------------
(***************************************************************************)
(* The inductive invariant: what is open is the draft as it came, and the  *)
(* form shows it if the page accepts it.                                   *)
(***************************************************************************)
OpenedRight ==
  happened = "opened" => json = draft /\ (validateDraft(draft) => builder = branchToBuilder(draft))
KnownRow(row) ==
  row.key \in Inputs \cup {""} /\ row.operator \in Supported /\ row.from \in Inputs \cup {""}
NamesKnown(branch) == \A k \in DOMAIN branch.rows : KnownRow(branch.rows[k])
NamesRight ==
  /\ validateConditionGroup(draft)
  /\ ~typed => /\ NamesKnown(builder)
               /\ validateDraft(json) => validateConditionGroup(json)
BuilderIInv == BuilderTypeOK /\ OpenedRight /\ NamesRight

(* What is written from supported names has supported names. *)
LEMMA WrittenKnown ==
  ASSUME NEW branch \in Branch, NamesKnown(branch), NEW written, written = draftFromBuilder(branch),
         validateDraft(written)
  PROVE  validateConditionGroup(written)
<1>1. branch.logic \in {"all", "any"} /\ branch.rows \in Seq(RowType)
  BY DEF Branch
<1>2. PICK conditions : conditions = [k \in DOMAIN branch.rows |-> conditionFromBuilder(branch.rows[k])]
  OBVIOUS
<1>3. Len(conditions) \in Nat /\ DOMAIN conditions = 1 .. Len(conditions)
  BY <1>1, <1>2
<1>4. ASSUME NEW k \in DOMAIN conditions
      PROVE  /\ conditions[k].op = "leaf" /\ conditions[k].key \in Inputs \cup {""}
             /\ conditions[k].operator \in Supported /\ conditions[k].from \in Inputs \cup {""}
  <2>1. PICK row : row = branch.rows[k] /\ KnownRow(row) /\ conditions[k] = conditionFromBuilder(row)
    BY <1>2 DEF NamesKnown
  <2>2. PICK value, from : conditionFromBuilder(row) = Leaf(row.key, row.operator, value, from) /\ from \in {"", row.from}
    <3>1. row \in RowType
      BY <1>1, <1>2, <2>1
    <3>2. row.mode \in {"value", "field"}
      BY <3>1 DEF RowType
    <3>3. PICK pieces : pieces = ShownOr(row.value)
      OBVIOUS
    <3>4. PICK items, literal : /\ items = List([i \in DOMAIN pieces |-> parseLiteral(<<Bare[pieces[i]]>>)])
                                /\ literal = parseLiteral(Trim(Shown(row.value)))
      OBVIOUS
    <3>5. CASE row.operator \in Unary
      <4>1. conditionFromBuilder(row) = Leaf(row.key, row.operator, Absent, "")
        BY <3>5 DEF conditionFromBuilder, Takes, Unary
      <4> QED
        BY <4>1
    <3>6. CASE row.operator \notin Unary /\ row.mode = "field"
      <4>1. conditionFromBuilder(row) = Leaf(row.key, row.operator, Absent, row.from)
        BY <3>6 DEF conditionFromBuilder
      <4> QED
        BY <4>1
    <3>7. CASE row.operator \in Takes /\ row.mode = "value"
      <4>1. conditionFromBuilder(row) = Leaf(row.key, row.operator, items, "")
        BY <3>3, <3>4, <3>7 DEF conditionFromBuilder, Takes, Unary
      <4> QED
        BY <4>1
    <3>8. CASE row.operator \notin Unary /\ row.operator \notin Takes /\ row.mode = "value"
      <4>1. conditionFromBuilder(row) = Leaf(row.key, row.operator, literal, "")
        BY <3>4, <3>8 DEF conditionFromBuilder
      <4> QED
        BY <4>1
    <3> QED
      BY <3>2, <3>5, <3>6, <3>7, <3>8
  <2>3. /\ conditions[k].op = "leaf" /\ conditions[k].key = row.key
        /\ conditions[k].operator = row.operator /\ conditions[k].from = from
    <3>1. PICK leaf, key, operator : /\ leaf = conditions[k] /\ key = row.key /\ operator = row.operator
      OBVIOUS
    <3>2. leaf = Leaf(key, operator, value, from)
      BY <2>1, <2>2, <3>1
    <3>3. leaf.op = "leaf" /\ leaf.key = key /\ leaf.operator = operator /\ leaf.from = from
      BY ONLY <3>2 DEF Leaf
    <3> QED
      BY <3>1, <3>3
  <2>4. row.key \in Inputs \cup {""} /\ row.operator \in Supported /\ row.from \in Inputs \cup {""}
    BY <2>1 DEF KnownRow
  <2>5. from \in Inputs \cup {""}
    BY <2>2, <2>4
  <2> QED
    BY <2>3, <2>4, <2>5
<1>5. written = IF Len(conditions) = 1 THEN conditions[1] ELSE [op |-> branch.logic, of |-> conditions]
  BY <1>2 DEF draftFromBuilder
<1>6. CASE Len(conditions) = 1
  <2>1. 1 \in DOMAIN conditions /\ written = conditions[1]
    BY <1>3, <1>5, <1>6
  <2> QED
    BY <1>4, <2>1 DEF validateDraft, validateConditionGroup, PageLevel, ServerLevel, Complete
<1>7. CASE Len(conditions) # 1
  <2>1. written.op = branch.logic /\ written.of = conditions
    BY <1>5, <1>7
  <2>2. conditions # <<>> /\ \A k \in DOMAIN conditions : PageSecond(conditions[k])
    BY <1>1, <2>1 DEF validateDraft, PageLevel, Grouped
  <2>3. \A k \in DOMAIN conditions : ServerSecond(conditions[k])
    BY <1>4, <2>2 DEF PageSecond, ServerSecond, PageLevel, ServerLevel, Complete
  <2> QED
    BY <1>1, <2>1, <2>2, <2>3 DEF validateConditionGroup, ServerLevel, Grouped
<1> QED
  BY <1>6, <1>7

(* A draft the server has, and the page accepts, is shown with supported   *)
(* names.                                                                  *)
LEMMA ShownKnown ==
  ASSUME NEW group, validateDraft(group), validateConditionGroup(group)
  PROVE  NamesKnown(branchToBuilder(group))
<1>1. PICK conditions : conditions = IF group.op \in {"all", "any"} THEN group.of ELSE <<group>>
  OBVIOUS
<1>2. ASSUME NEW k \in DOMAIN conditions PROVE KnownRow(Row(conditions[k]))
  <2>1. CASE conditions[k].op # "leaf"
    BY <2>1 DEF Row, KnownRow, Supported
  <2>2. CASE conditions[k].op = "leaf"
    <3>1. /\ conditions[k].key \in Inputs /\ conditions[k].operator \in Supported
          /\ conditions[k].from \in Inputs \cup {""}
      <4>1. CASE group.op \in {"all", "any"}
        <5>1. ServerSecond(conditions[k])
          BY <1>1, <4>1 DEF validateConditionGroup, ServerLevel, Grouped
        <5> QED
          BY <2>2, <5>1 DEF ServerSecond, ServerLevel
      <4>2. CASE group.op \notin {"all", "any"}
        <5>1. conditions[k] = group
          BY <1>1, <4>2
        <5> QED
          BY <2>2, <5>1 DEF validateConditionGroup, ServerLevel
      <4> QED
        BY <4>1, <4>2
    <3> QED
      BY <2>2, <3>1 DEF Row, KnownRow
  <2> QED
    BY <2>1, <2>2
<1>3. branchToBuilder(group).rows = [k \in DOMAIN conditions |-> Row(conditions[k])]
  BY <1>1 DEF branchToBuilder
<1> QED
  BY <1>2, <1>3 DEF NamesKnown

LEMMA SyncedKnown ==
  ASSUME NamesRight, ~typed, NEW branch \in Branch, NamesKnown(branch), validateDraft(Synced(branch))
  PROVE  validateConditionGroup(Synced(branch))
BY WrittenKnown DEF Synced, NamesRight

LEMMA SyncedProper == ASSUME BuilderTypeOK, NEW branch \in Branch PROVE Proper(Synced(branch))
BY WrittenProper DEF BuilderTypeOK, Synced

LEMMA BuilderInitInv == BuilderInit => BuilderIInv
<1> SUFFICES ASSUME BuilderInit  PROVE BuilderIInv
  OBVIOUS
<1>1. Proper(draft)
  BY BuilderAssumption DEF BuilderInit
<1>2. newBranch \in Branch
  <2>1. PICK n \in Numerals : n = CHOOSE m \in Numerals : m # Zero
    BY BuilderAssumption
  <2>2. n \in Strings /\ "k1" \in Strings /\ "" \in Strings
    BY BuilderAssumption
  <2>3. parseLiteral(<<n>>) \in Value
    BY <2>2, OnePiece, ParsedType DEF Value
  <2>4. Leaf("k1", "equals", parseLiteral(<<n>>), "") \in LeafType
    BY <2>2, <2>3, LeafTyped DEF Operators, Supported
  <2>5. PICK row : row = Row(Leaf("k1", "equals", parseLiteral(<<n>>), ""))
    OBVIOUS
  <2>6. row \in RowType
    BY <2>4, <2>5, FormRowTyped
  <2>7. newBranch = [logic |-> "all", rows |-> <<row>>]
    BY <2>1, <2>5 DEF newBranch
  <2>8. <<row>> \in Seq(RowType)
    BY <2>6
  <2> QED
    BY <2>7, <2>8 DEF Branch
<1>3. Proper(json)
  BY <1>2, WrittenProper DEF BuilderInit
<1>4. NamesKnown(newBranch)
  <2>1. PICK value : value = parseLiteral(<<CHOOSE m \in Numerals : m # Zero>>)
    OBVIOUS
  <2>2. PICK row : row = Row(Leaf("k1", "equals", value, ""))
    OBVIOUS
  <2>3. row.key = "k1" /\ row.operator = "equals" /\ row.from = ""
    BY <2>2 DEF Row, Leaf
  <2>4. newBranch.rows = <<row>>
    BY <2>1, <2>2 DEF newBranch
  <2>5. KnownRow(row)
    BY <2>3, BuilderAssumption DEF KnownRow, Supported
  <2>6. \A k \in DOMAIN <<row>> : <<row>>[k] = row
    OBVIOUS
  <2> QED
    BY <2>4, <2>5, <2>6 DEF NamesKnown
<1>5. NamesRight
  BY <1>2, <1>4, WrittenKnown DEF BuilderInit, NamesRight
<1> QED
  BY <1>1, <1>2, <1>3, <1>5 DEF BuilderInit, BuilderIInv, BuilderTypeOK, OpenedRight, Branch

(* A change of a field keeps the invariant, if the new fields are typed    *)
(* and have supported names where the old ones had.                        *)
LEMMA EditKeeps ==
  ASSUME BuilderIInv, NEW edited \in Branch, EditBuilder(edited),
         NamesKnown(builder) => NamesKnown(edited)
  PROVE  BuilderIInv'
<1>1. /\ Proper(draft) /\ BuilderTypeOK /\ NamesRight
      /\ builder' = edited /\ json' = Synced(edited) /\ happened' = "edited"
      /\ draft' = draft /\ typed' = typed
  BY DEF BuilderIInv, BuilderTypeOK, EditBuilder
<1>2. BuilderTypeOK'
  BY <1>1, SyncedProper DEF BuilderTypeOK, Branch
<1>3. NamesRight'
  <2>1. ASSUME ~typed, validateDraft(Synced(edited)) PROVE validateConditionGroup(Synced(edited))
    BY <1>1, <2>1, SyncedKnown DEF NamesRight
  <2> QED
    BY <1>1, <2>1 DEF NamesRight
<1> QED
  BY <1>1, <1>2, <1>3 DEF BuilderIInv, OpenedRight

(* One row of the builder is replaced by another one. *)
LEMMA RowReplaced ==
  ASSUME NEW branch \in Branch, NEW k \in DOMAIN branch.rows, NEW row \in RowType
  PROVE  LET edited == [branch EXCEPT !.rows = [branch.rows EXCEPT ![k] = row]]
         IN  /\ edited \in Branch
             /\ NamesKnown(branch) /\ KnownRow(row) => NamesKnown(edited)
<1>1. branch.logic \in {"all", "any"} /\ branch.rows \in Seq(RowType)
      /\ branch = [logic |-> branch.logic, rows |-> branch.rows]
  BY DEF Branch
<1>2. PICK rows : rows = [branch.rows EXCEPT ![k] = row]
  OBVIOUS
<1>3. rows \in Seq(RowType) /\ DOMAIN rows = DOMAIN branch.rows
  BY <1>1, <1>2
<1>4. \A i \in DOMAIN rows : rows[i] = IF i = k THEN row ELSE branch.rows[i]
  BY <1>1, <1>2
<1>5. [branch EXCEPT !.rows = rows] = [logic |-> branch.logic, rows |-> rows]
  BY <1>1
<1>6. [logic |-> branch.logic, rows |-> rows] \in Branch
  BY <1>1, <1>3 DEF Branch
<1>7. PICK edited : edited = [logic |-> branch.logic, rows |-> rows]
  OBVIOUS
<1>8. NamesKnown(branch) /\ KnownRow(row) => NamesKnown(edited)
  BY <1>3, <1>4, <1>7 DEF NamesKnown
<1> QED
  BY <1>2, <1>5, <1>6, <1>7, <1>8

LEMMA BuilderStepInv == BuilderIInv /\ [BuilderNext]_builderVars => BuilderIInv'
<1> SUFFICES ASSUME BuilderIInv, [BuilderNext]_builderVars  PROVE BuilderIInv'
  OBVIOUS
<1>1. /\ BuilderTypeOK /\ OpenedRight /\ NamesRight /\ builder \in Branch
      /\ Proper(draft) /\ Proper(json) /\ typed \in BOOLEAN
  BY DEF BuilderIInv, BuilderTypeOK, Branch
<1>2. CASE openRule
  <2>1. builder' \in Branch
    BY <1>1, <1>2, BranchTyped DEF openRule, syncBuilderFromJson
  <2>2. NamesRight'
    <3>1. /\ json' = draft /\ draft' = draft
          /\ ~typed' => ~typed \/ validateDraft(draft)
          /\ validateDraft(draft) => builder' = branchToBuilder(draft)
          /\ ~validateDraft(draft) => builder' = builder
      BY <1>2 DEF openRule, syncBuilderFromJson
    <3>2. validateConditionGroup(draft) /\ (~typed => NamesKnown(builder))
      BY <1>1 DEF NamesRight
    <3>3. ~typed' => NamesKnown(builder')
      <4>1. CASE validateDraft(draft)
        BY <3>1, <3>2, <4>1, ShownKnown
      <4>2. CASE ~validateDraft(draft)
        BY <3>1, <3>2, <4>2
      <4> QED
        BY <4>1, <4>2
    <3> QED
      BY <3>1, <3>2, <3>3 DEF NamesRight
  <2>3. typed' \in BOOLEAN
    BY <1>2 DEF openRule
  <2> QED
    BY <1>1, <1>2, <2>1, <2>2, <2>3 DEF openRule, syncBuilderFromJson, BuilderIInv, BuilderTypeOK, OpenedRight, Branch
<1>3. ASSUME NEW k \in DOMAIN builder.rows
      PROVE  /\ builder.rows[k] \in RowType
             /\ NamesKnown(builder) => KnownRow(builder.rows[k])
  BY <1>1, <1>3 DEF Branch, NamesKnown
<1>4. ASSUME NEW k \in 1 .. 2, NEW text \in Typed, typeValue(k, text)  PROVE BuilderIInv'
  <2>1. k \in DOMAIN builder.rows /\ Str(text) \in Scalar \ {Null}
    BY <1>4, BuilderAssumption, LiteralTypes DEF typeValue
  <2>2. PICK row : row = [builder.rows[k] EXCEPT !.value = Str(text)]
    OBVIOUS
  <2>3. row \in RowType /\ (NamesKnown(builder) => KnownRow(row))
    BY <1>3, <2>1, <2>2 DEF RowType, KnownRow
  <2>4. PICK edited : edited = [builder EXCEPT !.rows = [builder.rows EXCEPT ![k] = row]]
    OBVIOUS
  <2>5. EditBuilder(edited)
    BY <1>4, <2>2, <2>4 DEF typeValue
  <2> QED
    BY <1>1, <2>1, <2>3, <2>4, <2>5, RowReplaced, EditKeeps
<1>5. ASSUME NEW k \in 1 .. 2, NEW key \in Inputs \cup {""}, typeKey(k, key)  PROVE BuilderIInv'
  <2>1. k \in DOMAIN builder.rows /\ key \in Strings
    BY <1>5, BuilderAssumption DEF typeKey
  <2>2. PICK row : row = [builder.rows[k] EXCEPT !.key = key]
    OBVIOUS
  <2>3. row \in RowType /\ (NamesKnown(builder) => KnownRow(row))
    BY <1>3, <2>1, <2>2 DEF RowType, KnownRow
  <2>4. PICK edited : edited = [builder EXCEPT !.rows = [builder.rows EXCEPT ![k] = row]]
    OBVIOUS
  <2>5. EditBuilder(edited)
    BY <1>5, <2>2, <2>4 DEF typeKey
  <2> QED
    BY <1>1, <2>1, <2>3, <2>4, <2>5, RowReplaced, EditKeeps
<1>6. ASSUME NEW k \in 1 .. 2, NEW operator \in Supported, chooseOperator(k, operator)  PROVE BuilderIInv'
  <2>1. k \in DOMAIN builder.rows /\ operator \in Operators
    BY <1>6 DEF chooseOperator, Operators
  <2>2. PICK row : row = [builder.rows[k] EXCEPT !.operator = operator]
    OBVIOUS
  <2>3. row \in RowType /\ (NamesKnown(builder) => KnownRow(row))
    BY <1>3, <2>1, <2>2 DEF RowType, KnownRow
  <2>4. PICK edited : edited = [builder EXCEPT !.rows = [builder.rows EXCEPT ![k] = row]]
    OBVIOUS
  <2>5. EditBuilder(edited)
    BY <1>6, <2>2, <2>4 DEF chooseOperator
  <2> QED
    BY <1>1, <2>1, <2>3, <2>4, <2>5, RowReplaced, EditKeeps
<1>7. CASE switchLogic
  <2>1. PICK logic, edited : /\ logic = IF builder.logic = "all" THEN "any" ELSE "all"
                             /\ edited = [logic |-> logic, rows |-> builder.rows]
    OBVIOUS
  <2>2. edited = [builder EXCEPT !.logic = IF @ = "all" THEN "any" ELSE "all"]
    BY <1>1, <2>1 DEF Branch
  <2>3. edited \in Branch /\ EditBuilder(edited)
    BY <1>1, <1>7, <2>1, <2>2 DEF switchLogic, Branch
  <2>4. NamesKnown(builder) => NamesKnown(edited)
    BY <2>1 DEF NamesKnown
  <2> QED
    BY <2>3, <2>4, EditKeeps
<1>8. ASSUME NEW group \in TypedDrafts, typeDraft(group)  PROVE BuilderIInv'
  <2>1. Proper(group)
    BY BuilderAssumption
  <2>2. builder' \in Branch
    BY <1>1, <1>8, <2>1, BranchTyped DEF typeDraft, syncBuilderFromJson
  <2> QED
    BY <1>1, <1>8, <2>1, <2>2 DEF typeDraft, BuilderIInv, BuilderTypeOK, OpenedRight, NamesRight, Branch
<1>9. CASE saveDraft
  <2>1. Proper(json')
    BY <1>1, <1>9, SyncedProper DEF saveDraft
  <2>2. draft' = draft \/ (draft' = json' /\ validateConditionGroup(json'))
    BY <1>9 DEF saveDraft
  <2>3. json' = Synced(builder) /\ builder' = builder /\ typed' = typed /\ happened' = "saved"
    BY <1>9 DEF saveDraft
  <2>4. NamesRight'
    <3>1. ASSUME ~typed, validateDraft(Synced(builder)) PROVE validateConditionGroup(Synced(builder))
      BY <1>1, <3>1, SyncedKnown DEF NamesRight
    <3>2. validateConditionGroup(draft')
      BY <1>1, <2>2 DEF NamesRight
    <3> QED
      BY <1>1, <2>3, <3>1, <3>2 DEF NamesRight
  <2> QED
    BY <1>1, <2>1, <2>2, <2>3, <2>4 DEF BuilderIInv, BuilderTypeOK, OpenedRight, Branch
<1>10. CASE UNCHANGED builderVars
  BY <1>1, <1>10 DEF builderVars, BuilderIInv, BuilderTypeOK, OpenedRight, NamesRight
<1> QED
  BY <1>2, <1>4, <1>5, <1>6, <1>7, <1>8, <1>9, <1>10 DEF BuilderNext

LEMMA BuilderInvariant == BuilderSpec => []BuilderIInv
BY BuilderInitInv, BuilderStepInv, PTL DEF BuilderSpec

(***************************************************************************)
(* The drafts and the fields of the form keep their types.                 *)
(***************************************************************************)
THEOREM BuilderTypeCorrect == BuilderSpec => []BuilderTypeOK
BY BuilderInvariant, PTL DEF BuilderIInv

(***************************************************************************)
(* From the drafts the server has, through any number of changes of the    *)
(* fields and of rules opened one after the other, nobody comes to a draft *)
(* that the page lets through and whose condition the server refuses, but  *)
(* by typing a definition with a name that is not supported.               *)
(***************************************************************************)
THEOREM DraftAccepted == BuilderSpec => []OnlyTypedNamesRefused
<1>1. BuilderIInv => OnlyTypedNamesRefused
  BY RefusedForNames DEF BuilderIInv, NamesRight, OnlyTypedNamesRefused
<1> QED
  BY <1>1, BuilderInvariant, PTL

-----------------------------------------------------------------------------
(* A plain leaf comes back from the form as one that decides alike. *)
LEMMA ParseShown ==
  ASSUME NEW literal \in Scalar, ReadsBack(literal)
  PROVE  /\ parseLiteral(literal.text) = literal
         /\ Shown(literal) = literal.text /\ Trim(literal.text) = literal.text
<1>1. literal # Null /\ Shown(literal) = literal.text
  BY DEF ReadsBack, Shown
<1>0. ASSUME NEW s \in Numerals \cup {"true", "false"}  PROVE Trim(<<s>>) = <<s>>
  <2>1. Bare[s] = s
    BY BuilderAssumption
  <2>2. PICK one : one = <<s>>
    OBVIOUS
  <2>3. Len(one) = 1 /\ one[1] = s /\ one \in Seq({s})
    BY <2>2
  <2>4. [one EXCEPT ![1] = Bare[@]] = one
    BY <2>1, <2>3
  <2> QED
    BY <2>2, <2>4 DEF Trim
<1>2. CASE literal.type = "string"
  <2>1. literal = Str(literal.text) /\ literal.text \in TextType
    BY <1>2, LiteralTypes DEF Str
  <2>2. ~ (Len(literal.text) = 1 /\ literal.text[1] \in Numerals)
    BY <1>2 DEF ReadsBack, Reserved
  <2>3. literal.text \notin {<<"null">>, <<"true">>, <<"false">>}
    BY <1>2 DEF ReadsBack, Reserved
  <2>4. parseLiteral(literal.text) = Str(literal.text)
    BY <2>2, <2>3 DEF parseLiteral
  <2>5. Trim(literal.text) = literal.text
    BY <1>2 DEF ReadsBack
  <2> QED
    BY <1>1, <2>1, <2>4, <2>5
<1>3. CASE literal.type = "number"
  <2>1. PICK n \in Numerals : literal = [type |-> "number", text |-> <<n>>]
    BY <1>3, <1>1 DEF Scalar, Null
  <2>2. <<n>> \notin {<<"null">>, <<"true">>, <<"false">>} /\ Len(<<n>>) = 1 /\ <<n>>[1] = n
    BY BuilderAssumption
  <2>3. parseLiteral(<<n>>) = [type |-> "number", text |-> <<n>>]
    BY <2>2 DEF parseLiteral
  <2>4. Trim(literal.text) = literal.text
    BY <1>0, <2>1
  <2> QED
    BY <1>1, <2>1, <2>3, <2>4
<1>4. CASE literal.type = "boolean"
  <2>1. literal = [type |-> "boolean", text |-> literal.text] /\ literal.text \in {<<"true">>, <<"false">>}
    BY <1>4, <1>1 DEF Scalar, Null
  <2>2. literal.text # <<"null">> /\ ~ (literal.text[1] \in Numerals)
    <3>1. PICK b \in {"true", "false"} : literal.text = <<b>>
      BY <2>1
    <3>2. b # "null" /\ b \notin Numerals
      BY BuilderAssumption
    <3> QED
      BY <3>1, <3>2
  <2>3. parseLiteral(literal.text) = [type |-> "boolean", text |-> literal.text]
    BY <2>1, <2>2 DEF parseLiteral
  <2>4. Trim(literal.text) = literal.text
    BY <1>0, <2>1
  <2> QED
    BY <1>1, <2>1, <2>3, <2>4
<1>5. literal.type \in {"string", "number", "boolean"}
  BY <1>1 DEF Scalar
<1> QED
  BY <1>2, <1>3, <1>4, <1>5

LEMMA ListShown ==
  ASSUME NEW items \in Seq(Scalar), items # <<>>,
         \A k \in DOMAIN items : ReadsBack(items[k]) /\ Len(items[k].text) = 1,
         NEW pieces, pieces = Joined(items)
  PROVE  items = [k \in DOMAIN pieces |-> parseLiteral(<<Bare[pieces[k]]>>)]
<1>1. PICK seqs : seqs = [k \in DOMAIN items |->
                           IF k = 1 THEN Shown(items[k]) ELSE [Shown(items[k]) EXCEPT ![1] = Spaced[@]]]
  OBVIOUS
<1>2. /\ DOMAIN items = 1 .. Len(items) /\ Len(items) \in Nat
      /\ \A k \in 1 .. Len(items) : items[k] \in Scalar
  OBVIOUS
<1>3. ASSUME NEW k \in 1 .. Len(items)
      PROVE  /\ seqs[k] \in TextType /\ Len(seqs[k]) = 1
             /\ parseLiteral(<<Bare[seqs[k][1]]>>) = items[k]
  <2>1. PICK text : text = items[k].text
    OBVIOUS
  <2>2. /\ text \in TextType /\ Len(text) = 1 /\ Shown(items[k]) = text
        /\ parseLiteral(text) = items[k] /\ Trim(text) = text
    BY <1>2, <2>1, ParseShown, LiteralTypes
  <2>3. text[1] \in Strings /\ text = <<text[1]>>
    BY <2>2 DEF TextType
  <2>4. PICK s \in Strings : s = text[1] /\ text = <<s>>
    BY <2>3
  <2>5. Bare[s] = s
    BY <2>2, <2>4 DEF Trim
  <2>6. seqs[k] = <<s>> \/ seqs[k] = <<Spaced[s]>>
    BY <1>1, <1>2, <2>2, <2>4
  <2>7. Bare[Spaced[s]] = s /\ Spaced[s] \in Strings
    BY <2>4, <2>5, BuilderAssumption
  <2>8. PICK one \in Strings : seqs[k] = <<one>> /\ Bare[one] = s
    BY <2>5, <2>6, <2>7
  <2>9. <<one>> \in TextType /\ Len(<<one>>) = 1 /\ <<one>>[1] = one
    BY OnePiece
  <2>10. parseLiteral(<<s>>) = items[k]
    BY <2>2, <2>4
  <2>11. seqs[k][1] = one
    BY <2>8, <2>9
  <2> QED
    BY <2>8, <2>9, <2>10, <2>11
<1>4. seqs \in Seq(TextType) /\ Len(seqs) = Len(items) /\ seqs # <<>>
  <2>1. seqs = [k \in 1 .. Len(items) |-> seqs[k]]
    BY <1>1, <1>2
  <2>2. seqs \in Seq(TextType) /\ Len(seqs) = Len(items)
    BY <1>2, <1>3, <2>1, IsSeq
  <2>3. Len(items) # 0
    BY <1>2
  <2> QED
    BY <2>2, <2>3
<1>5. pieces = FlattenSeq(seqs)
  <2>1. Joined(items) = FlattenSeq([k \in DOMAIN items |->
                            IF k = 1 THEN Shown(items[k]) ELSE [Shown(items[k]) EXCEPT ![1] = Spaced[@]]])
    BY Zenon DEF Joined
  <2> QED
    BY <1>1, <2>1, Zenon
<1>6. /\ pieces \in Seq(Strings) /\ Len(pieces) = Len(items)
      /\ \A k \in 1 .. Len(items) : pieces[k] = seqs[k][1]
  <2>1. PICK texts : texts = seqs
    OBVIOUS
  <2>2. texts \in Seq(TextType) /\ texts # <<>> /\ Len(texts) = Len(items)
    BY <1>4, <2>1
  <2>3. \A k \in 1 .. Len(texts) : Len(texts[k]) = 1
    BY <1>3, <2>1, <2>2
  <2>4. /\ FlattenSeq(texts) \in Seq(Strings) /\ Len(FlattenSeq(texts)) = Len(texts)
        /\ \A k \in 1 .. Len(texts) : FlattenSeq(texts)[k] = texts[k][1]
    BY ONLY <2>2, <2>3, FlattenPieces
  <2> QED
    BY ONLY <1>5, <2>1, <2>2, <2>4
<1>7. DOMAIN pieces = 1 .. Len(items)
  BY <1>6
<1>8. ASSUME NEW k \in 1 .. Len(items) PROVE parseLiteral(<<Bare[pieces[k]]>>) = items[k]
  BY <1>3, <1>6
<1>9. items = [k \in 1 .. Len(items) |-> items[k]]
  BY <1>2
<1> QED
  BY <1>2, <1>7, <1>8, <1>9

LEMMA LeafBack ==
  ASSUME NEW leaf \in LeafType, PlainLeaf(leaf), NEW p
  PROVE  LET back == conditionFromBuilder(Row(leaf))
         IN  back.op = "leaf" /\ evaluateLeafCondition(back, p) = evaluateLeafCondition(leaf, p)
<1>1. PICK back, row : row = Row(leaf) /\ back = conditionFromBuilder(row)
  OBVIOUS
<1>2. /\ leaf.op = "leaf" /\ leaf.operator \in Operators /\ leaf.value \in Value
      /\ leaf = Leaf(leaf.key, leaf.operator, leaf.value, leaf.from)
  BY DEF LeafType, Leaf
<1>3. /\ row.key = leaf.key /\ row.operator = leaf.operator /\ row.from = leaf.from
      /\ row.mode = IF leaf.from = "" THEN "value" ELSE "field"
      /\ row.value = IF leaf.value \in {Absent, Null} THEN Str(Empty)
                     ELSE IF leaf.value.type = "list" THEN Str(Joined(leaf.value.items))
                     ELSE leaf.value
  BY <1>1, <1>2 DEF Row
<1>4. CASE leaf.operator \in Unary
  <2>1. back = Leaf(leaf.key, leaf.operator, Absent, "")
    BY <1>1, <1>3, <1>4 DEF conditionFromBuilder, Takes, Unary
  <2>2. back.op = "leaf" /\ back.key = leaf.key /\ back.operator = leaf.operator
    BY <2>1 DEF Leaf
  <2>3. leaf.operator = "is_blank"
    BY <1>4 DEF Unary
  <2> QED
    BY <1>1, <2>2, <2>3 DEF evaluateLeafCondition
<1>5. CASE leaf.operator \notin Unary /\ leaf.from # ""
  <2>1. back = Leaf(leaf.key, leaf.operator, Absent, leaf.from)
    BY <1>1, <1>3, <1>5 DEF conditionFromBuilder
  <2>2. back.op = "leaf" /\ back.key = leaf.key /\ back.operator = leaf.operator /\ back.from = leaf.from
    BY <2>1 DEF Leaf
  <2>3. leaf.operator \in {"equals", "in", "unsupported"}
    BY <1>2, <1>5 DEF Unary, Operators, Supported
  <2> QED
    BY <1>1, <1>5, <2>2, <2>3 DEF evaluateLeafCondition
<1>6. CASE leaf.operator \notin Unary /\ leaf.from = "" /\ leaf.operator \notin Takes
  <2>1. leaf.value # Absent /\ leaf.value.type # "list" /\ ReadsBack(leaf.value)
    BY <1>6 DEF PlainLeaf
  <2>2. leaf.value \in Scalar /\ leaf.value # Null
    BY <1>2, <2>1 DEF Value, ReadsBack
  <2>3. row.value = leaf.value
    BY <1>3, <2>1, <2>2
  <2>4. back = Leaf(leaf.key, leaf.operator, parseLiteral(Trim(Shown(leaf.value))), "")
    BY <1>1, <1>3, <1>6, <2>3 DEF conditionFromBuilder
  <2>5. back = leaf
    BY <1>2, <1>6, <2>1, <2>2, <2>4, ParseShown
  <2> QED
    BY <1>1, <1>2, <2>5
<1>7. CASE leaf.operator \notin Unary /\ leaf.from = "" /\ leaf.operator \in Takes
  <2>1. /\ leaf.value # Absent /\ leaf.value.type = "list" /\ leaf.value.items # <<>>
        /\ \A k \in DOMAIN leaf.value.items :
             ReadsBack(leaf.value.items[k]) /\ Len(leaf.value.items[k].text) = 1
    BY <1>7 DEF PlainLeaf
  <2>2. leaf.value \in [type : {"list"}, items : Seq(Scalar)]
    BY <1>2, <2>1, LiteralTypes DEF Value
  <2>3. PICK items \in Seq(Scalar) : items = leaf.value.items /\ leaf.value = List(items)
    BY <2>2 DEF List
  <2>4. leaf.value # Null
    BY <2>1 DEF Null
  <2>5. PICK pieces : pieces = Joined(items)
    OBVIOUS
  <2>6. row.value = Str(pieces)
    BY <1>3, <2>1, <2>3, <2>4, <2>5
  <2>7. ShownOr(row.value) = pieces
    BY <2>6 DEF Str, Null, Falsy, Shown, ShownOr
  <2>8. back = Leaf(leaf.key, leaf.operator, List([k \in DOMAIN pieces |-> parseLiteral(<<Bare[pieces[k]]>>)]), "")
    BY <1>1, <1>3, <1>7, <2>7 DEF conditionFromBuilder, Takes, Unary
  <2>9. items = [k \in DOMAIN pieces |-> parseLiteral(<<Bare[pieces[k]]>>)]
    <3>1. items # <<>> /\ \A k \in DOMAIN items : ReadsBack(items[k]) /\ Len(items[k].text) = 1
      BY <2>1, <2>3
    <3> QED
      BY <2>5, <3>1, ListShown
  <2>10. back = leaf
    BY <1>2, <1>7, <2>3, <2>8, <2>9
  <2> QED
    BY <1>1, <1>2, <2>10
<1> QED
  BY <1>4, <1>5, <1>6, <1>7

(* A condition that is a group comes back without a key. *)
LEMMA GroupBack ==
  ASSUME NEW group, group.op # "leaf"
  PROVE  LET back == conditionFromBuilder(Row(group)) IN back.op = "leaf" /\ back.key = ""
<1>1. PICK row : row = Row(group)
  OBVIOUS
<1>2. row.key = "" /\ row.operator = "equals" /\ row.mode = "value"
  BY <1>1 DEF Row
<1>3. conditionFromBuilder(row) = Leaf("", "equals", parseLiteral(Trim(Shown(row.value))), "")
  BY <1>2 DEF conditionFromBuilder, Takes, Unary
<1>4. PICK back : back = conditionFromBuilder(row)
  OBVIOUS
<1>5. back.op = "leaf" /\ back.key = ""
  <2>1. PICK value : value = parseLiteral(Trim(Shown(row.value)))
    OBVIOUS
  <2>2. back = Leaf("", "equals", value, "")
    BY <1>3, <1>4, <2>1
  <2>3. PICK key : key = ""
    OBVIOUS
  <2>4. back = Leaf(key, "equals", value, "")
    BY <2>2, <2>3
  <2>5. back.op = "leaf" /\ back.key = key
    BY <2>4 DEF Leaf
  <2> QED
    BY <2>3, <2>5
<1> QED
  BY <1>1, <1>4, <1>5

LEMMA WrittenBack ==
  ASSUME NEW group, Proper(group), validateDraft(group), PlainGroup(group), NEW written,
         written = draftFromBuilder(branchToBuilder(group)), validateDraft(written), NEW p
  PROVE  evaluateConditionGroup(written, p) = evaluateConditionGroup(group, p)
<1>1. CASE group.op = "leaf"
  <2>1. group \in LeafType /\ PlainLeaf(group)
    BY <1>1 DEF Proper, PlainGroup
  <2>2. PICK row : row = Row(group)
    OBVIOUS
  <2>3. branchToBuilder(group).rows = <<row>>
    BY <1>1, <2>2 DEF branchToBuilder
  <2>4. written = conditionFromBuilder(row)
    BY <2>3 DEF draftFromBuilder
  <2>5. written.op = "leaf" /\ evaluateLeafCondition(written, p) = evaluateLeafCondition(group, p)
    BY <2>1, <2>2, <2>4, LeafBack
  <2> QED
    BY <1>1, <2>5 DEF evaluateConditionGroup, EvaluateLevel
<1>2. CASE group.op \in {"all", "any"}
  <2>1. PICK of : of = group.of
    OBVIOUS
  <2>2. Len(of) \in Nat /\ DOMAIN of = 1 .. Len(of) /\ Len(of) # 0
    <3>1. of \in Seq({of[k] : k \in DOMAIN of}) /\ of # <<>>
      BY <1>2, <2>1 DEF Proper, validateDraft, PageLevel, Grouped
    <3> QED
      BY <3>1
  <2>3. \A k \in DOMAIN of : of[k].op = "leaf" => of[k] \in LeafType /\ PlainLeaf(of[k])
    BY <1>2, <2>1 DEF Proper, PlainGroup
  <2>4. PICK back : back = [k \in DOMAIN of |-> conditionFromBuilder(Row(of[k]))]
    OBVIOUS
  <2>5. Len(back) = Len(of) /\ DOMAIN back = DOMAIN of
    BY <2>2, <2>4
  <2>6. written = IF Len(back) = 1 THEN back[1] ELSE [op |-> group.op, of |-> back]
    <3>1. PICK rows : rows = [k \in DOMAIN of |-> Row(of[k])]
      OBVIOUS
    <3>2. branchToBuilder(group) = [logic |-> group.op, rows |-> rows]
      BY <1>2, <2>1, <3>1 DEF branchToBuilder
    <3>3. back = [k \in DOMAIN rows |-> conditionFromBuilder(rows[k])]
      BY <2>4, <3>1
    <3> QED
      BY <3>2, <3>3 DEF draftFromBuilder
  <2>7. \A k \in DOMAIN of : of[k].op # "leaf" => back[k].op = "leaf" /\ back[k].key = ""
    BY <2>4, GroupBack
  <2>8. \A k \in DOMAIN of : of[k].op = "leaf" =>
          back[k].op = "leaf" /\ evaluateLeafCondition(back[k], p) = evaluateLeafCondition(of[k], p)
    BY <2>3, <2>4, LeafBack
  <2>9. CASE Len(of) = 1
    <3>1. written = back[1] /\ 1 \in DOMAIN of /\ \A k \in DOMAIN of : k = 1
      BY <2>2, <2>5, <2>6, <2>9
    <3>2. written.op = "leaf" /\ written.key # ""
      <4>1. written.op = "leaf"
        BY <2>7, <2>8, <3>1
      <4> QED
        BY <4>1 DEF validateDraft, PageLevel, Complete
    <3>3. of[1].op = "leaf" /\ evaluateLeafCondition(written, p) = evaluateLeafCondition(of[1], p)
      BY <2>7, <2>8, <3>1, <3>2
    <3>4. evaluateConditionGroup(written, p) = evaluateLeafCondition(written, p)
      BY <3>2 DEF evaluateConditionGroup, EvaluateLevel
    <3>5. EvaluateSecond(of[1], p) = evaluateLeafCondition(of[1], p)
      BY <3>3 DEF EvaluateSecond, EvaluateLevel
    <3>6. evaluateConditionGroup(group, p) = EvaluateSecond(of[1], p)
      <4>1. of[1].operator \in Operators
        BY <2>3, <3>1, <3>3 DEF LeafType
      <4>2. evaluateLeafCondition(of[1], p) \in BOOLEAN
        <5>1. CASE of[1].operator = "equals"
          BY <5>1 DEF evaluateLeafCondition
        <5>2. CASE of[1].operator = "in"
          BY <5>2 DEF evaluateLeafCondition
        <5>3. CASE of[1].operator = "is_blank"
          BY <5>3 DEF evaluateLeafCondition
        <5>4. CASE of[1].operator = "unsupported"
          BY <5>4 DEF evaluateLeafCondition
        <5> QED
          BY <4>1, <5>1, <5>2, <5>3, <5>4 DEF Operators, Supported
      <4> QED
        BY <1>2, <2>1, <3>1, <3>5, <4>2 DEF evaluateConditionGroup, EvaluateLevel
    <3> QED
      BY <3>3, <3>4, <3>5, <3>6
  <2>10. CASE Len(of) # 1
    <3>1. written = [op |-> group.op, of |-> back]
      BY <2>5, <2>6, <2>10
    <3>2. written.op = group.op /\ written.of = back
      BY <3>1
    <3>3. \A k \in DOMAIN of : PageSecond(back[k])
      BY <1>2, <2>5, <3>2 DEF validateDraft, PageLevel, Grouped
    <3>4. \A k \in DOMAIN of : back[k].op = "leaf"
      BY <2>7, <2>8
    <3>5. \A k \in DOMAIN of : back[k].key # ""
      BY <3>3, <3>4 DEF PageSecond, PageLevel, Complete
    <3>6. \A k \in DOMAIN of : EvaluateSecond(back[k], p) = EvaluateSecond(of[k], p)
      BY <2>7, <2>8, <3>4, <3>5 DEF EvaluateSecond, EvaluateLevel
    <3> QED
      BY <1>2, <2>1, <2>5, <3>2, <3>6 DEF evaluateConditionGroup, EvaluateLevel
  <2> QED
    BY <2>9, <2>10
<1>3. group.op \in {"all", "any"} \/ group.op = "leaf"
  BY DEF validateDraft, PageLevel, Complete
<1> QED
  BY <1>1, <1>2, <1>3

(***************************************************************************)
(* Opening a draft the page accepts and saving it untouched decides for    *)
(* every visitor as before, whatever the values are as long as they read   *)
(* back as what they are: a draft with groups inside is refused as it is   *)
(* put together, so the stored one stays.                                  *)
(***************************************************************************)
THEOREM UntouchedSafe == BuilderSpec => SavingUntouchedKeepsOutcome
<1> DEFINE Good == (happened = "opened" /\ happened' = "saved" /\ validateDraft(draft) /\ PlainGroup(draft)) =>
                     \A p \in Visitors :
                       evaluateConditionGroup(draft', p) = evaluateConditionGroup(draft, p)
<1>1. BuilderIInv /\ [BuilderNext]_builderVars => [Good]_builderVars
  <2> SUFFICES ASSUME BuilderIInv, BuilderNext, happened = "opened", happened' = "saved",
                      validateDraft(draft), PlainGroup(draft), NEW p \in Visitors
               PROVE  evaluateConditionGroup(draft', p) = evaluateConditionGroup(draft, p)
    OBVIOUS
  <2>1. Proper(draft) /\ json = draft /\ builder = branchToBuilder(draft)
    BY DEF BuilderIInv, BuilderTypeOK, OpenedRight
  <2>2. saveDraft
    BY DEF BuilderNext, openRule, typeValue, typeKey, chooseOperator, switchLogic, typeDraft, EditBuilder
  <2>3. PICK written, now : written = draftFromBuilder(branchToBuilder(draft)) /\ now = draft'
    OBVIOUS
  <2>4. now = draft \/ (now = written /\ validateDraft(written))
    BY <2>1, <2>2, <2>3 DEF saveDraft, Synced
  <2>5. CASE now = draft
    BY <2>3, <2>5
  <2>6. CASE now = written /\ validateDraft(written)
    <3>1. evaluateConditionGroup(written, p) = evaluateConditionGroup(draft, p)
      BY <2>1, <2>3, <2>6, WrittenBack
    <3> QED
      BY <2>3, <2>6, <3>1
  <2> QED
    BY <2>4, <2>5, <2>6
<1> QED
  BY <1>1, BuilderInvariant, PTL DEF BuilderSpec, Good, SavingUntouchedKeepsOutcome

-----------------------------------------------------------------------------
(***************************************************************************)
(* The run with the four parts: every step of it is a step of one part     *)
(* that leaves the others alone, so what is proved of the parts holds of   *)
(* the run, for every value of the constants.                              *)
(***************************************************************************)
THEOREM RunSafe ==
  Spec => /\ [](TypesOK /\ TextStaysWithItem /\ OnlyTypedNamesRefused /\ ConfirmedIsDone)
          /\ SavingUntouchedKeepsOutcome /\ RollbackRestores
<1> DEFINE runVars == <<part, consoleVars, builderVars, planVars, campaignVars>>
<1>1. Spec => ConsoleSpec
  <2>1. Init => ConsoleInit
    BY DEF Init
  <2>2. [Next]_runVars => [ConsoleNext]_consoleVars
    BY DEF Next
  <2> QED
    BY <2>1, <2>2, PTL DEF Spec, ConsoleSpec
<1>2. Spec => BuilderSpec
  <2>1. Init => BuilderInit
    BY DEF Init
  <2>2. [Next]_runVars => [BuilderNext]_builderVars
    BY DEF Next
  <2> QED
    BY <2>1, <2>2, PTL DEF Spec, BuilderSpec
<1>3. Spec => PlanSpec
  <2>1. Init => PlanInit
    BY DEF Init
  <2>2. [Next]_runVars => [PlanNext]_planVars
    BY DEF Next
  <2> QED
    BY <2>1, <2>2, PTL DEF Spec, PlanSpec
<1>4. Spec => CampaignSpec
  <2>1. Init => CampaignInit
    BY DEF Init
  <2>2. [Next]_runVars => [CampaignNext]_campaignVars
    BY DEF Next
  <2> QED
    BY <2>1, <2>2, PTL DEF Spec, CampaignSpec
<1>5. ConsoleTypeOK /\ BuilderTypeOK /\ PlanTypeOK /\ CampaignTypeOK => TypesOK
  BY DEF TypesOK
<1> QED
  BY <1>1, <1>2, <1>3, <1>4, <1>5, ConsoleTypeCorrect, BuilderTypeCorrect, PlanTypeCorrect, CampaignTypeCorrect,
     TextSafe, DraftAccepted, ConfirmedSafe, UntouchedSafe, RollbackSafe, PTL
=============================================================================
