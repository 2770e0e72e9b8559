------------------------------ MODULE Console ------------------------------
(***************************************************************************)
(* The editors of the administration page (public/app.js) and the server's *)
(* draft, message and lookup table routes they call.                       *)
(*                                                                         *)
(* Every button starts a handler that awaits one or more calls.  Handlers  *)
(* run side by side: the server may take requests in any order, answers    *)
(* may come in any order, and what a handler does after an await it does   *)
(* to whatever the page shows by then.  Three editors have this shape (the *)
(* rule, message and lookup table editors); `kind' says which of them a    *)
(* behaviour is about.  The approval workflow is off here.                 *)
(***************************************************************************)
EXTENDS Naturals, Sequences

CONSTANTS
    Items,          \* decision keys, message ids or lookup table ids
    Handlers,       \* handlers that can run at once
    MaxEdits,       \* edits of one text
    MaxSaves,       \* versions of one item, apart from those it started with
    MaxStarts,      \* handlers started in a behaviour
    None            \* no item, no text

VARIABLES
    kind,           \* the editor: "rule", "message" or "lookup"
    stored,         \* item -> the draft, or the current message or table
    history,        \* item -> its versions
    cached,         \* cachedRuleSets (known or not) / cachedMessages / cachedLookupTables
    selected,       \* selectedRuleKey / selectedMessageId / selectedLookupId
    form,           \* the key field, the text field, and what the rule builder has
    listed,         \* whose versions the version list is about, up to which
    review,         \* the publish review is open
    handler,        \* handler -> the call it awaits
    moved,          \* what came to be about another item than the form's key
    starts          \* handlers started so far

consoleVars == <<kind, stored, history, cached, selected, form, listed, review, handler, moved, starts>>

\* A text, which item it was written for, and whether the page's own
\* validation lets the rule builder take it.
Text == [about : Items, n : 0 .. MaxEdits, fits : BOOLEAN]
ASSUME ConsoleBounds == MaxEdits \in Nat /\ MaxSaves \in Nat /\ MaxStarts \in Nat
ASSUME ConsoleNone == None \notin Items \cup Text
Original(i) == [about |-> i, n |-> 0, fits |-> TRUE]
Made(i, text) == [key |-> i, text |-> text, builder |-> text]
Ops == {"get", "save", "create", "rollback", "restore", "load_version", "conflicts", "publish", "list", "versions"}

Texts == [Items -> Text \cup {None}]
Free == [op |-> "none", key |-> None, body |-> None, text |-> None, texts |-> None, version |-> 0,
         answered |-> FALSE, ok |-> TRUE, then |-> <<>>]
\* A call about the item `key', and the calls the handler makes after it.
Call(op, key, then) == [Free EXCEPT !.op = op, !.key = key, !.then = then]

ConsoleInit ==
    /\ kind \in {"rule", "message", "lookup"}
    /\ \E known \in (SUBSET Items) \ {{}}, odd \in SUBSET Items :
           /\ odd \subseteq known /\ (kind # "rule" => odd = {})
           /\ LET First(i) == [Original(i) EXCEPT !.fits = i \notin odd]
              IN  /\ stored = [i \in Items |-> IF i \in known THEN First(i) ELSE None]
                  /\ history = [i \in Items |-> IF i \in known THEN <<First(i)>> ELSE <<>>]
    /\ cached = stored
    /\ selected = None
    /\ \E i \in Items : form = Made(i, Original(i))
    /\ listed = [key |-> None, upto |-> 0]
    /\ review = FALSE
    /\ handler = [h \in Handlers |-> Free]
    /\ moved = {}
    /\ starts = 0

(***************************************************************************)
(* Starting handlers.                                                      *)
(***************************************************************************)
Nothing == [key |-> None, upto |-> 0]
ServerAlone == UNCHANGED <<kind, stored, history>>

\* Asking for versions empties the list on the page at once.
Await(h, c) ==
    /\ handler[h] = Free /\ starts < MaxStarts
    /\ starts' = starts + 1
    /\ handler' = [handler EXCEPT ![h] = c]
    /\ listed' = IF c.op = "versions" THEN Nothing ELSE listed

\* A rule is read from the server, and shown when the answer comes.
loadRule(h, i) ==
    /\ kind = "rule" /\ cached[i] # None
    /\ Await(h, Call("get", i, <<"versions">>))
    /\ ServerAlone /\ UNCHANGED <<cached, selected, form, review, moved>>

\* A plausible bug: a text the validation refuses empties the builder.
MutEmptyBuilder(text) == IF text.fits THEN text ELSE None

\* syncBuilderFromJson: a text the validation refuses stays out of the
\* builder, which goes on holding what it had.
IntoBuilder(text) == IF text.fits THEN text ELSE form.builder
Strayed(i, text) == ~text.fits /\ form.builder.about # i

Show(i, text) ==
    /\ selected' = i
    /\ form' = [key |-> i, text |-> text, builder |-> IntoBuilder(text)]

\* A message or a table is shown at once, from the list read before.
loadMessage(h, i) ==
    /\ kind \in {"message", "lookup"} /\ cached[i] # None
    /\ Show(i, cached[i])
    /\ Await(h, Call("versions", i, <<>>))
    /\ ServerAlone /\ UNCHANGED <<cached, review, moved>>

\* An item to be created: the user types its key, and nothing is selected.
newItem(i) ==
    /\ selected' = None
    /\ form' = Made(i, Original(i))
    /\ listed' = Nothing
    /\ ServerAlone /\ UNCHANGED <<cached, review, handler, moved, starts>>

\* What a save is about: the selection, or else the key field.
Target == IF selected # None THEN selected ELSE form.key

\* The form becomes a copy of its message, under an id nothing has.
duplicateSelectedMessage(i) ==
    /\ kind = "message" /\ cached[Target] # None /\ cached[i] = None
    /\ selected' = None
    /\ form' = Made(i, [cached[Target] EXCEPT !.about = i])
    /\ ServerAlone /\ UNCHANGED <<cached, listed, review, handler, moved, starts>>

\* Editing in the builder writes the text at once; so do the buttons that
\* first call syncJsonFromBuilder.
EditForm ==
    /\ form.builder.n < MaxEdits
    /\ form' = Made(form.key, [form.builder EXCEPT !.n = @ + 1])
    /\ ServerAlone /\ UNCHANGED <<cached, selected, listed, review, handler, moved, starts>>

syncJsonFromBuilder == form' = Made(form.key, form.builder)

\* A rule is updated when it is selected, created when it is not, and its
\* key goes with the text; messages and tables are upserted.
save(h) ==
    /\ Await(h, [Call(IF kind = "rule" /\ selected = None THEN "create" ELSE "save", Target,
                      IF kind = "rule" THEN <<"list">> ELSE <<"list", "versions">>)
                 EXCEPT !.text = form.builder, !.body = form.key])
    /\ syncJsonFromBuilder
    /\ ServerAlone /\ UNCHANGED <<cached, selected, review, moved>>

\* A button of the version list.  A rule's buttons act on the selected rule,
\* the others on the item the list was last filled for.
versionAction(h, v) ==
    /\ v \in 1 .. listed.upto
    /\ \/ /\ kind = "rule" /\ selected # None
          /\ Await(h, [Call("rollback", selected, <<"list", "versions">>) EXCEPT !.version = v])
       \/ /\ kind = "message"
          /\ Await(h, [Call("restore", listed.key, <<"list", "open">>) EXCEPT !.version = v])
       \/ /\ kind = "lookup"
          /\ Await(h, [Call("load_version", listed.key, <<>>) EXCEPT !.version = v])
    /\ ServerAlone /\ UNCHANGED <<cached, selected, form, review, moved>>

\* The review opens when the conflicts of the rules are there.  It shows the
\* text of the form; confirming it publishes the draft the server has.
publishSelectedRule(h) ==
    /\ kind = "rule" /\ selected # None
    /\ Await(h, Call("conflicts", selected, <<"review">>))
    /\ syncJsonFromBuilder
    /\ ServerAlone /\ UNCHANGED <<cached, selected, review, moved>>

confirmPublishSelectedRule(h) ==
    /\ selected # None /\ review
    /\ Await(h, Call("conflicts", selected, <<"publish", "list", "versions">>))
    /\ syncJsonFromBuilder
    /\ ServerAlone /\ UNCHANGED <<cached, selected, review, moved>>

closePublishConfirm ==
    /\ review
    /\ review' = FALSE
    /\ ServerAlone /\ UNCHANGED <<cached, selected, form, listed, handler, moved, starts>>

(***************************************************************************)
(* The server takes a request.                                             *)
(***************************************************************************)
Store(i, text) == stored' = [stored EXCEPT ![i] = text]
AddVersion(i, text) ==
    /\ Len(history[i]) <= MaxSaves
    /\ history' = [history EXCEPT ![i] = Append(@, text)]
Kept == UNCHANGED <<stored, history>>

\* An answer carries the text its handler uses, if it uses one.
WithAnswer(c, text) == [Call(c.op, c.key, c.then) EXCEPT !.answered = TRUE, !.text = text]
Answer(h, text) == handler' = [handler EXCEPT ![h] = WithAnswer(@, text)]
Refuse(h) == Kept /\ handler' = [handler EXCEPT ![h] = [WithAnswer(Free, None) EXCEPT !.ok = FALSE]]
Version(c) == history[c.key][c.version]
HasVersion(c) == c.version \in DOMAIN history[c.key]

\* A plausible bug: the key in the body is not compared with the path.
MutAnyBody(c) == stored[c.key] # None

\* PUT /v1/rule-sets/:key/draft: the key in the body is the key in the path.
AcceptsDraft(c) == stored[c.key] # None /\ c.body = c.key

putDraft(h, c) ==
    IF AcceptsDraft(c) THEN Store(c.key, c.text) /\ Answer(h, None) /\ UNCHANGED history
                       ELSE Refuse(h)

postRuleSet(h, c) ==
    IF stored[c.key] = None THEN Store(c.key, c.text) /\ Answer(h, None) /\ UNCHANGED history
                            ELSE Refuse(h)

\* PUT of a message or a lookup table: it replaces the current one and
\* becomes its next version.
upsertMessage(h, c, text) == Store(c.key, text) /\ AddVersion(c.key, text) /\ Answer(h, None)

postRollback(h, c) ==
    IF HasVersion(c) THEN Store(c.key, Version(c)) /\ Answer(h, Version(c)) /\ UNCHANGED history
                     ELSE Refuse(h)

restoreMessageVersion(h, c) == IF HasVersion(c) THEN upsertMessage(h, c, Version(c)) ELSE Refuse(h)
getLookupTableVersion(h, c) == IF HasVersion(c) THEN Kept /\ Answer(h, Version(c)) ELSE Refuse(h)

\* The draft the server has is published; no text comes with the request.
postPublish(h, c) == AddVersion(c.key, stored[c.key]) /\ UNCHANGED stored /\ Answer(h, None)

sendRuleSet(h, c) == Kept /\ Answer(h, stored[c.key])
\* The list of rules has no drafts in it.
Listed(i) == IF kind = "rule" /\ stored[i] # None THEN Original(i) ELSE stored[i]
listItems(h) ==
    Kept /\ handler' = [handler EXCEPT ![h].answered = TRUE, ![h].texts = [i \in Items |-> Listed(i)]]
listVersions(h, c) ==
    /\ Kept
    /\ handler' = [handler EXCEPT ![h].answered = TRUE, ![h].version = Len(history[c.key])]

serve(h) ==
    LET c == handler[h]
    IN  /\ c # Free /\ ~c.answered
        /\ \/ c.op = "get" /\ sendRuleSet(h, c)
           \/ c.op = "create" /\ postRuleSet(h, c)
           \/ c.op = "save" /\ kind = "rule" /\ putDraft(h, c)
           \/ c.op = "save" /\ kind # "rule" /\ upsertMessage(h, c, c.text)
           \/ c.op = "rollback" /\ postRollback(h, c)
           \/ c.op = "restore" /\ restoreMessageVersion(h, c)
           \/ c.op = "load_version" /\ getLookupTableVersion(h, c)
           \/ c.op = "conflicts" /\ Kept /\ Answer(h, None)
           \/ c.op = "publish" /\ postPublish(h, c)
           \/ c.op = "list" /\ listItems(h)
           \/ c.op = "versions" /\ listVersions(h, c)
        /\ UNCHANGED <<kind, cached, selected, form, listed, review, moved, starts>>

(***************************************************************************)
(* An answer comes: the handler goes on with what the page shows now.      *)
(***************************************************************************)
\* The next call of the handler.  A rule or a table asks for the versions of
\* what is selected by then, and a message for those of the one it saved.
VersionsOf(c) == IF c.op = "get" \/ kind = "message" THEN c.key ELSE selected
Continue(h, c) ==
    LET key == IF Head(c.then) = "versions" THEN VersionsOf(c) ELSE c.key
    IN  IF c.then = <<>>
        THEN handler' = [handler EXCEPT ![h] = Free] /\ UNCHANGED listed
        ELSE /\ handler' = [handler EXCEPT ![h] = IF key = None THEN Free
                                                  ELSE Call(Head(c.then), key, Tail(c.then))]
             /\ listed' = IF Head(c.then) = "versions" THEN Nothing ELSE listed

refused(h, c) ==
    /\ ~c.ok
    /\ handler' = [handler EXCEPT ![h] = Free]
    /\ UNCHANGED <<cached, selected, form, listed, review, moved>>

ruleLoaded(h, c) ==
    /\ c.op = "get"
    /\ Show(c.key, c.text)
    /\ moved' = IF Strayed(c.key, c.text) THEN moved \cup {"builder"} ELSE moved
    /\ Continue(h, c)
    /\ UNCHANGED <<cached, review>>

\* The saved item becomes the selected one, whatever the form is about now.
saved(h, c) ==
    /\ c.op \in {"save", "create"} /\ c.ok
    /\ selected' = c.key
    /\ moved' = IF form.key # c.key THEN moved \cup {"selection"} ELSE moved
    /\ Continue(h, c)
    /\ UNCHANGED <<cached, form, review>>

\* The text of the version goes into the form, whatever it is about now.
versionLoaded(h, c) ==
    /\ c.op \in {"rollback", "load_version"} /\ c.ok
    /\ form' = [form EXCEPT !.text = c.text, !.builder = IntoBuilder(c.text)]
    /\ moved' = moved \cup (IF form.key # c.key THEN {"text"} ELSE {})
                      \cup (IF Strayed(form.key, c.text) THEN {"builder"} ELSE {})
    /\ Continue(h, c)
    /\ UNCHANGED <<cached, selected, review>>

\* The person may stop at a conflict.  What is published is the rule that is
\* selected by now, perhaps not the one of the review.
conflictsLoaded(h, c) ==
    /\ c.op = "conflicts"
    /\ \/ c.then = <<"review">> /\ review' = TRUE /\ handler' = [handler EXCEPT ![h] = Free]
       \/ c.then # <<"review">> /\ UNCHANGED review /\ handler' = [handler EXCEPT ![h] = Free]
       \/ /\ c.then # <<"review">> /\ selected # None
          /\ handler' = [handler EXCEPT ![h] = Call("publish", selected, Tail(c.then))]
          /\ UNCHANGED review
    /\ UNCHANGED <<cached, selected, form, listed, moved>>

published(h, c) ==
    /\ c.op = "publish" /\ c.ok
    /\ review' = FALSE
    /\ Continue(h, c)
    /\ UNCHANGED <<cached, selected, form, moved>>

restored(h, c) ==
    /\ c.op = "restore" /\ c.ok
    /\ Continue(h, c)
    /\ UNCHANGED <<cached, selected, form, review, moved>>

\* A restored message is opened from the list read after it.
listLoaded(h, c) ==
    /\ c.op = "list"
    /\ cached' = c.texts
    /\ IF c.then = <<"open">>
       THEN /\ Show(c.key, c.texts[c.key])
            /\ handler' = [handler EXCEPT ![h] = Call("versions", c.key, <<>>)]
            /\ listed' = Nothing
       ELSE Continue(h, c) /\ UNCHANGED <<selected, form>>
    /\ UNCHANGED <<review, moved>>

\* Rows are added below those of another answer that came in between, and
\* all buttons are bound to this one.
versionsLoaded(h, c) ==
    /\ c.op = "versions"
    /\ listed' = [key |-> c.key, upto |-> IF c.version > listed.upto THEN c.version ELSE listed.upto]
    /\ handler' = [handler EXCEPT ![h] = Free]
    /\ UNCHANGED <<cached, selected, form, review, moved>>

answered(h) ==
    LET c == handler[h]
    IN  /\ c.answered
        /\ \/ refused(h, c) \/ ruleLoaded(h, c) \/ saved(h, c) \/ versionLoaded(h, c)
           \/ conflictsLoaded(h, c) \/ published(h, c) \/ restored(h, c) \/ listLoaded(h, c) \/ versionsLoaded(h, c)
        /\ ServerAlone /\ UNCHANGED starts

ConsoleNext ==
    \/ \E h \in Handlers, i \in Items : loadRule(h, i) \/ loadMessage(h, i)
    \/ \E i \in Items : newItem(i) \/ duplicateSelectedMessage(i)
    \/ EditForm \/ closePublishConfirm
    \/ \E h \in Handlers : save(h) \/ publishSelectedRule(h) \/ confirmPublishSelectedRule(h) \/ serve(h) \/ answered(h)
    \/ \E h \in Handlers, v \in 1 .. MaxSaves + 1 : versionAction(h, v)

ConsoleSpec == ConsoleInit /\ [][ConsoleNext]_consoleVars

(***************************************************************************)
(* Properties.                                                             *)
(***************************************************************************)
\* Type invariant; a version list offers no version its item cannot have.
ConsoleTypeOK ==
    /\ stored \in Texts /\ cached \in Texts
    /\ \A i \in Items : history[i] \in Seq(Text) /\ Len(history[i]) <= MaxSaves + 1
    /\ selected \in Items \cup {None}
    /\ form \in [key : Items, text : Text, builder : Text]
    /\ listed \in [key : Items \cup {None}, upto : 0 .. MaxSaves + 1]
    /\ review \in BOOLEAN
    /\ \A h \in Handlers : handler[h].op \in Ops \cup {"none"}
    /\ moved \subseteq {"selection", "text", "builder"}

\* What is stored under an item, and every version of it, was written for
\* that item, unless a late answer had changed the form (of a rule), or the
\* form or the selection (of a message or table), under another item, or the
\* builder had kept the previous rule's text when it refused this one's.  For
\* rules the key in the body stops what a moved selection would do.
Crosses == IF kind = "rule" THEN {"text", "builder"} ELSE {"text", "selection"}
TextStaysWithItem ==
    moved \cap Crosses = {} =>
        \A i \in Items :
            /\ stored[i] # None => stored[i].about = i
            /\ \A v \in DOMAIN history[i] : history[i][v].about = i
=============================================================================
