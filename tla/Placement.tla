------------------------------ MODULE Placement ------------------------------
(***************************************************************************)
(* One placement of a page under the browser SDK: how it is wired and      *)
(* triggered, how an evaluation asks the server, checks the delivery       *)
(* settings of the answer, renders, reports and only then records the      *)
(* display in the ledger that later evaluations read.                      *)
(*                                                                         *)
(* Evaluations overlap: init may run twice, a trigger event may come while *)
(* the last evaluation waits, and a page may hold two clients.             *)
(***************************************************************************)
EXTENDS Naturals, FiniteSets

CONSTANTS
    Calls,          \* evaluations that may be under way at once
    MaxClients,     \* calls of createClient per page
    MaxInits,       \* calls of init per client
    MaxPublished,     \* published versions of the rule set
    Configurations  \* the placements and delivery settings to look at

SdkClients == 1 .. MaxClients
Versions == 1 .. MaxPublished

VARIABLES
    settings,       \* trigger, display mode, dismiss behavior, whether storage works
    client,         \* clients created on this page
    inits,          \* client -> calls of init
    wired,          \* the client whose click handler is on the element, or 0
    listeners,      \* client -> trigger handlers registered for the element
    due,            \* client -> handlers about to call evaluatePlacement
    waiting,        \* client -> callbacks that wait for DOMContentLoaded
    ready,          \* the document is past loading
    call,           \* evaluation -> phase, client, version of the decision
    version,        \* the version the server decides with
    shown,          \* the element shows rendered content
    decided,        \* clients whose state.decisions has a decision for clicks
    ledger,         \* versions with a display recorded in this window
    renders,        \* version -> times rendered in this window; the bound: 2 is more than once
    raced           \* versions with overlapping or interrupted evaluations

placementVars == <<settings, client, inits, wired, listeners, due, waiting, ready, call,
                   version, shown, decided, ledger, renders, raced>>
pageVars == <<client, inits, wired, listeners, due, waiting, ready>>

Triggers == {"page_load", "dom_ready", "custom_event", "data_layer_event", "manual"}
Modes == {"always", "once", "once_per_session", "once_per_day"}
Settings == [trigger : Triggers, mode : Modes, behavior : {"suppress", "ignore"}, storage : BOOLEAN]

ASSUME ConfigurationsAssumption == Configurations \subseteq Settings
ASSUME BoundsAssumption == MaxClients \in Nat \ {0} /\ MaxInits \in Nat \ {0} /\ MaxPublished \in Nat \ {0}

NoCall == [phase |-> "idle", client |-> 1, version |-> 1]

PlacementInit ==
    /\ settings \in Configurations
    /\ client = 0
    /\ inits = [g \in SdkClients |-> 0]
    /\ wired = 0
    /\ listeners = [g \in SdkClients |-> 0]
    /\ due = [g \in SdkClients |-> 0]
    /\ waiting = [g \in SdkClients |-> 0]
    /\ ready = FALSE
    /\ call = [c \in Calls |-> NoCall]
    /\ shown = FALSE
    /\ decided = {}
    /\ version = 1
    /\ ledger = {}
    /\ renders = [v \in Versions |-> 0]
    /\ raced = {}

(***************************************************************************)
(* Wiring and triggers.                                                    *)
(***************************************************************************)
createClient ==
    /\ client < MaxClients
    /\ client' = client + 1
    /\ UNCHANGED <<settings, inits, wired, listeners, due, waiting, ready, call, version, shown, decided, ledger, renders, raced>>

\* wirePlacement is guarded by the element's deeWired flag, schedulePlacement
\* is not: a second init evaluates, or registers its listener, again.  The
\* data layer is replayed to a new handler: the event may be in it already.
init(g) ==
    /\ g <= client
    /\ inits[g] < MaxInits
    /\ inits' = [inits EXCEPT ![g] = @ + 1]
    /\ wired' = IF wired = 0 THEN g ELSE wired
    /\ \/ /\ settings.trigger = "page_load" \/ (settings.trigger = "dom_ready" /\ ready)
          /\ due' = [due EXCEPT ![g] = @ + 1]
          /\ UNCHANGED <<listeners, waiting>>
       \/ /\ settings.trigger = "dom_ready" /\ ~ ready
          /\ waiting' = [waiting EXCEPT ![g] = @ + 1]
          /\ UNCHANGED <<listeners, due>>
       \/ /\ settings.trigger \in {"custom_event", "data_layer_event"}
          /\ listeners' = [listeners EXCEPT ![g] = @ + 1]
          /\ due' = due \/ (settings.trigger = "data_layer_event" /\ due' = [due EXCEPT ![g] = @ + 1])
          /\ UNCHANGED waiting
       \/ settings.trigger = "manual" /\ UNCHANGED <<listeners, due, waiting>>
    /\ UNCHANGED <<settings, client, ready, call, version, shown, decided, ledger, renders, raced>>

\* Runs the cleanups of this client and unwires the element, whichever
\* client had wired it.  A callback waiting for DOMContentLoaded stays, and
\* so do the evaluations under way.
destroy(g) ==
    /\ g <= client
    /\ listeners' = [listeners EXCEPT ![g] = 0]
    /\ wired' = 0
    /\ UNCHANGED <<settings, client, inits, due, waiting, ready, call, version, shown, decided, ledger, renders, raced>>

onDomReady ==
    /\ ~ ready
    /\ ready' = TRUE
    /\ due' = [g \in SdkClients |-> due[g] + waiting[g]]
    /\ waiting' = [g \in SdkClients |-> 0]
    /\ UNCHANGED <<settings, client, inits, wired, listeners, call, version, shown, decided, ledger, renders, raced>>

\* Handlers of one event run before the next event is handled.
TriggerEvent ==
    /\ \A g \in SdkClients : due[g] = 0
    /\ \E g \in SdkClients : listeners[g] > 0
    /\ due' = listeners
    /\ UNCHANGED <<settings, client, inits, wired, listeners, waiting, ready, call, version, shown, decided, ledger, renders, raced>>

\* The site calls evaluatePlacement itself.
EvaluateByHand(g) ==
    /\ g <= client
    /\ \A h \in SdkClients : due[h] = 0
    /\ due' = [due EXCEPT ![g] = 1]
    /\ UNCHANGED <<settings, client, inits, wired, listeners, waiting, ready, call, version, shown, decided, ledger, renders, raced>>

(***************************************************************************)
(* One evaluation.                                                         *)
(***************************************************************************)
\* evaluatePlacement up to its first await.  The placement's own targeting
\* (bot, device, URL, conditions) refuses or lets it post.
BeginEvaluation(c, g) ==
    /\ due[g] > 0
    /\ call[c].phase = "idle"
    /\ due' = [due EXCEPT ![g] = @ - 1]
    /\ \/ call' = [call EXCEPT ![c] = [NoCall EXCEPT !.phase = "posting", !.client = g]]
       \/ UNCHANGED call
    /\ UNCHANGED <<settings, client, inits, wired, listeners, waiting, ready, version, shown, decided, ledger, renders, raced>>

\* dismissKey calls messageId, which exists only inside createClient: with a
\* dismiss behavior that reads the ledger the check throws.
dismissThrows == settings.behavior = "suppress" /\ settings.storage
\* A plausible bug: only the mode "once" reads the ledger.
MutOnceOnly(v) == settings.mode = "once" /\ settings.storage /\ v \in ledger
displayRecorded(v) == settings.mode # "always" /\ settings.storage /\ v \in ledger

Deciding(v) == {c \in Calls : call[c].phase \in {"rendering", "reporting"} /\ call[c].version = v}

\* post throws on a timeout or an error answer.
EvaluateFails(c) ==
    /\ call[c].phase = "posting"
    /\ call' = [call EXCEPT ![c] = NoCall]
    /\ UNCHANGED <<settings, pageVars, version, shown, decided, ledger, renders, raced>>

\* decisionPrecheck and the start of renderDecision: targeting and consent of
\* the decision may refuse, the dismiss check throws or passes, the display
\* policy refuses a version in the ledger.
PostReturns(c) ==
    /\ call[c].phase = "posting"
    /\ \/ \* postcheck failed: the decision is kept for clicks, nothing is rendered
          /\ \/ TRUE
             \/ ~ dismissThrows /\ displayRecorded(version)
          /\ decided' = decided \cup {call[c].client}
          /\ call' = [call EXCEPT ![c] = NoCall]
          /\ UNCHANGED raced
       \/ /\ dismissThrows
          /\ call' = [call EXCEPT ![c].phase = "threw"]
          /\ UNCHANGED <<decided, raced>>
       \/ /\ ~ dismissThrows
          /\ ~ displayRecorded(version)
          /\ call' = [call EXCEPT ![c].phase = "rendering", ![c].version = version]
          /\ raced' = IF Deciding(version) # {} THEN raced \cup {version} ELSE raced
          /\ UNCHANGED decided
    /\ UNCHANGED <<settings, pageVars, version, shown, ledger, renders>>

\* The renderer of the decision's template returns: with something rendered,
\* or not (not eligible, no valid card, nothing to modify).
RenderEnds(c) ==
    /\ call[c].phase = "rendering"
    /\ decided' = decided \cup {call[c].client}
    /\ \/ /\ shown' = TRUE
          /\ renders' = [renders EXCEPT ![call[c].version] = IF @ < 2 THEN @ + 1 ELSE 2]
          /\ call' = [call EXCEPT ![c].phase = "reporting"]
       \/ /\ call' = [call EXCEPT ![c] = NoCall]
          /\ UNCHANGED <<shown, renders>>
    /\ UNCHANGED <<settings, pageVars, version, ledger, raced>>

\* The exposure and impression events are posted, with success or not, and
\* the display is recorded last.
recordDisplay(c) ==
    /\ call[c].phase = "reporting"
    /\ ledger' = IF settings.mode # "always" /\ settings.storage THEN ledger \cup {call[c].version} ELSE ledger
    /\ call' = [call EXCEPT ![c] = NoCall]
    /\ UNCHANGED <<settings, pageVars, version, shown, decided, renders, raced>>

EvaluationRejected(c) ==
    /\ call[c].phase = "threw"
    /\ call' = [call EXCEPT ![c] = NoCall]
    /\ UNCHANGED <<settings, pageVars, version, shown, decided, ledger, renders, raced>>

\* A click on the dismiss button: the click handler needs a decision in the
\* map of the client that wired the element.  recordDismiss throws as above,
\* before the message is hidden.
dismissMessage ==
    /\ shown
    /\ wired \in decided
    /\ ~ dismissThrows
    /\ shown' = FALSE
    /\ UNCHANGED <<settings, pageVars, call, version, decided, ledger, renders, raced>>

(***************************************************************************)
(* The environment.                                                        *)
(***************************************************************************)
PublishVersion ==
    /\ version < MaxPublished
    /\ version' = version + 1
    /\ UNCHANGED <<settings, pageVars, call, shown, decided, ledger, renders, raced>>

\* The day is over (displayWindowExpired).
WindowExpires ==
    /\ settings.mode = "once_per_day"
    /\ ledger' = {}
    /\ renders' = [v \in Versions |-> 0]
    /\ UNCHANGED <<settings, pageVars, call, version, shown, decided, raced>>

\* Another page of the site, or a new browser session with its own
\* sessionStorage.  Evaluations under way are interrupted.
Reload(session) ==
    /\ client' = 0 /\ wired' = 0 /\ shown' = FALSE /\ ready' = FALSE /\ decided' = {}
    /\ inits' = [g \in SdkClients |-> 0]
    /\ listeners' = inits' /\ due' = inits' /\ waiting' = inits'
    /\ call' = [c \in Calls |-> NoCall]
    /\ raced' = raced \cup {v \in Versions : Deciding(v) # {}}
    /\ IF session /\ settings.mode = "once_per_session"
       THEN ledger' = {} /\ renders' = [v \in Versions |-> 0]
       ELSE UNCHANGED <<ledger, renders>>
    /\ UNCHANGED <<settings, version>>

PlacementNext ==
    \/ createClient \/ onDomReady \/ TriggerEvent \/ dismissMessage \/ PublishVersion \/ WindowExpires
    \/ \E g \in SdkClients : init(g) \/ destroy(g) \/ EvaluateByHand(g)
    \/ \E c \in Calls : EvaluateFails(c) \/ PostReturns(c) \/ RenderEnds(c) \/ recordDisplay(c) \/ EvaluationRejected(c)
    \/ \E c \in Calls, g \in SdkClients : BeginEvaluation(c, g)
    \/ \E session \in BOOLEAN : Reload(session)

PlacementSpec == PlacementInit /\ [][PlacementNext]_placementVars

-----------------------------------------------------------------------------

CallType == [phase : {"idle", "posting", "rendering", "reporting", "threw"}, client : SdkClients, version : Versions]

\* Every variable keeps its type; no client has more handlers than inits.
PlacementTypeOK ==
    /\ settings \in Settings
    /\ client \in 0 .. MaxClients /\ wired \in 0 .. MaxClients
    /\ inits \in [SdkClients -> 0 .. MaxInits]
    /\ listeners \in [SdkClients -> 0 .. MaxInits] /\ waiting \in [SdkClients -> 0 .. MaxInits]
    /\ due \in [SdkClients -> 0 .. 2 * MaxInits]
    /\ ready \in BOOLEAN
    /\ call \in [Calls -> CallType]
    /\ version \in Versions /\ shown \in BOOLEAN
    /\ decided \subseteq SdkClients
    /\ ledger \subseteq Versions /\ raced \subseteq Versions
    /\ renders \in [Versions -> 0 .. 2]

\* With storage and a display policy other than always, one version is
\* rendered at most once in its window (ever, session, day), whatever is
\* initialised, destroyed, triggered and reloaded in between, unless two
\* evaluations overlapped or one was cut off between rendering and its
\* record.
OncePerWindow ==
    settings.mode # "always" /\ settings.storage =>
        \A v \in Versions : renders[v] <= 1 \/ v \in raced

\* "If storage is blocked, rendering still works": so does it with storage,
\* and no evaluation rejects because of the ledger.
LedgerNeverThrows == \A c \in Calls : call[c].phase # "threw"
=============================================================================
