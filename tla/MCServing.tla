------------------------------ MODULE MCServing -------------------------------
(* A browser decision on its three stages, one beside the other: the        *)
(* placement of a page that asks for it, the server's handlers that decide, *)
(* and the process around these handlers, once with its requests and once   *)
(* with its syncs, which meet in the saves of imports only.  `part' says    *)
(* what a behaviour is about, the others stay in an initial state.          *)
EXTENDS ClientServing, Placement, ServiceProcess, TLC

CONSTANTS Parts, r1, r2, r3
VARIABLE part

\* Two event requests carry one event_id: the second is a retry.
OneEvent(r) == "e1"

\* Every trigger, display mode and dismiss behavior, with and without storage.
EveryTrigger ==
  {[trigger |-> "dom_ready", mode |-> "once_per_session", behavior |-> "ignore", storage |-> TRUE],
   [trigger |-> "data_layer_event", mode |-> "once_per_day", behavior |-> "ignore", storage |-> TRUE],
   [trigger |-> "manual", mode |-> "once", behavior |-> "suppress", storage |-> TRUE]}
  \cup {[trigger |-> "page_load", mode |-> "once", behavior |-> "suppress", storage |-> s] : s \in BOOLEAN}

ServingAtRest   == /\ latest.definition = CHOOSE d \in Defs : TRUE
                   /\ asset = CHOOSE a \in Assets : TRUE
PlacementAtRest == settings = CHOOSE s \in Configurations : TRUE
ProcessAtRest   == ~ snapshot /\ ~ configured
NoSyncs         == ~ configured
OnlyImports     == configured' = configured /\ \A x \in Edits : edit'[x] # "put"

MCInit == /\ part \in Parts
          /\ Init          /\ (part # "serving" => ServingAtRest)
          /\ PlacementInit /\ (part # "placement" => PlacementAtRest)
          /\ ServiceInit   /\ (part \notin {"requests", "syncs"} => ProcessAtRest)
                           /\ (part = "requests" => NoSyncs)

MCNext == /\ \/ part = "serving" /\ Next /\ UNCHANGED <<placementVars, serviceVars>>
             \/ part = "placement" /\ PlacementNext /\ UNCHANGED <<vars, serviceVars>>
             \/ /\ UNCHANGED <<vars, placementVars>>
                /\ ServiceNext
                /\ \/ part = "requests" /\ OnlyImports
                   \/ part = "syncs" /\ UNCHANGED request
          /\ UNCHANGED part

MCSpec == MCInit /\ [][MCNext]_<<part, vars, placementVars, serviceVars>>

Symmetry == Permutations(Clients) \cup Permutations(Calls) \cup Permutations(Edits)

\* Every variable of the three parts keeps its type.
TypesOK == TypeOK /\ PlacementTypeOK /\ ServiceTypeOK
=============================================================================
