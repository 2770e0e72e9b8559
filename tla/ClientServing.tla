--------------------------- MODULE ClientServing ---------------------------
(***************************************************************************)
(* Decisions served to browsers (evaluateClientRequest of server.js) and   *)
(* the client result cache (clientCache.js), for one rule set with a       *)
(* client_ttl, the SQLite store or its snapshot adapter, and the in-memory *)
(* runtime state.                                                          *)
(*                                                                         *)
(* A request reads the rule set and its latest version, waits for the      *)
(* Profile API, and then runs to its end without I/O: cache lookup,        *)
(* evaluation against the lookup tables, messages and impression counts of *)
(* that moment, cache write.  A handler that changes what an evaluation    *)
(* reads mutates the store, waits for store.save(), and clears the cache;  *)
(* when the save fails it answers 500 and clears nothing.                  *)
(*                                                                         *)
(* The rule offers one message, limited to MaxImpressions per profile; a   *)
(* response that has to withhold it carries an error and is not cached.    *)
(* Adaptive experiments, which bypass the cache, are left out.             *)
(***************************************************************************)
EXTENDS Naturals

CONSTANTS
  Clients,         \* decision requests that can be in progress
  Handlers,        \* administration and event requests that can be in progress
  Profiles,        \* profile keys
  Defs,            \* rule definitions
  Assets,          \* contents of the lookup tables and messages
  MaxVersion,      \* bound on version numbers
  MaxImpressions,  \* delivery.frequency.max_impressions of the message
  Scope            \* cache_policy.scope: "profile" or "global"

ASSUME MaxVersionAssumption == MaxVersion \in Nat \ {0}
ASSUME MaxImpressionsAssumption == MaxImpressions \in Nat \ {0}
ASSUME ScopeAssumption == Scope \in {"profile", "global"}

VARIABLES
  latest,       \* the latest version: its number and its definition
  asset,        \* the lookup tables and messages
  impressions,  \* stored impressions of the message, by profile
  cache,        \* the client result cache
  evals,        \* requests waiting for the Profile API
  handlers,     \* what a handler is doing
  dirty         \* history: a save failed and nothing cleared the cache since
vars == <<latest, asset, impressions, cache, evals, handlers, dirty>>

Version == [number : 1 .. MaxVersion, definition : Defs]

(* overtaken is history: an import ran while the evaluation waited *)
Evaluation == [profile : Profiles, version : Version, overtaken : BOOLEAN]
NoEvaluation == [profile |-> "none"]

Entry == [definition : Defs, asset : Assets, overtaken : BOOLEAN]
NoEntry == [definition |-> "none"]

Everyone == "everyone"
CacheKeys == (1 .. MaxVersion) \X (Profiles \cup {Everyone})

TypeOK ==
  /\ latest \in Version
  /\ asset \in Assets
  /\ impressions \in [Profiles -> 0 .. MaxImpressions]
  /\ cache \in [CacheKeys -> Entry \cup {NoEntry}]
  /\ evals \in [Clients -> Evaluation \cup {NoEvaluation}]
  /\ handlers \in [Handlers -> {"idle", "saving"}]
  /\ dirty \in BOOLEAN

Init ==
  /\ latest \in [number : {1}, definition : Defs]
  /\ asset \in Assets
  /\ impressions = [p \in Profiles |-> 0]
  /\ cache = [k \in CacheKeys |-> NoEntry]
  /\ evals = [c \in Clients |-> NoEvaluation]
  /\ handlers = [h \in Handlers |-> "idle"]
  /\ dirty = FALSE

-----------------------------------------------------------------------------
(* Mut... are faulty variants of the definition that follows them; the     *)
(* README says which property refutes each.                                *)
MutIgnoreVersion(version, p) == <<1, IF Scope = "global" THEN Everyone ELSE p>>
keyFor(version, p) ==
  <<version.number, IF Scope = "global" THEN Everyone ELSE p>>

MutCapPlusOne(p) == impressions[p] <= MaxImpressions
messageAvailable(p) == impressions[p] < MaxImpressions

MutSkipVersion == latest.number + 2
nextVersion == latest.number + 1

(* a new event_id adds one impression, counted no further than the limit, and
   the events past their retention are deleted *)
addClientEvent(p) ==
  LET counted == [impressions EXCEPT ![p] = IF @ < MaxImpressions THEN @ + 1 ELSE @]
  IN \E kept \in [Profiles -> 0 .. MaxImpressions] :
       /\ \A q \in Profiles : kept[q] <= counted[q]
       /\ impressions' = kept

MutClearNothing == cache' = cache
clear == cache' = [k \in CacheKeys |-> NoEntry]

(* a decision request, up to the wait for the Profile API *)
Begin(c, p) ==
  /\ evals[c] = NoEvaluation
  /\ evals' = [evals EXCEPT ![c] = [profile |-> p, version |-> latest,
                                    overtaken |-> FALSE]]
  /\ UNCHANGED <<latest, asset, impressions, cache, handlers, dirty>>

(* the rest of the request, answered from the cache or evaluated *)
Finish(c) ==
  /\ evals[c] # NoEvaluation
  /\ evals' = [evals EXCEPT ![c] = NoEvaluation]
  /\ LET e == evals[c]
         key == keyFor(e.version, e.profile)
     IN IF cache[key] = NoEntry /\ messageAvailable(e.profile)
        THEN cache' = [cache EXCEPT ![key] =
               [definition |-> e.version.definition, asset |-> asset,
                overtaken |-> e.overtaken]]
        ELSE UNCHANGED cache
  /\ UNCHANGED <<latest, asset, impressions, handlers, dirty>>

(* an entry outlives its client_ttl *)
Expire(k) ==
  /\ cache[k] # NoEntry
  /\ cache' = [cache EXCEPT ![k] = NoEntry]
  /\ UNCHANGED <<latest, asset, impressions, evals, handlers, dirty>>

StartSave(h) ==
  /\ handlers[h] = "idle"
  /\ handlers' = [handlers EXCEPT ![h] = "saving"]

(* POST .../publish *)
Publish(h, d) ==
  /\ StartSave(h)
  /\ latest.number < MaxVersion
  /\ latest' = [number |-> nextVersion, definition |-> d]
  /\ UNCHANGED <<asset, impressions, cache, evals, dirty>>

(* POST /v1/import: versions are replaced by another environment's *)
Import(h, version) ==
  /\ StartSave(h)
  /\ latest' = version
  /\ evals' = [c \in Clients |->
                 IF evals[c] = NoEvaluation THEN NoEvaluation
                 ELSE [evals[c] EXCEPT !.overtaken = TRUE]]
  /\ UNCHANGED <<asset, impressions, cache, dirty>>

(* PUT of a lookup table or a message, or its restored version *)
EditAsset(h, a) ==
  /\ StartSave(h)
  /\ asset' = a
  /\ UNCHANGED <<latest, impressions, cache, evals, dirty>>

(* POST of a client event with a new event_id *)
ClientEvent(h, p) ==
  /\ StartSave(h)
  /\ addClientEvent(p)
  /\ UNCHANGED <<latest, asset, cache, evals, dirty>>

(* store.save() resolves: the cache is cleared, the request is acknowledged *)
Saved(h) ==
  /\ handlers[h] = "saving"
  /\ handlers' = [handlers EXCEPT ![h] = "idle"]
  /\ clear
  /\ dirty' = FALSE
  /\ UNCHANGED <<latest, asset, impressions, evals>>

(* store.save() rejects: 500, and the mutation stays in memory *)
SaveFails(h) ==
  /\ handlers[h] = "saving"
  /\ handlers' = [handlers EXCEPT ![h] = "idle"]
  /\ dirty' = TRUE
  /\ UNCHANGED <<latest, asset, impressions, cache, evals>>

Next ==
  \/ \E c \in Clients, p \in Profiles : Begin(c, p)
  \/ \E c \in Clients : Finish(c)
  \/ \E k \in CacheKeys : Expire(k)
  \/ \E h \in Handlers :
       \/ \E d \in Defs : Publish(h, d)
       \/ \E version \in Version : Import(h, version)
       \/ \E a \in Assets : EditAsset(h, a)
       \/ \E p \in Profiles : ClientEvent(h, p)
       \/ Saved(h)
       \/ SaveFails(h)

Spec == Init /\ [][Next]_vars

-----------------------------------------------------------------------------
(* a change is in the store whose handler has not cleared the cache, and has
   not acknowledged it either *)
Unacknowledged == dirty \/ \E h \in Handlers : handlers[h] = "saving"

(***************************************************************************)
(* Once an edit of a lookup table or a message is acknowledged, no cached  *)
(* response is from before it, although requests that began before the     *)
(* edit finish, and write to the cache, after it was cleared.              *)
(***************************************************************************)
CacheHasNewestAssets ==
  \A k \in CacheKeys :
    cache[k] = NoEntry \/ Unacknowledged \/ cache[k].asset = asset

(***************************************************************************)
(* The cached response that is served for the latest version was made by   *)
(* that version's definition.  The one exception is an evaluation that an  *)
(* import overtook: import reuses version numbers.                         *)
(***************************************************************************)
CacheHasServedVersion ==
  \A p \in Profiles :
    LET entry == cache[keyFor(latest, p)]
    IN \/ entry = NoEntry
       \/ Unacknowledged \/ entry.overtaken
       \/ entry.definition = latest.definition

(***************************************************************************)
(* docs/roadmap.md: "server-side availability enforces cooldown and        *)
(* max-impression suppression": once the impression that reaches the limit *)
(* is acknowledged, no response offers the message to that profile, from   *)
(* the cache or fresh.                                                     *)
(***************************************************************************)
MaxImpressionsEnforced ==
  \A p \in Profiles : impressions[p] >= MaxImpressions =>
    \/ Unacknowledged
    \/ /\ cache[keyFor(latest, p)] = NoEntry
       /\ ~ messageAvailable(p)
=============================================================================
