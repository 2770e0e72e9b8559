---------------------------- MODULE ServingProofs ----------------------------
(***************************************************************************)
(* Proofs about ClientServing, ServiceProcess and Placement, for any       *)
(* number of requests, handlers, profiles and versions, any sharing of     *)
(* event ids, any limit, any number of overlapping syncs, clients and      *)
(* evaluations of a placement; and about the run that puts the three       *)
(* beside each other.                                                      *)
(*                                                                         *)
(* What the cache holds once nothing is unacknowledged: a step can only    *)
(* end a period with unacknowledged changes by clearing the cache.  So it  *)
(* is enough that a write to the cache is right at the moment it happens,  *)
(* which needs a fact about the evaluations in flight: the version one     *)
(* read before it waited still means the same definition, unless an import *)
(* overtook it.                                                            *)
(***************************************************************************)
EXTENDS MCServing, TLAPS

EvaluationsKnowVersion ==
  \A c \in Clients : evals[c] # NoEvaluation /\ ~ evals[c].overtaken =>
    /\ evals[c].version.number <= latest.number
    /\ evals[c].version.number = latest.number => evals[c].version = latest

(* CacheHasServedVersion, said of every key of the latest version *)
ServableIsServedVersion ==
  \A k \in CacheKeys :
    \/ cache[k] = NoEntry \/ k[1] # latest.number
    \/ Unacknowledged \/ cache[k].overtaken
    \/ cache[k].definition = latest.definition

(* an entry under a number not yet published would become servable *)
CacheIsNotAhead ==
  \A k \in CacheKeys :
    \/ cache[k] = NoEntry \/ Unacknowledged \/ cache[k].overtaken
    \/ k[1] <= latest.number

(* under the scope "profile", for every version *)
CappedProfilesNotCached ==
  Scope = "profile" =>
    \A p \in Profiles, n \in 1 .. MaxVersion :
      \/ impressions[p] < MaxImpressions \/ Unacknowledged
      \/ cache[<<n, p>>] = NoEntry

CacheInv ==
  /\ CacheHasNewestAssets
  /\ ServableIsServedVersion
  /\ CacheIsNotAhead
  /\ CappedProfilesNotCached

IInv == TypeOK /\ EvaluationsKnowVersion /\ CacheInv

NothingCached == \A k \in CacheKeys : cache[k] = NoEntry

-----------------------------------------------------------------------------
(* Nothing is cached that could be wrong while a change is unacknowledged. *)
LEMMA UnacknowledgedCache == Unacknowledged => CacheInv
  BY DEF CacheInv, CacheHasNewestAssets, ServableIsServedVersion,
         CacheIsNotAhead, CappedProfilesNotCached

(* An empty cache holds nothing wrong. *)
LEMMA EmptyCache == NothingCached => CacheInv
<1> SUFFICES ASSUME NothingCached PROVE CacheInv
  OBVIOUS
<1>1. \A p \in Profiles, n \in 1 .. MaxVersion : <<n, p>> \in CacheKeys
  BY DEF CacheKeys
<1> QED
  BY <1>1 DEF NothingCached, CacheInv, CacheHasNewestAssets,
              ServableIsServedVersion, CacheIsNotAhead, CappedProfilesNotCached

(* The initial state satisfies the inductive invariant. *)
LEMMA InitInv == Init => IInv
<1> SUFFICES ASSUME Init PROVE IInv
  OBVIOUS
<1>1. TypeOK
  <2>1. latest \in Version
    BY MaxVersionAssumption DEF Init, Version
  <2>2. impressions \in [Profiles -> 0 .. MaxImpressions]
    BY MaxImpressionsAssumption DEF Init
  <2> QED
    BY <2>1, <2>2 DEF Init, TypeOK
<1>2. EvaluationsKnowVersion
  BY DEF Init, EvaluationsKnowVersion
<1>3. CacheInv
  BY EmptyCache DEF Init, NothingCached
<1> QED
  BY <1>1, <1>2, <1>3 DEF IInv

(* Starting a request changes nothing the cache depends on. *)
LEMMA BeginInv ==
  ASSUME IInv, NEW c \in Clients, NEW p \in Profiles, Begin(c, p)
  PROVE  IInv'
<1> DEFINE e == [profile |-> p, version |-> latest, overtaken |-> FALSE]
<1>1. e \in Evaluation /\ e.version = latest /\ latest.number \in Nat
  BY DEF IInv, TypeOK, Evaluation, Version
<1>2. /\ evals' = [evals EXCEPT ![c] = e]
      /\ UNCHANGED <<latest, asset, impressions, cache, handlers, dirty>>
  BY DEF Begin
<1> HIDE DEF e
<1>3. TypeOK'
  BY <1>1, <1>2 DEF IInv, TypeOK
<1>4. EvaluationsKnowVersion'
  BY <1>1, <1>2 DEF IInv, TypeOK, EvaluationsKnowVersion
<1>5. CacheInv'
  BY <1>2 DEF IInv, CacheInv, CacheHasNewestAssets, ServableIsServedVersion,
              CacheIsNotAhead, CappedProfilesNotCached, Unacknowledged
<1> QED
  BY <1>3, <1>4, <1>5 DEF IInv

(* What an evaluation writes to the cache is right when it writes it. *)
LEMMA FinishInv ==
  ASSUME IInv, NEW c \in Clients, Finish(c)
  PROVE  IInv'
<1> DEFINE e == evals[c]
           key == keyFor(e.version, e.profile)
           new == [definition |-> e.version.definition, asset |-> asset,
                   overtaken |-> e.overtaken]
<1>1. e \in Evaluation /\ e # NoEvaluation
  BY DEF Finish, IInv, TypeOK
<1>2. /\ key \in CacheKeys /\ key[1] = e.version.number
      /\ key = <<e.version.number, IF Scope = "global" THEN Everyone ELSE e.profile>>
  BY <1>1 DEF keyFor, CacheKeys, Evaluation, Version
<1>3. /\ new \in Entry /\ new.definition = e.version.definition
      /\ new.asset = asset /\ new.overtaken = e.overtaken
  BY <1>1 DEF Entry, Evaluation, Version, IInv, TypeOK
<1>4. /\ evals' = [evals EXCEPT ![c] = NoEvaluation]
      /\ UNCHANGED <<latest, asset, impressions, handlers, dirty>>
      /\ Unacknowledged' <=> Unacknowledged
  BY DEF Finish, Unacknowledged
<1>5. \/ cache' = cache
      \/ cache' = [cache EXCEPT ![key] = new] /\ messageAvailable(e.profile)
  BY DEF Finish
<1>6. ~ e.overtaken =>
        /\ e.version.number <= latest.number
        /\ e.version.number = latest.number => e.version = latest
  BY <1>1 DEF IInv, EvaluationsKnowVersion
<1>7. /\ cache \in [CacheKeys -> Entry \cup {NoEntry}]
      /\ evals \in [Clients -> Evaluation \cup {NoEvaluation}]
  BY DEF IInv, TypeOK
<1> HIDE DEF e, key, new
<1>8. /\ cache' \in [CacheKeys -> Entry \cup {NoEntry}]
      /\ \A k \in CacheKeys : cache'[k] = cache[k] \/ (k = key /\ cache'[k] = new)
  BY <1>2, <1>3, <1>5, <1>7
<1>9. TypeOK'
  BY <1>4, <1>7, <1>8 DEF IInv, TypeOK
<1>10. EvaluationsKnowVersion'
  BY <1>4, <1>7 DEF IInv, EvaluationsKnowVersion
<1>11. CacheHasNewestAssets'
  BY <1>3, <1>4, <1>8 DEF IInv, CacheInv, CacheHasNewestAssets
<1>12. ServableIsServedVersion'
  BY <1>2, <1>3, <1>4, <1>6, <1>8 DEF IInv, CacheInv, ServableIsServedVersion
<1>13. CacheIsNotAhead'
  BY <1>2, <1>3, <1>4, <1>6, <1>8 DEF IInv, CacheInv, CacheIsNotAhead
<1>14. CappedProfilesNotCached'
  <2> SUFFICES ASSUME Scope = "profile", NEW p \in Profiles, NEW n \in 1 .. MaxVersion,
                      cache'[<<n, p>>] # NoEntry, ~ Unacknowledged'
               PROVE  impressions'[p] < MaxImpressions
    BY DEF CappedProfilesNotCached
  <2>1. <<n, p>> \in CacheKeys
    BY DEF CacheKeys
  <2>2. CASE cache'[<<n, p>>] = cache[<<n, p>>]
    BY <1>4, <2>2 DEF IInv, CacheInv, CappedProfilesNotCached
  <2>3. CASE cache'[<<n, p>>] # cache[<<n, p>>]
    <3>1. <<n, p>> = key /\ messageAvailable(e.profile)
      BY <1>5, <1>8, <2>1, <2>3
    <3>2. p = e.profile
      BY <1>2, <3>1
    <3> QED
      BY <1>4, <3>1, <3>2 DEF messageAvailable
  <2> QED
    BY <2>2, <2>3
<1> QED
  BY <1>9, <1>10, <1>11, <1>12, <1>13, <1>14 DEF IInv, CacheInv

(* Losing an entry makes nothing wrong. *)
LEMMA ExpireInv ==
  ASSUME IInv, NEW k \in CacheKeys, Expire(k)
  PROVE  IInv'
<1>1. /\ cache' = [cache EXCEPT ![k] = NoEntry]
      /\ UNCHANGED <<latest, asset, impressions, evals, handlers, dirty>>
  BY DEF Expire
<1>2. /\ cache' \in [CacheKeys -> Entry \cup {NoEntry}]
      /\ \A j \in CacheKeys : cache'[j] = cache[j] \/ cache'[j] = NoEntry
      /\ Unacknowledged' <=> Unacknowledged
  BY <1>1 DEF IInv, TypeOK, Unacknowledged
<1>3. TypeOK'
  BY <1>1, <1>2 DEF IInv, TypeOK
<1>4. EvaluationsKnowVersion'
  BY <1>1 DEF IInv, EvaluationsKnowVersion
<1>5. \A p \in Profiles, n \in 1 .. MaxVersion : <<n, p>> \in CacheKeys
  BY DEF CacheKeys
<1>6. CacheHasNewestAssets' /\ ServableIsServedVersion' /\ CacheIsNotAhead'
  BY <1>1, <1>2 DEF IInv, CacheInv, CacheHasNewestAssets, ServableIsServedVersion,
                    CacheIsNotAhead
<1>7. CappedProfilesNotCached'
  BY <1>1, <1>2, <1>5 DEF IInv, CacheInv, CappedProfilesNotCached
<1> QED
  BY <1>3, <1>4, <1>6, <1>7 DEF IInv, CacheInv

(* A handler that starts its save is unacknowledged. *)
LEMMA StartSaveUnacknowledged ==
  ASSUME TypeOK, NEW h \in Handlers, StartSave(h)
  PROVE  Unacknowledged' /\ handlers' \in [Handlers -> {"idle", "saving"}]
  BY DEF TypeOK, StartSave, Unacknowledged

(* Each mutation keeps the invariant, for what it changes is unacknowledged. *)
LEMMA MutationInv ==
  ASSUME IInv, NEW h \in Handlers,
         \/ \E d \in Defs : Publish(h, d)
         \/ \E v \in Version : Import(h, v)
         \/ \E a \in Assets : EditAsset(h, a)
         \/ \E p \in Profiles : ClientEvent(h, p)
  PROVE  IInv'
<1>1. Unacknowledged' /\ handlers' \in [Handlers -> {"idle", "saving"}]
  BY StartSaveUnacknowledged DEF IInv, Publish, Import, EditAsset, ClientEvent
<1>2. CacheInv'
  BY <1>1, UnacknowledgedCache, PTL
<1>3. cache' = cache /\ dirty' = dirty
  BY DEF Publish, Import, EditAsset, ClientEvent
<1>4. latest \in Version /\ latest.number \in Nat /\ latest.definition \in Defs
  BY DEF IInv, TypeOK, Version
<1>5. ASSUME NEW d \in Defs, Publish(h, d)
      PROVE  TypeOK' /\ EvaluationsKnowVersion'
  <2>1. /\ latest' \in Version /\ latest'.number = latest.number + 1
        /\ UNCHANGED <<asset, impressions, evals>>
    BY <1>4, <1>5, MaxVersionAssumption DEF Publish, nextVersion, Version
  <2>2. \A c \in Clients : evals[c] # NoEvaluation => evals[c].version.number \in Nat
    BY DEF IInv, TypeOK, Evaluation, Version
  <2>3. TypeOK'
    BY <1>1, <1>3, <2>1 DEF IInv, TypeOK
  <2>4. EvaluationsKnowVersion'
    BY <1>4, <2>1, <2>2 DEF IInv, EvaluationsKnowVersion
  <2> QED
    BY <2>3, <2>4
<1>6. ASSUME NEW v \in Version, Import(h, v)
      PROVE  TypeOK' /\ EvaluationsKnowVersion'
  <2>1. \A c \in Clients :
          evals'[c] = IF evals[c] = NoEvaluation THEN NoEvaluation
                      ELSE [evals[c] EXCEPT !.overtaken = TRUE]
    BY <1>6 DEF Import
  <2>2. \A c \in Clients :
          \/ evals'[c] = NoEvaluation
          \/ evals'[c] \in Evaluation /\ evals'[c].overtaken
    BY <2>1 DEF IInv, TypeOK, Evaluation
  <2>3. evals' \in [Clients -> Evaluation \cup {NoEvaluation}]
    BY <1>6, <2>2 DEF Import
  <2>4. latest' \in Version /\ UNCHANGED <<asset, impressions>>
    BY <1>6 DEF Import
  <2>5. TypeOK'
    BY <1>1, <1>3, <2>3, <2>4 DEF IInv, TypeOK
  <2>6. EvaluationsKnowVersion'
    BY <2>2 DEF EvaluationsKnowVersion
  <2> QED
    BY <2>5, <2>6
<1>7. ASSUME NEW a \in Assets, EditAsset(h, a)
      PROVE  TypeOK' /\ EvaluationsKnowVersion'
  <2>1. asset' \in Assets /\ UNCHANGED <<latest, impressions, evals>>
    BY <1>7 DEF EditAsset
  <2> QED
    BY <1>1, <1>3, <2>1 DEF IInv, TypeOK, EvaluationsKnowVersion
<1>8. ASSUME NEW p \in Profiles, ClientEvent(h, p)
      PROVE  TypeOK' /\ EvaluationsKnowVersion'
  <2>1. /\ impressions' \in [Profiles -> 0 .. MaxImpressions]
        /\ UNCHANGED <<latest, asset, evals>>
    BY <1>8, MaxImpressionsAssumption DEF ClientEvent, addClientEvent, IInv, TypeOK
  <2> QED
    BY <1>1, <1>3, <2>1 DEF IInv, TypeOK, EvaluationsKnowVersion
<1> QED
  BY <1>2, <1>5, <1>6, <1>7, <1>8 DEF IInv

(* The end of a save clears the cache, or leaves the change unacknowledged. *)
LEMMA SaveInv ==
  ASSUME IInv, NEW h \in Handlers, Saved(h) \/ SaveFails(h)
  PROVE  IInv'
<1>1. /\ handlers' \in [Handlers -> {"idle", "saving"}] /\ dirty' \in BOOLEAN
      /\ UNCHANGED <<latest, asset, impressions, evals>>
  BY DEF Saved, SaveFails, IInv, TypeOK
<1>2. EvaluationsKnowVersion'
  BY <1>1 DEF IInv, EvaluationsKnowVersion
<1>3. CASE Saved(h)
  <2>1. NothingCached' /\ cache' \in [CacheKeys -> Entry \cup {NoEntry}]
    BY <1>3 DEF Saved, clear, NothingCached
  <2>2. CacheInv'
    BY <2>1, EmptyCache, PTL
  <2> QED
    BY <1>1, <1>2, <2>1, <2>2 DEF IInv, TypeOK
<1>4. CASE SaveFails(h)
  <2>1. cache' = cache /\ Unacknowledged'
    BY <1>4 DEF SaveFails, Unacknowledged
  <2>2. CacheInv'
    BY <2>1, UnacknowledgedCache, PTL
  <2> QED
    BY <1>1, <1>2, <2>1, <2>2 DEF IInv, TypeOK
<1> QED
  BY <1>3, <1>4

-----------------------------------------------------------------------------
(* Every step preserves the inductive invariant. *)
LEMMA StepInv == IInv /\ [Next]_vars => IInv'
<1> SUFFICES ASSUME IInv, [Next]_vars PROVE IInv'
  OBVIOUS
<1>1. CASE UNCHANGED vars
  BY <1>1 DEF vars, IInv, TypeOK, EvaluationsKnowVersion, CacheInv,
              CacheHasNewestAssets, ServableIsServedVersion, CacheIsNotAhead,
              CappedProfilesNotCached, Unacknowledged
<1>2. ASSUME NEW c \in Clients, NEW p \in Profiles, Begin(c, p) PROVE IInv'
  BY <1>2, BeginInv
<1>3. ASSUME NEW c \in Clients, Finish(c) PROVE IInv'
  BY <1>3, FinishInv
<1>4. ASSUME NEW k \in CacheKeys, Expire(k) PROVE IInv'
  BY <1>4, ExpireInv
<1>5. ASSUME NEW h \in Handlers,
             \/ \E d \in Defs : Publish(h, d)
             \/ \E v \in Version : Import(h, v)
             \/ \E a \in Assets : EditAsset(h, a)
             \/ \E p \in Profiles : ClientEvent(h, p)
      PROVE  IInv'
  BY <1>5, MutationInv
<1>6. ASSUME NEW h \in Handlers, Saved(h) \/ SaveFails(h) PROVE IInv'
  BY <1>6, SaveInv
<1> QED
  BY <1>1, <1>2, <1>3, <1>4, <1>5, <1>6 DEF Next

(* The inductive invariant holds in every reachable state. *)
LEMMA Invariant == Spec => []IInv
  BY InitInv, StepInv, PTL DEF Spec

(* The variables keep their types. *)
THEOREM TypeCorrect == Spec => []TypeOK
<1>1. IInv => TypeOK
  BY DEF IInv
<1> QED
  BY Invariant, <1>1, PTL

(* No request in flight can put back a response from before an acknowledged *)
(* edit of a lookup table or a message.                                     *)
THEOREM NewestAssetsSafe == Spec => []CacheHasNewestAssets
<1>1. IInv => CacheHasNewestAssets
  BY DEF IInv, CacheInv
<1> QED
  BY Invariant, <1>1, PTL

(* What the cache can answer for the latest version came from its           *)
(* definition, but for evaluations that an import overtook.                 *)
THEOREM ServedVersionSafe == Spec => []CacheHasServedVersion
<1>1. IInv => CacheHasServedVersion
  <2> SUFFICES ASSUME IInv, NEW p \in Profiles, cache[keyFor(latest, p)] # NoEntry,
                      ~ Unacknowledged
               PROVE  \/ cache[keyFor(latest, p)].overtaken
                      \/ cache[keyFor(latest, p)].definition = latest.definition
    BY DEF CacheHasServedVersion
  <2>1. latest.number \in 1 .. MaxVersion
    BY DEF IInv, TypeOK, Version
  <2>2. keyFor(latest, p) \in CacheKeys /\ keyFor(latest, p)[1] = latest.number
    BY <2>1 DEF keyFor, CacheKeys
  <2> QED
    BY <2>2 DEF IInv, CacheInv, ServableIsServedVersion
<1> QED
  BY Invariant, <1>1, PTL

(* With a cache per profile, the impression limit holds from the moment the *)
(* impression that reaches it is acknowledged.                              *)
THEOREM ImpressionLimitSafe ==
  ASSUME Scope = "profile"
  PROVE  Spec => []MaxImpressionsEnforced
<1>1. IInv => MaxImpressionsEnforced
  <2> SUFFICES ASSUME IInv, NEW p \in Profiles, impressions[p] >= MaxImpressions,
                      ~ Unacknowledged
               PROVE  cache[keyFor(latest, p)] = NoEntry /\ ~ messageAvailable(p)
    BY DEF MaxImpressionsEnforced
  <2>1. impressions[p] \in Nat /\ MaxImpressions \in Nat
    BY MaxImpressionsAssumption DEF IInv, TypeOK
  <2>2. ~ (impressions[p] < MaxImpressions)
    BY <2>1
  <2>3. keyFor(latest, p) = <<latest.number, p>> /\ latest.number \in 1 .. MaxVersion
    BY DEF keyFor, IInv, TypeOK, Version
  <2> QED
    BY <2>2, <2>3 DEF messageAvailable, IInv, CacheInv, CappedProfilesNotCached
<1> QED
  BY Invariant, <1>1, PTL

-----------------------------------------------------------------------------
(***************************************************************************)
(* Why the collector gets a survey response at most once is a matter of    *)
(* three places: the handler that stored the event, the rows, and the      *)
(* delivery.  At most one handler is between the insert and the delivery   *)
(* of an event, it has a row by then and no delivery yet; and a delivery   *)
(* that began has a row that survives a restart, so that no later request  *)
(* gets past the insert.                                                   *)
(***************************************************************************)
OneSaver ==
  \A r \in EventRequests :
    request[r] = "saving" =>
      /\ EventId(r) \in stored
      /\ delivery[EventId(r)] = "none"
      /\ \A s \in EventRequests :
           request[s] = "saving" /\ EventId(s) = EventId(r) => s = r

DeliverySaved == \A e \in EventIds : delivery[e] # "none" => e \in saved

NotYetReceived ==
  \A e \in EventIds :
    /\ received[e] <= 1
    /\ delivery[e] \in {"none", "queued", "posting"} => received[e] = 0

Told ==
  /\ \A r \in EventRequests : request[r] = "202" => EventId(r) \in saved
  /\ \A e \in EventIds : received[e] > 0 \/ logged[e] # {} => delivery[e] # "none"

ServiceIInv ==
  /\ ServiceTypeOK
  /\ OneSaver
  /\ DeliverySaved
  /\ NotYetReceived
  /\ Told
  /\ SyncNotForgotten

LEMMA IdsOfRequests == \A r \in EventRequests : r \in Requests /\ EventId(r) \in EventIds
BY DEF Requests, EventIds

LEMMA ServiceInitInv == ServiceInit => ServiceIInv
<1> SUFFICES ASSUME ServiceInit  PROVE ServiceIInv
  OBVIOUS
<1> USE ServiceAssumption, IdsOfRequests DEF ServiceInit
<1>1. ServiceTypeOK
  <2>1. count \in Nat /\ runs \in 0 .. MaxRuns /\ received \in [EventIds -> 0 .. 2]
    OBVIOUS
  <2>2. timer \in BOOLEAN /\ configured \in BOOLEAN /\ snapshot \in BOOLEAN /\ unscheduled \in BOOLEAN
    BY Zenon
  <2>4. savedConfigured \in BOOLEAN /\ gone \subseteq Requests /\ edit \in [Edits -> {"idle", "put", "import"}]
    <3>1. savedConfigured \in BOOLEAN
      BY Zenon
    <3> QED
      BY <3>1
  <2>3. /\ request \in [Requests -> {"new", "dropped"} \cup Underway \cup Answers]
        /\ delivery \in [EventIds -> {"none", "queued", "posting", "accepted", "failed", "done"}]
        /\ logged \in [EventIds -> SUBSET {"ok", "failed"}]
    OBVIOUS
  <2> QED
    BY <2>1, <2>2, <2>3, <2>4 DEF ServiceTypeOK
<1>2. OneSaver /\ DeliverySaved /\ NotYetReceived
  BY DEF OneSaver, DeliverySaved, NotYetReceived
<1>3. Told /\ SyncNotForgotten
  BY DEF Told, SyncNotForgotten
<1> QED
  BY <1>1, <1>2, <1>3 DEF ServiceIInv

(***************************************************************************)
(* Types.                                                                  *)
(***************************************************************************)
LEMMA ServiceTypeStep ==
  ASSUME ServiceTypeOK, [ServiceNext]_serviceVars  PROVE ServiceTypeOK'
<1> USE ServiceAssumption DEF ServiceTypeOK
<1>0. /\ \A r \in EvaluateRequests \cup EventRequests : r \in Requests
      /\ \A r \in EventRequests : EventId(r) \in EventIds
  BY DEF Requests, EventIds
<1>1. \A r \in EvaluateRequests : BeginEvaluate(r) => ServiceTypeOK'
  BY DEF BeginEvaluate, Answer, Underway, limitVars, storeVars, deliveryVars, syncVars, scheduleVars
<1>2. \A r \in EvaluateRequests : EnforceEvaluate(r) => ServiceTypeOK'
  <2> SUFFICES ASSUME NEW r \in EvaluateRequests, EnforceEvaluate(r)  PROVE ServiceTypeOK'
    OBVIOUS
  <2>1. count' \in Nat
    BY DEF EnforceEvaluate, Check
  <2>2. request' = [request EXCEPT ![r] = "200"] \/ request' = [request EXCEPT ![r] = "429"]
    BY DEF EnforceEvaluate, Answer
  <2>3. request' \in [Requests -> {"new", "dropped"} \cup Underway \cup Answers]
    BY <2>2 DEF Answers
  <2> QED
    BY <2>1, <2>3 DEF EnforceEvaluate, storeVars, deliveryVars, syncVars, scheduleVars
<1>3. \A r \in EventRequests : BeginEvent(r) => ServiceTypeOK'
  BY DEF BeginEvent, Answer, Underway, storeVars, deliveryVars, syncVars, scheduleVars
<1>4. \A r \in EventRequests : EnforceEvent(r) => ServiceTypeOK'
  BY DEF EnforceEvent, Check, Allowed, storeVars, deliveryVars, syncVars, scheduleVars
<1>5. \A r \in EventRequests : StoreEvent(r) => ServiceTypeOK'
  BY <1>0 DEF StoreEvent, Answer, Answers, Underway, limitVars, storeVars, deliveryVars, syncVars, scheduleVars
<1>6. \A r \in EventRequests : SaveEvent(r) => ServiceTypeOK'
  <2> SUFFICES ASSUME NEW r \in EventRequests, SaveEvent(r)  PROVE ServiceTypeOK'
    OBVIOUS
  <2>1. savedConfigured' \in BOOLEAN
    BY Zenon DEF SaveEvent, SaveStore
  <2>2. saved' \subseteq stored /\ stored' = stored
    BY DEF SaveEvent, SaveStore
  <2>3. /\ request' \in [Requests -> {"new", "dropped"} \cup Underway \cup Answers]
        /\ delivery' \in [EventIds -> {"none", "queued", "posting", "accepted", "failed", "done"}]
    BY <1>0 DEF SaveEvent, Answer, Answers
  <2> QED
    BY <2>1, <2>2, <2>3 DEF SaveEvent, limitVars, scheduleVars
<1>7. \A e \in EventIds : StartDelivery(e) => ServiceTypeOK'
  BY DEF StartDelivery, LogRow, limitVars, storeVars, syncVars, scheduleVars
<1>8. \A e \in EventIds : PostDelivery(e) => ServiceTypeOK'
  BY DEF PostDelivery, limitVars, storeVars, syncVars, scheduleVars
<1>9. \A e \in EventIds : RecordDelivery(e) => ServiceTypeOK'
  BY DEF RecordDelivery, LogRow, limitVars, storeVars, syncVars, scheduleVars
<1>10. ASSUME NEW x \in Edits, NEW to \in BOOLEAN, UpdateSettings(x, to) \/ ImportSettings(x, to)
       PROVE  ServiceTypeOK'
  <2>1. PICK route \in {"put", "import"} : ChangeSettings(x, to, route)
    BY <1>10 DEF UpdateSettings, ImportSettings
  <2>2. configured' \in BOOLEAN /\ savedConfigured' \in BOOLEAN
    BY <2>1, Zenon DEF ChangeSettings
  <2>3. unscheduled' \in BOOLEAN
    BY <1>10, Zenon DEF UpdateSettings, ImportSettings
  <2>4. edit' \in [Edits -> {"idle", "put", "import"}]
    BY <2>1 DEF ChangeSettings
  <2> QED
    BY <2>1, <2>2, <2>3, <2>4 DEF ChangeSettings, limitVars, storeVars, deliveryVars
<1>17. ASSUME NEW x \in Edits, SaveSettings(x)  PROVE ServiceTypeOK'
  <2>1. savedConfigured' \in BOOLEAN /\ timer' \in BOOLEAN
    <3>1. savedConfigured' \in BOOLEAN
      BY <1>17, Zenon DEF SaveSettings, SaveStore
    <3>2. timer' = timer \/ timer' = configured
      BY <1>17 DEF SaveSettings, ScheduleSchemaSync
    <3> QED
      BY <3>1, <3>2, Zenon
  <2>2. unscheduled' \in BOOLEAN
    <3>1. unscheduled' \in {unscheduled, FALSE, (unscheduled \/ edit[x] = "put")}
      BY <1>17, Zenon DEF SaveSettings, ScheduleSchemaSync
    <3> QED
      BY <3>1, Zenon
  <2>3. saved' \subseteq stored /\ stored' = stored /\ edit' \in [Edits -> {"idle", "put", "import"}]
    BY <1>17 DEF SaveSettings, SaveStore
  <2> QED
    BY <1>17, <2>1, <2>2, <2>3 DEF SaveSettings, limitVars, deliveryVars
<1>18. ASSUME NEW r \in Requests, HangUp(r)  PROVE ServiceTypeOK'
  <2>1. gone' \subseteq Requests
    BY <1>18 DEF HangUp
  <2>2. request' \in [Requests -> {"new", "dropped"} \cup Underway \cup Answers]
    BY <1>18 DEF HangUp, Answer
  <2> QED
    BY <1>18, <2>1, <2>2 DEF HangUp, limitVars, storeVars, deliveryVars, syncVars, scheduleVars
<1>11. WindowEnds => ServiceTypeOK'
  BY DEF WindowEnds, storeVars, deliveryVars, syncVars, scheduleVars
<1>12. SchemaSyncTimerFires => ServiceTypeOK'
  <2> SUFFICES ASSUME SchemaSyncTimerFires  PROVE ServiceTypeOK'
    OBVIOUS
  <2>1. runs' \in 0 .. MaxRuns
    BY DEF SchemaSyncTimerFires
  <2>2. timer' \in BOOLEAN
    BY Zenon DEF SchemaSyncTimerFires
  <2> QED
    BY <2>1, <2>2 DEF SchemaSyncTimerFires, limitVars, storeVars, deliveryVars
<1>13. RunScheduledSchemaSync => ServiceTypeOK'
  <2> SUFFICES ASSUME RunScheduledSchemaSync  PROVE ServiceTypeOK'
    OBVIOUS
  <2>1. runs' \in 0 .. MaxRuns
    BY DEF RunScheduledSchemaSync
  <2>2. timer' \in BOOLEAN /\ unscheduled' \in BOOLEAN
    <3>1. (timer' = timer /\ unscheduled' = unscheduled) \/ (timer' = configured /\ unscheduled' = FALSE)
      BY DEF RunScheduledSchemaSync, ScheduleSchemaSync
    <3> QED
      BY <3>1, Zenon
  <2>4. savedConfigured' \in BOOLEAN /\ saved' \subseteq stored /\ stored' = stored
    <3>1. savedConfigured' \in BOOLEAN
      BY Zenon DEF RunScheduledSchemaSync, SaveStore
    <3> QED
      BY <3>1 DEF RunScheduledSchemaSync, SaveStore
  <2>3. process' \in {"up", "draining", "exited", "crashed"}
    BY DEF RunScheduledSchemaSync
  <2> QED
    BY <2>1, <2>2, <2>3, <2>4 DEF RunScheduledSchemaSync, limitVars, deliveryVars
<1>14. GracefulShutdown \/ Exit => ServiceTypeOK'
  BY DEF GracefulShutdown, Exit, limitVars, storeVars, deliveryVars, syncVars, scheduleVars
<1>15. Restart => ServiceTypeOK'
  <2> SUFFICES ASSUME Restart  PROVE ServiceTypeOK'
    OBVIOUS
  <2>1. request' \in [Requests -> {"new", "dropped"} \cup Underway \cup Answers]
    BY DEF Restart
  <2>2. delivery' \in [EventIds -> {"none", "queued", "posting", "accepted", "failed", "done"}]
    BY DEF Restart
  <2>5. configured' \in BOOLEAN /\ savedConfigured' \in BOOLEAN
    BY Zenon DEF Restart, SaveStore
  <2>3. timer' \in BOOLEAN /\ unscheduled' \in BOOLEAN
    BY <2>5, Zenon DEF Restart
  <2>6. saved' \subseteq stored' /\ stored' \subseteq EventIds
    BY DEF Restart, SaveStore
  <2>7. edit' \in [Edits -> {"idle", "put", "import"}] /\ gone' \subseteq Requests
    BY DEF Restart
  <2>4. count' \in Nat /\ runs' \in 0 .. MaxRuns
    BY DEF Restart
  <2> QED
    BY <2>1, <2>2, <2>3, <2>4, <2>5, <2>6, <2>7 DEF Restart
<1>16. UNCHANGED serviceVars => ServiceTypeOK'
  BY DEF serviceVars
<1> QED
  BY <1>1, <1>2, <1>3, <1>4, <1>5, <1>6, <1>7, <1>8, <1>9, <1>10, <1>11, <1>12, <1>13, <1>14, <1>15,
     <1>16, <1>17, <1>18
     DEF ServiceNext

(***************************************************************************)
(* Events and deliveries.                                                  *)
(***************************************************************************)
Delivered == OneSaver /\ DeliverySaved /\ NotYetReceived

\* A save only adds to what a restart finds, so that it disturbs nothing here.
LEMMA DeliveredKept ==
  ASSUME ServiceTypeOK, Delivered, UNCHANGED <<stored, delivery, received>>, saved \subseteq saved',
         \A r \in EventRequests : request'[r] = "saving" => request[r] = "saving"
  PROVE  Delivered'
BY IdsOfRequests DEF Delivered, OneSaver, DeliverySaved, NotYetReceived, ServiceTypeOK

LEMMA DeliveredStep ==
  ASSUME ServiceTypeOK, Delivered, [ServiceNext]_serviceVars  PROVE Delivered'
<1> USE IdsOfRequests
<1> DEFINE Quiet == /\ UNCHANGED <<stored, delivery, received>> /\ saved \subseteq saved'
                    /\ \A r \in EventRequests : request'[r] = "saving" => request[r] = "saving"
<1>1. ASSUME NEW r \in EvaluateRequests, BeginEvaluate(r) \/ EnforceEvaluate(r)  PROVE Quiet
  <2>1. r \in Requests /\ (Answer(r, "checking") \/ Answer(r, "200") \/ Answer(r, "429"))
    BY <1>1 DEF BeginEvaluate, EnforceEvaluate, Requests
  <2> QED
    BY <1>1, <2>1 DEF BeginEvaluate, EnforceEvaluate, Answer, ServiceTypeOK, storeVars, deliveryVars
<1>2. ASSUME NEW r \in EventRequests, BeginEvent(r) \/ EnforceEvent(r)  PROVE Quiet
  BY <1>2 DEF BeginEvent, EnforceEvent, Answer, ServiceTypeOK, storeVars, deliveryVars
<1>3. ASSUME NEW r \in EventRequests, StoreEvent(r)  PROVE Delivered'
  <2>1. CASE EventId(r) \in stored
    <3>1. Quiet
      BY <1>3, <2>1 DEF StoreEvent, Answer, ServiceTypeOK, storeVars, deliveryVars
    <3> QED
      BY <3>1, DeliveredKept
  <2>2. CASE EventId(r) \notin stored
    <3>1. /\ request' = [request EXCEPT ![r] = "saving"]
          /\ stored' = stored \cup {EventId(r)}
          /\ saved' = saved \/ saved' = stored'
          /\ UNCHANGED <<delivery, received>>
      BY <1>3, <2>2 DEF StoreEvent, Answer, deliveryVars
    <3>2. delivery[EventId(r)] = "none"
      BY <2>2 DEF Delivered, DeliverySaved, ServiceTypeOK
    <3>3. \A s \in EventRequests : request[s] = "saving" => EventId(s) # EventId(r)
      BY <2>2 DEF Delivered, OneSaver
    <3>4. \A s \in EventRequests : request'[s] = "saving" => s = r \/ request[s] = "saving"
      BY <3>1 DEF ServiceTypeOK
    <3>5. OneSaver'
      BY <3>1, <3>2, <3>3, <3>4 DEF Delivered, OneSaver
    <3>6. DeliverySaved' /\ NotYetReceived'
      BY <3>1 DEF Delivered, DeliverySaved, NotYetReceived, ServiceTypeOK
    <3> QED
      BY <3>5, <3>6 DEF Delivered
  <2> QED
    BY <2>1, <2>2
<1>4. ASSUME NEW r \in EventRequests, SaveEvent(r)  PROVE Delivered'
  <2>1. CASE UNCHANGED <<saved, delivery>>
    <3>1. request' = [request EXCEPT ![r] = "500"] \/ request' = [request EXCEPT ![r] = "202"]
      BY <1>4 DEF SaveEvent, Answer
    <3>2. Quiet
      BY <1>4, <2>1, <3>1 DEF SaveEvent, ServiceTypeOK
    <3> QED
      BY <3>2, DeliveredKept
  <2>2. CASE /\ request' = [request EXCEPT ![r] = "202"]
             /\ saved' = stored
             /\ delivery' = [delivery EXCEPT ![EventId(r)] = "queued"]
    <3>1. request[r] = "saving" /\ UNCHANGED <<stored, received>>
      BY <1>4 DEF SaveEvent
    <3>2. EventId(r) \in stored /\ delivery[EventId(r)] = "none"
      BY <3>1 DEF Delivered, OneSaver
    <3>3. \A s \in EventRequests :
            request'[s] = "saving" => request[s] = "saving" /\ EventId(s) # EventId(r)
      BY <2>2, <3>1 DEF Delivered, OneSaver, ServiceTypeOK
    <3>4. \A e \in EventIds : delivery'[e] = IF e = EventId(r) THEN "queued" ELSE delivery[e]
      BY <2>2 DEF ServiceTypeOK
    <3>5. OneSaver'
      BY <3>1, <3>3, <3>4 DEF Delivered, OneSaver
    <3>6. DeliverySaved'
      BY <2>2, <3>2, <3>4 DEF Delivered, DeliverySaved, ServiceTypeOK
    <3>7. NotYetReceived'
      BY <3>1, <3>2, <3>4 DEF Delivered, NotYetReceived
    <3> QED
      BY <3>5, <3>6, <3>7 DEF Delivered
  <2> QED
    BY <1>4, <2>1, <2>2 DEF SaveEvent, SaveStore, Answer
<1>5. ASSUME NEW e \in EventIds, StartDelivery(e) \/ PostDelivery(e) \/ RecordDelivery(e)
      PROVE  Delivered'
  <2>1. UNCHANGED <<request, stored, saved>> /\ delivery[e] # "none"
    BY <1>5 DEF StartDelivery, PostDelivery, RecordDelivery, storeVars
  <2>2. PICK next \in {"posting", "accepted", "failed", "done"} :
          delivery' = [delivery EXCEPT ![e] = next]
    BY <1>5 DEF StartDelivery, PostDelivery, RecordDelivery, LogRow
  <2>3. \A d \in EventIds : delivery'[d] = IF d = e THEN next ELSE delivery[d]
    BY <2>2 DEF ServiceTypeOK
  <2>4. OneSaver'
    BY <2>1, <2>3 DEF Delivered, OneSaver
  <2>5. DeliverySaved'
    BY <2>1, <2>3 DEF Delivered, DeliverySaved
  <2>6. NotYetReceived'
    <3>1. CASE StartDelivery(e) \/ RecordDelivery(e)
      <4>1. received' = received
        BY <3>1 DEF StartDelivery, RecordDelivery
      <4>2. next = "posting" => delivery[e] = "queued"
        <5>1. delivery'[e] = next
          BY <2>3
        <5> QED
          BY <3>1, <5>1, <2>3 DEF StartDelivery, RecordDelivery, LogRow, ServiceTypeOK
      <4> QED
        BY <4>1, <4>2, <2>3 DEF Delivered, NotYetReceived
    <3>2. CASE PostDelivery(e)
      <4>1. delivery[e] = "posting" /\ received[e] = 0
        BY <3>2 DEF PostDelivery, Delivered, NotYetReceived
      <4>2. received' = received \/ received' = [received EXCEPT ![e] = 1]
        BY <3>2, <4>1 DEF PostDelivery
      <4>3. \A d \in EventIds : received'[d] = received[d] \/ (d = e /\ received'[d] = 1)
        BY <4>2 DEF ServiceTypeOK
      <4>4. delivery'[e] \in {"accepted", "failed"}
        BY <3>2 DEF PostDelivery, ServiceTypeOK
      <4> QED
        BY <4>1, <4>3, <4>4, <2>3 DEF Delivered, NotYetReceived
    <3> QED
      BY <1>5, <3>1, <3>2
  <2> QED
    BY <2>4, <2>5, <2>6 DEF Delivered
<1>6. ASSUME \/ WindowEnds \/ SchemaSyncTimerFires \/ RunScheduledSchemaSync \/ GracefulShutdown \/ Exit
             \/ UNCHANGED serviceVars
      PROVE  Quiet
  BY <1>6 DEF WindowEnds, SchemaSyncTimerFires, RunScheduledSchemaSync, SaveStore, ServiceTypeOK,
              GracefulShutdown, Exit, storeVars, deliveryVars, serviceVars
<1>8. ASSUME NEW x \in Edits, NEW to \in BOOLEAN, UpdateSettings(x, to) \/ ImportSettings(x, to)
      PROVE  Quiet
  BY <1>8 DEF UpdateSettings, ImportSettings, ChangeSettings, storeVars, deliveryVars
<1>9. ASSUME NEW x \in Edits, SaveSettings(x)  PROVE Quiet
  BY <1>9 DEF SaveSettings, SaveStore, ServiceTypeOK, deliveryVars
<1>10. ASSUME NEW r \in Requests, HangUp(r)  PROVE Quiet
  BY <1>10 DEF HangUp, Answer, ServiceTypeOK, storeVars, deliveryVars
<1>7. ASSUME Restart  PROVE Delivered'
  <2>1. \A r \in EventRequests : request'[r] # "saving"
    BY <1>7 DEF Restart, Underway
  <2>2. \A e \in EventIds : delivery'[e] = IF delivery[e] = "none" THEN "none" ELSE "done"
    BY <1>7 DEF Restart
  <2>3. saved \subseteq saved' /\ received' = received
    BY <1>7 DEF Restart, SaveStore, ServiceTypeOK
  <2> QED
    BY <2>1, <2>2, <2>3 DEF Delivered, OneSaver, DeliverySaved, NotYetReceived
<1> QED
  BY <1>1, <1>2, <1>3, <1>4, <1>5, <1>6, <1>7, <1>8, <1>9, <1>10, DeliveredKept DEF ServiceNext

(***************************************************************************)
(* Syncs.                                                                  *)
(***************************************************************************)
LEMMA SyncStep ==
  ASSUME ServiceTypeOK, SyncNotForgotten, [ServiceNext]_serviceVars  PROVE SyncNotForgotten'
<1> USE DEF SyncNotForgotten
<1>1. ASSUME UNCHANGED scheduleVars, process' = "up" => process = "up"
      PROVE  SyncNotForgotten'
  BY <1>1 DEF scheduleVars
<1>2. ASSUME NEW r \in EvaluateRequests, BeginEvaluate(r) \/ EnforceEvaluate(r)
      PROVE  SyncNotForgotten'
  BY <1>1, <1>2 DEF BeginEvaluate, EnforceEvaluate, syncVars
<1>3. ASSUME NEW r \in EventRequests, BeginEvent(r) \/ EnforceEvent(r) \/ StoreEvent(r) \/ SaveEvent(r)
      PROVE  SyncNotForgotten'
  <2>1. UNCHANGED scheduleVars /\ (process' = process \/ process' = "crashed")
    BY <1>3 DEF BeginEvent, EnforceEvent, StoreEvent, SaveEvent, syncVars
  <2> QED
    BY <1>1, <2>1
<1>4. ASSUME NEW e \in EventIds, StartDelivery(e) \/ PostDelivery(e) \/ RecordDelivery(e)
      PROVE  SyncNotForgotten'
  BY <1>1, <1>4 DEF StartDelivery, PostDelivery, RecordDelivery, syncVars
<1>5. ASSUME NEW x \in Edits, NEW to \in BOOLEAN, UpdateSettings(x, to)  PROVE SyncNotForgotten'
  <2>1. edit'[x] = "put"
    BY <1>5 DEF UpdateSettings, ChangeSettings, ServiceTypeOK
  <2> QED
    BY <2>1
<1>6. ASSUME NEW x \in Edits, NEW to \in BOOLEAN, ImportSettings(x, to)  PROVE SyncNotForgotten'
  <2>1. /\ UNCHANGED <<process, timer, runs>>
        /\ configured' = to
        /\ unscheduled' = (unscheduled \/ (to /\ ~ configured))
        /\ edit[x] = "idle" /\ edit' = [edit EXCEPT ![x] = "import"]
    BY <1>6 DEF ImportSettings, ChangeSettings
  <2>2. \A y \in Edits : edit[y] = "put" => edit'[y] = "put"
    BY <2>1 DEF ServiceTypeOK
  <2> QED
    BY <2>1, <2>2
<1>7. ASSUME NEW x \in Edits, SaveSettings(x)  PROVE SyncNotForgotten'
  <2>1. /\ UNCHANGED <<process, configured, runs>>
        /\ edit' = [edit EXCEPT ![x] = "idle"]
    BY <1>7 DEF SaveSettings
  <2>2. CASE edit[x] = "put"
    <3>1. timer' = configured \/ (unscheduled' = (unscheduled \/ edit[x] = "put"))
      BY <1>7, <2>2 DEF SaveSettings, ScheduleSchemaSync
    <3> QED
      BY <2>1, <2>2, <3>1
  <2>3. CASE edit[x] # "put"
    <3>1. timer' = timer /\ (unscheduled => unscheduled')
      BY <1>7, <2>3 DEF SaveSettings
    <3>2. \A y \in Edits : edit[y] = "put" => edit'[y] = "put"
      BY <2>1, <2>3 DEF ServiceTypeOK
    <3> QED
      BY <2>1, <3>1, <3>2
  <2> QED
    BY <2>2, <2>3
<1>8. ASSUME WindowEnds \/ GracefulShutdown \/ Exit \/ UNCHANGED serviceVars
      PROVE  SyncNotForgotten'
  BY <1>8 DEF WindowEnds, GracefulShutdown, Exit, syncVars, scheduleVars, serviceVars
<1>9. ASSUME SchemaSyncTimerFires  PROVE SyncNotForgotten'
  BY <1>9 DEF SchemaSyncTimerFires, ServiceTypeOK
<1>10. ASSUME RunScheduledSchemaSync \/ Restart  PROVE SyncNotForgotten'
  <2>1. process' = "crashed" \/ timer' = configured'
    BY <1>10, Zenon DEF RunScheduledSchemaSync, ScheduleSchemaSync, Restart
  <2> QED
    BY <2>1, Zenon
<1>11. ASSUME NEW r \in Requests, HangUp(r)  PROVE SyncNotForgotten'
  BY <1>1, <1>11 DEF HangUp, syncVars
<1> QED
  BY <1>2, <1>3, <1>4, <1>5, <1>6, <1>7, <1>8, <1>9, <1>10, <1>11 DEF ServiceNext

(***************************************************************************)
(* A 202 comes after a save of a store that has the event, a delivery      *)
(* after the 202, and no restart finds less than was saved.                *)
(***************************************************************************)
LEMMA ToldStep ==
  ASSUME ServiceTypeOK, Delivered, Told, [ServiceNext]_serviceVars  PROVE Told'
<1> USE IdsOfRequests
<1>1. ASSUME saved \subseteq saved', UNCHANGED deliveryVars,
             \A r \in EventRequests : request'[r] = "202" => request[r] = "202"
      PROVE  Told'
  BY <1>1 DEF Told, deliveryVars
<1>2. ASSUME NEW r \in EvaluateRequests, BeginEvaluate(r) \/ EnforceEvaluate(r)  PROVE Told'
  <2>1. r \in Requests /\ (Answer(r, "checking") \/ Answer(r, "200") \/ Answer(r, "429"))
    BY <1>2 DEF BeginEvaluate, EnforceEvaluate, Requests
  <2> QED
    BY <1>1, <1>2, <2>1 DEF BeginEvaluate, EnforceEvaluate, Answer, ServiceTypeOK, storeVars
<1>3. ASSUME NEW r \in EventRequests, BeginEvent(r) \/ EnforceEvent(r) \/ StoreEvent(r)  PROVE Told'
  <2>1. saved \subseteq saved' /\ UNCHANGED deliveryVars
    BY <1>3 DEF BeginEvent, EnforceEvent, StoreEvent, storeVars, ServiceTypeOK
  <2>2. \/ request' = request
        \/ Answer(r, "handling") \/ Answer(r, "200") \/ Answer(r, "saving")
    BY <1>3 DEF BeginEvent, EnforceEvent, StoreEvent
  <2> QED
    BY <1>1, <2>1, <2>2 DEF Answer, ServiceTypeOK
<1>4. ASSUME NEW r \in EventRequests, SaveEvent(r)  PROVE Told'
  <2>1. EventId(r) \in stored /\ saved \subseteq saved' /\ UNCHANGED <<received, logged>>
    BY <1>4 DEF SaveEvent, SaveStore, Delivered, OneSaver, ServiceTypeOK
  <2>2. \A e \in EventIds : delivery[e] # "none" => delivery'[e] # "none"
    BY <1>4 DEF SaveEvent, ServiceTypeOK
  <2>3. (Answer(r, "202") /\ EventId(r) \in saved') \/ Answer(r, "500")
    BY <1>4, <2>1 DEF SaveEvent, SaveStore
  <2> QED
    BY <2>1, <2>2, <2>3 DEF Told, Answer, ServiceTypeOK
<1>5. ASSUME NEW e \in EventIds, StartDelivery(e) \/ PostDelivery(e) \/ RecordDelivery(e)
      PROVE  Told'
  <2>1. UNCHANGED <<request, saved>>
    BY <1>5 DEF StartDelivery, PostDelivery, RecordDelivery, storeVars
  <2>2. PICK next \in {"posting", "accepted", "failed", "done"} :
          delivery' = [delivery EXCEPT ![e] = next]
    BY <1>5 DEF StartDelivery, PostDelivery, RecordDelivery, LogRow
  <2>3. \A d \in EventIds : delivery'[d] = IF d = e THEN next ELSE delivery[d]
    BY <2>2 DEF ServiceTypeOK
  <2>4. \A d \in EventIds : d # e => received'[d] = received[d] /\ logged'[d] = logged[d]
    BY <1>5 DEF StartDelivery, PostDelivery, RecordDelivery, LogRow, ServiceTypeOK
  <2> QED
    BY <2>1, <2>3, <2>4 DEF Told
<1>6. ASSUME \/ WindowEnds \/ SchemaSyncTimerFires \/ RunScheduledSchemaSync \/ GracefulShutdown \/ Exit
             \/ UNCHANGED serviceVars
      PROVE  Told'
  BY <1>1, <1>6 DEF WindowEnds, SchemaSyncTimerFires, RunScheduledSchemaSync, SaveStore, ServiceTypeOK,
              GracefulShutdown, Exit, storeVars, deliveryVars, serviceVars
<1>7. ASSUME NEW x \in Edits, NEW to \in BOOLEAN, UpdateSettings(x, to) \/ ImportSettings(x, to)
      PROVE  Told'
  BY <1>1, <1>7 DEF UpdateSettings, ImportSettings, ChangeSettings, storeVars
<1>8. ASSUME NEW x \in Edits, SaveSettings(x)  PROVE Told'
  BY <1>1, <1>8 DEF SaveSettings, SaveStore, ServiceTypeOK
<1>9. ASSUME NEW r \in Requests, HangUp(r)  PROVE Told'
  BY <1>1, <1>9 DEF HangUp, Answer, ServiceTypeOK, storeVars
<1>10. ASSUME Restart  PROVE Told'
  <2>1. saved \subseteq saved' /\ UNCHANGED <<received, logged>>
    BY <1>10 DEF Restart, SaveStore, ServiceTypeOK
  <2>2. \A e \in EventIds : delivery[e] # "none" => delivery'[e] # "none"
    BY <1>10 DEF Restart
  <2>3. \A r \in EventRequests : request'[r] = "202" => request[r] = "202"
    BY <1>10 DEF Restart
  <2> QED
    BY <2>1, <2>2, <2>3 DEF Told
<1> QED
  BY <1>2, <1>3, <1>4, <1>5, <1>6, <1>7, <1>8, <1>9, <1>10 DEF ServiceNext

THEOREM ServiceInductive == ServiceSpec => []ServiceIInv
<1>1. ServiceIInv /\ [ServiceNext]_serviceVars => ServiceIInv'
  BY ServiceTypeStep, DeliveredStep, SyncStep, ToldStep DEF ServiceIInv, Delivered
<1> QED
  BY ServiceInitInv, <1>1, PTL DEF ServiceSpec

(***************************************************************************)
(* Requests, deliveries and timers, in any order and over any number of    *)
(* restarts, keep the types; and what a restart finds was stored before.   *)
(***************************************************************************)
THEOREM ServiceTypeCorrect == ServiceSpec => []ServiceTypeOK
<1>1. ServiceIInv => ServiceTypeOK
  BY DEF ServiceIInv
<1> QED
  BY ServiceInductive, <1>1, PTL

(***************************************************************************)
(* The event route hands a survey response to deliverClientEventFeedback   *)
(* at most once for one event_id, whatever retries, failed saves, crashes  *)
(* and restarts there are, and a delivery posts once.                      *)
(***************************************************************************)
THEOREM DeliverySafe == ServiceSpec => []DeliveredAtMostOnce
<1>1. ServiceIInv => DeliveredAtMostOnce
  BY DEF ServiceIInv, NotYetReceived, DeliveredAtMostOnce
<1> QED
  BY ServiceInductive, <1>1, PTL

(***************************************************************************)
(* scheduleSchemaSync is called by every way out of a sync that leaves the *)
(* process running and by every saved edit, so edits, imports, failures    *)
(* and overlapping runs forget no sync that was scheduled.                 *)
(***************************************************************************)
THEOREM SyncSafe == ServiceSpec => []SyncNotForgotten
<1>1. ServiceIInv => SyncNotForgotten
  BY DEF ServiceIInv
<1> QED
  BY ServiceInductive, <1>1, PTL

(***************************************************************************)
(* What the event route answered with 202, what the collector has and what *)
(* the delivery log names survives failed saves, clients that hang up,     *)
(* shutdowns that do not wait for their handlers, crashes and restarts.    *)
(***************************************************************************)
THEOREM ToldSafe == ServiceSpec => []ToldIsKept
<1>1. ServiceIInv => ToldIsKept
  BY IdsOfRequests DEF ServiceIInv, Told, DeliverySaved, ToldIsKept
<1> QED
  BY ServiceInductive, <1>1, PTL

-----------------------------------------------------------------------------
(***************************************************************************)
(* OncePerWindow is not inductive: the ledger that refuses a second display *)
(* is written after the display.  Between the two it is the evaluation     *)
(* itself that keeps others away, because whoever passes the check of the  *)
(* ledger beside it counts as racing.                                      *)
(***************************************************************************)
(* What bounds the handlers of one client. *)
HandlersCounted ==
  \A g \in SdkClients : /\ listeners[g] + waiting[g] <= inits[g]
                        /\ due[g] + waiting[g] <= inits[g] + 1

(* The delivery policy that a window is about. *)
Limited == settings.mode # "always" /\ settings.storage

Deciders(v) == \A c, d \in Deciding(v) : c = d
Reporting(v) == \E c \in Calls : call[c].phase = "reporting" /\ call[c].version = v
Unrendered(v) == \A c \in Calls : call[c].phase = "rendering" /\ call[c].version = v => renders[v] = 0

(***************************************************************************)
(* A version that no evaluations raced for: at most one of them is past    *)
(* the check of the ledger, it renders for the first time, and until the   *)
(* display is recorded it is still on its way to do so.                    *)
(***************************************************************************)
Orderly(v) ==
  v \notin raced =>
    /\ Deciders(v)
    /\ renders[v] <= 1
    /\ Unrendered(v)
    /\ renders[v] # 0 /\ v \notin ledger => Reporting(v)

PInv ==
  /\ PlacementTypeOK
  /\ HandlersCounted
  /\ Limited => \A v \in Versions : Orderly(v)

-----------------------------------------------------------------------------
LEMMA PlacementInitInv == PlacementInit => PInv
<1> SUFFICES ASSUME PlacementInit PROVE PInv
  OBVIOUS
<1>1. 1 \in SdkClients /\ 1 \in Versions /\ 0 \in 0 .. MaxInits /\ 0 \in 0 .. 2 * MaxInits
      /\ 0 \in 0 .. MaxClients
  BY BoundsAssumption DEF SdkClients, Versions
<1>2. NoCall \in CallType
  BY <1>1 DEF NoCall, CallType
<1>3. PlacementTypeOK
  <2>1. settings \in Settings
    BY ConfigurationsAssumption DEF PlacementInit
  <2>2. /\ inits \in [SdkClients -> 0 .. MaxInits] /\ listeners \in [SdkClients -> 0 .. MaxInits]
        /\ waiting \in [SdkClients -> 0 .. MaxInits] /\ due \in [SdkClients -> 0 .. 2 * MaxInits]
        /\ call \in [Calls -> CallType] /\ renders \in [Versions -> 0 .. 2]
    BY <1>1, <1>2 DEF PlacementInit
  <2>3. /\ client \in 0 .. MaxClients /\ wired \in 0 .. MaxClients /\ ready \in BOOLEAN
        /\ version \in Versions /\ shown \in BOOLEAN /\ decided \subseteq SdkClients
        /\ ledger \subseteq Versions /\ raced \subseteq Versions
    BY <1>1 DEF PlacementInit
  <2> QED
    BY <2>1, <2>2, <2>3 DEF PlacementTypeOK
<1>4. HandlersCounted
  BY DEF PlacementInit, HandlersCounted
<1>5. ASSUME NEW v \in Versions PROVE Orderly(v)
  <2>1. \A c \in Calls : call[c].phase = "idle"
    BY DEF PlacementInit, NoCall
  <2>2. renders[v] = 0
    BY DEF PlacementInit
  <2> QED
    BY <2>1, <2>2 DEF Orderly, Deciders, Deciding, Unrendered
<1> QED
  BY <1>3, <1>4, <1>5 DEF PInv

(***************************************************************************)
(* A step that changes neither the evaluations nor the ledger leaves the   *)
(* versions orderly.                                                       *)
(***************************************************************************)
LEMMA OrderlyKept ==
  ASSUME PInv, UNCHANGED <<settings, call, ledger, renders, raced>>
  PROVE  Limited' => \A v \in Versions : Orderly(v)'
<1>1. Limited' = Limited
  BY DEF Limited
<1>2. \A v \in Versions : Orderly(v)' <=> Orderly(v)
  BY DEF Orderly, Deciders, Deciding, Unrendered, Reporting
<1> QED
  BY <1>1, <1>2 DEF PInv

(***************************************************************************)
(* An evaluation that is not past the check of the ledger, before or       *)
(* after, leaves the versions orderly.                                     *)
(***************************************************************************)
LEMMA OutsideKept ==
  ASSUME PInv, NEW c \in Calls, NEW t, call' = [call EXCEPT ![c] = t],
         call[c].phase \notin {"rendering", "reporting"},
         t.phase \notin {"rendering", "reporting"},
         UNCHANGED <<settings, ledger, renders, raced>>
  PROVE  Limited' => \A v \in Versions : Orderly(v)'
<1>1. \A d \in Calls : call'[d] = IF d = c THEN t ELSE call[d]
  BY DEF PInv, PlacementTypeOK
<1>2. ASSUME NEW v \in Versions PROVE Orderly(v)' <=> Orderly(v)
  <2>1. Deciding(v)' = Deciding(v)
    BY <1>1 DEF Deciding
  <2>2. Reporting(v)' <=> Reporting(v)
    BY <1>1 DEF Reporting
  <2>3. Unrendered(v)' <=> Unrendered(v)
    BY <1>1 DEF Unrendered
  <2> QED
    BY <2>1, <2>2, <2>3 DEF Orderly, Deciders
<1> QED
  BY <1>2 DEF PInv, Limited

(* The steps of the page, which no evaluation takes part in. *)
LEMMA PageTypes ==
  ASSUME PInv, UNCHANGED <<settings, call, version, shown, decided, ledger, renders, raced>>,
         \/ createClient
         \/ \E g \in SdkClients : init(g) \/ destroy(g) \/ EvaluateByHand(g)
         \/ onDomReady \/ TriggerEvent
  PROVE  PlacementTypeOK' /\ HandlersCounted'
<1> USE BoundsAssumption
<1>0. PlacementTypeOK /\ HandlersCounted
  BY DEF PInv
<1>1. /\ client \in 0 .. MaxClients /\ wired \in 0 .. MaxClients
      /\ inits \in [SdkClients -> 0 .. MaxInits]
      /\ listeners \in [SdkClients -> 0 .. MaxInits] /\ waiting \in [SdkClients -> 0 .. MaxInits]
      /\ due \in [SdkClients -> 0 .. 2 * MaxInits]
      /\ ready \in BOOLEAN
      /\ MaxInits \in Nat /\ MaxClients \in Nat
  BY <1>0 DEF PlacementTypeOK
<1> SUFFICES /\ client' \in 0 .. MaxClients /\ wired' \in 0 .. MaxClients
             /\ inits' \in [SdkClients -> 0 .. MaxInits]
             /\ listeners' \in [SdkClients -> 0 .. MaxInits]
             /\ waiting' \in [SdkClients -> 0 .. MaxInits]
             /\ due' \in [SdkClients -> 0 .. 2 * MaxInits]
             /\ ready' \in BOOLEAN
             /\ HandlersCounted'
  BY <1>0 DEF PlacementTypeOK
<1>2. CASE createClient
  BY <1>0, <1>1, <1>2 DEF createClient, HandlersCounted
<1>3. ASSUME NEW g \in SdkClients, init(g)
      PROVE  /\ client' \in 0 .. MaxClients /\ wired' \in 0 .. MaxClients
             /\ inits' \in [SdkClients -> 0 .. MaxInits]
             /\ listeners' \in [SdkClients -> 0 .. MaxInits]
             /\ waiting' \in [SdkClients -> 0 .. MaxInits]
             /\ due' \in [SdkClients -> 0 .. 2 * MaxInits]
             /\ ready' \in BOOLEAN
             /\ HandlersCounted'
  <2>1. /\ inits[g] < MaxInits /\ inits' = [inits EXCEPT ![g] = inits[g] + 1]
        /\ client' = client /\ ready' = ready /\ wired' \in {g, wired}
        /\ \/ due' = [due EXCEPT ![g] = due[g] + 1] /\ listeners' = listeners /\ waiting' = waiting
           \/ waiting' = [waiting EXCEPT ![g] = waiting[g] + 1] /\ listeners' = listeners /\ due' = due
           \/ /\ listeners' = [listeners EXCEPT ![g] = listeners[g] + 1]
              /\ due' = due \/ due' = [due EXCEPT ![g] = due[g] + 1]
              /\ waiting' = waiting
           \/ listeners' = listeners /\ waiting' = waiting /\ due' = due
    BY <1>3 DEF init
  <2>2. ASSUME NEW h \in SdkClients
        PROVE  /\ inits[h] \in Nat /\ listeners[h] \in Nat /\ waiting[h] \in Nat /\ due[h] \in Nat
               /\ listeners[h] + waiting[h] <= inits[h] /\ due[h] + waiting[h] <= inits[h] + 1
               /\ inits[h] <= MaxInits
    BY <1>0, <1>1 DEF HandlersCounted
  <2>3. ASSUME NEW h \in SdkClients
        PROVE  /\ listeners'[h] + waiting'[h] <= inits'[h]
               /\ due'[h] + waiting'[h] <= inits'[h] + 1
               /\ inits'[h] \in 0 .. MaxInits /\ listeners'[h] \in 0 .. MaxInits
               /\ waiting'[h] \in 0 .. MaxInits /\ due'[h] \in 0 .. 2 * MaxInits
    <3>1. CASE h = g
      BY <1>1, <2>1, <2>2, <3>1
    <3>2. CASE h # g
      BY <1>1, <2>1, <2>2, <3>2
    <3> QED
      BY <3>1, <3>2
  <2>4. /\ inits' = [h \in SdkClients |-> inits'[h]] /\ listeners' = [h \in SdkClients |-> listeners'[h]]
        /\ waiting' = [h \in SdkClients |-> waiting'[h]] /\ due' = [h \in SdkClients |-> due'[h]]
    BY <1>1, <2>1
  <2>5. wired' \in 0 .. MaxClients
    <3>1. g \in 0 .. MaxClients
      BY BoundsAssumption DEF SdkClients
    <3>2. wired' = g \/ wired' = wired
      BY <2>1
    <3>3. wired \in 0 .. MaxClients
      BY <1>1
    <3> QED
      BY <3>1, <3>2, <3>3
  <2>6. inits' \in [SdkClients -> 0 .. MaxInits] /\ listeners' \in [SdkClients -> 0 .. MaxInits]
    BY <2>3, <2>4
  <2>7. waiting' \in [SdkClients -> 0 .. MaxInits] /\ due' \in [SdkClients -> 0 .. 2 * MaxInits]
    BY <2>3, <2>4
  <2>8. HandlersCounted'
    BY <2>3 DEF HandlersCounted
  <2> QED
    BY <1>1, <2>1, <2>5, <2>6, <2>7, <2>8
<1>4. ASSUME NEW g \in SdkClients, destroy(g)
      PROVE  /\ client' \in 0 .. MaxClients /\ wired' \in 0 .. MaxClients
             /\ inits' \in [SdkClients -> 0 .. MaxInits]
             /\ listeners' \in [SdkClients -> 0 .. MaxInits]
             /\ waiting' \in [SdkClients -> 0 .. MaxInits]
             /\ due' \in [SdkClients -> 0 .. 2 * MaxInits]
             /\ ready' \in BOOLEAN
             /\ HandlersCounted'
  BY <1>0, <1>1, <1>4 DEF destroy, HandlersCounted
<1>5. ASSUME NEW g \in SdkClients, EvaluateByHand(g)
      PROVE  /\ client' \in 0 .. MaxClients /\ wired' \in 0 .. MaxClients
             /\ inits' \in [SdkClients -> 0 .. MaxInits]
             /\ listeners' \in [SdkClients -> 0 .. MaxInits]
             /\ waiting' \in [SdkClients -> 0 .. MaxInits]
             /\ due' \in [SdkClients -> 0 .. 2 * MaxInits]
             /\ ready' \in BOOLEAN
             /\ HandlersCounted'
  BY <1>0, <1>1, <1>5 DEF EvaluateByHand, HandlersCounted
<1>6. CASE onDomReady
  BY <1>0, <1>1, <1>6 DEF onDomReady, HandlersCounted
<1>7. CASE TriggerEvent
  BY <1>0, <1>1, <1>7 DEF TriggerEvent, HandlersCounted
<1> QED
  BY <1>2, <1>3, <1>4, <1>5, <1>6, <1>7

-----------------------------------------------------------------------------
(* An evaluation that changes its phase keeps the types of the page. *)
LEMMA CallTypes ==
  ASSUME PInv, NEW c \in Calls, NEW t \in CallType, call' = [call EXCEPT ![c] = t],
         UNCHANGED <<settings, pageVars, version>>,
         shown' \in BOOLEAN, decided' \subseteq SdkClients, ledger' \subseteq Versions,
         raced' \subseteq Versions, renders' \in [Versions -> 0 .. 2]
  PROVE  PlacementTypeOK' /\ HandlersCounted'
<1>1. call' \in [Calls -> CallType]
  BY DEF PInv, PlacementTypeOK
<1>2. PlacementTypeOK'
  BY <1>1 DEF PInv, PlacementTypeOK, pageVars
<1>3. HandlersCounted'
  BY DEF PInv, HandlersCounted, pageVars
<1> QED
  BY <1>2, <1>3

LEMMA IdleType == NoCall \in CallType /\ NoCall.phase = "idle"
<1>1. 1 \in SdkClients /\ 1 \in Versions
  BY BoundsAssumption DEF SdkClients, Versions
<1> QED
  BY <1>1 DEF NoCall, CallType

(***************************************************************************)
(* An answer goes on to the renderer only when the ledger lacks its        *)
(* version; nobody else being on the way with it, it was not rendered yet. *)
(***************************************************************************)
LEMMA PostInv ==
  ASSUME PInv, NEW c \in Calls, PostReturns(c)
  PROVE  PInv'
<1>1. /\ call \in [Calls -> CallType] /\ version \in Versions /\ raced \subseteq Versions
      /\ call[c] \in CallType /\ decided \subseteq SdkClients
  BY DEF PInv, PlacementTypeOK
<1>2. /\ call[c].phase = "posting"
      /\ UNCHANGED <<settings, pageVars, version, shown, ledger, renders>>
  BY DEF PostReturns
<1>3. PlacementTypeOK
  BY DEF PInv
<1>4. CASE /\ decided' = decided \cup {call[c].client} /\ call' = [call EXCEPT ![c] = NoCall]
           /\ UNCHANGED raced
  <2>1. decided' \subseteq SdkClients
    BY <1>1, <1>4 DEF CallType
  <2>2. PlacementTypeOK' /\ HandlersCounted'
    BY <1>2, <1>3, <1>4, <2>1, IdleType, CallTypes DEF PlacementTypeOK
  <2> QED
    BY <1>2, <1>4, <2>2, IdleType, OutsideKept DEF PInv
<1>5. CASE call' = [call EXCEPT ![c].phase = "threw"] /\ UNCHANGED <<decided, raced>>
  <2> DEFINE t == [call[c] EXCEPT !.phase = "threw"]
  <2>1. t \in CallType /\ t.phase = "threw" /\ call' = [call EXCEPT ![c] = t]
    BY <1>1, <1>5 DEF CallType
  <2> HIDE DEF t
  <2>2. PlacementTypeOK' /\ HandlersCounted'
    BY <1>2, <1>3, <1>5, <2>1, CallTypes DEF PlacementTypeOK
  <2> QED
    BY <1>2, <1>5, <2>1, <2>2, OutsideKept DEF PInv
<1>6. CASE /\ ~displayRecorded(version)
           /\ call' = [call EXCEPT ![c].phase = "rendering", ![c].version = version]
           /\ raced' = IF Deciding(version) # {} THEN raced \cup {version} ELSE raced
           /\ UNCHANGED decided
  <2> DEFINE t == [call[c] EXCEPT !.phase = "rendering", !.version = version]
  <2>1. /\ t \in CallType /\ t.phase = "rendering" /\ t.version = version
        /\ call' = [call EXCEPT ![c] = t]
    BY <1>1, <1>6 DEF CallType
  <2> HIDE DEF t
  <2>2. PlacementTypeOK' /\ HandlersCounted'
    <3>1. raced' \subseteq Versions
      BY <1>1, <1>6
    <3>2. shown' \in BOOLEAN /\ decided' \subseteq SdkClients /\ ledger' \subseteq Versions
          /\ renders' \in [Versions -> 0 .. 2]
      BY <1>2, <1>3, <1>6 DEF PlacementTypeOK
    <3> QED
      BY <1>2, <2>1, <3>1, <3>2, CallTypes
  <2>3. \A d \in Calls : call'[d] = IF d = c THEN t ELSE call[d]
    BY <1>1, <2>1
  <2>4. ASSUME Limited, NEW v \in Versions, v \notin raced'
        PROVE  Deciders(v)' /\ renders'[v] <= 1 /\ Unrendered(v)'
               /\ (renders'[v] # 0 /\ v \notin ledger' => Reporting(v)')
    <3>1. v \notin raced /\ Orderly(v)
      BY <1>6, <2>4 DEF PInv
    <3>2. Deciders(v) /\ renders[v] <= 1 /\ Unrendered(v)
          /\ (renders[v] # 0 /\ v \notin ledger => Reporting(v))
      BY <3>1 DEF Orderly
    <3>3. Reporting(v) => Reporting(v)'
      BY <1>2, <2>3 DEF Reporting
    <3>4. CASE v # version
      <4>1. Deciding(v)' = Deciding(v)
        BY <1>2, <2>1, <2>3, <3>4 DEF Deciding
      <4>2. Unrendered(v)'
        BY <1>2, <2>1, <2>3, <3>2, <3>4 DEF Unrendered
      <4> QED
        BY <1>2, <3>2, <3>3, <4>1, <4>2 DEF Deciders
    <3>5. CASE v = version
      <4>1. Deciding(v) = {} /\ v \notin ledger
        BY <1>6, <2>4, <3>5 DEF displayRecorded, Limited
      <4>2. ~Reporting(v)
        BY <4>1 DEF Reporting, Deciding
      <4>3. renders[v] = 0
        BY <3>2, <4>1, <4>2
      <4>4. Deciding(v)' = {c}
        BY <2>1, <2>3, <3>5, <4>1 DEF Deciding
      <4>5. Unrendered(v)'
        BY <1>2, <4>3 DEF Unrendered
      <4> QED
        BY <1>2, <4>3, <4>4, <4>5 DEF Deciders
    <3> QED
      BY <3>4, <3>5
  <2>5. Limited' => Limited
    BY <1>2 DEF Limited
  <2> QED
    BY <2>2, <2>4, <2>5 DEF PInv, Orderly
<1> QED
  BY <1>4, <1>5, <1>6 DEF PostReturns

(* The one evaluation past the check renders the version for the first time. *)
LEMMA RenderInv ==
  ASSUME PInv, NEW c \in Calls, RenderEnds(c)
  PROVE  PInv'
<1>1. /\ call \in [Calls -> CallType] /\ call[c] \in CallType /\ decided \subseteq SdkClients
      /\ renders \in [Versions -> 0 .. 2] /\ PlacementTypeOK
  BY DEF PInv, PlacementTypeOK
<1>2. /\ call[c].phase = "rendering" /\ decided' = decided \cup {call[c].client}
      /\ UNCHANGED <<settings, pageVars, version, ledger, raced>>
  BY DEF RenderEnds
<1>3. decided' \subseteq SdkClients
  BY <1>1, <1>2 DEF CallType
<1> DEFINE w == call[c].version
<1>4. w \in Versions
  BY <1>1 DEF CallType
<1>5. Limited' => Limited
  BY <1>2 DEF Limited
<1>6. ASSUME Limited, w \notin raced
      PROVE  /\ \A d \in Calls : call[d].phase \in {"rendering", "reporting"} /\ call[d].version = w => d = c
             /\ renders[w] = 0
  <2>1. Deciders(w) /\ Unrendered(w)
    BY <1>4, <1>6 DEF PInv, Orderly
  <2> QED
    BY <1>2, <2>1 DEF Deciders, Deciding, Unrendered
<1>7. CASE /\ shown' = TRUE
           /\ renders' = [renders EXCEPT ![w] = IF renders[w] < 2 THEN renders[w] + 1 ELSE 2]
           /\ call' = [call EXCEPT ![c].phase = "reporting"]
  <2> DEFINE t == [call[c] EXCEPT !.phase = "reporting"]
  <2>1. t \in CallType /\ t.phase = "reporting" /\ t.version = w /\ call' = [call EXCEPT ![c] = t]
    BY <1>1, <1>7 DEF CallType
  <2> HIDE DEF t
  <2>2. renders' \in [Versions -> 0 .. 2]
    <3>1. renders[w] \in 0 .. 2
      BY <1>1, <1>4
    <3>2. (IF renders[w] < 2 THEN renders[w] + 1 ELSE 2) \in 0 .. 2
      BY <3>1
    <3> QED
      BY <1>1, <1>7, <3>2
  <2>3. PlacementTypeOK' /\ HandlersCounted'
    <3>1. shown' \in BOOLEAN /\ ledger' \subseteq Versions /\ raced' \subseteq Versions
      BY <1>1, <1>2, <1>7 DEF PlacementTypeOK
    <3> QED
      BY <1>2, <1>3, <2>1, <2>2, <3>1, CallTypes
  <2>4. \A d \in Calls : call'[d] = IF d = c THEN t ELSE call[d]
    BY <1>1, <2>1
  <2>5. ASSUME Limited, NEW v \in Versions, v \notin raced'
        PROVE  Deciders(v)' /\ renders'[v] <= 1 /\ Unrendered(v)'
               /\ (renders'[v] # 0 /\ v \notin ledger' => Reporting(v)')
    <3>1. v \notin raced /\ Deciders(v) /\ renders[v] <= 1 /\ Unrendered(v)
          /\ (renders[v] # 0 /\ v \notin ledger => Reporting(v))
      BY <1>2, <2>5 DEF PInv, Orderly
    <3>2. Deciding(v)' = Deciding(v)
      BY <1>2, <2>1, <2>4 DEF Deciding
    <3>3. CASE v = w
      <4>1. renders'[v] = 1
        <5>1. renders[w] = 0
          BY <1>6, <2>5, <3>1, <3>3
        <5> QED
          BY <1>1, <1>4, <1>7, <3>3, <5>1
      <4>2. Reporting(v)'
        BY <2>1, <2>4, <3>3 DEF Reporting
      <4>3. Unrendered(v)'
        BY <1>6, <2>1, <2>4, <3>1, <3>3, <2>5 DEF Unrendered
      <4> QED
        BY <3>1, <3>2, <4>1, <4>2, <4>3 DEF Deciders
    <3>4. CASE v # w
      <4>1. renders'[v] = renders[v]
        BY <1>1, <1>7, <3>4
      <4>2. Reporting(v) => Reporting(v)'
        BY <2>4, <3>4 DEF Reporting
      <4>3. Unrendered(v)'
        BY <2>1, <2>4, <3>1, <3>4, <4>1 DEF Unrendered
      <4> QED
        BY <1>2, <3>1, <3>2, <4>1, <4>2, <4>3 DEF Deciders
    <3> QED
      BY <3>3, <3>4
  <2> QED
    BY <1>5, <2>3, <2>5 DEF PInv, Orderly
<1>8. CASE call' = [call EXCEPT ![c] = NoCall] /\ UNCHANGED <<shown, renders>>
  <2>1. PlacementTypeOK' /\ HandlersCounted'
    BY <1>1, <1>2, <1>3, <1>8, IdleType, CallTypes DEF PlacementTypeOK
  <2>2. \A d \in Calls : call'[d] = IF d = c THEN NoCall ELSE call[d]
    BY <1>1, <1>8
  <2>3. ASSUME Limited, NEW v \in Versions, v \notin raced'
        PROVE  Deciders(v)' /\ renders'[v] <= 1 /\ Unrendered(v)'
               /\ (renders'[v] # 0 /\ v \notin ledger' => Reporting(v)')
    <3>1. v \notin raced /\ Deciders(v) /\ renders[v] <= 1 /\ Unrendered(v)
          /\ (renders[v] # 0 /\ v \notin ledger => Reporting(v))
      BY <1>2, <2>3 DEF PInv, Orderly
    <3>2. Deciding(v)' \subseteq Deciding(v)
      BY <2>2, IdleType DEF Deciding
    <3>3. Unrendered(v)'
      BY <1>8, <2>2, <3>1, IdleType DEF Unrendered
    <3>4. Reporting(v) => Reporting(v)'
      BY <1>2, <2>2 DEF Reporting
    <3> QED
      BY <1>2, <1>8, <3>1, <3>2, <3>3, <3>4 DEF Deciders
  <2> QED
    BY <1>5, <2>1, <2>3 DEF PInv, Orderly
<1> QED
  BY <1>7, <1>8 DEF RenderEnds

(* Once the display is recorded, the ledger vouches for the version. *)
LEMMA RecordInv ==
  ASSUME PInv, NEW c \in Calls, recordDisplay(c)
  PROVE  PInv'
<1>1. /\ call \in [Calls -> CallType] /\ call[c] \in CallType /\ PlacementTypeOK
  BY DEF PInv, PlacementTypeOK
<1>2. /\ call[c].phase = "reporting" /\ call' = [call EXCEPT ![c] = NoCall]
      /\ ledger' = IF Limited THEN ledger \cup {call[c].version} ELSE ledger
      /\ UNCHANGED <<settings, pageVars, version, shown, decided, renders, raced>>
  BY DEF recordDisplay, Limited
<1>3. ledger' \subseteq Versions
  BY <1>1, <1>2 DEF PlacementTypeOK, CallType
<1>4. PlacementTypeOK' /\ HandlersCounted'
  BY <1>1, <1>2, <1>3, IdleType, CallTypes DEF PlacementTypeOK
<1>5. \A d \in Calls : call'[d] = IF d = c THEN NoCall ELSE call[d]
  BY <1>1, <1>2
<1>6. ASSUME Limited, NEW v \in Versions, v \notin raced'
      PROVE  Deciders(v)' /\ renders'[v] <= 1 /\ Unrendered(v)'
             /\ (renders'[v] # 0 /\ v \notin ledger' => Reporting(v)')
  <2>1. v \notin raced /\ Deciders(v) /\ renders[v] <= 1 /\ Unrendered(v)
        /\ (renders[v] # 0 /\ v \notin ledger => Reporting(v))
    BY <1>2, <1>6 DEF PInv, Orderly
  <2>2. Deciding(v)' \subseteq Deciding(v)
    BY <1>5, IdleType DEF Deciding
  <2>3. Unrendered(v)'
    BY <1>2, <1>5, <2>1, IdleType DEF Unrendered
  <2>4. Reporting(v) /\ v # call[c].version => Reporting(v)'
    BY <1>5 DEF Reporting
  <2> QED
    BY <1>2, <1>6, <2>1, <2>2, <2>3, <2>4 DEF Deciders
<1>7. Limited' => Limited
  BY <1>2 DEF Limited
<1> QED
  BY <1>4, <1>6, <1>7 DEF PInv, Orderly

(* A new window: nothing was rendered in it. *)
LEMMA WindowInv ==
  ASSUME PInv, WindowExpires
  PROVE  PInv'
<1>1. /\ ledger' = {} /\ renders' = [v \in Versions |-> 0]
      /\ UNCHANGED <<settings, pageVars, call, version, shown, decided, raced>>
  BY DEF WindowExpires
<1>2. PlacementTypeOK'
  BY <1>1 DEF PInv, PlacementTypeOK, pageVars
<1>3. HandlersCounted'
  BY <1>1 DEF PInv, HandlersCounted, pageVars
<1>4. ASSUME Limited, NEW v \in Versions PROVE Orderly(v)'
  <2>1. Orderly(v) /\ renders'[v] = 0
    BY <1>1, <1>4 DEF PInv
  <2>2. Deciding(v)' = Deciding(v)
    BY <1>1 DEF Deciding
  <2>3. Unrendered(v)'
    BY <2>1 DEF Unrendered
  <2> QED
    BY <1>1, <2>1, <2>2, <2>3 DEF Orderly, Deciders
<1>5. Limited' => Limited
  BY <1>1 DEF Limited
<1> QED
  BY <1>2, <1>3, <1>4, <1>5 DEF PInv

(* A reload interrupts the evaluations; those past the check are raced. *)
LEMMA ReloadInv ==
  ASSUME PInv, NEW s \in BOOLEAN, Reload(s)
  PROVE  PInv'
<1> USE BoundsAssumption
<1> DEFINE zero == [g \in SdkClients |-> 0]
<1>1. /\ client' = 0 /\ wired' = 0 /\ shown' = FALSE /\ ready' = FALSE /\ decided' = {}
      /\ inits' = zero /\ listeners' = zero /\ due' = zero /\ waiting' = zero
      /\ call' = [c \in Calls |-> NoCall]
      /\ raced' = raced \cup {v \in Versions : Deciding(v) # {}}
      /\ \/ ledger' = {} /\ renders' = [v \in Versions |-> 0]
         \/ UNCHANGED <<ledger, renders>>
      /\ UNCHANGED <<settings, version>>
  BY DEF Reload
<1>2. /\ 0 \in 0 .. MaxInits /\ 0 \in 0 .. 2 * MaxInits /\ 0 \in 0 .. MaxClients
  OBVIOUS
<1>3. PlacementTypeOK'
  <2>1. /\ inits' \in [SdkClients -> 0 .. MaxInits] /\ listeners' \in [SdkClients -> 0 .. MaxInits]
        /\ waiting' \in [SdkClients -> 0 .. MaxInits] /\ due' \in [SdkClients -> 0 .. 2 * MaxInits]
        /\ call' \in [Calls -> CallType]
    BY <1>1, <1>2, IdleType
  <2>2. renders' \in [Versions -> 0 .. 2] /\ ledger' \subseteq Versions /\ raced' \subseteq Versions
    BY <1>1 DEF PInv, PlacementTypeOK
  <2> QED
    BY <1>1, <1>2, <2>1, <2>2 DEF PInv, PlacementTypeOK
<1>4. HandlersCounted'
  BY <1>1 DEF HandlersCounted
<1>5. ASSUME Limited, NEW v \in Versions, v \notin raced' PROVE Orderly(v)'
  <2>1. v \notin raced /\ Deciding(v) = {} /\ Orderly(v)
    BY <1>1, <1>5 DEF PInv
  <2>2. renders[v] = 0 \/ v \in ledger
    BY <2>1 DEF Orderly, Reporting, Deciding
  <2>3. Deciding(v)' = {} /\ Unrendered(v)'
    BY <1>1, IdleType DEF Deciding, Unrendered
  <2>4. renders'[v] <= 1 /\ (renders'[v] = 0 \/ v \in ledger')
    BY <1>1, <2>1, <2>2 DEF Orderly
  <2> QED
    BY <2>3, <2>4 DEF Orderly, Deciders
<1>6. Limited' => Limited
  BY <1>1 DEF Limited
<1>7. \A v \in Versions : v \in raced' => Orderly(v)'
  BY DEF Orderly
<1> QED
  BY <1>3, <1>4, <1>5, <1>6, <1>7 DEF PInv

LEMMA PlacementStepInv == PInv /\ [PlacementNext]_placementVars => PInv'
<1> SUFFICES ASSUME PInv, [PlacementNext]_placementVars PROVE PInv'
  OBVIOUS
<1>0. PlacementTypeOK /\ HandlersCounted
  BY DEF PInv
<1>1. ASSUME \/ createClient
             \/ \E g \in SdkClients : init(g) \/ destroy(g) \/ EvaluateByHand(g)
             \/ onDomReady \/ TriggerEvent
      PROVE  PInv'
  <2>1. UNCHANGED <<settings, call, version, shown, decided, ledger, renders, raced>>
    BY <1>1 DEF createClient, init, destroy, EvaluateByHand, onDomReady, TriggerEvent
  <2>2. PlacementTypeOK' /\ HandlersCounted'
    BY <1>1, <2>1, PageTypes
  <2> QED
    BY <2>1, <2>2, OrderlyKept DEF PInv
<1>2. CASE dismissMessage \/ PublishVersion
  <2>1. UNCHANGED <<settings, pageVars, call, decided, ledger, renders, raced>>
    BY <1>2 DEF dismissMessage, PublishVersion
  <2>2. shown' \in BOOLEAN /\ version' \in Versions
    <3>1. shown \in BOOLEAN /\ version \in Versions
      BY <1>0 DEF PlacementTypeOK
    <3>2. CASE dismissMessage
      BY <3>1, <3>2 DEF dismissMessage
    <3>3. CASE PublishVersion
      <4>1. version < MaxPublished /\ version' = version + 1 /\ shown' = shown
        BY <3>3 DEF PublishVersion
      <4> QED
        BY <3>1, <4>1, BoundsAssumption DEF Versions
    <3> QED
      BY <1>2, <3>2, <3>3
  <2>3. PlacementTypeOK' /\ HandlersCounted'
    BY <1>0, <2>1, <2>2 DEF PlacementTypeOK, HandlersCounted, pageVars
  <2> QED
    BY <2>1, <2>3, OrderlyKept DEF PInv
<1>3. ASSUME NEW c \in Calls, EvaluateFails(c) \/ EvaluationRejected(c) PROVE PInv'
  <2>1. /\ call[c].phase \in {"posting", "threw"} /\ call' = [call EXCEPT ![c] = NoCall]
        /\ UNCHANGED <<settings, pageVars, version, shown, decided, ledger, renders, raced>>
    BY <1>3 DEF EvaluateFails, EvaluationRejected
  <2>2. PlacementTypeOK' /\ HandlersCounted'
    BY <1>0, <2>1, IdleType, CallTypes DEF PlacementTypeOK
  <2> QED
    BY <2>1, <2>2, IdleType, OutsideKept DEF PInv
<1>4. ASSUME NEW c \in Calls, NEW g \in SdkClients, BeginEvaluation(c, g) PROVE PInv'
  <2> DEFINE t == [NoCall EXCEPT !.phase = "posting", !.client = g]
  <2>1. /\ due[g] > 0 /\ call[c].phase = "idle" /\ due' = [due EXCEPT ![g] = due[g] - 1]
        /\ call' = [call EXCEPT ![c] = t] \/ call' = call
        /\ UNCHANGED <<settings, client, inits, wired, listeners, waiting, ready>>
        /\ UNCHANGED <<version, shown, decided, ledger, renders, raced>>
    BY <1>4 DEF BeginEvaluation
  <2>2. t \in CallType /\ t.phase = "posting"
    BY IdleType DEF CallType, NoCall
  <2> HIDE DEF t
  <2>3. /\ due \in [SdkClients -> 0 .. 2 * MaxInits] /\ waiting \in [SdkClients -> 0 .. MaxInits]
        /\ inits \in [SdkClients -> 0 .. MaxInits] /\ MaxInits \in Nat
        /\ call \in [Calls -> CallType]
    BY <1>0, BoundsAssumption DEF PlacementTypeOK
  <2>4. due' \in [SdkClients -> 0 .. 2 * MaxInits] /\ HandlersCounted'
    BY <1>0, <2>1, <2>3 DEF HandlersCounted
  <2>5. call' \in [Calls -> CallType]
    BY <2>1, <2>2, <2>3
  <2>6. PlacementTypeOK'
    BY <1>0, <2>1, <2>4, <2>5 DEF PlacementTypeOK
  <2>7. Limited' => \A v \in Versions : Orderly(v)'
    BY <2>1, <2>2, OrderlyKept, OutsideKept
  <2> QED
    BY <2>4, <2>6, <2>7 DEF PInv
<1>5. CASE UNCHANGED placementVars
  <2>1. PlacementTypeOK' /\ HandlersCounted'
    BY <1>0, <1>5 DEF PlacementTypeOK, HandlersCounted, placementVars
  <2> QED
    BY <1>5, <2>1, OrderlyKept DEF PInv, placementVars
<1> QED
  BY <1>1, <1>2, <1>3, <1>4, <1>5, PostInv, RenderInv, RecordInv, WindowInv, ReloadInv
  DEF PlacementNext

(***************************************************************************)
(* Every variable of a page keeps its type, and no client has more         *)
(* handlers due than its inits account for.                                *)
(***************************************************************************)
THEOREM PlacementTypeCorrect == PlacementSpec => []PlacementTypeOK
<1>1. PInv => PlacementTypeOK
  BY DEF PInv
<1> QED
  BY <1>1, PlacementInitInv, PlacementStepInv, PTL DEF PlacementSpec

(***************************************************************************)
(* A version is rendered once in its window unless evaluations raced.      *)
(***************************************************************************)
THEOREM OnceSafe == PlacementSpec => []OncePerWindow
<1>1. PInv => OncePerWindow
  BY DEF PInv, OncePerWindow, Limited, Orderly
<1> QED
  BY <1>1, PlacementInitInv, PlacementStepInv, PTL DEF PlacementSpec

-----------------------------------------------------------------------------
(***************************************************************************)
(* The run with the three parts: every step of it is a step of one part    *)
(* that leaves the others alone, so what is proved of the parts holds of   *)
(* the run, for every value of the constants.                              *)
(***************************************************************************)
THEOREM RunSafe ==
  MCSpec => [](/\ TypesOK /\ CacheHasNewestAssets /\ CacheHasServedVersion
               /\ OncePerWindow /\ DeliveredAtMostOnce /\ SyncNotForgotten /\ ToldIsKept)
<1>1. MCSpec => Spec
  <2>1. MCInit => Init
    BY DEF MCInit
  <2>2. [MCNext]_<<part, vars, placementVars, serviceVars>> => [Next]_vars
    BY DEF MCNext
  <2> QED
    BY <2>1, <2>2, PTL DEF MCSpec, Spec
<1>2. MCSpec => PlacementSpec
  <2>1. MCInit => PlacementInit
    BY DEF MCInit
  <2>2. [MCNext]_<<part, vars, placementVars, serviceVars>> => [PlacementNext]_placementVars
    BY DEF MCNext
  <2> QED
    BY <2>1, <2>2, PTL DEF MCSpec, PlacementSpec
<1>3. MCSpec => ServiceSpec
  <2>1. MCInit => ServiceInit
    BY DEF MCInit
  <2>2. [MCNext]_<<part, vars, placementVars, serviceVars>> => [ServiceNext]_serviceVars
    BY DEF MCNext
  <2> QED
    BY <2>1, <2>2, PTL DEF MCSpec, ServiceSpec
<1>4. TypeOK /\ PlacementTypeOK /\ ServiceTypeOK => TypesOK
  BY DEF TypesOK
<1> QED
  BY <1>1, <1>2, <1>3, <1>4, TypeCorrect, PlacementTypeCorrect, ServiceTypeCorrect, NewestAssetsSafe,
     ServedVersionSafe, OnceSafe, DeliverySafe, SyncSafe, ToldSafe, PTL
=============================================================================
