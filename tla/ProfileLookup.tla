--------------------------- MODULE ProfileLookup ---------------------------
(***************************************************************************)
(* The way of a browser decision to the Meiro Profile API: load shedding   *)
(* (loadShedding.js, enforceClientLoadShedding), the circuit breaker       *)
(* (circuitBreaker.js) and the lookup itself (hydrateClientProfile).       *)
(*                                                                         *)
(* The requests here are those that need a lookup: profile enrichment is   *)
(* configured and the profile cache does not answer.  Of the pressures     *)
(* that load shedding weighs, the two that depend on lookups are modelled: *)
(* profileCache.errors, a count that nothing in the server resets, and the *)
(* breaker's status.  A lookup that fails never fails the decision, which  *)
(* is made from the local payload instead.                                 *)
(***************************************************************************)
EXTENDS Naturals

CONSTANTS
  Requests,          \* browser decision requests that can be in progress
  FailureThreshold,  \* DEE_MEIRO_CIRCUIT_FAILURE_THRESHOLD
  Cooldown,          \* DEE_MEIRO_CIRCUIT_COOLDOWN_MS, in ticks
  ErrorThreshold,    \* DEE_LOAD_SHEDDING_PROFILE_ERROR_THRESHOLD
  ShedMode,          \* DEE_LOAD_SHEDDING_MODE is "shed"
  ShedOnOpenCircuit  \* DEE_LOAD_SHEDDING_SHED_ON_OPEN_CIRCUIT

ASSUME FailureThresholdAssumption == FailureThreshold \in Nat \ {0}
ASSUME CooldownAssumption == Cooldown \in Nat \ {0}
ASSUME ErrorThresholdAssumption == ErrorThreshold \in Nat \ {0}
ASSUME SheddingAssumption == ShedMode \in BOOLEAN /\ ShedOnOpenCircuit \in BOOLEAN

VARIABLES
  status,    \* the breaker's state.status
  failures,  \* its state.failures; counted no further than FailureThreshold
  cooldown,  \* ticks until its next_retry_at
  errors,    \* profileCache.errors; counted no further than ErrorThreshold
  phase,     \* how far a request has come
  api        \* the Profile API: "up", "down", or "garbled" (see Serve)
vars == <<status, failures, cooldown, errors, phase, api>>

Phases == {"idle", "admitted", "calling", "answered", "unusable", "broken"}

TypeOK ==
  /\ status \in {"closed", "open", "half_open"}
  /\ failures \in 0 .. FailureThreshold
  /\ cooldown \in 0 .. Cooldown
  /\ errors \in 0 .. ErrorThreshold
  /\ phase \in [Requests -> Phases]
  /\ api \in {"up", "garbled", "down"}

Init ==
  /\ status = "closed"
  /\ failures = 0
  /\ cooldown = 0
  /\ errors = 0
  /\ phase = [r \in Requests |-> "idle"]
  /\ api = "up"

-----------------------------------------------------------------------------
CountTo(bound, n) == IF n < bound THEN n + 1 ELSE n
CountError == errors' = CountTo(ErrorThreshold, errors)
Enter(r, p) == phase' = [phase EXCEPT ![r] = p]

(* pressureDecision, enforced *)
Shed == ShedMode /\ \/ errors >= ErrorThreshold
                    \/ status = "open" /\ ShedOnOpenCircuit

(* Mut... are faulty variants of the definition that follows them; the     *)
(* README says which property refutes each.                                *)
MutNoRetry == status # "open"
canRequest == status # "open" \/ cooldown = 0

MutKeepFailures == UNCHANGED failures
ClearFailures == failures' = 0

StartCooldown == cooldown' = Cooldown

(* enforceClientLoadShedding lets the request pass; its body is read next *)
Admit(r) ==
  /\ phase[r] = "idle"
  /\ ~ Shed
  /\ Enter(r, "admitted")
  /\ UNCHANGED <<status, failures, cooldown, errors, api>>

StartCall(r) ==
  /\ phase[r] = "admitted"
  /\ canRequest
  /\ status' = IF status = "open" THEN "half_open" ELSE status
  /\ Enter(r, "calling")
  /\ UNCHANGED <<failures, cooldown, errors, api>>

(* circuit_open: an error is counted, the decision is made without a profile *)
SkipCall(r) ==
  /\ phase[r] = "admitted"
  /\ ~ canRequest
  /\ CountError
  /\ Enter(r, "idle")
  /\ UNCHANGED <<status, failures, cooldown, api>>

(* the Profile API's part; a call it does not answer ends by its timeout, and
   a garbled answer is JSON that normalizeProfileForEvaluation throws on *)
Outcome == [up |-> "answered", garbled |-> "unusable", down |-> "broken"]
Serve(r) ==
  /\ phase[r] = "calling"
  /\ Enter(r, Outcome[api])
  /\ UNCHANGED <<status, failures, cooldown, errors, api>>

(* a profile, or a 404: the breaker counts both as a success *)
RecordSuccess(r) ==
  /\ phase[r] = "answered"
  /\ Enter(r, "idle")
  /\ status' = "closed"
  /\ ClearFailures
  /\ cooldown' = 0
  /\ UNCHANGED <<errors, api>>

RecordFailure(r) ==
  /\ phase[r] = "broken"
  /\ Enter(r, "idle")
  /\ CountError
  /\ failures' = CountTo(FailureThreshold, failures)
  /\ IF failures' >= FailureThreshold \/ status = "half_open"
     THEN status' = "open" /\ StartCooldown
     ELSE UNCHANGED <<status, cooldown>>
  /\ UNCHANGED api

(* recordSuccess runs before the answer is normalised: it counts as a success
   and then, when that throws, as the first failure since *)
RecordUnusable(r) ==
  /\ phase[r] = "unusable"
  /\ Enter(r, "idle")
  /\ CountError
  /\ failures' = 1
  /\ IF FailureThreshold = 1
     THEN status' = "open" /\ StartCooldown
     ELSE status' = "closed" /\ cooldown' = 0
  /\ UNCHANGED api

Tick ==
  /\ cooldown > 0
  /\ cooldown' = cooldown - 1
  /\ UNCHANGED <<status, failures, errors, phase, api>>

ApiChanges ==
  /\ api' \in {"up", "garbled", "down"} \ {api}
  /\ UNCHANGED <<status, failures, cooldown, errors, phase>>

Handle(r) ==
  \/ StartCall(r) \/ SkipCall(r) \/ Serve(r)
  \/ RecordSuccess(r) \/ RecordUnusable(r) \/ RecordFailure(r)

Next ==
  \/ \E r \in Requests : Admit(r) \/ Handle(r)
  \/ Tick
  \/ ApiChanges

(* Browsers keep asking, a request that was let in is carried to its end    *)
(* (the event loop and the eight-second timeout see to it), time passes.    *)
(* Nothing obliges the Profile API to come up.                              *)
Fairness ==
  /\ \A r \in Requests : WF_vars(Admit(r)) /\ WF_vars(Handle(r))
  /\ WF_vars(Tick)

Spec == Init /\ [][Next]_vars /\ Fairness

-----------------------------------------------------------------------------
(***************************************************************************)
(* Whatever the order in which late answers of lookups from before, during *)
(* and after an outage are recorded, the circuit is closed exactly while   *)
(* fewer failures than the threshold came since the last success.          *)
(***************************************************************************)
StatusTracksFailures == (status = "closed") <=> (failures < FailureThreshold)

(***************************************************************************)
(* Once the Profile API stays up, the circuit closes and stays closed.     *)
(***************************************************************************)
CircuitRecovers == <>[](api = "up") => <>[](status = "closed")

(***************************************************************************)
(* The 503 of enforceClientLoadShedding: "DEE is temporarily shedding      *)
(* browser decision traffic.  Retry after the requested interval."         *)
(***************************************************************************)
ShedIsTemporary == <>[](api = "up") => <>[](~ Shed)
=============================================================================
