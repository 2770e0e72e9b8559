--------------------------- MODULE RecoveryProofs ---------------------------
(***************************************************************************)
(* Proofs about the two parts that recover from an outage by themselves,   *)
(* ProfileLookup and EventQueue, for any number of requests, pages and     *)
(* events, any thresholds and any length of the stored list; and about the *)
(* run that puts them beside each other.                                   *)
(*                                                                         *)
(* Lookups: failures are counted up one at a time from a success, so a     *)
(* closed circuit is below its threshold; only a success resets the count, *)
(* and it closes the circuit too.  A half-open circuit is therefore never  *)
(* below the threshold, and a failed retry reopens it.                     *)
(*                                                                         *)
(* The queue: QueuedNotLost speaks of the stored list only.  A flush       *)
(* replaces that list by one that it built up over many steps, so the      *)
(* inductive invariant follows every event a flush has read: it is still   *)
(* to do, or remains to be written back, or is stored, or was given up.    *)
(* And it bounds what a flush holds: otherwise writing back could cut      *)
(* events off.                                                             *)
(***************************************************************************)
EXTENDS MCRecovery, TLAPS

IInv == TypeOK /\ StatusTracksFailures

(* A bounded count stays in its range and moves by at most one. *)
LEMMA CountInRange ==
  ASSUME NEW bound \in Nat, NEW n \in 0 .. bound
  PROVE  /\ CountTo(bound, n) \in 0 .. bound
         /\ CountTo(bound, n) < bound => n < bound
         /\ n >= bound => CountTo(bound, n) = n
  BY DEF CountTo

(* The initial state satisfies the inductive invariant. *)
LEMMA InitInv == Init => IInv
  BY FailureThresholdAssumption, CooldownAssumption, ErrorThresholdAssumption
  DEF Init, IInv, TypeOK, Phases, StatusTracksFailures

(* Recording a lookup's outcome preserves it. *)
LEMMA RecordInv ==
  ASSUME IInv, NEW r \in Requests,
         RecordSuccess(r) \/ RecordUnusable(r) \/ RecordFailure(r)
  PROVE  IInv'
<1>1. phase' \in [Requests -> Phases] /\ api' = api
  BY DEF RecordSuccess, RecordUnusable, RecordFailure, Enter, IInv, TypeOK, Phases
<1>2. CASE RecordSuccess(r)
  BY <1>1, <1>2, FailureThresholdAssumption, CooldownAssumption
  DEF RecordSuccess, ClearFailures, IInv, TypeOK, StatusTracksFailures
<1>3. CASE RecordFailure(r)
  <2>1. /\ errors' \in 0 .. ErrorThreshold
        /\ failures' \in 0 .. FailureThreshold
        /\ failures' < FailureThreshold => failures < FailureThreshold
    BY <1>3, CountInRange, FailureThresholdAssumption, ErrorThresholdAssumption
    DEF RecordFailure, CountError, IInv, TypeOK
  <2>2. CASE failures' >= FailureThreshold \/ status = "half_open"
    <3>1. status' = "open" /\ cooldown' = Cooldown
      BY <1>3, <2>2 DEF RecordFailure, StartCooldown
    <3>2. ~ (failures' < FailureThreshold)
      BY <2>1, <2>2, FailureThresholdAssumption DEF IInv, StatusTracksFailures
    <3> QED
      BY <1>1, <2>1, <3>1, <3>2, CooldownAssumption DEF IInv, TypeOK, StatusTracksFailures
  <2>3. CASE ~ (failures' >= FailureThreshold \/ status = "half_open")
    <3>1. UNCHANGED <<status, cooldown>> /\ failures' < FailureThreshold
      BY <1>3, <2>1, <2>3, FailureThresholdAssumption DEF RecordFailure
    <3> QED
      BY <1>1, <2>1, <3>1 DEF IInv, TypeOK, StatusTracksFailures
  <2> QED
    BY <2>2, <2>3
<1>4. CASE RecordUnusable(r)
  <2>1. errors' \in 0 .. ErrorThreshold
    BY <1>4, CountInRange, ErrorThresholdAssumption
    DEF RecordUnusable, CountError, IInv, TypeOK
  <2>2. /\ failures' \in 0 .. FailureThreshold
        /\ status' \in {"closed", "open"}
        /\ cooldown' \in 0 .. Cooldown
        /\ (status' = "closed") <=> (failures' < FailureThreshold)
    BY <1>4, FailureThresholdAssumption, CooldownAssumption
    DEF RecordUnusable, StartCooldown
  <2> QED
    BY <1>1, <2>1, <2>2 DEF IInv, TypeOK, StatusTracksFailures
<1> QED
  BY <1>2, <1>3, <1>4

(* Every step preserves the inductive invariant. *)
LEMMA StepInv == IInv /\ [Next]_vars => IInv'
<1> SUFFICES ASSUME IInv, [Next]_vars PROVE IInv'
  OBVIOUS
<1>1. CASE UNCHANGED vars
  BY <1>1 DEF vars, IInv, TypeOK, StatusTracksFailures
<1>2. ASSUME NEW r \in Requests, Admit(r) \/ Serve(r) PROVE IInv'
  <2>1. phase' \in [Requests -> Phases]
    BY <1>2 DEF Admit, Serve, Outcome, Enter, IInv, TypeOK, Phases
  <2> QED
    BY <1>2, <2>1 DEF Admit, Serve, IInv, TypeOK, StatusTracksFailures
<1>3. ASSUME NEW r \in Requests, StartCall(r) PROVE IInv'
  <2>1. phase' \in [Requests -> Phases]
    BY <1>3 DEF StartCall, Enter, IInv, TypeOK, Phases
  <2> QED
    BY <1>3, <2>1 DEF StartCall, IInv, TypeOK, StatusTracksFailures
<1>4. ASSUME NEW r \in Requests, SkipCall(r) PROVE IInv'
  <2>1. phase' \in [Requests -> Phases]
    BY <1>4 DEF SkipCall, Enter, IInv, TypeOK, Phases
  <2>2. errors' \in 0 .. ErrorThreshold
    BY <1>4, CountInRange, ErrorThresholdAssumption
    DEF SkipCall, CountError, IInv, TypeOK
  <2> QED
    BY <1>4, <2>1, <2>2 DEF SkipCall, IInv, TypeOK, StatusTracksFailures
<1>5. ASSUME NEW r \in Requests,
             RecordSuccess(r) \/ RecordUnusable(r) \/ RecordFailure(r)
      PROVE  IInv'
  BY <1>5, RecordInv
<1>6. CASE Tick \/ ApiChanges
  BY <1>6, CooldownAssumption DEF Tick, ApiChanges, IInv, TypeOK, StatusTracksFailures
<1> QED
  BY <1>1, <1>2, <1>3, <1>4, <1>5, <1>6 DEF Next, Handle

(* The inductive invariant holds in every reachable state. *)
LEMMA Invariant == Spec => []IInv
  BY InitInv, StepInv, PTL DEF Spec

(* The breaker's state, the counters and the requests keep their types. *)
THEOREM TypeCorrect == Spec => []TypeOK
<1>1. IInv => TypeOK
  BY DEF IInv
<1> QED
  BY Invariant, <1>1, PTL

(* The circuit is closed exactly while the failures since the last success  *)
(* are fewer than DEE_MEIRO_CIRCUIT_FAILURE_THRESHOLD.                      *)
THEOREM StatusSafe == Spec => []StatusTracksFailures
<1>1. IInv => StatusTracksFailures
  BY DEF IInv
<1> QED
  BY Invariant, <1>1, PTL

-----------------------------------------------------------------------------
LEMMA AppendSet ==
  ASSUME NEW S, NEW s \in Seq(S), NEW e \in S
  PROVE  /\ Append(s, e) \in Seq(S)
         /\ Len(Append(s, e)) = Len(s) + 1
         /\ ToSet(Append(s, e)) = ToSet(s) \cup {e}
<1>1. Append(s, e) \in Seq(S) /\ Len(Append(s, e)) = Len(s) + 1
  OBVIOUS
<1>2. \A x : x \in ToSet(Append(s, e)) => x \in ToSet(s) \cup {e}
  BY DEF ToSet
<1>3. \A x \in ToSet(s) : x \in ToSet(Append(s, e))
  BY DEF ToSet
<1>4. e \in ToSet(Append(s, e))
  <2>1. Len(s) + 1 \in DOMAIN Append(s, e) /\ Append(s, e)[Len(s) + 1] = e
    OBVIOUS
  <2> QED
    BY <2>1 DEF ToSet
<1> QED
  BY <1>1, <1>2, <1>3, <1>4

LEMMA HeadTailSet ==
  ASSUME NEW S, NEW s \in Seq(S), s # <<>>
  PROVE  /\ Head(s) \in S
         /\ Tail(s) \in Seq(S)
         /\ Len(Tail(s)) = Len(s) - 1
         /\ ToSet(s) = {Head(s)} \cup ToSet(Tail(s))
<1>1. Head(s) \in S /\ Tail(s) \in Seq(S) /\ Len(Tail(s)) = Len(s) - 1 /\ Len(s) \in Nat /\ Len(s) > 0
  OBVIOUS
<1>2. \A x \in ToSet(Tail(s)) : x \in ToSet(s)
  BY <1>1 DEF ToSet
<1>3. Head(s) \in ToSet(s)
  BY <1>1 DEF ToSet
<1>4. \A x \in ToSet(s) : x = Head(s) \/ x \in ToSet(Tail(s))
  <2> SUFFICES ASSUME NEW n \in DOMAIN s PROVE s[n] = Head(s) \/ s[n] \in ToSet(Tail(s))
    BY DEF ToSet
  <2>1. CASE n = 1
    BY <2>1
  <2>2. CASE n # 1
    <3>1. n - 1 \in DOMAIN Tail(s) /\ Tail(s)[n - 1] = s[n]
      BY <1>1, <2>2
    <3> QED
      BY <3>1 DEF ToSet
  <2> QED
    BY <2>1, <2>2
<1> QED
  BY <1>1, <1>2, <1>3, <1>4

LEMMA KeptBounded ==
  ASSUME NEW S, NEW s \in Seq(S)
  PROVE  /\ Kept(s) \in Seq(S)
         /\ Len(Kept(s)) <= MaxItems
         /\ Len(s) <= MaxItems => Kept(s) = s
<1>1. CASE Len(s) <= MaxItems
  BY <1>1, QueueAssumption DEF Kept
<1>2. CASE ~ (Len(s) <= MaxItems)
  <2> DEFINE first == Len(s) - MaxItems + 1
  <2>1. Len(s) \in Nat /\ MaxItems \in Nat \ {0} /\ first \in Nat /\ first >= 1
    BY <1>2, QueueAssumption
  <2>2. SubSeq(s, first, Len(s)) \in Seq(S) /\ Len(SubSeq(s, first, Len(s))) = MaxItems
    BY <2>1, <1>2
  <2> QED
    BY <2>1, <2>2, <1>2 DEF Kept, Newest
<1> QED
  BY <1>1, <1>2

-----------------------------------------------------------------------------
Settled(e) == rows[e] > 0 \/ losses[e] # {}

Bounded(p) == Len(page[p].todo) + Len(page[p].remaining) <= MaxItems

Follows(p) ==
  page[p].flushing =>
    \A e \in page[p].read :
      e \in ToSet(page[p].todo) \cup ToSet(page[p].remaining) \/ Settled(e)

QueueInv ==
  /\ QueueTypeOK
  /\ QueuedNotLost
  /\ \A p \in Pages : Bounded(p) /\ Follows(p)

(***************************************************************************)
(* Rows and losses only grow.  Stated of every step at once, because each  *)
(* action needs it to keep what it does not touch.                         *)
(***************************************************************************)
LEMMA SettledStays ==
  ASSUME QueueTypeOK, QueueNext
  PROVE  /\ losses' \in [Events -> SUBSET Losses]
         /\ rows' \in [Events -> Nat]
         /\ \A e \in Events : Settled(e) => Settled(e)'
         /\ \A e \in Events : rows[e] <= 1 => rows'[e] <= 1
<1> DEFINE Grows == /\ losses' \in [Events -> SUBSET Losses]
                    /\ rows' \in [Events -> Nat]
                    /\ \A e \in Events : losses[e] \subseteq losses'[e]
                    /\ \A e \in Events : rows[e] <= rows'[e]
                    /\ \A e \in Events : rows[e] <= 1 => rows'[e] <= 1
<1> USE DEF QueueTypeOK
<1>1. ASSUME NEW d \in Events, addClientEvent(d)
      PROVE  /\ rows' \in [Events -> Nat]
             /\ \A e \in Events : rows[e] <= rows'[e] /\ (rows[e] <= 1 => rows'[e] <= 1)
  BY <1>1 DEF addClientEvent
<1>2. ASSUME NEW es, NEW why \in Losses, Lose(es, why)
      PROVE  /\ losses' \in [Events -> SUBSET Losses]
             /\ \A e \in Events : losses[e] \subseteq losses'[e]
  BY <1>2 DEF Lose
<1>3. ASSUME UNCHANGED rows
      PROVE  /\ rows' \in [Events -> Nat]
             /\ \A e \in Events : rows[e] <= rows'[e] /\ (rows[e] <= 1 => rows'[e] <= 1)
  BY <1>3
<1>4. ASSUME UNCHANGED losses
      PROVE  /\ losses' \in [Events -> SUBSET Losses]
             /\ \A e \in Events : losses[e] \subseteq losses'[e]
  BY <1>4
<1>5. "capacity" \in Losses /\ "refused" \in Losses /\ "overwritten" \in Losses
  BY DEF Losses
<1>6. ASSUME NEW p \in Pages, NEW e \in Events, sendClientEvent(p, e)  PROVE Grows
  BY <1>3, <1>4, <1>6 DEF sendClientEvent
<1>7. ASSUME NEW p \in Pages, NEW e \in Events, PostSucceeds(p, e)  PROVE Grows
  BY <1>1, <1>4, <1>7 DEF PostSucceeds
<1>8. ASSUME NEW p \in Pages, NEW e \in Events, PostFails(p, e)  PROVE Grows
  <2>1. addClientEvent(e) \/ UNCHANGED rows
    BY <1>8 DEF PostFails
  <2>2. UNCHANGED losses \/ \E es : Lose(es, "capacity")
    BY <1>8 DEF PostFails, enqueueEvent
  <2> QED
    BY <2>1, <2>2, <1>1, <1>2, <1>3, <1>4, <1>5
<1>9. ASSUME NEW p \in Pages, InitFlush(p)  PROVE Grows
  BY <1>3, <1>4, <1>9 DEF InitFlush
<1>10. ASSUME NEW p \in Pages, FlushItem(p)  PROVE Grows
  <2>1. PICK e : /\ e = Head(page[p].todo)
                 /\ addClientEvent(e) \/ UNCHANGED rows
                 /\ UNCHANGED losses \/ Lose({e}, "refused")
    BY <1>10 DEF FlushItem
  <2>2. e \in Events
    <3>1. page[p].todo \in Seq(Events) /\ page[p].todo # <<>>
      BY <1>10 DEF FlushItem, FlushType
    <3> QED
      BY <3>1, <2>1, HeadTailSet
  <2> QED
    BY <2>1, <2>2, <1>1, <1>2, <1>3, <1>4, <1>5
<1>11. ASSUME NEW p \in Pages, FlushEnd(p)  PROVE Grows
  BY <1>2, <1>3, <1>5, <1>11 DEF FlushEnd
<1>12. ASSUME NEW p \in Pages, ClosePage(p)  PROVE Grows
  <2>1. PICK arrived : rows' = [e \in Events |-> IF e \in arrived /\ rows[e] = 0 THEN 1 ELSE rows[e]]
    BY <1>12 DEF ClosePage
  <2>2. rows' \in [Events -> Nat] /\ \A e \in Events : rows[e] <= rows'[e] /\ (rows[e] <= 1 => rows'[e] <= 1)
    BY <2>1
  <2> QED
    BY <2>2, <1>4, <1>12 DEF ClosePage
<1>13. ASSUME EndpointChanges  PROVE Grows
  BY <1>3, <1>4, <1>13 DEF EndpointChanges
<1>14. Grows
  BY <1>6, <1>7, <1>8, <1>9, <1>10, <1>11, <1>12, <1>13 DEF QueueNext
<1>15. ASSUME NEW e \in Events, Settled(e)  PROVE Settled(e)'
  <2>1. rows[e] \in Nat /\ rows'[e] \in Nat /\ rows[e] <= rows'[e] /\ losses[e] \subseteq losses'[e]
    BY <1>14
  <2> QED
    BY <2>1, <1>15 DEF Settled
<1> QED
  BY <1>14, <1>15

-----------------------------------------------------------------------------
(***************************************************************************)
(* The induction.                                                          *)
(***************************************************************************)
LEMMA QueueInitInv == QueueInit => QueueInv
<1> SUFFICES ASSUME QueueInit  PROVE QueueInv
  OBVIOUS
<1>1. Closed \in FlushType /\ ~ Closed.flushing /\ Len(Closed.todo) + Len(Closed.remaining) <= MaxItems
  BY QueueAssumption DEF Closed, FlushType
<1>2. QueueTypeOK
  BY <1>1, QueueAssumption DEF QueueInit, QueueTypeOK
<1>3. QueuedNotLost
  BY DEF QueueInit, QueuedNotLost
<1> QED
  BY <1>1, <1>2, <1>3 DEF QueueInv, QueueInit, Bounded, Follows

(***************************************************************************)
(* What a step does not write keeps its part of the invariant.             *)
(***************************************************************************)
LEMMA FlushesKept ==
  ASSUME QueueInv, QueueNext, NEW p \in Pages, page'[p] = page[p]
  PROVE  Bounded(p)' /\ Follows(p)'
<1>1. \A e \in page[p].read : e \in Events
  BY DEF QueueInv, QueueTypeOK, FlushType
<1>2. \A e \in Events : Settled(e) => Settled(e)'
  BY SettledStays DEF QueueInv
<1> QED
  BY <1>1, <1>2 DEF QueueInv, Bounded, Follows, Settled

LEMMA QueueStepKeeps ==
  ASSUME QueueInv, QueueNext  PROVE QueueInv'
<1> USE QueueAssumption
<1>1. QueueTypeOK /\ QueuedNotLost /\ \A p \in Pages : Bounded(p) /\ Follows(p)
  BY DEF QueueInv
<1>2. /\ rows' \in [Events -> Nat] /\ losses' \in [Events -> SUBSET Losses]
      /\ \A e \in Events : Settled(e) => Settled(e)'
      /\ \A e \in Events : rows'[e] <= 1
  BY <1>1, SettledStays DEF QueuedNotLost
<1>3. ASSUME \A e \in Events : event'[e] \in {"queued", "accepted"} =>
                   \/ event[e] \in {"queued", "accepted"}
                   \/ e \in ToSet(retry') \/ Settled(e)',
             \A e \in ToSet(retry) : e \in ToSet(retry') \/ Settled(e)'
      PROVE  QueuedNotLost'
  <2>1. ASSUME NEW e \in Events, event'[e] \in {"queued", "accepted"}
        PROVE  e \in ToSet(retry') \/ Settled(e)'
    BY <2>1, <1>1, <1>2, <1>3 DEF QueuedNotLost, Settled
  <2> QED
    BY <2>1, <1>2 DEF QueuedNotLost, Settled
<1>0. ASSUME NEW p \in Pages, NEW v \in FlushType, page' = [page EXCEPT ![p] = v]
       PROVE  page'[p] = v /\ page' = [page EXCEPT ![p] = page'[p]] /\ page' \in [Pages -> FlushType]
  BY <1>1, <1>0 DEF QueueTypeOK
<1>4. ASSUME NEW p \in Pages, page' = [page EXCEPT ![p] = page'[p]],
             Bounded(p)', Follows(p)'
      PROVE  \A q \in Pages : Bounded(q)' /\ Follows(q)'
  <2> SUFFICES ASSUME NEW q \in Pages, q # p  PROVE Bounded(q)' /\ Follows(q)'
    BY <1>4
  <2>1. page'[q] = page[q]
    BY <1>1, <1>4 DEF QueueTypeOK
  <2> QED
    BY <2>1, FlushesKept
<1>5. ASSUME UNCHANGED page
      PROVE  \A q \in Pages : Bounded(q)' /\ Follows(q)'
  BY <1>5, FlushesKept
<1>6. /\ Closed \in FlushType /\ ~ Closed.flushing /\ Len(Closed.todo) + Len(Closed.remaining) <= MaxItems
      /\ Idle \in FlushType /\ ~ Idle.flushing /\ Len(Idle.todo) + Len(Idle.remaining) <= MaxItems
      /\ Idle.remaining = <<>>
  <2>1. /\ Closed \in FlushType /\ ~ Closed.flushing /\ Len(Closed.todo) + Len(Closed.remaining) <= MaxItems
        /\ Closed.remaining = <<>>
    BY DEF Closed, FlushType
  <2>2. /\ Idle \in FlushType /\ Idle.flushing = Closed.flushing
        /\ Idle.todo = Closed.todo /\ Idle.remaining = Closed.remaining
    BY <2>1 DEF Idle, FlushType
  <2> QED
    BY <2>1, <2>2
<1>7. \A p \in Pages : page[p] \in FlushType
  BY <1>1 DEF QueueTypeOK
<1>8. ASSUME NEW p \in Pages, NEW e \in Events, sendClientEvent(p, e)  PROVE QueueInv'
  <2>1. QueueTypeOK'
    BY <1>1, <1>8 DEF QueueTypeOK, sendClientEvent
  <2>2. QueuedNotLost'
    <3>1. retry' = retry /\ \A d \in Events : event'[d] \in {event[d], "posting"}
      BY <1>1, <1>8 DEF sendClientEvent, QueueTypeOK
    <3> QED
      BY <3>1, <1>3
  <2> QED
    BY <2>1, <2>2, <1>5, <1>8 DEF QueueInv, sendClientEvent
<1>9. ASSUME NEW p \in Pages, NEW e \in Events, PostSucceeds(p, e)  PROVE QueueInv'
  <2>1. QueueTypeOK'
    BY <1>1, <1>2, <1>9 DEF QueueTypeOK, PostSucceeds
  <2>2. rows'[e] > 0
    BY <1>1, <1>9 DEF PostSucceeds, addClientEvent, QueueTypeOK
  <2>3. QueuedNotLost'
    <3>1. Settled(e)'
      BY <2>2 DEF Settled
    <3>2. \A d \in Events \ {e} : event'[d] = event[d]
      BY <1>1, <1>9 DEF PostSucceeds, QueueTypeOK
    <3>3. retry' = retry
      BY <1>9 DEF PostSucceeds
    <3> QED
      BY <3>1, <3>2, <3>3, <1>3
  <2> QED
    BY <2>1, <2>3, <1>5, <1>9 DEF QueueInv, PostSucceeds
<1>10. ASSUME NEW p \in Pages, NEW e \in Events, PostFails(p, e)  PROVE QueueInv'
  <2>1. UNCHANGED <<endpoint, storageOk, page>> /\ sending' = [sending EXCEPT ![p] = @ \ {e}]
    BY <1>10 DEF PostFails
  <2>2. enqueueEvent(e)
    BY <1>10 DEF PostFails
  <2>3. /\ Append(retry, e) \in Seq(Events)
        /\ ToSet(Append(retry, e)) = ToSet(retry) \cup {e}
    BY <1>1, AppendSet DEF QueueTypeOK
  <2>4. retry' \in Seq(Events) /\ Len(retry') <= MaxItems
    <3>1. Kept(Append(retry, e)) \in Seq(Events) /\ Len(Kept(Append(retry, e))) <= MaxItems
      BY <2>3, KeptBounded
    <3> QED
      BY <3>1, <2>2, <1>1 DEF enqueueEvent, QueueTypeOK
  <2>5. event' \in [Events -> {"new", "posting", "accepted", "queued", "rejected", "abandoned"}]
    BY <2>2, <1>1 DEF enqueueEvent, QueueTypeOK
  <2>6. QueueTypeOK'
    BY <2>1, <2>4, <2>5, <1>1, <1>2 DEF QueueTypeOK
  <2>7. \A d \in Events \ {e} : event'[d] = event[d]
    BY <2>2, <1>1 DEF enqueueEvent, QueueTypeOK
  <2>8. CASE storageOk
    <3>1. \A d \in (ToSet(retry) \cup {e}) \ ToSet(retry') : d \in Events /\ losses'[d] = losses[d] \cup {"capacity"}
      <4>1. ToSet(retry) \subseteq Events
        BY <1>1 DEF QueueTypeOK, ToSet
      <4> QED
        BY <4>1, <2>2, <2>3, <2>8 DEF enqueueEvent, Lose
    <3>2. \A d \in ToSet(retry) \cup {e} : d \in ToSet(retry') \/ Settled(d)'
      BY <3>1 DEF Settled
    <3>3. QueuedNotLost'
      BY <3>2, <2>7, <1>3
    <3> QED
      BY <3>3, <2>1, <2>6, <1>5 DEF QueueInv
  <2>9. CASE ~ storageOk
    <3>1. event'[e] = "rejected" /\ retry' = retry
      BY <2>2, <2>9, <1>1 DEF enqueueEvent, QueueTypeOK
    <3>2. QueuedNotLost'
      BY <3>1, <2>7, <1>3
    <3> QED
      BY <3>2, <2>1, <2>6, <1>5 DEF QueueInv
  <2> QED
    BY <2>8, <2>9
<1>11. ASSUME NEW p \in Pages, InitFlush(p)  PROVE QueueInv'
  <2> DEFINE started == [Idle EXCEPT !.flushing = TRUE, !.read = ToSet(retry), !.todo = retry]
  <2>1. page'[p] \in {started, Idle} /\ page' = [page EXCEPT ![p] = page'[p]]
    BY <1>1, <1>11 DEF InitFlush, QueueTypeOK
  <2>2. started \in FlushType /\ Len(started.todo) <= MaxItems /\ started.remaining = <<>>
    <3>1. ToSet(retry) \subseteq Events
      BY <1>1 DEF QueueTypeOK, ToSet
    <3>2. ToSet(retry) \in SUBSET Events /\ retry \in Seq(Events)
      BY <3>1, <1>1 DEF QueueTypeOK
    <3>3. started \in FlushType /\ started.todo = retry /\ started.remaining = Idle.remaining
      BY <3>2, <1>6 DEF FlushType
    <3> QED
      BY <3>3, <1>1, <1>6 DEF QueueTypeOK
  <2>3. QueueTypeOK'
    BY <2>1, <2>2, <1>1, <1>6, <1>11 DEF QueueTypeOK, InitFlush
  <2>4. QueuedNotLost'
    <3>1. event' = event /\ retry' = retry
      BY <1>11 DEF InitFlush
    <3> QED
      BY <3>1, <1>3
  <2>5. Len(started.todo) + Len(started.remaining) <= MaxItems /\ \A e \in started.read : e \in ToSet(started.todo)
    <3>1. started.todo = retry /\ started.read = ToSet(retry)
      BY <1>6 DEF FlushType
    <3>2. Len(started.todo) \in Nat /\ Len(started.remaining) = 0
      BY <2>2, <3>1, <1>1 DEF QueueTypeOK
    <3> QED
      BY <2>2, <3>1, <3>2, <1>1, QueueAssumption DEF QueueTypeOK
  <2>6. Bounded(p)' /\ Follows(p)'
    <3>1. CASE page'[p] = Idle
      BY <3>1, <1>6 DEF Bounded, Follows
    <3>2. CASE page'[p] = started
      BY <3>2, <2>5 DEF Bounded, Follows
    <3> QED
      BY <2>1, <3>1, <3>2
  <2> QED
    BY <2>1, <2>3, <2>4, <2>6, <1>4 DEF QueueInv
<1>12. ASSUME NEW p \in Pages, FlushItem(p)  PROVE QueueInv'
  <2>0. PICK e : e = Head(page[p].todo)
    OBVIOUS
  <2> DEFINE flushed == [page[p] EXCEPT !.todo = Tail(@)]
             kept == [flushed EXCEPT !.remaining = Append(@, e)]
  <2>1. /\ e \in Events
        /\ Tail(page[p].todo) \in Seq(Events)
        /\ Len(Tail(page[p].todo)) = Len(page[p].todo) - 1
        /\ ToSet(page[p].todo) = {e} \cup ToSet(Tail(page[p].todo))
    <3>1. page[p].todo \in Seq(Events) /\ page[p].todo # <<>>
      BY <1>7, <1>12 DEF FlushItem, FlushType
    <3> QED
      BY <3>1, <2>0, HeadTailSet
  <2>2. /\ Append(page[p].remaining, e) \in Seq(Events)
        /\ Len(Append(page[p].remaining, e)) = Len(page[p].remaining) + 1
        /\ ToSet(Append(page[p].remaining, e)) = ToSet(page[p].remaining) \cup {e}
    <3>1. page[p].remaining \in Seq(Events)
      BY <1>7 DEF FlushType
    <3> QED
      BY <3>1, <2>1, AppendSet
  <2>3. flushed \in FlushType /\ kept \in FlushType
    BY <2>1, <2>2, <1>7 DEF FlushType
  <2>4. /\ page' = [page EXCEPT ![p] = page'[p]] /\ page' \in [Pages -> FlushType]
        /\ page'[p] = kept \/ (page'[p] = flushed /\ Settled(e)')
    <3>1. CASE endpoint = "up"
      <4>1. addClientEvent(e) /\ (page' = [page EXCEPT ![p] = flushed] \/ page' = [page EXCEPT ![p] = kept])
        BY <3>1, <1>12, <2>0 DEF FlushItem
      <4>2. Settled(e)'
        BY <4>1, <2>1, <1>1 DEF addClientEvent, QueueTypeOK, Settled
      <4> QED
        BY <4>1, <4>2, <2>3, <1>0
    <3>2. CASE endpoint = "refusing"
      <4>1. Lose({e}, "refused") /\ page' = [page EXCEPT ![p] = flushed]
        BY <3>2, <1>12, <2>0 DEF FlushItem
      <4>2. Settled(e)'
        BY <4>1, <2>1 DEF Lose, Settled
      <4> QED
        BY <4>1, <4>2, <2>3, <1>0
    <3>3. CASE endpoint = "down"
      <4>1. page' = [page EXCEPT ![p] = kept]
        BY <3>3, <1>12, <2>0 DEF FlushItem
      <4> QED
        BY <4>1, <2>3, <1>0
    <3> QED
      BY <3>1, <3>2, <3>3, <1>1 DEF QueueTypeOK, Endpoint
  <2>5. UNCHANGED <<endpoint, storageOk, event, sending, retry>>
    BY <1>12 DEF FlushItem
  <2>6. QueueTypeOK'
    BY <2>4, <2>5, <1>1, <1>2 DEF QueueTypeOK
  <2>7. QueuedNotLost'
    BY <2>5, <1>3
  <2>8. /\ page'[p].read = page[p].read /\ page'[p].todo = Tail(page[p].todo)
        /\ page'[p].remaining = IF page'[p] = kept THEN Append(page[p].remaining, e) ELSE page[p].remaining
    <3>1. flushed.remaining = page[p].remaining /\ kept.remaining = Append(page[p].remaining, e)
          /\ flushed.todo = Tail(page[p].todo) /\ kept.todo = Tail(page[p].todo)
          /\ flushed.read = page[p].read /\ kept.read = page[p].read
      BY <1>7 DEF FlushType
    <3> QED
      BY <3>1, <2>4
  <2>9. Bounded(p)'
    <3>1. Len(page[p].todo) + Len(page[p].remaining) <= MaxItems
      BY <1>1 DEF Bounded
    <3>2. Len(page[p].todo) \in Nat /\ Len(page[p].remaining) \in Nat
      BY <1>7 DEF FlushType
    <3>3. Len(page'[p].todo) = Len(page[p].todo) - 1
          /\ Len(page'[p].remaining) \in {Len(page[p].remaining), Len(page[p].remaining) + 1}
      BY <2>1, <2>2, <2>8
    <3>4. Len(page'[p].todo) + Len(page'[p].remaining) <= MaxItems
      <4>1. \A t, u \in Nat : t + u <= MaxItems => (t - 1) + u <= MaxItems /\ (t - 1) + (u + 1) <= MaxItems
        OBVIOUS
      <4> QED
        BY <4>1, <3>1, <3>2, <3>3
    <3> QED
      BY <3>4 DEF Bounded
  <2>10. Follows(p)'
    <3> SUFFICES ASSUME NEW d \in page[p].read
                 PROVE  d \in ToSet(page'[p].todo) \cup ToSet(page'[p].remaining) \/ Settled(d)'
      BY <2>8 DEF Follows, Settled
    <3>1. d \in Events
      BY <1>7 DEF FlushType
    <3>2. d \in ToSet(page[p].todo) \cup ToSet(page[p].remaining) \/ Settled(d)
      BY <1>1, <1>12 DEF Follows, FlushItem
    <3>3. Settled(d) => Settled(d)'
      BY <3>1, <1>2
    <3>4. CASE page'[p] = kept
      BY <3>2, <3>3, <3>4, <2>1, <2>2, <2>8
    <3>5. CASE page'[p] # kept
      <4>1. Settled(e)' /\ page'[p].remaining = page[p].remaining
        BY <3>5, <2>4, <2>8
      <4> QED
        BY <4>1, <3>2, <3>3, <2>1, <2>8
    <3> QED
      BY <3>4, <3>5
  <2> QED
    BY <2>4, <2>6, <2>7, <2>9, <2>10, <1>4 DEF QueueInv
<1>13. ASSUME NEW p \in Pages, FlushEnd(p)  PROVE QueueInv'
  <2>1. page[p].remaining \in Seq(Events) /\ Len(page[p].remaining) <= MaxItems
    <3>1. Len(page[p].todo) = 0 /\ Len(page[p].remaining) \in Nat /\ page[p].remaining \in Seq(Events)
      BY <1>7, <1>13 DEF FlushEnd, FlushType
    <3>2. Len(page[p].todo) + Len(page[p].remaining) <= MaxItems
      BY <1>1 DEF Bounded
    <3> QED
      BY <3>1, <3>2
  <2>2. retry' = page[p].remaining
    BY <2>1, KeptBounded, <1>13 DEF FlushEnd
  <2>3. page' = [page EXCEPT ![p] = page'[p]] /\ page'[p] = Idle
    BY <1>1, <1>13 DEF FlushEnd, QueueTypeOK
  <2>4. QueueTypeOK'
    BY <2>1, <2>2, <2>3, <1>1, <1>2, <1>6, <1>13 DEF QueueTypeOK, FlushEnd
  <2>5. \A e \in ToSet(retry) : e \in ToSet(retry') \/ Settled(e)'
    <3> SUFFICES ASSUME NEW e \in ToSet(retry)  PROVE e \in ToSet(retry') \/ Settled(e)'
      OBVIOUS
    <3>1. e \in Events
      BY <1>1 DEF QueueTypeOK, ToSet
    <3>2. CASE e \in page[p].read
      <4>1. ToSet(page[p].todo) = {}
        BY <1>13 DEF FlushEnd, ToSet
      <4>2. e \in ToSet(page[p].remaining) \/ Settled(e)
        BY <3>2, <4>1, <1>1, <1>13 DEF Follows, FlushEnd
      <4> QED
        BY <4>2, <3>1, <2>2, <1>2
    <3>3. CASE e \notin page[p].read
      <4>1. losses'[e] # {}
        BY <3>1, <3>3, <1>13 DEF FlushEnd, Lose
      <4> QED
        BY <4>1 DEF Settled
    <3> QED
      BY <3>2, <3>3
  <2>6. QueuedNotLost'
    <3>1. event' = event
      BY <1>13 DEF FlushEnd
    <3> QED
      BY <3>1, <2>5, <1>3
  <2>7. Bounded(p)' /\ Follows(p)'
    BY <2>3, <1>6 DEF Bounded, Follows
  <2> QED
    BY <2>3, <2>4, <2>6, <2>7, <1>4 DEF QueueInv
<1>14. ASSUME NEW p \in Pages, ClosePage(p)  PROVE QueueInv'
  <2>1. page' = [page EXCEPT ![p] = page'[p]] /\ page'[p] = Closed
    BY <1>1, <1>14 DEF ClosePage, QueueTypeOK
  <2>2. event' = [e \in Events |-> IF e \in sending[p] THEN "abandoned" ELSE event[e]]
        /\ sending' = [sending EXCEPT ![p] = {}]
    BY <1>14 DEF ClosePage
  <2>3. UNCHANGED <<endpoint, storageOk, retry, losses>>
    BY <1>14 DEF ClosePage
  <2>4. QueueTypeOK'
    BY <2>1, <2>2, <2>3, <1>1, <1>2, <1>6 DEF QueueTypeOK
  <2>5. QueuedNotLost'
    <3>1. retry' = retry /\ \A d \in Events : event'[d] \in {event[d], "abandoned"}
      BY <2>2, <2>3
    <3> QED
      BY <3>1, <1>3
  <2>6. Bounded(p)' /\ Follows(p)'
    BY <2>1, <1>6 DEF Bounded, Follows
  <2> QED
    BY <2>1, <2>4, <2>5, <2>6, <1>4 DEF QueueInv
<1>15. ASSUME EndpointChanges  PROVE QueueInv'
  <2>1. QueueTypeOK'
    BY <1>1, <1>15 DEF QueueTypeOK, EndpointChanges
  <2>2. QueuedNotLost'
    <3>1. event' = event /\ retry' = retry
      BY <1>15 DEF EndpointChanges
    <3> QED
      BY <3>1, <1>3
  <2> QED
    BY <2>1, <2>2, <1>5, <1>15 DEF QueueInv, EndpointChanges
<1> QED
  BY <1>8, <1>9, <1>10, <1>11, <1>12, <1>13, <1>14, <1>15 DEF QueueNext

LEMMA QueueStutterKeeps ==
  ASSUME QueueInv, UNCHANGED queueVars  PROVE QueueInv'
BY DEF QueueInv, QueueTypeOK, QueuedNotLost, Bounded, Follows, Settled, queueVars

THEOREM QueueInductive == QueueSpec => []QueueInv
<1>1. QueueInv /\ [QueueNext]_queueVars => QueueInv'
  BY QueueStepKeeps, QueueStutterKeeps
<1> QED
  BY QueueInitInv, <1>1, PTL DEF QueueSpec

(***************************************************************************)
(* Whatever pages, timers and answers do, the SDK's variables keep their   *)
(* types and the stored list never exceeds eventRetryMaxItems.             *)
(***************************************************************************)
THEOREM QueueTypeCorrect == QueueSpec => []QueueTypeOK
<1>1. QueueInv => QueueTypeOK
  BY DEF QueueInv
<1> QED
  BY QueueInductive, <1>1, PTL

(***************************************************************************)
(* An event that sendClientEvent reported as queued or accepted is stored, *)
(* still queued, or was given up for a named reason; and INSERT OR IGNORE  *)
(* keeps one row of it.                                                    *)
(***************************************************************************)
THEOREM QueuedSafe == QueueSpec => []QueuedNotLost
<1>1. QueueInv => QueuedNotLost
  BY DEF QueueInv
<1> QED
  BY QueueInductive, <1>1, PTL

-----------------------------------------------------------------------------
(***************************************************************************)
(* The run with both parts: every step of it is a step of one part that    *)
(* leaves the other alone, so all its invariants hold for every value of   *)
(* the constants.                                                          *)
(***************************************************************************)
THEOREM RunSafe == MCSpec => [](TypesOK /\ StatusTracksFailures /\ QueuedNotLost)
<1>1. MCInit => IInv /\ QueueInv
  BY InitInv, QueueInitInv DEF MCInit
<1>2. [MCNext]_MCVars => [Next]_vars /\ [QueueNext]_queueVars
  BY DEF MCNext, MCVars
<1>3. IInv /\ [Next]_vars => IInv'
  BY StepInv
<1>4. QueueInv /\ [QueueNext]_queueVars => QueueInv'
  BY QueueStepKeeps, QueueStutterKeeps
<1>5. IInv /\ QueueInv => TypesOK /\ StatusTracksFailures /\ QueuedNotLost
  BY DEF IInv, QueueInv, TypesOK
<1> QED
  BY <1>1, <1>2, <1>3, <1>4, <1>5, PTL DEF MCSpec
=============================================================================
