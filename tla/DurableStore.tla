---------------------------- MODULE DurableStore ----------------------------
(***************************************************************************)
(* What the store adapters promise their callers, whatever they do inside: *)
(* a mutation that was asked for may become durable at any time, also      *)
(* after its caller was told it failed; one that was acknowledged is       *)
(* durable; nothing durable is ever lost and nothing appears that nobody   *)
(* asked for.                                                              *)
(***************************************************************************)
CONSTANTS Requests   \* requests; each asks for one mutation

VARIABLES
  asked,     \* mutations that a caller has asked for
  durable,   \* mutations that every later reader of the database finds
  accepted   \* mutations whose caller was told that they are saved
vars == <<asked, durable, accepted>>

Init == asked = {} /\ durable = {} /\ accepted = {}

Ask(r) ==
  /\ asked' = asked \cup {r}
  /\ UNCHANGED <<durable, accepted>>

(* several mutations may become durable together *)
Commit(S) ==
  /\ durable' = durable \cup S
  /\ UNCHANGED <<asked, accepted>>

Accept(r) ==
  /\ accepted' = accepted \cup {r}
  /\ UNCHANGED <<asked, durable>>

Next ==
  \/ \E r \in Requests \ asked : Ask(r)
  \/ \E S \in SUBSET (asked \ durable) : Commit(S)
  \/ \E r \in durable \ accepted : Accept(r)

Spec == Init /\ [][Next]_vars
=============================================================================
