------------------------------ MODULE MCRecovery ------------------------------
(* Two parts that have to recover from an outage by themselves, one beside  *)
(* the other: the circuit breaker of profile lookups and the retry queue of *)
(* the browser SDK.  `part' says which of them a behaviour is about, the    *)
(* other stays in an initial state.  No symmetry: the runs check liveness.  *)
EXTENDS ProfileLookup, EventQueue

CONSTANT Parts
VARIABLE part

Two == {"r1", "r2"}
Three == {"r1", "r2", "r3"}

QueueAtRest == endpoint = "up" /\ storageOk

MCInit == /\ part \in Parts
          /\ Init
          /\ QueueInit /\ (part # "queue" => QueueAtRest)

MCNext == /\ \/ part = "lookup" /\ Next /\ UNCHANGED queueVars
             \/ part = "queue" /\ QueueNext /\ UNCHANGED vars
          /\ UNCHANGED part

MCVars == <<part, vars, queueVars>>

\* Each part under its own fairness, and under no other.
MCSpec == /\ MCInit /\ [][MCNext]_MCVars
          /\ part = "lookup" => Fairness
          /\ part = "queue" => QueueFairness

\* Every variable of both parts keeps its type.
TypesOK == TypeOK /\ QueueTypeOK
=============================================================================
