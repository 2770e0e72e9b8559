--------------------------- MODULE SnapshotStore ---------------------------
(***************************************************************************)
(* The Postgres snapshot adapter (src/src/storePostgres.js): every process *)
(* keeps the whole store in an in-memory SQLite database; store.save()     *)
(* exports it and writes it over one Postgres row, compared by revision.   *)
(*                                                                         *)
(* A request that changes the store mutates memory and calls save without  *)
(* doing I/O in between, then waits.  The statement may reach the database *)
(* in any order with those of other requests, its answer may be lost, and  *)
(* the process may die at any moment, before or after its statements run.  *)
(* Nothing restores the memory when a save fails.                          *)
(*                                                                         *)
(* A client event is keyed by event_id: when memory already holds it the   *)
(* handler answers 200 "duplicate" and does not save.                      *)
(***************************************************************************)
EXTENDS Naturals, FiniteSets

CONSTANTS
  Procs,        \* processes pointed at the same snapshot table
  Requests,     \* requests; each adds one mutation to the store
  Events,       \* the requests that are client events
  NoRequest,    \* sender of a statement whose process died
  MaxRevision   \* bound on the revisions of the snapshot row

ASSUME EventsAssumption == Events \subseteq Requests
ASSUME NoRequestAssumption == NoRequest \notin Requests
ASSUME MaxRevisionAssumption == MaxRevision \in Nat

VARIABLES
  row,       \* the snapshot row: revision and content
  up,        \* processes that are running
  memory,    \* mutations in a process's in-memory store
  latest,    \* revision of the snapshot a process read or wrote last
  phase,     \* what the client of a request knows
  sent,      \* snapshot statements on their way to the database
  replies    \* answers of the database on their way back
vars == <<row, up, memory, latest, phase, sent, replies>>

Phases == {"idle", "waiting", "failed", "accepted", "duplicate"}
Statement == [request : Requests \cup {NoRequest}, proc : Procs,
              base : 0 .. MaxRevision, content : SUBSET Requests]
Reply == [request : Requests, proc : Procs, base : 0 .. MaxRevision, ok : BOOLEAN]

TypeOK ==
  /\ row \in [revision : 0 .. MaxRevision, content : SUBSET Requests]
  /\ up \in SUBSET Procs
  /\ memory \in [Procs -> SUBSET Requests]
  /\ latest \in [Procs -> 0 .. MaxRevision]
  /\ phase \in [Requests -> Phases]
  /\ sent \in SUBSET Statement
  /\ replies \in SUBSET Reply

(* loadPostgresStore on an empty table: no row counts as revision 0 *)
Init ==
  /\ row = [revision |-> 0, content |-> {}]
  /\ up = Procs
  /\ memory = [p \in Procs |-> {}]
  /\ latest = [p \in Procs |-> 0]
  /\ phase = [r \in Requests |-> "idle"]
  /\ sent = {}
  /\ replies = {}

-----------------------------------------------------------------------------
(* Mut... are faulty variants of the definition that follows them; the     *)
(* README says which property refutes each.                                *)

(* a handler's mutation and its store.save(), up to the await *)
Mutate(p, r) ==
  /\ p \in up
  /\ phase[r] \in {"idle", "failed"}
  /\ r \in Events => r \notin memory[p]
  /\ latest[p] < MaxRevision
  /\ memory' = [memory EXCEPT ![p] = @ \cup {r}]
  /\ sent' = sent \cup {[request |-> r, proc |-> p, base |-> latest[p],
                         content |-> memory[p] \cup {r}]}
  /\ phase' = [phase EXCEPT ![r] = "waiting"]
  /\ UNCHANGED <<row, up, latest, replies>>

(* addClientEvent finds the event_id: answered from memory, nothing saved *)
Duplicate(p, r) ==
  /\ p \in up
  /\ phase[r] \in {"idle", "failed"}
  /\ r \in Events /\ r \in memory[p]
  /\ phase' = [phase EXCEPT ![r] = "duplicate"]
  /\ UNCHANGED <<row, up, memory, latest, sent, replies>>

(* writeSnapshot's statement: the row is replaced when its revision is the
   one the sender knew *)
MutAnyRevision(s) == TRUE
RevisionMatches(s) == s.base = row.revision

MutAnswerDead(s, ok) ==
  replies' = replies \cup {[request |-> s.request, proc |-> s.proc,
                            base |-> s.base, ok |-> ok]}
Answer(s, ok) ==
  replies' = IF s.request = NoRequest THEN replies
             ELSE replies \cup {[request |-> s.request, proc |-> s.proc,
                                 base |-> s.base, ok |-> ok]}

WriteSnapshot(s) ==
  /\ s \in sent
  /\ sent' = sent \ {s}
  /\ IF RevisionMatches(s)
     THEN /\ row' = [revision |-> s.base + 1, content |-> s.content]
          /\ Answer(s, TRUE)
     ELSE /\ UNCHANGED row
          /\ Answer(s, FALSE)
  /\ UNCHANGED <<up, memory, latest, phase>>

(* the awaited save resolves (latest is replaced) or rejects (500) *)
ReceiveReply(a) ==
  /\ a \in replies
  /\ replies' = replies \ {a}
  /\ latest' = IF a.ok THEN [latest EXCEPT ![a.proc] = a.base + 1] ELSE latest
  /\ phase' = [phase EXCEPT ![a.request] = IF a.ok THEN "accepted" ELSE "failed"]
  /\ UNCHANGED <<row, up, memory, sent>>

(* the connection breaks: a statement or an answer is lost, the save rejects *)
LoseStatement(s) ==
  /\ s \in sent
  /\ sent' = sent \ {s}
  /\ phase' = IF s.request = NoRequest THEN phase
              ELSE [phase EXCEPT ![s.request] = "failed"]
  /\ UNCHANGED <<row, up, memory, latest, replies>>

LoseReply(a) ==
  /\ a \in replies
  /\ replies' = replies \ {a}
  /\ phase' = [phase EXCEPT ![a.request] = "failed"]
  /\ UNCHANGED <<row, up, memory, latest, sent>>

(* statements already sent may still run; their clients see a broken request *)
Crash(p) ==
  /\ p \in up
  /\ up' = up \ {p}
  /\ memory' = [memory EXCEPT ![p] = {}]
  /\ latest' = [latest EXCEPT ![p] = 0]
  /\ LET open == {s.request : s \in {t \in sent : t.proc = p}}
                   \cup {a.request : a \in {b \in replies : b.proc = p}}
     IN phase' = [r \in Requests |-> IF r \in open THEN "failed" ELSE phase[r]]
  /\ sent' = {IF s.proc = p THEN [s EXCEPT !.request = NoRequest] ELSE s : s \in sent}
  /\ replies' = {a \in replies : a.proc # p}
  /\ UNCHANGED row

(* loadPostgresStore: read the row, import the snapshot *)
MutRestartEmpty(p) == {}
LoadedMemory(p) == row.content
Restart(p) ==
  /\ p \notin up
  /\ up' = up \cup {p}
  /\ memory' = [memory EXCEPT ![p] = LoadedMemory(p)]
  /\ latest' = [latest EXCEPT ![p] = row.revision]
  /\ UNCHANGED <<row, phase, sent, replies>>

Next ==
  \/ \E p \in Procs, r \in Requests : Mutate(p, r) \/ Duplicate(p, r)
  \/ \E s \in sent : WriteSnapshot(s) \/ LoseStatement(s)
  \/ \E a \in replies : ReceiveReply(a) \/ LoseReply(a)
  \/ \E p \in Procs : Crash(p) \/ Restart(p)

Spec == Init /\ [][Next]_vars

-----------------------------------------------------------------------------
Accepted == {r \in Requests : phase[r] = "accepted"}

(***************************************************************************)
(* A mutation answered with success after its save is in the snapshot row, *)
(* for any number of processes, lost answers, crashes and statements that  *)
(* run after their process died.                                           *)
(***************************************************************************)
AcceptedIsDurable == Accepted \subseteq row.content

(***************************************************************************)
(* docs/deployment.md: a stale writer fails with a conflict "instead of    *)
(* silently overwriting newer data": no statement removes a mutation that  *)
(* the row holds.                                                          *)
(***************************************************************************)
NoOverwrite == [][row.content \subseteq row'.content]_vars

(***************************************************************************)
(* A process whose next save would be taken has everything the row has.    *)
(***************************************************************************)
FreshWriterIsComplete ==
  \A p \in up : latest[p] = row.revision => row.content \subseteq memory[p]

(***************************************************************************)
(* docs/dee-web-sdk/README.md: "Feedback events use stable event_id values *)
(* and DEE stores them idempotently": an event answered "duplicate" (after *)
(* which the client drops it) is in the row, or still somewhere from where *)
(* it can get there.                                                       *)
(***************************************************************************)
DuplicateIsNotLost ==
  \A r \in Events : phase[r] = "duplicate" =>
    \/ r \in row.content
    \/ \E p \in up : r \in memory[p]
    \/ \E s \in sent : r \in s.content

(***************************************************************************)
(* The adapter implements DurableStore: what store.save() acknowledges is  *)
(* durable, and no process, crash or late statement takes a durable        *)
(* mutation back or makes one up.                                          *)
(***************************************************************************)
Asked == {r \in Requests : phase[r] # "idle"}
Promise == INSTANCE DurableStore
             WITH asked <- Asked, durable <- row.content, accepted <- Accepted
ImplementsDurableStore == Promise!Spec
=============================================================================
