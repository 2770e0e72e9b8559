------------------------ MODULE SnapshotStoreProofs ------------------------
(***************************************************************************)
(* Proofs about SnapshotStore: no acknowledged mutation is lost and no     *)
(* newer data is overwritten, for any number of processes and requests.    *)
(*                                                                         *)
(* The revision is a fencing token.  The inductive invariant says who may  *)
(* still write: a statement, a process or an undelivered answer that knows *)
(* the row's present revision also carries everything the row holds.       *)
(***************************************************************************)
EXTENDS SnapshotStore, TLAPS

(* a statement the database would take carries all of the row *)
FreshStatements ==
  \A s \in sent : s.base = row.revision => row.content \subseteq s.content

(* a live statement was exported from what its process still holds *)
StatementsInMemory ==
  \A s \in sent : s.request # NoRequest =>
    s.proc \in up /\ s.content \subseteq memory[s.proc]

(* an undelivered success is in the row, and its process has all of the row
   if that answer is about the newest revision *)
RepliesStored ==
  \A a \in replies :
    /\ a.proc \in up
    /\ a.base <= MaxRevision /\ (a.ok => a.base + 1 <= row.revision)
    /\ a.ok => a.request \in row.content
    /\ a.ok /\ a.base + 1 = row.revision => row.content \subseteq memory[a.proc]

(* a live statement carries its own mutation *)
StatementsCarry ==
  \A s \in sent : s.request # NoRequest => s.request \in s.content

RevisionsKnown ==
  /\ \A p \in Procs : latest[p] <= row.revision
  /\ \A s \in sent : s.base <= row.revision /\ s.base < MaxRevision

IInv ==
  /\ TypeOK
  /\ AcceptedIsDurable
  /\ FreshWriterIsComplete
  /\ FreshStatements
  /\ StatementsInMemory
  /\ StatementsCarry
  /\ RepliesStored
  /\ RevisionsKnown

-----------------------------------------------------------------------------
(* The initial state satisfies the inductive invariant. *)
LEMMA InitInv == Init => IInv
  BY MaxRevisionAssumption
  DEF Init, IInv, TypeOK, Phases, AcceptedIsDurable, Accepted,
      FreshWriterIsComplete, FreshStatements, StatementsInMemory,
      StatementsCarry, RepliesStored, RevisionsKnown

(* A new statement carries all its process holds, at the revision it knows. *)
LEMMA MutateInv ==
  ASSUME IInv, NEW p \in Procs, NEW r \in Requests, Mutate(p, r)
  PROVE  IInv'
<1> DEFINE s == [request |-> r, proc |-> p, base |-> latest[p],
                 content |-> memory[p] \cup {r}]
<1>0. /\ sent' = sent \cup {s} /\ p \in up
      /\ memory' = [memory EXCEPT ![p] = @ \cup {r}]
      /\ phase' = [phase EXCEPT ![r] = "waiting"]
      /\ latest[p] < MaxRevision /\ row' = row /\ up' = up
      /\ latest' = latest /\ replies' = replies
  BY DEF Mutate
<1>1. /\ s \in Statement /\ s.request = r /\ s.proc = p /\ s.base = latest[p]
      /\ s.content = memory[p] \cup {r}
  BY DEF IInv, TypeOK, Statement
<1> HIDE DEF s
<1>2. /\ memory \in [Procs -> SUBSET Requests]
      /\ \A q \in Procs : memory[q] \subseteq memory'[q]
      /\ memory'[p] = memory[p] \cup {r}
  BY <1>0 DEF IInv, TypeOK
<1>3. TypeOK'
  BY <1>0, <1>1 DEF IInv, TypeOK, Phases
<1>4. AcceptedIsDurable'
  BY <1>0 DEF IInv, TypeOK, AcceptedIsDurable, Accepted
<1>5. FreshWriterIsComplete'
  BY <1>0, <1>2 DEF IInv, TypeOK, FreshWriterIsComplete
<1>6. FreshStatements'
  BY <1>0, <1>1 DEF IInv, FreshWriterIsComplete, FreshStatements
<1>7. StatementsInMemory'
  BY <1>0, <1>1, <1>2 DEF IInv, TypeOK, StatementsInMemory
<1>8. StatementsCarry'
  BY <1>0, <1>1 DEF IInv, StatementsCarry
<1>9. RepliesStored'
  BY <1>0, <1>2 DEF IInv, TypeOK, Reply, RepliesStored
<1>10. RevisionsKnown'
  BY <1>0, <1>1 DEF IInv, RevisionsKnown
<1> QED
  BY <1>3, <1>4, <1>5, <1>6, <1>7, <1>8, <1>9, <1>10 DEF IInv

(* Answering a duplicate changes only what its client knows. *)
LEMMA DuplicateInv ==
  ASSUME IInv, NEW p \in Procs, NEW r \in Requests, Duplicate(p, r)
  PROVE  IInv'
<1>1. TypeOK' /\ AcceptedIsDurable'
  BY DEF Duplicate, IInv, TypeOK, Phases, AcceptedIsDurable, Accepted
<1>2. UNCHANGED <<row, up, memory, latest, sent, replies>>
  BY DEF Duplicate
<1> QED
  BY <1>1, <1>2
  DEF IInv, FreshWriterIsComplete, FreshStatements, StatementsInMemory,
      StatementsCarry, RepliesStored, RevisionsKnown

(* A statement that the database takes adds to the row; no process, statement
   or answer knows the new revision but the answer to it. *)
LEMMA WriteInv ==
  ASSUME IInv, NEW s \in sent, WriteSnapshot(s)
  PROVE  IInv'
<1>1. /\ s \in Statement /\ s.base < MaxRevision
      /\ sent' \subseteq sent /\ UNCHANGED <<up, memory, latest, phase>>
  BY DEF WriteSnapshot, IInv, TypeOK, RevisionsKnown
<1>2. CASE ~ RevisionMatches(s)
  <2>1. row' = row
    BY <1>2 DEF WriteSnapshot
  <2>2. \A a \in replies' : a \in replies \/
          /\ s.request # NoRequest
          /\ a = [request |-> s.request, proc |-> s.proc, base |-> s.base, ok |-> FALSE]
    BY <1>2 DEF WriteSnapshot, Answer
  <2>3. TypeOK'
    <3>1. s.request # NoRequest =>
            [request |-> s.request, proc |-> s.proc, base |-> s.base, ok |-> FALSE]
              \in Reply
      BY <1>1 DEF Statement, Reply
    <3>2. replies \subseteq Reply
      BY DEF IInv, TypeOK
    <3>3. replies' \subseteq Reply
      BY <2>2, <3>1, <3>2
    <3> QED
      BY <1>1, <2>1, <3>3 DEF IInv, TypeOK
  <2>4. RepliesStored'
    BY <1>1, <2>1, <2>2 DEF IInv, TypeOK, Statement, StatementsInMemory, RepliesStored
  <2> QED
    BY <1>1, <2>1, <2>3, <2>4
    DEF IInv, AcceptedIsDurable, Accepted, FreshWriterIsComplete, FreshStatements,
        StatementsInMemory, StatementsCarry, RevisionsKnown
<1>3. CASE RevisionMatches(s)
  <2>1. /\ row' = [revision |-> s.base + 1, content |-> s.content]
        /\ s.base = row.revision
    BY <1>3 DEF WriteSnapshot, RevisionMatches
  <2>2. /\ row'.revision = row.revision + 1 /\ row'.content = s.content
        /\ row.revision \in Nat /\ row'.revision \in 0 .. MaxRevision
        /\ row' \in [revision : 0 .. MaxRevision, content : SUBSET Requests]
    BY <1>1, <2>1, MaxRevisionAssumption DEF IInv, TypeOK, Statement
  <2>3. row.content \subseteq row'.content
    BY <2>1, <2>2 DEF IInv, FreshStatements
  <2>4. \A a \in replies' : a \in replies \/
          /\ s.request # NoRequest
          /\ a = [request |-> s.request, proc |-> s.proc, base |-> s.base, ok |-> TRUE]
    BY <1>3 DEF WriteSnapshot, Answer
  <2>5. TypeOK'
    <3>1. s.request # NoRequest =>
            [request |-> s.request, proc |-> s.proc, base |-> s.base, ok |-> TRUE]
              \in Reply
      BY <1>1 DEF Statement, Reply
    <3>2. replies \subseteq Reply
      BY DEF IInv, TypeOK
    <3>3. replies' \subseteq Reply
      BY <2>4, <3>1, <3>2
    <3> QED
      BY <1>1, <2>2, <3>3 DEF IInv, TypeOK
  <2>6. RepliesStored'
    <3> SUFFICES ASSUME NEW a \in replies'
                 PROVE  /\ a.proc \in up
                        /\ a.base <= MaxRevision
                        /\ a.ok => a.base + 1 <= row'.revision
                        /\ a.ok => a.request \in row'.content
                        /\ a.ok /\ a.base + 1 = row'.revision
                             => row'.content \subseteq memory[a.proc]
      BY <1>1 DEF RepliesStored
    <3>1. CASE a \in replies
      <4>1. a.base \in Nat
        BY <3>1 DEF IInv, TypeOK, Reply
      <4> QED
        BY <2>2, <2>3, <3>1, <4>1 DEF IInv, RepliesStored
    <3>2. CASE /\ s.request # NoRequest
               /\ a = [request |-> s.request, proc |-> s.proc, base |-> s.base,
                       ok |-> TRUE]
      BY <1>1, <2>1, <2>2, <3>2
      DEF IInv, Statement, StatementsInMemory, StatementsCarry
    <3> QED
      BY <2>4, <3>1, <3>2
  <2>7. AcceptedIsDurable'
    BY <1>1, <2>3 DEF IInv, AcceptedIsDurable, Accepted
  <2>8. RevisionsKnown'
    <3>1. \A p \in Procs : latest[p] \in Nat
      BY DEF IInv, TypeOK
    <3>2. \A t \in sent : t.base \in Nat
      BY DEF IInv, TypeOK, Statement
    <3> QED
      BY <1>1, <2>2, <3>1, <3>2 DEF IInv, RevisionsKnown
  <2>9. FreshWriterIsComplete' /\ FreshStatements'
    <3>1. \A p \in Procs : latest[p] # row'.revision
      BY <2>2 DEF IInv, TypeOK, RevisionsKnown
    <3>2. \A t \in sent : t.base # row'.revision
      BY <2>2 DEF IInv, TypeOK, Statement, RevisionsKnown
    <3> QED
      BY <1>1, <3>1, <3>2 DEF IInv, TypeOK, FreshWriterIsComplete, FreshStatements
  <2> QED
    BY <1>1, <2>5, <2>6, <2>7, <2>8, <2>9
    DEF IInv, StatementsInMemory, StatementsCarry
<1> QED
  BY <1>2, <1>3

(* A delivered success is in the row, and moves its process to a revision
   whose content that process holds. *)
LEMMA ReceiveInv ==
  ASSUME IInv, NEW a \in replies, ReceiveReply(a)
  PROVE  IInv'
<1>1. /\ a \in Reply /\ a.proc \in up /\ replies' \subseteq replies
      /\ UNCHANGED <<row, up, memory, sent>>
      /\ a.ok => a.request \in row.content
  BY DEF ReceiveReply, IInv, TypeOK, RepliesStored
<1>2. /\ row.revision \in 0 .. MaxRevision /\ a.base \in Nat
      /\ a.ok => /\ a.base + 1 \in 0 .. MaxRevision
                 /\ a.base + 1 <= row.revision
                 /\ a.base + 1 = row.revision => row.content \subseteq memory[a.proc]
  BY <1>1, MaxRevisionAssumption DEF IInv, TypeOK, Reply, RepliesStored
<1>3. /\ latest' \in [Procs -> 0 .. MaxRevision]
      /\ \A p \in Procs :
           \/ latest'[p] = latest[p]
           \/ a.ok /\ p = a.proc /\ latest'[p] = a.base + 1
  <2>0. latest \in [Procs -> 0 .. MaxRevision]
    BY DEF IInv, TypeOK
  <2>1. CASE a.ok
    <3>1. latest' = [latest EXCEPT ![a.proc] = a.base + 1]
      BY <2>1 DEF ReceiveReply
    <3>2. a.proc \in Procs /\ a.base + 1 \in 0 .. MaxRevision
      BY <1>1, <1>2, <2>1 DEF Reply
    <3>3. /\ latest' \in [Procs -> 0 .. MaxRevision]
          /\ latest'[a.proc] = a.base + 1
          /\ \A p \in Procs : p # a.proc => latest'[p] = latest[p]
      BY <2>0, <3>1, <3>2
    <3> QED
      BY <2>1, <3>3
  <2>2. CASE ~ a.ok
    <3>1. latest' = latest
      BY <2>2 DEF ReceiveReply
    <3> QED
      BY <2>0, <3>1
  <2> QED
    BY <2>1, <2>2
<1>4. /\ phase' \in [Requests -> Phases]
      /\ \A r \in Requests : phase'[r] = "accepted" =>
           \/ phase[r] = "accepted"
           \/ a.ok /\ r = a.request
  <2>0. phase \in [Requests -> Phases]
    BY DEF IInv, TypeOK
  <2>1. CASE a.ok
    <3>1. phase' = [phase EXCEPT ![a.request] = "accepted"]
      BY <2>1 DEF ReceiveReply
    <3> QED
      BY <2>0, <2>1, <3>1 DEF Phases
  <2>2. CASE ~ a.ok
    <3>1. phase' = [phase EXCEPT ![a.request] = "failed"]
      BY <2>2 DEF ReceiveReply
    <3> QED
      BY <2>0, <3>1 DEF Phases
  <2> QED
    BY <2>1, <2>2
<1>5. TypeOK'
  BY <1>1, <1>3, <1>4 DEF IInv, TypeOK
<1>6. AcceptedIsDurable'
  BY <1>1, <1>4 DEF IInv, AcceptedIsDurable, Accepted
<1>7. FreshWriterIsComplete'
  BY <1>1, <1>2, <1>3 DEF IInv, TypeOK, FreshWriterIsComplete
<1>8. RepliesStored'
  BY <1>1 DEF IInv, RepliesStored
<1>9. RevisionsKnown'
  BY <1>1, <1>2, <1>3 DEF IInv, RevisionsKnown
<1> QED
  BY <1>1, <1>5, <1>6, <1>7, <1>8, <1>9
  DEF IInv, FreshStatements, StatementsInMemory, StatementsCarry

(* A lost statement is one fewer. *)
LEMMA LoseStatementInv ==
  ASSUME IInv, NEW s \in sent, LoseStatement(s)
  PROVE  IInv'
<1>1. sent' \subseteq sent /\ UNCHANGED <<row, up, memory, latest, replies>>
  BY DEF LoseStatement
<1>2. /\ phase' \in [Requests -> Phases]
      /\ \A r \in Requests : phase'[r] = "accepted" => phase[r] = "accepted"
  BY DEF LoseStatement, IInv, TypeOK, Phases
<1>3. TypeOK'
  BY <1>1, <1>2 DEF IInv, TypeOK
<1>4. AcceptedIsDurable'
  BY <1>1, <1>2 DEF IInv, AcceptedIsDurable, Accepted
<1> QED
  BY <1>1, <1>3, <1>4
  DEF IInv, FreshWriterIsComplete, FreshStatements, StatementsInMemory,
      StatementsCarry, RepliesStored, RevisionsKnown

(* A lost answer is one fewer. *)
LEMMA LoseReplyInv ==
  ASSUME IInv, NEW a \in replies, LoseReply(a)
  PROVE  IInv'
<1>1. replies' \subseteq replies /\ UNCHANGED <<row, up, memory, latest, sent>>
  BY DEF LoseReply
<1>2. /\ phase' \in [Requests -> Phases]
      /\ \A r \in Requests : phase'[r] = "accepted" => phase[r] = "accepted"
  BY DEF LoseReply, IInv, TypeOK, Phases
<1>3. TypeOK'
  BY <1>1, <1>2 DEF IInv, TypeOK
<1>4. AcceptedIsDurable'
  BY <1>1, <1>2 DEF IInv, AcceptedIsDurable, Accepted
<1> QED
  BY <1>1, <1>3, <1>4
  DEF IInv, FreshWriterIsComplete, FreshStatements, StatementsInMemory,
      StatementsCarry, RepliesStored, RevisionsKnown

(* What a dead process had sent stays in order, without a client to answer. *)
LEMMA CrashInv ==
  ASSUME IInv, NEW p \in Procs, Crash(p)
  PROVE  IInv'
<1>1. /\ up' = up \ {p} /\ row' = row
      /\ memory' = [memory EXCEPT ![p] = {}]
      /\ latest' = [latest EXCEPT ![p] = 0]
      /\ replies' = {a \in replies : a.proc # p}
  BY DEF Crash
<1>2. /\ phase' \in [Requests -> Phases]
      /\ \A r \in Requests : phase'[r] = "accepted" => phase[r] = "accepted"
  BY DEF Crash, IInv, TypeOK, Phases
<1>3. /\ \A q \in Procs : q # p => memory'[q] = memory[q] /\ latest'[q] = latest[q]
      /\ memory' \in [Procs -> SUBSET Requests]
      /\ latest' \in [Procs -> 0 .. MaxRevision]
      /\ latest'[p] = 0
  BY <1>1, MaxRevisionAssumption DEF IInv, TypeOK
<1>4. \A t \in sent' : \E s \in sent :
        /\ t \in Statement
        /\ t.base = s.base /\ t.content = s.content /\ t.proc = s.proc
        /\ t.request # NoRequest => t = s /\ s.proc # p
  <2> SUFFICES ASSUME NEW s \in sent,
                      NEW t, t = IF s.proc = p THEN [s EXCEPT !.request = NoRequest]
                                 ELSE s
               PROVE  /\ t \in Statement
                      /\ t.base = s.base /\ t.content = s.content /\ t.proc = s.proc
                      /\ t.request # NoRequest => t = s /\ s.proc # p
    BY DEF Crash
  <2>1. s \in Statement
    BY DEF IInv, TypeOK
  <2> QED
    BY <2>1 DEF Statement
<1>5. TypeOK'
  BY <1>1, <1>2, <1>3, <1>4 DEF IInv, TypeOK
<1>6. AcceptedIsDurable'
  BY <1>1, <1>2 DEF IInv, AcceptedIsDurable, Accepted
<1>7. FreshWriterIsComplete'
  BY <1>1, <1>3 DEF IInv, TypeOK, FreshWriterIsComplete
<1>8. FreshStatements' /\ StatementsCarry'
  BY <1>1, <1>4 DEF IInv, FreshStatements, StatementsCarry
<1>9. StatementsInMemory'
  BY <1>1, <1>3, <1>4 DEF IInv, TypeOK, Statement, StatementsInMemory
<1>10. RepliesStored'
  BY <1>1, <1>3 DEF IInv, TypeOK, Reply, RepliesStored
<1>11. RevisionsKnown'
  <2>1. 0 <= row.revision
    BY DEF IInv, TypeOK
  <2> QED
    BY <1>1, <1>3, <1>4, <2>1 DEF IInv, RevisionsKnown
<1> QED
  BY <1>5, <1>6, <1>7, <1>8, <1>9, <1>10, <1>11 DEF IInv

(* A restarted process knows the present revision and holds all of the row. *)
LEMMA RestartInv ==
  ASSUME IInv, NEW p \in Procs, Restart(p)
  PROVE  IInv'
<1>1. /\ up' = up \cup {p} /\ p \notin up
      /\ UNCHANGED <<row, phase, sent, replies>>
  BY DEF Restart
<1>2. /\ memory' \in [Procs -> SUBSET Requests]
      /\ latest' \in [Procs -> 0 .. MaxRevision]
      /\ memory'[p] = row.content /\ latest'[p] = row.revision
      /\ \A q \in Procs : q # p => memory'[q] = memory[q] /\ latest'[q] = latest[q]
  BY DEF Restart, LoadedMemory, IInv, TypeOK
<1>3. TypeOK'
  BY <1>1, <1>2 DEF IInv, TypeOK
<1>4. FreshWriterIsComplete'
  BY <1>1, <1>2 DEF IInv, TypeOK, FreshWriterIsComplete
<1>5. StatementsInMemory'
  BY <1>1, <1>2 DEF IInv, TypeOK, Statement, StatementsInMemory
<1>6. RepliesStored'
  BY <1>1, <1>2 DEF IInv, TypeOK, Reply, RepliesStored
<1>7. RevisionsKnown'
  <2>1. row.revision <= row.revision
    BY DEF IInv, TypeOK
  <2> QED
    BY <1>1, <1>2, <2>1 DEF IInv, RevisionsKnown
<1> QED
  BY <1>1, <1>3, <1>4, <1>5, <1>6, <1>7
  DEF IInv, AcceptedIsDurable, Accepted, FreshStatements, StatementsCarry

-----------------------------------------------------------------------------
(* Every step of the specification preserves the inductive invariant. *)
LEMMA StepInv == IInv /\ [Next]_vars => IInv'
<1> SUFFICES ASSUME IInv, [Next]_vars PROVE IInv'
  OBVIOUS
<1>1. CASE UNCHANGED vars
  BY <1>1
  DEF vars, IInv, TypeOK, AcceptedIsDurable, Accepted, FreshWriterIsComplete,
      FreshStatements, StatementsInMemory, StatementsCarry, RepliesStored,
      RevisionsKnown
<1>2. ASSUME NEW p \in Procs, NEW r \in Requests, Mutate(p, r) \/ Duplicate(p, r)
      PROVE  IInv'
  BY <1>2, MutateInv, DuplicateInv
<1>3. ASSUME NEW s \in sent, WriteSnapshot(s) \/ LoseStatement(s)
      PROVE  IInv'
  BY <1>3, WriteInv, LoseStatementInv
<1>4. ASSUME NEW a \in replies, ReceiveReply(a) \/ LoseReply(a)
      PROVE  IInv'
  BY <1>4, ReceiveInv, LoseReplyInv
<1>5. ASSUME NEW p \in Procs, Crash(p) \/ Restart(p)
      PROVE  IInv'
  BY <1>5, CrashInv, RestartInv
<1> QED
  BY <1>1, <1>2, <1>3, <1>4, <1>5 DEF Next

(* The inductive invariant holds in every reachable state. *)
LEMMA Invariant == Spec => []IInv
  BY InitInv, StepInv, PTL DEF Spec

(* The variables keep their types: no step leaves a statement or an answer   *)
(* whose sender, revision or content the code could not have produced.       *)
THEOREM TypeCorrect == Spec => []TypeOK
<1>1. IInv => TypeOK
  BY DEF IInv
<1> QED
  BY Invariant, <1>1, PTL

(* No mutation that store.save() acknowledged is missing from the snapshot   *)
(* row, whatever processes die and whatever answers are lost.                *)
THEOREM AcceptedSafe == Spec => []AcceptedIsDurable
<1>1. IInv => AcceptedIsDurable
  BY DEF IInv
<1> QED
  BY Invariant, <1>1, PTL

(* A process whose revision is current holds all that the row holds, so its  *)
(* next export is complete.                                                  *)
THEOREM FreshWriterSafe == Spec => []FreshWriterIsComplete
<1>1. IInv => FreshWriterIsComplete
  BY DEF IInv
<1> QED
  BY Invariant, <1>1, PTL

(* writeSnapshot never replaces newer data: whatever the row holds, every    *)
(* later row holds.                                                          *)
THEOREM OverwriteSafe == Spec => NoOverwrite
<1>1. IInv /\ [Next]_vars => [row.content \subseteq row'.content]_vars
  <2> SUFFICES ASSUME IInv, Next PROVE row.content \subseteq row'.content
    OBVIOUS
  <2>1. ASSUME NEW s \in sent, WriteSnapshot(s)
        PROVE  row.content \subseteq row'.content
    <3>1. CASE RevisionMatches(s)
      BY <2>1, <3>1 DEF WriteSnapshot, RevisionMatches, IInv, FreshStatements
    <3>2. CASE ~ RevisionMatches(s)
      BY <2>1, <3>2 DEF WriteSnapshot
    <3> QED
      BY <3>1, <3>2
  <2>2. CASE UNCHANGED row
    BY <2>2
  <2> QED
    BY <2>1, <2>2 DEF Next, Mutate, Duplicate, LoseStatement, ReceiveReply,
                      LoseReply, Crash, Restart
<1> QED
  BY Invariant, <1>1, PTL DEF Spec, NoOverwrite

-----------------------------------------------------------------------------
(* The refinement of DurableStore needs two more facts about a save.        *)

(* at most one statement or answer of a request has somebody waiting for it *)
OneOutstanding ==
  /\ \A s \in sent : s.request # NoRequest => phase[s.request] = "waiting"
  /\ \A a \in replies : phase[a.request] = "waiting"
  /\ \A s, t \in sent : s.request = t.request /\ s.request # NoRequest => s = t
  /\ \A a, b \in replies : a.request = b.request => a = b
  /\ \A s \in sent, a \in replies : s.request # a.request

(* no process and no statement carries a mutation nobody asked for *)
OnlyAsked ==
  /\ row.content \subseteq Asked
  /\ \A p \in Procs : memory[p] \subseteq Asked
  /\ \A s \in sent : s.content \subseteq Asked

RInv == TypeOK /\ OneOutstanding /\ OnlyAsked

(* Initially nothing is outstanding and nothing is known. *)
LEMMA InitRInv == Init => RInv
  BY InitInv DEF IInv, Init, RInv, OneOutstanding, OnlyAsked

(* A request that is tried, or tried again, has nothing else under way. *)
LEMMA MutateRInv ==
  ASSUME RInv, TypeOK', NEW p \in Procs, NEW r \in Requests, Mutate(p, r)
  PROVE  RInv'
<1> DEFINE s == [request |-> r, proc |-> p, base |-> latest[p],
                 content |-> memory[p] \cup {r}]
<1>1. /\ sent' = sent \cup {s}
      /\ phase' = [phase EXCEPT ![r] = "waiting"]
      /\ memory' = [memory EXCEPT ![p] = @ \cup {r}]
      /\ phase[r] # "waiting" /\ row' = row /\ replies' = replies
  BY DEF Mutate
<1>2. s.request = r /\ s.content = memory[p] \cup {r}
  OBVIOUS
<1> HIDE DEF s
<1>3. Asked' = Asked \cup {r}
  BY <1>1 DEF Asked, RInv, TypeOK
<1>4. \A t \in sent : t.request # r
  BY <1>1, NoRequestAssumption DEF RInv, OneOutstanding
<1>5. \A a \in replies : a.request # r
  BY <1>1 DEF RInv, OneOutstanding
<1>6. OneOutstanding'
  BY <1>1, <1>2, <1>4, <1>5 DEF RInv, TypeOK, Statement, Reply, OneOutstanding
<1>7. OnlyAsked'
  BY <1>1, <1>2, <1>3 DEF RInv, TypeOK, OnlyAsked
<1> QED
  BY <1>6, <1>7 DEF RInv

(* A statement leaves the row as it is or replaces its content. *)
LEMMA WriteRow ==
  ASSUME NEW s \in sent, WriteSnapshot(s)
  PROVE  /\ sent' = sent \ {s} /\ phase' = phase /\ memory' = memory
         /\ row' = row \/ (RevisionMatches(s) /\ row'.content = s.content)
<1>1. CASE RevisionMatches(s)
  BY <1>1 DEF WriteSnapshot
<1>2. CASE ~ RevisionMatches(s)
  BY <1>2 DEF WriteSnapshot
<1> QED
  BY <1>1, <1>2

(* An answered statement is not under way any more. *)
LEMMA WriteRInv ==
  ASSUME RInv, TypeOK', NEW s \in sent, WriteSnapshot(s)
  PROVE  RInv'
<1>1. /\ sent' = sent \ {s} /\ phase' = phase /\ memory' = memory
      /\ row'.content = row.content \/ row'.content = s.content
  BY WriteRow
<1>2. \A a \in replies' : a \in replies \/
        (s.request # NoRequest /\ a.request = s.request)
  BY DEF WriteSnapshot, Answer
<1>3. \A a, b \in replies' : a \notin replies /\ b \notin replies => a = b
  BY DEF WriteSnapshot, Answer
<1>4. OneOutstanding'
  BY <1>1, <1>2, <1>3 DEF RInv, OneOutstanding
<1>5. OnlyAsked'
  BY <1>1 DEF RInv, OnlyAsked, Asked
<1> QED
  BY <1>4, <1>5 DEF RInv

(* Delivered and lost answers and lost statements leave nothing behind. *)
LEMMA AnswerRInv ==
  ASSUME RInv, TypeOK', NEW a \in replies, ReceiveReply(a) \/ LoseReply(a)
  PROVE  RInv'
<1>1. /\ replies' = replies \ {a} /\ UNCHANGED <<row, memory, sent>>
      /\ \/ phase' = [phase EXCEPT ![a.request] = "accepted"]
         \/ phase' = [phase EXCEPT ![a.request] = "failed"]
  BY DEF ReceiveReply, LoseReply
<1>2. a.request \in Requests /\ phase \in [Requests -> Phases]
  BY DEF RInv, TypeOK, Reply
<1>3. \A r \in Requests : r # a.request => phase'[r] = phase[r]
  BY <1>1, <1>2
<1>4. OneOutstanding'
  BY <1>1, <1>3 DEF RInv, TypeOK, Statement, Reply, OneOutstanding
<1>5. Asked \subseteq Asked'
  BY <1>1, <1>2 DEF Asked
<1> QED
  BY <1>1, <1>4, <1>5 DEF RInv, OnlyAsked

LEMMA LoseStatementRInv ==
  ASSUME RInv, TypeOK', NEW s \in sent, LoseStatement(s)
  PROVE  RInv'
<1>1. /\ sent' = sent \ {s} /\ UNCHANGED <<row, memory, replies>>
      /\ phase' = IF s.request = NoRequest THEN phase
                  ELSE [phase EXCEPT ![s.request] = "failed"]
  BY DEF LoseStatement
<1>2. phase \in [Requests -> Phases] /\ s.request \in Requests \cup {NoRequest}
  BY DEF RInv, TypeOK, Statement
<1>3. \A r \in Requests : r # s.request => phase'[r] = phase[r]
  BY <1>1, <1>2
<1>4. OneOutstanding'
  BY <1>1, <1>3 DEF RInv, TypeOK, Statement, Reply, OneOutstanding
<1>5. Asked \subseteq Asked'
  BY <1>1, <1>2 DEF Asked
<1> QED
  BY <1>1, <1>4, <1>5 DEF RInv, OnlyAsked

(* A crash leaves the statements, but nobody waits for them. *)
LEMMA CrashRInv ==
  ASSUME RInv, TypeOK', NEW p \in Procs, Crash(p)
  PROVE  RInv'
<1> DEFINE open == {s.request : s \in {t \in sent : t.proc = p}}
                     \cup {a.request : a \in {b \in replies : b.proc = p}}
<1>1. /\ row' = row /\ memory' = [memory EXCEPT ![p] = {}]
      /\ phase' = [r \in Requests |-> IF r \in open THEN "failed" ELSE phase[r]]
      /\ sent' = {IF s.proc = p THEN [s EXCEPT !.request = NoRequest] ELSE s : s \in sent}
      /\ replies' = {a \in replies : a.proc # p}
  BY DEF Crash
<1>2. \A t \in sent' : /\ \E s \in sent : t.content = s.content
                       /\ t.request # NoRequest => t \in sent /\ t.proc # p
  BY <1>1 DEF RInv, TypeOK, Statement
<1>3. \A t \in sent' : t.request # NoRequest => t.request \notin open
  BY <1>2 DEF RInv, OneOutstanding
<1>4. \A a \in replies' : a \in replies /\ a.request \notin open
  BY <1>1 DEF RInv, OneOutstanding
<1>5. /\ \A t \in sent' : t.request # NoRequest => phase'[t.request] = "waiting"
      /\ \A a \in replies' : phase'[a.request] = "waiting"
  BY <1>1, <1>2, <1>3, <1>4 DEF RInv, TypeOK, Statement, Reply, OneOutstanding
<1>6. /\ \A s, t \in sent' : s.request = t.request /\ s.request # NoRequest => s = t
      /\ \A a, b \in replies' : a.request = b.request => a = b
  BY <1>2, <1>4 DEF RInv, OneOutstanding
<1>7. \A s \in sent', a \in replies' : s.request # a.request
  BY <1>2, <1>4, NoRequestAssumption DEF RInv, TypeOK, Reply, OneOutstanding
<1>8. Asked \subseteq Asked'
  BY <1>1 DEF Asked
<1>9. OnlyAsked'
  BY <1>1, <1>2, <1>8 DEF RInv, TypeOK, OnlyAsked
<1> QED
  BY <1>5, <1>6, <1>7, <1>9 DEF RInv, OneOutstanding

LEMMA StepRInv == RInv /\ TypeOK' /\ [Next]_vars => RInv'
<1> SUFFICES ASSUME RInv, TypeOK', [Next]_vars PROVE RInv'
  OBVIOUS
<1>1. CASE UNCHANGED vars
  BY <1>1 DEF vars, RInv, OneOutstanding, OnlyAsked, Asked
<1>2. ASSUME NEW p \in Procs, NEW r \in Requests, Duplicate(p, r) PROVE RInv'
  <2>1. /\ UNCHANGED <<row, memory, sent, replies>> /\ phase[r] # "waiting"
        /\ phase' = [phase EXCEPT ![r] = "duplicate"]
    BY <1>2 DEF Duplicate
  <2>2. \A q \in Requests : q # r => phase'[q] = phase[q]
    BY <2>1 DEF RInv, TypeOK
  <2>3. OneOutstanding'
    BY <2>1, <2>2 DEF RInv, TypeOK, Statement, Reply, OneOutstanding
  <2>4. Asked \subseteq Asked'
    BY <2>1 DEF Asked, RInv, TypeOK
  <2> QED
    BY <2>1, <2>3, <2>4 DEF RInv, OnlyAsked
<1>3. ASSUME NEW p \in Procs, Restart(p) PROVE RInv'
  BY <1>3 DEF Restart, LoadedMemory, RInv, TypeOK, OneOutstanding, OnlyAsked, Asked
<1> QED
  BY <1>1, <1>2, <1>3, MutateRInv, WriteRInv, AnswerRInv, LoseStatementRInv,
     CrashRInv DEF Next

(* What a step of the adapter is for its callers: asking, committing what a  *)
(* statement carries, accepting what its answer says, or nothing.            *)
LEMMA StepRefines == IInv /\ RInv /\ [Next]_vars => [Promise!Next]_(Promise!vars)
<1> SUFFICES ASSUME IInv, RInv, [Next]_vars
             PROVE  Promise!Next \/ UNCHANGED <<Asked, row.content, Accepted>>
  BY DEF Promise!vars
<1> USE DEF Asked, Accepted
<1>t. phase \in [Requests -> Phases]
  BY DEF RInv, TypeOK
<1>1. CASE UNCHANGED vars
  BY <1>1 DEF vars
<1>2. ASSUME NEW p \in Procs, NEW r \in Requests, Mutate(p, r)
      PROVE  Promise!Next \/ UNCHANGED <<Asked, row.content, Accepted>>
  <2>1. row' = row /\ phase' = [phase EXCEPT ![r] = "waiting"]
        /\ phase[r] # "accepted"
    BY <1>2 DEF Mutate
  <2>2. Asked' = Asked \cup {r} /\ Accepted' = Accepted
    BY <2>1, <1>t
  <2>3. CASE r \in Asked
    BY <2>1, <2>2, <2>3
  <2>4. CASE r \notin Asked
    <3>1. Promise!Ask(r)
      BY <2>1, <2>2 DEF Promise!Ask
    <3> QED
      BY <3>1, <2>4 DEF Promise!Next
  <2> QED
    BY <2>3, <2>4
<1>3. ASSUME NEW p \in Procs, NEW r \in Requests, Duplicate(p, r)
      PROVE  UNCHANGED <<Asked, row.content, Accepted>>
  <2>1. /\ row' = row /\ phase' = [phase EXCEPT ![r] = "duplicate"]
        /\ phase[r] # "accepted" /\ r \in Asked
    BY <1>3 DEF Duplicate, RInv, OnlyAsked
  <2> QED
    BY <2>1, <1>t
<1>4. ASSUME NEW s \in sent, WriteSnapshot(s)
      PROVE  Promise!Next \/ UNCHANGED <<Asked, row.content, Accepted>>
  <2>1. phase' = phase /\ (row' = row \/ (RevisionMatches(s) /\ row'.content = s.content))
    BY <1>4, WriteRow
  <2>2. CASE row' = row
    BY <2>1, <2>2
  <2>3. CASE row' # row
    <3>1. RevisionMatches(s)
      BY <2>1, <2>3
    <3>2. row.content \subseteq s.content /\ s.content \subseteq Asked
      BY <3>1 DEF RevisionMatches, IInv, FreshStatements, RInv, OnlyAsked
    <3>3. Promise!Commit(s.content \ row.content)
      BY <2>1, <2>3, <3>2 DEF Promise!Commit
    <3> QED
      BY <3>2, <3>3 DEF Promise!Next
  <2> QED
    BY <2>2, <2>3
<1>5. ASSUME NEW a \in replies, ReceiveReply(a) \/ LoseReply(a)
      PROVE  Promise!Next \/ UNCHANGED <<Asked, row.content, Accepted>>
  <2>1. /\ row' = row /\ a.request \in Requests /\ phase[a.request] = "waiting"
        /\ \/ phase' = [phase EXCEPT ![a.request] = "failed"]
           \/ a.ok /\ phase' = [phase EXCEPT ![a.request] = "accepted"]
    BY <1>5 DEF ReceiveReply, LoseReply, RInv, TypeOK, Reply, OneOutstanding
  <2>2. CASE phase' = [phase EXCEPT ![a.request] = "failed"]
    BY <2>1, <2>2, <1>t
  <2>3. CASE a.ok /\ phase' = [phase EXCEPT ![a.request] = "accepted"]
    <3>1. a.request \in row.content
      BY <2>3 DEF IInv, RepliesStored
    <3>2. Accepted' = Accepted \cup {a.request} /\ Asked' = Asked
      BY <2>1, <2>3, <1>t
    <3>3. Promise!Accept(a.request)
      BY <2>1, <3>2 DEF Promise!Accept
    <3>4. a.request \in row.content \ Accepted
      BY <2>1, <3>1
    <3> QED
      BY <3>3, <3>4 DEF Promise!Next
  <2> QED
    BY <2>1, <2>2, <2>3
<1>6. ASSUME NEW s \in sent, LoseStatement(s)
      PROVE  UNCHANGED <<Asked, row.content, Accepted>>
  BY <1>6, <1>t DEF LoseStatement, RInv, TypeOK, Statement, OneOutstanding
<1>7. ASSUME NEW p \in Procs, Crash(p) \/ Restart(p)
      PROVE  UNCHANGED <<Asked, row.content, Accepted>>
  <2>1. row' = row
    BY <1>7 DEF Crash, Restart
  <2>2. \A r \in Requests : phase'[r] = phase[r] \/
          (phase[r] = "waiting" /\ phase'[r] = "failed")
    <3>1. CASE Crash(p)
      <4> DEFINE open == {s.request : s \in {t \in sent : t.proc = p}}
                           \cup {a.request : a \in {b \in replies : b.proc = p}}
      <4>1. phase' = [r \in Requests |-> IF r \in open THEN "failed" ELSE phase[r]]
        BY <3>1 DEF Crash
      <4>2. \A r \in open : r # NoRequest => phase[r] = "waiting"
        BY DEF RInv, OneOutstanding
      <4> HIDE DEF open
      <4> QED
        BY <4>1, <4>2, NoRequestAssumption
    <3>2. CASE Restart(p)
      BY <3>2 DEF Restart
    <3> QED
      BY <1>7, <3>1, <3>2
  <2> QED
    BY <2>1, <2>2, <1>t
<1> QED
  BY <1>1, <1>2, <1>3, <1>4, <1>5, <1>6, <1>7 DEF Next

(* The adapter implements DurableStore for any number of processes and       *)
(* requests: saves acknowledged are durable, nothing durable is taken back,  *)
(* nothing is made up.                                                       *)
THEOREM Refinement == Spec => ImplementsDurableStore
<1>1. Init => Promise!Init
  BY DEF Init, Promise!Init, Asked, Accepted
<1>2. IInv => TypeOK
  BY DEF IInv
<1>3. Spec => []RInv
  BY Invariant, InitRInv, StepRInv, <1>2, PTL DEF Spec
<1> QED
  BY Invariant, <1>1, <1>3, StepRefines, PTL DEF Spec, ImplementsDurableStore, Promise!Spec
=============================================================================
