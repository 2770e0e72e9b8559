----------------------------- MODULE NativeStore -----------------------------
(***************************************************************************)
(* One rule set under the row-level Postgres adapter.  Unlike SQLite the   *)
(* operations are asynchronous: each is a sequence of statements, and      *)
(* every statement goes to the pool, which gives it the connection that    *)
(* became idle last.  BEGIN, the statements after it and COMMIT are        *)
(* statements like others, so requests that overlap share a transaction or *)
(* tear it apart.  A row is read in one statement and all of it is written *)
(* back in a later one.                                                    *)
(***************************************************************************)
EXTENDS Naturals, Sequences, FiniteSets, SequencesExt, FiniteSetsExt

CONSTANTS
    Callers,        \* requests of editors, reviewers and browsers
    Kinds,          \* the operations to look at
    Connections,    \* DEE_DATABASE_POOL_MAX connections
    Drafts,         \* contents of drafts
    MaxVersion,     \* the bound on published versions
    Nil

ASSUME KindsAssumption == Kinds \subseteq {"edit", "archive", "submit", "approve", "publish", "event"}
ASSUME NilAssumption == Nil \notin Connections \cup {"ok", "error"}
ASSUME MaxVersionAssumption == MaxVersion \in Nat

VARIABLES
    rule,           \* the committed row of rule_sets
    versions,       \* the committed rows of rule_versions
    events,         \* the committed rows of client_events
    session,        \* connection -> its open transaction
    idle,           \* the pool's idle connections, the last used one last
    request,        \* request -> operation, statement, what it has read
    reviewed,       \* drafts whose approval a reviewer asked for
    overlapped      \* a statement was under way during another request's transaction

nativeVars == <<rule, versions, events, session, idle, request, reviewed, overlapped>>

\* Mut... are faulty variants of the definition that follows them.
MutNoCommit == [edit    |-> <<"read", "update">>,
                archive |-> <<"read", "update">>,
                submit  |-> <<"check", "read", "update">>,
                approve |-> <<"check", "read", "update">>,
                publish |-> <<"check", "read", "versions", "begin", "insert", "update">>,
                event   |-> <<"insert">>]

\* The statements of an operation.  The server's own read comes first where
\* its result matters, and getRuleSet's second statement is there where its
\* answer is: reads that nothing depends on are left out.
\* approvalWorkflowEnabled holds throughout.
Program == [edit    |-> <<"read", "update">>,
            archive |-> <<"read", "update">>,
            submit  |-> <<"check", "read", "update">>,
            approve |-> <<"check", "read", "update">>,
            publish |-> <<"check", "read", "versions", "begin", "insert", "update", "commit">>,
            event   |-> <<"insert">>]

Approvals == [status : {"draft", "submitted", "approved"}, draft_hash : Drafts \cup {Nil}]
Rows == [draft : Drafts, approval : Approvals, status : {"draft", "published", "archived"}]
Versions == [version : 1 .. MaxVersion, definition : Drafts, signed : BOOLEAN]

NoApproval == [status |-> "draft", draft_hash |-> Nil]
NoSession == [open |-> FALSE, failed |-> FALSE, row |-> Nil, versions |-> {}, events |-> {}]
NoOperation == [kind |-> Nil, draft |-> Nil, rest |-> <<>>, conn |-> Nil, check |-> Nil,
              row |-> Nil, version |-> 1, answer |-> Nil]

NativeInit ==
    /\ rule \in [draft : Drafts, approval : {NoApproval}, status : {"draft"}]
    /\ versions = {}
    /\ events = {}
    /\ session = [c \in Connections |-> NoSession]
    /\ idle = <<>>
    /\ request = [r \in Callers |-> NoOperation]
    /\ reviewed = {}
    /\ overlapped = FALSE

(***************************************************************************)
(* Postgres: sessions at READ COMMITTED, row locks.                        *)
(***************************************************************************)
RowSeen(c) == IF session[c].row # Nil THEN session[c].row ELSE rule
VersionsSeen(c) == versions \cup session[c].versions
Numbers(vs) == {v.version : v \in vs}

\* An UPDATE waits while another session holds the row, an INSERT while one
\* holds its key.
RowLocked(c) == \E o \in Connections \ {c} : session[o].row # Nil
KeyLocked(c, n) == \E o \in Connections \ {c} : n \in Numbers(session[o].versions)

\* A statement outside a transaction commits at once.
UpdateRow(c, to) ==
    IF session[c].open
    THEN session' = [session EXCEPT ![c].row = to] /\ UNCHANGED rule
    ELSE rule' = to /\ UNCHANGED session

InsertVersion(c, v) ==
    IF session[c].open
    THEN session' = [session EXCEPT ![c].versions = @ \cup {v}] /\ UNCHANGED versions
    ELSE versions' = versions \cup {v} /\ UNCHANGED session

InsertEvent(c, r) ==
    IF session[c].open
    THEN session' = [session EXCEPT ![c].events = @ \cup {r}] /\ UNCHANGED events
    ELSE events' = events \cup {r} /\ UNCHANGED session

\* COMMIT of a transaction that met an error rolls it back.
Commit(c) ==
    /\ rule' = IF session[c].failed THEN rule ELSE RowSeen(c)
    /\ versions' = IF session[c].failed THEN versions ELSE VersionsSeen(c)
    /\ events' = IF session[c].failed THEN events ELSE events \cup session[c].events
    /\ session' = [session EXCEPT ![c] = NoSession]

(***************************************************************************)
(* The operations, on what they have read.                                 *)
(***************************************************************************)
\* resetApprovalForDraftEdit: an edit invalidates the approval.
updateDraft(read, d) ==
    [draft |-> d,
     approval |-> IF read.approval.status = "draft" THEN read.approval ELSE [read.approval EXCEPT !.status = "draft"],
     status |-> IF read.status = "archived" THEN "archived" ELSE "draft"]

MutHashOfStoreRead(read, to, hash) == [read EXCEPT !.approval = [status |-> to, draft_hash |-> read.draft]]

\* The hash is the one of the server's read, the row is the store's read.
setRuleApproval(read, to, hash) == [read EXCEPT !.approval = [status |-> to, draft_hash |-> hash]]

Written(q) ==
    CASE q.kind = "edit"    -> updateDraft(q.row, q.draft)
      [] q.kind = "archive" -> [q.row EXCEPT !.status = "archived"]
      [] q.kind = "submit"  -> setRuleApproval(q.row, "submitted", q.check.draft)
      [] q.kind = "approve" -> setRuleApproval(q.row, "approved", q.check.draft)
      [] q.kind = "publish" -> [q.row EXCEPT !.status = "published"]

\* requireApprovedDraft
Signed(read) == read.approval = [status |-> "approved", draft_hash |-> read.draft]

\* What the server asks of its own read.  An approval without a submission
\* is possible by force.
CheckPasses(q, read) == q.kind = "publish" => Signed(read)

\* What the store asks of its read.
ReadPasses(q, read) == q.kind \in {"submit", "approve", "publish"} => read.status # "archived"

nextVersion(vs) == Max(Numbers(vs) \cup {0}) + 1

(***************************************************************************)
(* Requests.                                                               *)
(***************************************************************************)
Begin(r, kind, d) ==
    /\ request[r] = NoOperation
    /\ request' = [request EXCEPT ![r] = [NoOperation EXCEPT !.kind = kind, !.rest = Program[kind],
                                          !.draft = IF kind = "edit" THEN d ELSE Nil]]
    /\ UNCHANGED <<rule, versions, events, session, idle, reviewed, overlapped>>

Step(r) == Head(request[r].rest)
Connected == ToSet(idle) \cup ({request[r].conn : r \in Callers} \ {Nil})

\* From BEGIN on, until COMMIT or ROLLBACK is answered.
InTransaction(q) ==
    q.kind = "publish" /\ \/ q.rest # <<>> /\ Head(q.rest) \in {"insert", "update", "commit", "rollback"}
                          \/ q.rest # <<>> /\ Head(q.rest) = "begin" /\ q.conn # Nil

Torn(requests) ==
    \E r, o \in Callers : r # o /\ InTransaction(requests[r]) /\ requests[o].conn # Nil

\* pool.query: the connection used last, or a new one.
Checkout(r) ==
    /\ request[r].rest # <<>>
    /\ request[r].conn = Nil
    /\ \/ /\ idle # <<>>
          /\ request' = [request EXCEPT ![r].conn = Last(idle)]
          /\ idle' = Front(idle)
       \/ /\ idle = <<>>
          /\ \E c \in Connections \ Connected : request' = [request EXCEPT ![r].conn = c]
          /\ UNCHANGED idle
    /\ overlapped' = (overlapped \/ Torn(request'))
    /\ UNCHANGED <<rule, versions, events, session, reviewed>>

\* The statement is answered: its connection is idle again.
Release(r, q) ==
    /\ request' = [request EXCEPT ![r] = [q EXCEPT !.conn = Nil]]
    /\ idle' = Append(idle, request[r].conn)

Done(q) == IF Tail(q.rest) = <<>>
           THEN [q EXCEPT !.rest = <<>>, !.answer = IF @ = Nil THEN "ok" ELSE @]
           ELSE [q EXCEPT !.rest = Tail(@)]
\* A throw inside the transaction sends ROLLBACK, on whichever connection.
Throw(q) == [q EXCEPT !.answer = "error",
                      !.rest = IF InTransaction(q) /\ Head(q.rest) \notin {"begin", "rollback"}
                               THEN <<"rollback">> ELSE <<>>]

AtStatement(r, step) ==
    /\ request[r].conn # Nil
    /\ Step(r) = step
    /\ ~ session[request[r].conn].failed

\* The server's read.
CheckDraft(r) ==
    LET q == request[r]
        seen == RowSeen(q.conn)
    IN  /\ AtStatement(r, "check")
        /\ Release(r, IF CheckPasses(q, seen) THEN Done([q EXCEPT !.check = seen]) ELSE Throw(q))
        /\ reviewed' = IF q.kind = "approve" THEN reviewed \cup {seen.draft} ELSE reviewed
        /\ UNCHANGED <<rule, versions, events, session, overlapped>>

\* The store's getRuleSet: first the row.
getRuleSet(r) ==
    LET q == request[r]
        seen == RowSeen(q.conn)
    IN  /\ AtStatement(r, "read")
        /\ Release(r, IF ReadPasses(q, seen) THEN Done([q EXCEPT !.row = seen]) ELSE Throw(q))
        /\ UNCHANGED <<rule, versions, events, session, reviewed, overlapped>>

\* Then its versions, which may be newer than the row.
getVersionsForRuleSet(r) ==
    LET q == request[r]
        n == nextVersion(VersionsSeen(q.conn))
    IN  /\ AtStatement(r, "versions")
        /\ n <= MaxVersion
        /\ Release(r, Done([q EXCEPT !.version = n]))
        /\ UNCHANGED <<rule, versions, events, session, reviewed, overlapped>>

\* BEGIN inside a transaction is a warning.
BeginTransaction(r) ==
    /\ AtStatement(r, "begin")
    /\ session' = [session EXCEPT ![request[r].conn].open = TRUE]
    /\ Release(r, Done(request[r]))
    /\ UNCHANGED <<rule, versions, events, reviewed, overlapped>>

\* rule_versions has the key (decision_key, version).
insertVersion(r) ==
    LET q == request[r]
        v == [version |-> q.version, definition |-> q.row.draft, signed |-> Signed(q.row)]
    IN  /\ AtStatement(r, "insert")
        /\ q.kind = "publish"
        /\ ~ KeyLocked(q.conn, q.version)
        /\ q.version \notin Numbers(VersionsSeen(q.conn))
        /\ InsertVersion(q.conn, v)
        /\ Release(r, Done(q))
        /\ UNCHANGED <<rule, events, reviewed, overlapped>>

updateRuleSetRow(r) ==
    LET q == request[r]
    IN  /\ AtStatement(r, "update")
        /\ ~ RowLocked(q.conn)
        /\ UpdateRow(q.conn, Written(q))
        /\ Release(r, Done(q))
        /\ UNCHANGED <<versions, events, reviewed, overlapped>>

addClientEvent(r) ==
    /\ AtStatement(r, "insert")
    /\ request[r].kind = "event"
    /\ InsertEvent(request[r].conn, r)
    /\ Release(r, Done(request[r]))
    /\ UNCHANGED <<rule, versions, reviewed, overlapped>>

\* A duplicate key, the statement timeout (also while waiting for a lock), or
\* any statement of a transaction that has failed.
StatementFails(r) ==
    /\ request[r].conn # Nil
    /\ Step(r) \notin {"commit", "rollback"}
    /\ LET conn == request[r].conn
       IN  session' = IF session[conn].open THEN [session EXCEPT ![conn].failed = TRUE] ELSE session
    /\ Release(r, Throw(request[r]))
    /\ UNCHANGED <<rule, versions, events, reviewed, overlapped>>

\* COMMIT and ROLLBACK outside a transaction are warnings.
EndTransaction(r) ==
    /\ request[r].conn # Nil
    /\ \/ Step(r) = "commit" /\ Commit(request[r].conn)
       \/ /\ Step(r) = "rollback"
          /\ session' = [session EXCEPT ![request[r].conn] = NoSession]
          /\ UNCHANGED <<rule, versions, events>>
    /\ Release(r, Done(request[r]))
    /\ UNCHANGED <<reviewed, overlapped>>

\* The pool closes a connection that was idle for long, and its transaction
\* is rolled back.  The statements of an operation follow at once.
IdleTimeout(c) ==
    /\ \A r \in Callers : ~ InTransaction(request[r])
    /\ \E n \in DOMAIN idle : idle[n] = c /\ idle' = RemoveAt(idle, n)
    /\ session' = [session EXCEPT ![c] = NoSession]
    /\ UNCHANGED <<rule, versions, events, request, reviewed, overlapped>>

NativeNext ==
    \/ \E r \in Callers, kind \in Kinds, d \in Drafts : Begin(r, kind, d)
    \/ \E r \in Callers :
        \/ Checkout(r) \/ CheckDraft(r) \/ getRuleSet(r) \/ getVersionsForRuleSet(r)
        \/ BeginTransaction(r) \/ insertVersion(r) \/ updateRuleSetRow(r) \/ addClientEvent(r)
        \/ StatementFails(r) \/ EndTransaction(r)
    \/ \E c \in Connections : IdleTimeout(c)

NativeSpec == NativeInit /\ [][NativeNext]_nativeVars

-----------------------------------------------------------------------------

\* Every variable keeps its type, and a connection is idle or used by one
\* statement.
NativeTypeOK ==
    /\ rule \in Rows
    /\ versions \subseteq Versions
    /\ events \subseteq Callers
    /\ \A c \in Connections :
        /\ session[c].open \in BOOLEAN /\ session[c].failed \in BOOLEAN
        /\ session[c].row \in Rows \cup {Nil}
        /\ session[c].versions \subseteq Versions
        /\ session[c].events \subseteq Callers
    /\ idle \in Seq(Connections)
    /\ IsInjective(idle)
    /\ \A r \in Callers : request[r].conn \notin ToSet(idle)
    /\ reviewed \subseteq Drafts
    /\ overlapped \in BOOLEAN

Answered(r, kind) == request[r].kind = kind /\ request[r].answer = "ok"
VersionOf(r) == [version |-> request[r].version, definition |-> request[r].row.draft, signed |-> Signed(request[r].row)]

\* A transaction over a pool works as long as no other request has a
\* statement under way: the pool hands out the connection it got back last,
\* so what was acknowledged is committed, also after failed statements,
\* rolled back transactions and closed connections.
DurableUnlessOverlapped ==
    ~ overlapped =>
        \A r \in Callers :
            /\ Answered(r, "event") => r \in events
            /\ Answered(r, "publish") => VersionOf(r) \in versions

\* An approval that would pass the gate is one a reviewer asked for with this
\* draft in hand, although requests read the row in one statement and write
\* all of it back in another, in any order and inside each other's
\* transactions.
SignedWasReviewed == Signed(rule) => rule.draft \in reviewed

\* "native postgres rule writes publish and archive in transactions": a
\* publish that was answered is committed.
PublishIsTransaction ==
    \A r \in Callers : Answered(r, "publish") => VersionOf(r) \in versions
=============================================================================
