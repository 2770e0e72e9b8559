-------------------------- MODULE NativeStoreProofs --------------------------
(***************************************************************************)
(* Proofs about NativeStore, for any number of requests and connections.   *)
(*                                                                         *)
(* A row with an approval can be in four places: committed, in the open    *)
(* transaction of a connection, read by a request that will write it back, *)
(* and in the server's own read that an approval takes its hash from.  The *)
(* inductive invariant says of all four that a reviewer asked for what is  *)
(* signed there, and follows the statements of each operation: an update   *)
(* writes what was read before.                                            *)
(*                                                                         *)
(* What was acknowledged is committed for another reason: while no two     *)
(* requests overlap, the one open session is that of the one publish under *)
(* way, on the connection it has or will be given next, and holds exactly  *)
(* what the publish has written so far.                                    *)
(***************************************************************************)
EXTENDS NativeStore, SequenceTheorems, WellFoundedInduction, TLAPS

SignedReviewed(row, R) == Signed(row) => row.draft \in R

GoodRow(row, R) == row \in Rows /\ SignedReviewed(row, R)

SessionFields == {"open", "failed", "row", "versions", "events"}
OperationFields == {"kind", "draft", "rest", "conn", "check", "row", "version", "answer"}

GoodSession(s, R) ==
  /\ s = [f \in SessionFields |-> s[f]]
  /\ s.row # Nil => GoodRow(s.row, R)

Writers == {"edit", "archive", "submit", "approve", "publish"}

CheckRead(q, R) ==
  q.kind \in {"submit", "approve"} =>
    /\ q.check \in Rows
    /\ q.kind = "approve" => q.check.draft \in R

ToCheck == {<<"check", "read", "update">>,
            <<"check", "read", "versions", "begin", "insert", "update", "commit">>}
ToRead == {<<"read", "update">>, <<"read", "versions", "begin", "insert", "update", "commit">>}
ToWrite == {<<"versions", "begin", "insert", "update", "commit">>,
            <<"begin", "insert", "update", "commit">>, <<"insert", "update", "commit">>,
            <<"update", "commit">>, <<"update">>}
ToEnd == {<<>>, <<"insert">>, <<"commit">>, <<"rollback">>}

(***************************************************************************)
(* Where an operation is, and what it has read by then.                    *)
(***************************************************************************)
GoodOperation(q, R) ==
  /\ q = [f \in OperationFields |-> q[f]]
  /\ q.conn \in Connections \cup {Nil} /\ (q.conn # Nil => q.rest # <<>>)
  /\ q.rest \in ToCheck \cup ToRead \cup ToWrite \cup ToEnd
  /\ q.rest \notin ToEnd => q.kind \in Writers /\ (q.kind = "edit" => q.draft \in Drafts)
  /\ q.rest \in ToRead \cup ToWrite => CheckRead(q, R)
  /\ q.rest \in ToWrite => GoodRow(q.row, R)

NativeIInv ==
  /\ GoodRow(rule, reviewed)
  /\ idle \in Seq(Connections)
  /\ session = [c \in Connections |-> session[c]]
  /\ \A c \in Connections : GoodSession(session[c], reviewed)
  /\ request = [r \in Callers |-> request[r]]
  /\ \A r \in Callers : GoodOperation(request[r], reviewed)

-----------------------------------------------------------------------------
(***************************************************************************)
(* The statement after one of these, by what the first one is.             *)
(***************************************************************************)
LEMMA NextStatement ==
  /\ \A s \in ToCheck : s # <<>> /\ Head(s) = "check" /\ Tail(s) \in ToRead
  /\ \A s \in ToRead : s # <<>> /\ Head(s) = "read" /\ Tail(s) \in ToWrite
  /\ \A s \in ToWrite : Head(s) \in {"versions", "begin", "insert", "update"} /\ Tail(s) \in ToWrite \cup ToEnd
  /\ \A s \in ToEnd : s # <<>> => Head(s) \in {"insert", "commit", "rollback"} /\ Tail(s) = <<>>
<1>1. \A s \in ToCheck : s # <<>> /\ Head(s) = "check" /\ Tail(s) \in ToRead
  <2>1. /\ Tail(<<"check", "read", "update">>) = <<"read", "update">>
        /\ Tail(<<"check", "read", "versions", "begin", "insert", "update", "commit">>)
             = <<"read", "versions", "begin", "insert", "update", "commit">>
    OBVIOUS
  <2>2. \A s \in ToCheck : s # <<>> /\ Head(s) = "check"
    BY DEF ToCheck
  <2> QED
    BY <2>1, <2>2 DEF ToCheck, ToRead
<1>2. \A s \in ToRead : s # <<>> /\ Head(s) = "read" /\ Tail(s) \in ToWrite
  <2>1. /\ Tail(<<"read", "update">>) = <<"update">>
        /\ Tail(<<"read", "versions", "begin", "insert", "update", "commit">>)
             = <<"versions", "begin", "insert", "update", "commit">>
    OBVIOUS
  <2>2. \A s \in ToRead : s # <<>> /\ Head(s) = "read"
    BY DEF ToRead
  <2> QED
    BY <2>1, <2>2 DEF ToRead, ToWrite
<1>3. \A s \in ToWrite : Head(s) \in {"versions", "begin", "insert", "update"} /\ Tail(s) \in ToWrite \cup ToEnd
  <2>1. /\ Tail(<<"versions", "begin", "insert", "update", "commit">>) = <<"begin", "insert", "update", "commit">>
        /\ Tail(<<"begin", "insert", "update", "commit">>) = <<"insert", "update", "commit">>
        /\ Tail(<<"insert", "update", "commit">>) = <<"update", "commit">>
        /\ Tail(<<"update", "commit">>) = <<"commit">>
        /\ Tail(<<"update">>) = <<>>
    OBVIOUS
  <2>2. \A s \in ToWrite : Head(s) \in {"versions", "begin", "insert", "update"}
    BY DEF ToWrite
  <2> QED
    BY <2>1, <2>2 DEF ToWrite, ToEnd
<1>4. \A s \in ToEnd : s # <<>> => Head(s) \in {"insert", "commit", "rollback"} /\ Tail(s) = <<>>
  <2>1. Tail(<<"insert">>) = <<>> /\ Tail(<<"commit">>) = <<>> /\ Tail(<<"rollback">>) = <<>>
    OBVIOUS
  <2>2. \A s \in ToEnd : s # <<>> => Head(s) \in {"insert", "commit", "rollback"}
    BY DEF ToEnd
  <2> QED
    BY <2>1, <2>2 DEF ToEnd
<1> QED
  BY <1>1, <1>2, <1>3, <1>4

LEMMA Disjoint ==
  /\ \A s \in ToCheck : s \notin ToRead \cup ToWrite \cup ToEnd
  /\ \A s \in ToRead : s \notin ToWrite \cup ToEnd
  /\ \A s \in ToWrite : s \notin ToEnd /\ s # <<>>
<1>1. \A s \in ToCheck : s \notin ToRead \cup ToWrite \cup ToEnd
  BY NextStatement DEF ToCheck, ToEnd
<1>2. \A s \in ToRead : s \notin ToWrite \cup ToEnd
  BY NextStatement DEF ToRead, ToEnd
<1>3. \A s \in ToWrite : s \notin ToEnd /\ s # <<>>
  BY DEF ToWrite, ToEnd
<1> QED
  BY <1>1, <1>2, <1>3

LEMMA ProgramStarts ==
  \A kind \in Kinds : \/ kind = "event" /\ Program[kind] \in ToEnd
                      \/ kind \in {"edit", "archive"} /\ Program[kind] \in ToRead
                      \/ kind \in {"submit", "approve", "publish"} /\ Program[kind] \in ToCheck
BY KindsAssumption DEF Program, ToEnd, ToRead, ToCheck

(***************************************************************************)
(* What an update writes: a signed row only when the row read was signed,  *)
(* or when an approval was asked for with the draft of that row.           *)
(***************************************************************************)
LEMMA WrittenIsGood ==
  ASSUME NEW R, NEW q, q.kind \in Writers, q.kind = "edit" => q.draft \in Drafts,
         CheckRead(q, R), GoodRow(q.row, R)
  PROVE  GoodRow(Written(q), R)
<1> USE DEF GoodRow, SignedReviewed, Rows, Approvals
<1>1. CASE q.kind = "edit"
  <2>1. Written(q) = updateDraft(q.row, q.draft)
    BY <1>1 DEF Written
  <2>2. updateDraft(q.row, q.draft) \in Rows /\ updateDraft(q.row, q.draft).approval.status = "draft"
    BY <1>1 DEF updateDraft
  <2> QED
    BY <2>1, <2>2 DEF Signed
<1>2. CASE q.kind = "archive"
  <2>1. Written(q) = [q.row EXCEPT !.status = "archived"]
    BY <1>2 DEF Written
  <2> QED
    BY <2>1 DEF Signed
<1>3. CASE q.kind = "submit"
  <2>1. Written(q) = [q.row EXCEPT !.approval = [status |-> "submitted", draft_hash |-> q.check.draft]]
    BY <1>3 DEF Written, setRuleApproval
  <2>2. q.check.draft \in Drafts
    BY <1>3 DEF CheckRead
  <2>3. Written(q) \in Rows /\ Written(q).approval.status = "submitted"
    BY <2>1, <2>2
  <2> QED
    BY <2>3 DEF Signed
<1>4. CASE q.kind = "approve"
  <2>1. Written(q) = [q.row EXCEPT !.approval = [status |-> "approved", draft_hash |-> q.check.draft]]
    BY <1>4 DEF Written, setRuleApproval
  <2>2. q.check.draft \in Drafts /\ q.check.draft \in R
    BY <1>4 DEF CheckRead
  <2>3. Written(q) \in Rows /\ Written(q).approval.draft_hash = q.check.draft
    BY <2>1, <2>2
  <2>4. Signed(Written(q)) => Written(q).draft = q.check.draft
    BY <2>3 DEF Signed
  <2> QED
    BY <2>2, <2>3, <2>4
<1>5. CASE q.kind = "publish"
  <2>1. Written(q) = [q.row EXCEPT !.status = "published"]
    BY <1>5 DEF Written
  <2> QED
    BY <2>1 DEF Signed
<1> QED
  BY <1>1, <1>2, <1>3, <1>4, <1>5 DEF Writers

(***************************************************************************)
(* Reviews are not forgotten, so what was good stays good.                 *)
(***************************************************************************)
LEMMA GoodStays ==
  ASSUME NEW R, NEW S, R \subseteq S
  PROVE  /\ \A row : GoodRow(row, R) => GoodRow(row, S)
         /\ \A s : GoodSession(s, R) => GoodSession(s, S)
         /\ \A q : GoodOperation(q, R) => GoodOperation(q, S)
<1>1. \A row : GoodRow(row, R) => GoodRow(row, S)
  BY DEF GoodRow, SignedReviewed
<1>2. \A s : GoodSession(s, R) => GoodSession(s, S)
  BY <1>1 DEF GoodSession
<1>3. \A q : CheckRead(q, R) => CheckRead(q, S)
  BY DEF CheckRead
<1>4. \A q : GoodOperation(q, R) => GoodOperation(q, S)
  BY <1>1, <1>3 DEF GoodOperation
<1> QED
  BY <1>1, <1>2, <1>4

(***************************************************************************)
(* How an operation goes on: to the next statement, to a rollback or to an *)
(* end, with its connection given back.                                    *)
(***************************************************************************)
Released(q) == [q EXCEPT !.conn = Nil]

LEMMA ThrowIsGood ==
  ASSUME NEW R, NEW q, GoodOperation(q, R)
  PROVE  GoodOperation(Released(Throw(q)), R)
<1> DEFINE t == Released(Throw(q))
<1>1. q = [f \in OperationFields |-> q[f]]
  BY DEF GoodOperation
<1>2. /\ t = [f \in OperationFields |-> t[f]]
      /\ t.conn = Nil
      /\ t.rest = <<"rollback">> \/ t.rest = <<>>
  BY <1>1 DEF Released, Throw, OperationFields
<1>3. t.rest \in ToEnd
  BY <1>2 DEF ToEnd
<1> HIDE DEF t
<1>4. GoodOperation(t, R)
  BY <1>2, <1>3, Disjoint DEF GoodOperation
<1> QED
  BY <1>4 DEF t

LEMMA DoneIsGood ==
  ASSUME NEW R, NEW q, q = [f \in OperationFields |-> q[f]], q.rest # <<>>,
         LET next == Tail(q.rest)
         IN  /\ next \in ToRead \cup ToWrite \cup ToEnd
             /\ next \notin ToEnd => q.kind \in Writers /\ (q.kind = "edit" => q.draft \in Drafts)
             /\ next \notin ToEnd => CheckRead(q, R)
             /\ next \in ToWrite => GoodRow(q.row, R)
  PROVE  GoodOperation(Released(Done(q)), R)
<1> DEFINE t == Released(Done(q))
<1>1. /\ t = [f \in OperationFields |-> t[f]]
      /\ t.conn = Nil /\ t.rest = Tail(q.rest)
      /\ t.kind = q.kind /\ t.draft = q.draft /\ t.row = q.row /\ t.check = q.check
  BY DEF Released, Done, OperationFields
<1> HIDE DEF t
<1>2. CheckRead(q, R) => CheckRead(t, R)
  BY <1>1 DEF CheckRead
<1>3. GoodOperation(t, R)
  BY <1>1, <1>2, Disjoint DEF GoodOperation
<1> QED
  BY <1>3 DEF t

-----------------------------------------------------------------------------
(***************************************************************************)
(* The induction.                                                          *)
(***************************************************************************)
LEMMA InitEstablishes == NativeInit => NativeIInv
<1> SUFFICES ASSUME NativeInit  PROVE NativeIInv
  OBVIOUS
<1> USE DEF NativeInit
<1>1. GoodRow(rule, reviewed)
  <2>1. rule \in Rows
    BY DEF Rows, Approvals, NoApproval
  <2>2. rule.approval.status = "draft"
    BY DEF NoApproval
  <2> QED
    BY <2>1, <2>2 DEF GoodRow, SignedReviewed, Signed
<1>2. GoodSession(NoSession, reviewed)
  BY DEF GoodSession, NoSession, SessionFields
<1>3. GoodOperation(NoOperation, reviewed)
  <2>1. <<>> \in ToEnd
    BY DEF ToEnd
  <2>2. /\ NoOperation = [f \in OperationFields |-> NoOperation[f]]
        /\ NoOperation.rest = <<>> /\ NoOperation.conn = Nil
    BY DEF NoOperation, OperationFields
  <2> QED
    BY <2>1, <2>2, Disjoint DEF GoodOperation
<1> QED
  BY <1>1, <1>2, <1>3 DEF NativeIInv

LEMMA RequestsKept ==
  ASSUME NativeIInv, reviewed \subseteq reviewed', NEW r \in Callers, NEW q, GoodOperation(q, reviewed'),
         request' = [request EXCEPT ![r] = q]
  PROVE  /\ request' = [o \in Callers |-> request'[o]]
         /\ \A o \in Callers : GoodOperation(request'[o], reviewed')
<1>1. \A o \in Callers : request'[o] = IF o = r THEN q ELSE request[o]
  BY DEF NativeIInv
<1>2. request' = [o \in Callers |-> request'[o]]
  BY DEF NativeIInv
<1>3. \A o \in Callers : GoodOperation(request[o], reviewed')
  BY GoodStays DEF NativeIInv
<1> QED
  BY <1>1, <1>2, <1>3

LEMMA SessionsKept ==
  ASSUME NativeIInv, NEW c \in Connections, NEW s, GoodSession(s, reviewed), reviewed' = reviewed,
         session' = [session EXCEPT ![c] = s]
  PROVE  /\ session' = [d \in Connections |-> session'[d]]
         /\ \A d \in Connections : GoodSession(session'[d], reviewed')
<1>1. \A d \in Connections : session'[d] = IF d = c THEN s ELSE session[d]
  BY DEF NativeIInv
<1>2. session' = [d \in Connections |-> session'[d]]
  BY DEF NativeIInv
<1> QED
  BY <1>1, <1>2 DEF NativeIInv

(***************************************************************************)
(* A connection sees a good row: its own uncommitted one or the committed. *)
(***************************************************************************)
LEMMA SeenIsGood ==
  ASSUME NativeIInv, NEW c \in Connections
  PROVE  GoodRow(RowSeen(c), reviewed)
BY DEF NativeIInv, RowSeen, GoodSession

(***************************************************************************)
(* A request with a connection has a statement under way, which says how   *)
(* far the operation is.                                                   *)
(***************************************************************************)
LEMMA StatementSays ==
  ASSUME NativeIInv, NEW r \in Callers, request[r].conn # Nil
  PROVE  LET q == request[r]
         IN  /\ q.conn \in Connections /\ q.rest # <<>>
             /\ Append(idle, q.conn) \in Seq(Connections)
             /\ Step(r) = "check" => q.rest \in ToCheck
             /\ Step(r) = "read" => q.rest \in ToRead
             /\ Step(r) \in {"versions", "begin", "update"} => q.rest \in ToWrite
             /\ Step(r) = "insert" => q.rest \in ToWrite \cup ToEnd
             /\ Step(r) \in {"commit", "rollback"} => q.rest \in ToEnd
<1> DEFINE q == request[r]
<1>1. GoodOperation(q, reviewed) /\ idle \in Seq(Connections)
  BY DEF NativeIInv
<1>2. q.conn \in Connections /\ q.rest # <<>> /\ q.rest \in ToCheck \cup ToRead \cup ToWrite \cup ToEnd
  BY <1>1 DEF GoodOperation
<1>3. /\ q.rest \in ToCheck => Step(r) = "check"
      /\ q.rest \in ToRead => Step(r) = "read"
      /\ q.rest \in ToWrite => Step(r) \in {"versions", "begin", "insert", "update"}
      /\ q.rest \in ToEnd => Step(r) \in {"insert", "commit", "rollback"}
  BY <1>2, NextStatement DEF Step
<1> QED
  BY <1>1, <1>2, <1>3

(***************************************************************************)
(* The statements that write no row go on to the next one.                 *)
(***************************************************************************)
LEMMA GoOn ==
  ASSUME NativeIInv, NEW r \in Callers, request[r].conn # Nil, request[r].rest \in ToWrite \cup ToEnd
  PROVE  GoodOperation(Released(Done(request[r])), reviewed)
<1> DEFINE q == request[r]
<1>1. GoodOperation(q, reviewed) /\ q.rest # <<>>
  BY StatementSays DEF NativeIInv
<1>2. CASE q.rest \in ToWrite
  <2>1. Tail(q.rest) \in ToWrite \cup ToEnd
    BY <1>2, NextStatement
  <2>2. q.kind \in Writers /\ (q.kind = "edit" => q.draft \in Drafts) /\ CheckRead(q, reviewed) /\ GoodRow(q.row, reviewed)
    BY <1>1, <1>2, Disjoint DEF GoodOperation
  <2>3. q = [f \in OperationFields |-> q[f]]
    BY <1>1 DEF GoodOperation
  <2> QED
    BY <2>1, <2>2, <2>3, <1>1, DoneIsGood
<1>3. CASE q.rest \in ToEnd
  <2>1. Tail(q.rest) = <<>> /\ <<>> \in ToEnd
    BY <1>1, <1>3, NextStatement DEF ToEnd
  <2>2. q = [f \in OperationFields |-> q[f]]
    BY <1>1 DEF GoodOperation
  <2> QED
    BY <2>1, <2>2, <1>1, Disjoint, DoneIsGood
<1> QED
  BY <1>2, <1>3

LEMMA StepKeeps ==
  ASSUME NativeIInv, NativeNext  PROVE NativeIInv'
<1>1. GoodRow(rule, reviewed) /\ idle \in Seq(Connections)
  BY DEF NativeIInv
<1>2. \A c \in Connections : GoodSession(session[c], reviewed)
  BY DEF NativeIInv
<1>3. \A r \in Callers : GoodOperation(request[r], reviewed)
  BY DEF NativeIInv
<1>4. \A r \in Callers : \A q :
        Release(r, q) => /\ request' = [request EXCEPT ![r] = Released(q)]
                         /\ idle' = Append(idle, request[r].conn)
  BY DEF Release, Released
<1>5. ASSUME NEW r \in Callers, NEW kind \in Kinds, NEW d \in Drafts, Begin(r, kind, d)  PROVE NativeIInv'
  <2> DEFINE q == [NoOperation EXCEPT !.kind = kind, !.rest = Program[kind],
                                      !.draft = IF kind = "edit" THEN d ELSE Nil]
  <2>1. /\ q = [f \in OperationFields |-> q[f]]
        /\ q.conn = Nil /\ q.kind = kind /\ q.rest = Program[kind] /\ (kind = "edit" => q.draft = d)
    BY DEF NoOperation, OperationFields
  <2>2. request' = [request EXCEPT ![r] = q]
    BY <1>5 DEF Begin
  <2> HIDE DEF q
  <2>3. GoodOperation(q, reviewed)
    BY <2>1, ProgramStarts, Disjoint DEF GoodOperation, CheckRead, Writers
  <2>4. UNCHANGED <<rule, session, idle, reviewed>>
    BY <1>5 DEF Begin
  <2> QED
    BY <2>2, <2>3, <2>4, RequestsKept DEF NativeIInv
<1>6. ASSUME NEW r \in Callers, Checkout(r)  PROVE NativeIInv'
  <2>1. PICK c \in Connections : request' = [request EXCEPT ![r].conn = c]
    <3>1. CASE idle # <<>>
      <4>1. Last(idle) \in Connections
        BY <1>1, <3>1 DEF Last
      <4> QED
        BY <4>1, <3>1, <1>6 DEF Checkout
    <3>2. CASE idle = <<>>
      BY <3>2, <1>6 DEF Checkout
    <3> QED
      BY <3>1, <3>2
  <2>2. idle' \in Seq(Connections)
    BY <1>1, <1>6 DEF Checkout, Front
  <2> DEFINE q == [request[r] EXCEPT !.conn = c]
  <2>3. request' = [request EXCEPT ![r] = q]
    BY <2>1
  <2>4. request[r].rest # <<>> /\ request[r] = [f \in OperationFields |-> request[r][f]]
    BY <1>3, <1>6 DEF Checkout, GoodOperation
  <2>5. /\ q = [f \in OperationFields |-> q[f]]
        /\ q.conn = c /\ q.rest = request[r].rest /\ q.kind = request[r].kind
        /\ q.draft = request[r].draft /\ q.row = request[r].row /\ q.check = request[r].check
    BY <2>4 DEF OperationFields
  <2> HIDE DEF q
  <2>6. GoodOperation(q, reviewed)
    BY <2>4, <2>5, <1>3 DEF GoodOperation, CheckRead
  <2>7. UNCHANGED <<rule, session, reviewed>>
    BY <1>6 DEF Checkout
  <2> QED
    BY <2>2, <2>3, <2>6, <2>7, RequestsKept DEF NativeIInv
<1>7. ASSUME NEW r \in Callers, CheckDraft(r)  PROVE NativeIInv'
  <2> DEFINE q == request[r]
             seen == RowSeen(q.conn)
             checked == [q EXCEPT !.check = seen]
  <2>1. q.conn \in Connections /\ q.rest \in ToCheck /\ Append(idle, q.conn) \in Seq(Connections)
    BY <1>7, StatementSays DEF CheckDraft, AtStatement
  <2>2. reviewed \subseteq reviewed' /\ (q.kind = "approve" => seen.draft \in reviewed')
    BY <1>7 DEF CheckDraft
  <2>3. seen \in Rows
    BY <2>1, SeenIsGood DEF GoodRow
  <2>4. GoodOperation(q, reviewed')
    BY <1>3, <2>2, GoodStays
  <2>5. q = [f \in OperationFields |-> q[f]] /\ q.kind \in Writers /\ (q.kind = "edit" => q.draft \in Drafts)
    BY <2>1, <2>4, Disjoint DEF GoodOperation
  <2>6. /\ checked = [f \in OperationFields |-> checked[f]]
        /\ checked.rest = q.rest /\ checked.kind = q.kind /\ checked.draft = q.draft /\ checked.check = seen
    BY <2>5 DEF OperationFields
  <2>7. Release(r, Done(checked)) \/ Release(r, Throw(q))
    BY <1>7 DEF CheckDraft
  <2> HIDE DEF checked, seen
  <2>8. CheckRead(checked, reviewed')
    BY <2>2, <2>3, <2>6 DEF CheckRead
  <2>9. Tail(checked.rest) \in ToRead /\ checked.rest # <<>>
    BY <2>1, <2>6, NextStatement
  <2>10. GoodOperation(Released(Done(checked)), reviewed')
    BY <2>5, <2>6, <2>8, <2>9, Disjoint, DoneIsGood
  <2>11. GoodOperation(Released(Throw(q)), reviewed')
    BY <2>4, ThrowIsGood
  <2>12. /\ request' = [o \in Callers |-> request'[o]]
         /\ \A o \in Callers : GoodOperation(request'[o], reviewed')
    BY <2>2, <2>7, <2>10, <2>11, <1>4, RequestsKept
  <2>13. idle' \in Seq(Connections)
    BY <2>1, <2>7, <1>4
  <2>14. UNCHANGED <<rule, session>>
    BY <1>7 DEF CheckDraft
  <2>15. GoodRow(rule, reviewed') /\ \A c \in Connections : GoodSession(session[c], reviewed')
    BY <2>2, <1>1, <1>2, GoodStays
  <2> QED
    BY <2>12, <2>13, <2>14, <2>15 DEF NativeIInv
<1>8. ASSUME NEW r \in Callers, getRuleSet(r)  PROVE NativeIInv'
  <2> DEFINE q == request[r]
             seen == RowSeen(q.conn)
             read == [q EXCEPT !.row = seen]
  <2>1. q.conn \in Connections /\ q.rest \in ToRead /\ Append(idle, q.conn) \in Seq(Connections)
    BY <1>8, StatementSays DEF getRuleSet, AtStatement
  <2>2. GoodRow(seen, reviewed)
    BY <2>1, SeenIsGood
  <2>3. /\ q = [f \in OperationFields |-> q[f]] /\ q.kind \in Writers /\ (q.kind = "edit" => q.draft \in Drafts)
        /\ CheckRead(q, reviewed)
    BY <2>1, <1>3, Disjoint DEF GoodOperation
  <2>4. Release(r, Done(read)) \/ Release(r, Throw(q))
    BY <1>8 DEF getRuleSet
  <2> HIDE DEF seen
  <2>5. /\ read = [f \in OperationFields |-> read[f]]
        /\ read.rest = q.rest /\ read.kind = q.kind /\ read.draft = q.draft /\ read.check = q.check
        /\ read.row = seen
    BY <2>3 DEF OperationFields
  <2> HIDE DEF read
  <2>6. CheckRead(read, reviewed)
    BY <2>3, <2>5 DEF CheckRead
  <2>7. Tail(read.rest) \in ToWrite /\ read.rest # <<>>
    BY <2>1, <2>5, NextStatement
  <2>8. GoodOperation(Released(Done(read)), reviewed)
    BY <2>2, <2>3, <2>5, <2>6, <2>7, DoneIsGood
  <2>9. GoodOperation(Released(Throw(q)), reviewed)
    BY <1>3, ThrowIsGood
  <2>10. UNCHANGED <<rule, session, reviewed>>
    BY <1>8 DEF getRuleSet
  <2>11. /\ request' = [o \in Callers |-> request'[o]]
         /\ \A o \in Callers : GoodOperation(request'[o], reviewed')
    BY <2>4, <2>8, <2>9, <2>10, <1>4, RequestsKept
  <2>12. idle' \in Seq(Connections)
    BY <2>1, <2>4, <1>4
  <2> QED
    BY <2>10, <2>11, <2>12 DEF NativeIInv
<1>8a. ASSUME NEW r \in Callers, getVersionsForRuleSet(r)  PROVE NativeIInv'
  <2> DEFINE q == request[r]
             n == nextVersion(VersionsSeen(q.conn))
             numbered == [q EXCEPT !.version = n]
  <2>1. q.conn \in Connections /\ q.rest \in ToWrite /\ Append(idle, q.conn) \in Seq(Connections)
    BY <1>8a, StatementSays DEF getVersionsForRuleSet, AtStatement
  <2>2. /\ q = [f \in OperationFields |-> q[f]] /\ q.kind \in Writers /\ (q.kind = "edit" => q.draft \in Drafts)
        /\ CheckRead(q, reviewed) /\ GoodRow(q.row, reviewed)
    BY <2>1, <1>3, Disjoint DEF GoodOperation
  <2>3. Release(r, Done(numbered)) /\ UNCHANGED <<rule, session, reviewed>>
    BY <1>8a DEF getVersionsForRuleSet
  <2> HIDE DEF n
  <2>4. /\ numbered = [f \in OperationFields |-> numbered[f]]
        /\ numbered.rest = q.rest /\ numbered.kind = q.kind /\ numbered.draft = q.draft
        /\ numbered.check = q.check /\ numbered.row = q.row
    BY <2>2 DEF OperationFields
  <2> HIDE DEF numbered
  <2>5. CheckRead(numbered, reviewed)
    BY <2>2, <2>4 DEF CheckRead
  <2>6. Tail(numbered.rest) \in ToWrite \cup ToEnd /\ numbered.rest # <<>>
    BY <2>1, <2>4, NextStatement, Disjoint
  <2>7. GoodOperation(Released(Done(numbered)), reviewed)
    BY <2>2, <2>4, <2>5, <2>6, DoneIsGood
  <2>8. /\ request' = [o \in Callers |-> request'[o]]
        /\ \A o \in Callers : GoodOperation(request'[o], reviewed')
    BY <2>3, <2>7, <1>4, RequestsKept
  <2>9. idle' \in Seq(Connections)
    BY <2>1, <2>3, <1>4
  <2> QED
    BY <2>3, <2>8, <2>9 DEF NativeIInv
<1>9. ASSUME NEW r \in Callers, request[r].conn # Nil, request[r].rest \in ToWrite \cup ToEnd,
             Release(r, Done(request[r])), UNCHANGED reviewed
      PROVE  /\ request' = [o \in Callers |-> request'[o]]
             /\ \A o \in Callers : GoodOperation(request'[o], reviewed')
             /\ idle' \in Seq(Connections)
  <2>1. GoodOperation(Released(Done(request[r])), reviewed')
    BY <1>9, GoOn
  <2> QED
    BY <2>1, <1>4, <1>9, StatementSays, RequestsKept
<1>10. ASSUME NEW r \in Callers, BeginTransaction(r)  PROVE NativeIInv'
  <2> DEFINE c == request[r].conn
             s == [session[c] EXCEPT !.open = TRUE]
  <2>1. c # Nil /\ c \in Connections /\ request[r].rest \in ToWrite
    BY <1>10, StatementSays DEF BeginTransaction, AtStatement
  <2>2. session' = [session EXCEPT ![c] = s] /\ Release(r, Done(request[r])) /\ UNCHANGED <<rule, reviewed>>
    BY <1>10 DEF BeginTransaction
  <2>3. GoodSession(s, reviewed)
    <3>1. session[c] = [f \in SessionFields |-> session[c][f]]
      BY <2>1, <1>2 DEF GoodSession
    <3>2. s = [f \in SessionFields |-> s[f]] /\ s.row = session[c].row
      BY <3>1 DEF SessionFields
    <3> QED
      BY <3>2, <2>1, <1>2 DEF GoodSession
  <2> QED
    BY <2>1, <2>2, <2>3, <1>1, <1>9, SessionsKept DEF NativeIInv
<1>11. ASSUME NEW r \in Callers, insertVersion(r)  PROVE NativeIInv'
  <2> DEFINE q == request[r]
             c == request[r].conn
             v == [version |-> q.version, definition |-> q.row.draft, signed |-> Signed(q.row)]
             s == [session[c] EXCEPT !.versions = @ \cup {v}]
  <2>1. c # Nil /\ c \in Connections /\ q.rest \in ToWrite \cup ToEnd
    BY <1>11, StatementSays DEF insertVersion, AtStatement
  <2>2. /\ session' = session \/ session' = [session EXCEPT ![c].versions = @ \cup {v}]
        /\ Release(r, Done(q)) /\ UNCHANGED <<rule, reviewed>>
    BY <1>11 DEF insertVersion, InsertVersion
  <2> HIDE DEF v
  <2>3. GoodSession(s, reviewed)
    <3>1. session[c] = [f \in SessionFields |-> session[c][f]]
      BY <2>1, <1>2 DEF GoodSession
    <3>2. s = [f \in SessionFields |-> s[f]] /\ s.row = session[c].row
      BY <3>1 DEF SessionFields
    <3> QED
      BY <3>2, <2>1, <1>2 DEF GoodSession
  <2>4. session' = session \/ session' = [session EXCEPT ![c] = s]
    BY <2>2
  <2>5. /\ session' = [d \in Connections |-> session'[d]]
        /\ \A d \in Connections : GoodSession(session'[d], reviewed')
    <3>1. CASE session' = session
      BY <3>1, <2>2 DEF NativeIInv
    <3>2. CASE session' = [session EXCEPT ![c] = s]
      BY <3>2, <2>1, <2>2, <2>3, SessionsKept
    <3> QED
      BY <2>4, <3>1, <3>2
  <2> QED
    BY <2>1, <2>2, <2>5, <1>1, <1>9 DEF NativeIInv
<1>12. ASSUME NEW r \in Callers, updateRuleSetRow(r)  PROVE NativeIInv'
  <2> DEFINE q == request[r]
             c == request[r].conn
             s == [session[c] EXCEPT !.row = Written(q)]
  <2>1. c # Nil /\ c \in Connections /\ q.rest \in ToWrite
    BY <1>12, StatementSays DEF updateRuleSetRow, AtStatement
  <2>2. GoodRow(Written(q), reviewed)
    <3>1. /\ q.kind \in Writers /\ (q.kind = "edit" => q.draft \in Drafts)
          /\ CheckRead(q, reviewed) /\ GoodRow(q.row, reviewed)
      BY <2>1, <1>3, Disjoint DEF GoodOperation
    <3> QED
      BY <3>1, WrittenIsGood
  <2>3. /\ \/ session' = [session EXCEPT ![c].row = Written(q)] /\ rule' = rule
           \/ session' = session /\ rule' = Written(q)
        /\ Release(r, Done(q)) /\ UNCHANGED reviewed
    BY <1>12 DEF updateRuleSetRow, UpdateRow
  <2>4. GoodSession(s, reviewed)
    <3>1. session[c] = [f \in SessionFields |-> session[c][f]]
      BY <2>1, <1>2 DEF GoodSession
    <3>2. s = [f \in SessionFields |-> s[f]] /\ s.row = Written(q)
      BY <3>1 DEF SessionFields
    <3> QED
      BY <3>2, <2>2 DEF GoodSession
  <2>5. /\ session' = [d \in Connections |-> session'[d]]
        /\ \A d \in Connections : GoodSession(session'[d], reviewed')
    <3>1. CASE session' = session
      BY <3>1, <2>3 DEF NativeIInv
    <3>2. CASE session' = [session EXCEPT ![c] = s]
      BY <3>2, <2>1, <2>3, <2>4, SessionsKept
    <3>3. session' = session \/ session' = [session EXCEPT ![c] = s]
      BY <2>3
    <3> QED
      BY <3>1, <3>2, <3>3
  <2>6. GoodRow(rule', reviewed')
    BY <2>2, <2>3, <1>1
  <2> QED
    BY <2>1, <2>3, <2>5, <2>6, <1>9 DEF NativeIInv
<1>13. ASSUME NEW r \in Callers, addClientEvent(r)  PROVE NativeIInv'
  <2> DEFINE c == request[r].conn
             s == [session[c] EXCEPT !.events = @ \cup {r}]
  <2>1. c # Nil /\ c \in Connections /\ request[r].rest \in ToWrite \cup ToEnd
    BY <1>13, StatementSays DEF addClientEvent, AtStatement
  <2>2. /\ session' = session \/ session' = [session EXCEPT ![c].events = @ \cup {r}]
        /\ Release(r, Done(request[r])) /\ UNCHANGED <<rule, reviewed>>
    BY <1>13 DEF addClientEvent, InsertEvent
  <2>3. GoodSession(s, reviewed)
    <3>1. session[c] = [f \in SessionFields |-> session[c][f]]
      BY <2>1, <1>2 DEF GoodSession
    <3>2. s = [f \in SessionFields |-> s[f]] /\ s.row = session[c].row
      BY <3>1 DEF SessionFields
    <3> QED
      BY <3>2, <2>1, <1>2 DEF GoodSession
  <2>4. session' = session \/ session' = [session EXCEPT ![c] = s]
    BY <2>2
  <2>5. /\ session' = [d \in Connections |-> session'[d]]
        /\ \A d \in Connections : GoodSession(session'[d], reviewed')
    <3>1. CASE session' = session
      BY <3>1, <2>2 DEF NativeIInv
    <3>2. CASE session' = [session EXCEPT ![c] = s]
      BY <3>2, <2>1, <2>2, <2>3, SessionsKept
    <3> QED
      BY <2>4, <3>1, <3>2
  <2> QED
    BY <2>1, <2>2, <2>5, <1>1, <1>9 DEF NativeIInv
<1>14. ASSUME NEW r \in Callers, StatementFails(r)  PROVE NativeIInv'
  <2> DEFINE c == request[r].conn
             s == [session[c] EXCEPT !.failed = TRUE]
  <2>1. c # Nil /\ c \in Connections /\ Append(idle, c) \in Seq(Connections)
    BY <1>14, StatementSays DEF StatementFails
  <2>2. session' \in {[session EXCEPT ![c] = s], session} /\ Release(r, Throw(request[r]))
        /\ UNCHANGED <<rule, reviewed>>
    BY <1>14 DEF StatementFails
  <2>3. GoodSession(s, reviewed)
    <3>1. session[c] = [f \in SessionFields |-> session[c][f]]
      BY <2>1, <1>2 DEF GoodSession
    <3>2. s = [f \in SessionFields |-> s[f]] /\ s.row = session[c].row
      BY <3>1 DEF SessionFields
    <3> QED
      BY <3>2, <2>1, <1>2 DEF GoodSession
  <2>4. GoodOperation(Released(Throw(request[r])), reviewed')
    BY <2>2, <1>3, ThrowIsGood
  <2>5. /\ request' = [o \in Callers |-> request'[o]]
        /\ \A o \in Callers : GoodOperation(request'[o], reviewed')
        /\ idle' \in Seq(Connections)
    BY <2>1, <2>2, <2>4, <1>4, RequestsKept
  <2>6. CASE session' = session
    BY <2>2, <2>5, <2>6, <1>1 DEF NativeIInv
  <2>7. CASE session' = [session EXCEPT ![c] = s]
    BY <2>1, <2>2, <2>3, <2>5, <2>7, <1>1, SessionsKept DEF NativeIInv
  <2> QED
    BY <2>2, <2>6, <2>7
<1>15. ASSUME NEW r \in Callers, EndTransaction(r)  PROVE NativeIInv'
  <2> DEFINE c == request[r].conn
  <2>1. c # Nil /\ c \in Connections /\ request[r].rest \in ToEnd
    BY <1>15, StatementSays DEF EndTransaction
  <2>2. /\ session' = [session EXCEPT ![c] = NoSession]
        /\ rule' \in {rule, RowSeen(c)}
        /\ Release(r, Done(request[r])) /\ UNCHANGED reviewed
    BY <1>15 DEF EndTransaction, Commit
  <2>3. GoodSession(NoSession, reviewed)
    BY DEF GoodSession, NoSession, SessionFields
  <2>4. GoodRow(rule', reviewed')
    BY <2>1, <2>2, <1>1, SeenIsGood
  <2> QED
    BY <2>1, <2>2, <2>3, <2>4, <1>9, SessionsKept DEF NativeIInv
<1>16. ASSUME NEW c \in Connections, IdleTimeout(c)  PROVE NativeIInv'
  <2>1. session' = [session EXCEPT ![c] = NoSession] /\ UNCHANGED <<rule, request, reviewed>>
    BY <1>16 DEF IdleTimeout
  <2>2. PICK n \in DOMAIN idle : idle' = RemoveAt(idle, n)
    BY <1>16 DEF IdleTimeout
  <2>3. idle' \in Seq(Connections)
    <3>1. n \in 1 .. Len(idle) /\ Len(idle) \in Nat
      BY <1>1
    <3>2. SubSeq(idle, 1, n - 1) \in Seq(Connections) /\ SubSeq(idle, n + 1, Len(idle)) \in Seq(Connections)
      BY <3>1, <1>1
    <3> QED
      BY <2>2, <3>2 DEF RemoveAt
  <2>4. GoodSession(NoSession, reviewed)
    BY DEF GoodSession, NoSession, SessionFields
  <2> QED
    BY <2>1, <2>3, <2>4, <1>1, SessionsKept DEF NativeIInv
<1> QED
  BY <1>5, <1>6, <1>7, <1>8, <1>8a, <1>10, <1>11, <1>12, <1>13, <1>14, <1>15, <1>16 DEF NativeNext

LEMMA NativeStepInv == NativeIInv /\ [NativeNext]_nativeVars => NativeIInv'
<1>1. NativeIInv /\ UNCHANGED nativeVars => NativeIInv'
  BY DEF NativeIInv, nativeVars
<1> QED
  BY <1>1, StepKeeps

(***************************************************************************)
(* The approval that publishRuleSet asks for is one that a reviewer gave   *)
(* for this draft, whatever statements of whatever requests are between    *)
(* the reads and the writes, and in whose transaction they end up.         *)
(***************************************************************************)
THEOREM SignedSafe == NativeSpec => []SignedWasReviewed
<1>1. NativeIInv => SignedWasReviewed
  BY DEF NativeIInv, GoodRow, SignedReviewed, SignedWasReviewed
<1> QED
  BY InitEstablishes, NativeStepInv, <1>1, PTL DEF NativeSpec

-----------------------------------------------------------------------------
(***************************************************************************)
(* Where a publish is, from its BEGIN on.                                  *)
(***************************************************************************)
AtBegin == <<"begin", "insert", "update", "commit">>
AtInsert == <<"insert", "update", "commit">>
AtUpdate == <<"update", "commit">>
AtCommit == <<"commit">>
AtRollback == <<"rollback">>
Held == {AtInsert, AtUpdate, AtCommit, AtRollback}
Before == {<<"check", "read", "versions", "begin", "insert", "update", "commit">>,
           <<"read", "versions", "begin", "insert", "update", "commit">>,
           <<"versions", "begin", "insert", "update", "commit">>}
PublishRests == Before \cup {AtBegin} \cup Held \cup {<<>>}
EventRests == {<<"insert">>, <<>>}
WriterRests == {<<"check", "read", "update">>, <<"read", "update">>, <<"update">>, <<>>}

(* The statements left are those of the operation's kind. *)
InOrder(q) ==
  /\ q.kind = "publish" => q.rest \in PublishRests
  /\ q.kind = "event" => q.rest \in EventRests
  /\ q.kind \notin {"publish", "event"} => q.rest \in WriterRests
  /\ q.answer = "ok" => q.rest = <<>>
  /\ q.rest = AtRollback => q.answer = "error"

(* A publish holds its transaction once BEGIN is answered. *)
Holds(q) == q.kind = "publish" /\ q.rest \in Held

(* The connection a statement of r has or, between two statements, would get. *)
On(r, c) == \/ request[r].conn = c
            \/ request[r].conn = Nil /\ idle # <<>> /\ Last(idle) = c

(* One transaction at a time, and no other statement beside it. *)
Alone ==
  \A r, o \in Callers : r # o /\ InTransaction(request[r]) =>
    request[o].conn = Nil /\ ~InTransaction(request[o])

(* The open session is that of the publish that holds the transaction. *)
SessionHeld ==
  \A c \in Connections : session[c].open => \E r \in Callers : Holds(request[r]) /\ On(r, c)

(* It holds what the publish has written so far. *)
Holding(r, s) ==
  /\ s.open
  /\ request[r].rest \in {AtUpdate, AtCommit} => VersionOf(r) \in s.versions
  /\ request[r].rest = AtCommit => ~s.failed
HeldSession ==
  \A r \in Callers : Holds(request[r]) => \E c \in Connections : On(r, c) /\ Holding(r, session[c])

Durable ==
  \A r \in Callers : /\ Answered(r, "event") => r \in events
                     /\ Answered(r, "publish") => VersionOf(r) \in versions

DInv ==
  /\ \A r \in Callers : InOrder(request[r])
  /\ \A c \in Connections : ~session[c].open => session[c] = NoSession
  /\ overlapped \in BOOLEAN
  /\ ~overlapped => Alone /\ SessionHeld /\ HeldSession /\ Durable

-----------------------------------------------------------------------------
LEMMA PublishStatements ==
  /\ Head(AtBegin) = "begin" /\ Tail(AtBegin) = AtInsert
  /\ Head(AtInsert) = "insert" /\ Tail(AtInsert) = AtUpdate
  /\ Head(AtUpdate) = "update" /\ Tail(AtUpdate) = AtCommit
  /\ Head(AtCommit) = "commit" /\ Tail(AtCommit) = <<>>
  /\ Head(AtRollback) = "rollback" /\ Tail(AtRollback) = <<>>
  /\ <<>> \notin {AtBegin, AtInsert, AtUpdate, AtCommit, AtRollback}
  /\ \A s \in Before : Head(s) \in {"check", "read", "versions"} /\ Tail(s) \in Before \cup {AtBegin} /\ s # <<>>
<1>1. Tail(AtBegin) = AtInsert /\ Tail(AtInsert) = AtUpdate /\ Tail(AtUpdate) = AtCommit
  BY DEF AtBegin, AtInsert, AtUpdate, AtCommit
<1>2. Tail(AtCommit) = <<>> /\ Tail(AtRollback) = <<>>
  BY DEF AtCommit, AtRollback
<1>3. /\ Head(AtBegin) = "begin" /\ Head(AtInsert) = "insert" /\ Head(AtUpdate) = "update"
      /\ Head(AtCommit) = "commit" /\ Head(AtRollback) = "rollback"
  BY DEF AtBegin, AtInsert, AtUpdate, AtCommit, AtRollback
<1>4. <<>> \notin {AtBegin, AtInsert, AtUpdate, AtCommit, AtRollback}
  BY DEF AtBegin, AtInsert, AtUpdate, AtCommit, AtRollback
<1>5. \A s \in Before : Head(s) \in {"check", "read", "versions"} /\ Tail(s) \in Before \cup {AtBegin} /\ s # <<>>
  <2>1. /\ Tail(<<"check", "read", "versions", "begin", "insert", "update", "commit">>)
             = <<"read", "versions", "begin", "insert", "update", "commit">>
        /\ Tail(<<"read", "versions", "begin", "insert", "update", "commit">>)
             = <<"versions", "begin", "insert", "update", "commit">>
        /\ Tail(<<"versions", "begin", "insert", "update", "commit">>)
             = <<"begin", "insert", "update", "commit">>
    OBVIOUS
  <2>2. \A s \in Before : Head(s) \in {"check", "read", "versions"} /\ s # <<>>
    BY DEF Before
  <2> QED
    BY <2>1, <2>2 DEF Before, AtBegin
<1> QED
  BY <1>1, <1>2, <1>3, <1>4, <1>5

LEMMA WriterStatements ==
  /\ \A s \in WriterRests : s # <<>> => Head(s) \in {"check", "read", "update"} /\ Tail(s) \in WriterRests
  /\ \A s \in EventRests : s # <<>> => Head(s) = "insert" /\ Tail(s) = <<>>
  /\ AtRollback \notin WriterRests \cup EventRests
  /\ <<>> \in WriterRests \cap EventRests
<1>1. /\ Tail(<<"check", "read", "update">>) = <<"read", "update">>
      /\ Tail(<<"read", "update">>) = <<"update">>
      /\ Tail(<<"update">>) = <<>> /\ Tail(<<"insert">>) = <<>>
  OBVIOUS
<1>2. \A s \in WriterRests : s # <<>> => Head(s) \in {"check", "read", "update"}
  BY DEF WriterRests
<1>3. \A s \in EventRests : s # <<>> => Head(s) = "insert"
  BY DEF EventRests
<1>4. Head(AtRollback) = "rollback" /\ AtRollback # <<>>
  BY PublishStatements
<1>5. AtRollback \notin WriterRests \cup EventRests
  BY <1>2, <1>3, <1>4
<1> QED
  BY <1>1, <1>2, <1>3, <1>5 DEF WriterRests, EventRests

(* InTransaction, in terms of the statements left. *)
LEMMA TransactionIs ==
  ASSUME NEW q, InOrder(q)
  PROVE  InTransaction(q) <=>
           \/ Holds(q)
           \/ q.kind = "publish" /\ q.rest = AtBegin /\ q.conn # Nil
<1>1. CASE q.kind # "publish"
  BY <1>1 DEF InTransaction, Holds
<1>2. CASE q.kind = "publish"
  <2>1. q.rest \in Before \cup {AtBegin} \cup Held \cup {<<>>}
    BY <1>2 DEF InOrder, PublishRests
  <2>2. CASE q.rest = <<>>
    BY <2>2, PublishStatements DEF InTransaction, Holds, Held
  <2>3. CASE q.rest \in Before
    BY <2>3, PublishStatements DEF InTransaction, Holds, Held
  <2>4. CASE q.rest = AtBegin
    BY <1>2, <2>4, PublishStatements DEF InTransaction, Holds, Held
  <2>5. CASE q.rest \in Held
    BY <1>2, <2>5, PublishStatements DEF InTransaction, Holds, Held
  <2> QED
    BY <2>1, <2>2, <2>3, <2>4, <2>5
<1> QED
  BY <1>1, <1>2

(* How a statement that was answered, or failed, leaves the operation. *)
VersionRow(q) == [version |-> q.version, definition |-> q.row.draft, signed |-> Signed(q.row)]
IsOperation(q) == q = [f \in OperationFields |-> q[f]]

LEMMA DoneInOrder ==
  ASSUME NEW q, IsOperation(q), InOrder(q), q.rest # <<>>
  PROVE  LET t == Released(Done(q))
         IN  /\ IsOperation(t) /\ InOrder(t)
             /\ t.conn = Nil /\ t.kind = q.kind /\ t.rest = Tail(q.rest)
             /\ VersionRow(t) = VersionRow(q)
             /\ t.answer = "ok" => Tail(q.rest) = <<>> /\ q.rest # AtRollback
<1> DEFINE t == Released(Done(q))
<1>1. /\ IsOperation(t)
      /\ t.conn = Nil /\ t.rest = Tail(q.rest) /\ t.kind = q.kind
      /\ t.version = q.version /\ t.row = q.row
      /\ t.answer = IF Tail(q.rest) = <<>> /\ q.answer = Nil THEN "ok" ELSE q.answer
  BY DEF Released, Done, OperationFields, IsOperation
<1> HIDE DEF t
<1>2. q.answer # "ok"
  BY DEF InOrder
<1>3. t.answer = "ok" => Tail(q.rest) = <<>> /\ q.rest # AtRollback
  BY <1>1, <1>2, NilAssumption DEF InOrder
<1>4. Tail(q.rest) # AtRollback /\
      (q.kind = "publish" => Tail(q.rest) \in PublishRests) /\
      (q.kind = "event" => Tail(q.rest) \in EventRests) /\
      (q.kind \notin {"publish", "event"} => Tail(q.rest) \in WriterRests)
  <2>1. CASE q.kind = "publish"
    <3>1. q.rest \in Before \cup {AtBegin, AtInsert, AtUpdate, AtCommit, AtRollback}
      BY <2>1 DEF InOrder, PublishRests, Held
    <3>2. Tail(q.rest) \in Before \cup {AtBegin, AtInsert, AtUpdate, AtCommit, <<>>}
      BY <3>1, PublishStatements
    <3>3. AtRollback \notin Before \cup {AtBegin, AtInsert, AtUpdate, AtCommit, <<>>}
      BY PublishStatements
    <3> QED
      BY <2>1, <3>2, <3>3 DEF PublishRests, Held
  <2>2. CASE q.kind # "publish"
    BY <2>2, WriterStatements DEF InOrder
  <2> QED
    BY <2>1, <2>2
<1>5. InOrder(t)
  BY <1>1, <1>3, <1>4 DEF InOrder
<1>6. VersionRow(t) = VersionRow(q)
  BY <1>1 DEF VersionRow
<1> QED
  BY <1>1, <1>3, <1>5, <1>6 DEF t

LEMMA ThrowInOrder ==
  ASSUME NEW q, IsOperation(q), InOrder(q)
  PROVE  LET t == Released(Throw(q))
         IN  /\ IsOperation(t) /\ InOrder(t)
             /\ t.conn = Nil /\ t.kind = q.kind /\ t.answer = "error"
             /\ t.rest \in {AtRollback, <<>>}
             /\ t.rest = AtRollback => Holds(q)
             /\ Holds(q) /\ q.rest # AtRollback => t.rest = AtRollback
<1> DEFINE t == Released(Throw(q))
<1>1. /\ IsOperation(t)
      /\ t.conn = Nil /\ t.kind = q.kind /\ t.answer = "error"
      /\ t.rest = IF InTransaction(q) /\ Head(q.rest) \notin {"begin", "rollback"}
                  THEN AtRollback ELSE <<>>
  BY DEF Released, Throw, OperationFields, IsOperation, AtRollback
<1> HIDE DEF t
<1>2. InTransaction(q) /\ Head(q.rest) \notin {"begin", "rollback"} => Holds(q)
  BY TransactionIs, PublishStatements
<1>3. Holds(q) /\ q.rest # AtRollback => InTransaction(q) /\ Head(q.rest) \notin {"begin", "rollback"}
  BY TransactionIs, PublishStatements DEF Holds, Held
<1>4. t.rest = AtRollback => Holds(q)
  BY <1>1, <1>2, PublishStatements
<1>5. InOrder(t)
  <2>1. t.answer # "ok"
    BY <1>1
  <2>2. t.kind = "publish" => t.rest \in PublishRests
    BY <1>1 DEF PublishRests, Held
  <2>3. t.kind # "publish" => t.rest = <<>>
    BY <1>1, <1>2 DEF Holds
  <2> QED
    BY <1>1, <2>1, <2>2, <2>3, WriterStatements DEF InOrder
<1> QED
  BY <1>1, <1>3, <1>4, <1>5 DEF t

-----------------------------------------------------------------------------
(***************************************************************************)
(* A request with a statement under way: no other one is in a transaction, *)
(* and the only session that may be open is its own.                       *)
(***************************************************************************)
LEMMA OwnSession ==
  ASSUME NativeIInv, DInv, ~overlapped, NEW r \in Callers, request[r].conn # Nil
  PROVE  /\ \A o \in Callers : o # r => ~InTransaction(request[o])
         /\ \A c \in Connections : session[c].open => c = request[r].conn /\ Holds(request[r])
         /\ Holds(request[r]) => Holding(r, session[request[r].conn])
<1>1. \A o \in Callers : o # r => ~InTransaction(request[o])
  BY DEF DInv, Alone
<1>2. \A o \in Callers : Holds(request[o]) => o = r
  BY <1>1, TransactionIs DEF DInv
<1>3. \A c \in Connections : session[c].open => c = request[r].conn /\ Holds(request[r])
  BY <1>2 DEF DInv, SessionHeld, On
<1>4. Holds(request[r]) => Holding(r, session[request[r].conn])
  BY DEF DInv, HeldSession, On
<1> QED
  BY <1>1, <1>3, <1>4

(***************************************************************************)
(* A statement answered: the connection it used is the one that the next   *)
(* statement gets.                                                         *)
(***************************************************************************)
LEMMA ReleaseKeeps ==
  ASSUME NativeIInv, DInv, ~overlapped, NEW r \in Callers, request[r].conn # Nil,
         NEW t, InOrder(t), t.conn = Nil,
         request' = [request EXCEPT ![r] = t], idle' = Append(idle, request[r].conn),
         Holds(t) => InTransaction(request[r]),
         \A c \in Connections : session'[c].open => c = request[r].conn /\ Holds(t),
         Holds(t) =>
           LET s == session'[request[r].conn]
           IN  /\ s.open
               /\ t.rest \in {AtUpdate, AtCommit} => VersionRow(t) \in s.versions
               /\ t.rest = AtCommit => ~s.failed
  PROVE  Alone' /\ SessionHeld' /\ HeldSession'
<1>0. PICK c \in Connections : c = request[r].conn
  BY StatementSays
<1>1. /\ \A o \in Callers : request'[o] = IF o = r THEN t ELSE request[o]
      /\ c \in Connections /\ idle \in Seq(Connections)
  BY DEF NativeIInv
<1>2. idle' # <<>> /\ Last(idle') = c
  <2>1. /\ Len(Append(idle, c)) = Len(idle) + 1 /\ Len(idle) \in Nat
        /\ Append(idle, c)[Len(idle) + 1] = c
    BY <1>1
  <2> QED
    BY <1>0, <2>1 DEF Last
<1>3. InTransaction(t) <=> Holds(t)
  BY TransactionIs
<1>4. \A o \in Callers : o # r => ~InTransaction(request[o])
  BY OwnSession
<1>5. Alone'
  <2> SUFFICES ASSUME NEW p \in Callers, NEW o \in Callers, p # o, InTransaction(request'[p])
               PROVE  request'[o].conn = Nil /\ ~InTransaction(request'[o])
    BY DEF Alone, InTransaction
  <2>1. p = r /\ InTransaction(request[r])
    BY <1>1, <1>3, <1>4
  <2>2. request[o].conn = Nil /\ ~InTransaction(request[o])
    BY <2>1 DEF DInv, Alone
  <2> QED
    BY <1>1, <2>1, <2>2
<1>6. On(r, c)'
  BY <1>1, <1>2 DEF On
<1>7. SessionHeld'
  BY <1>0, <1>1, <1>6 DEF SessionHeld, Holds
<1>8. HeldSession'
  <2> SUFFICES ASSUME NEW o \in Callers, Holds(request'[o])
               PROVE  \E d \in Connections : On(o, d)' /\ Holding(o, session[d])'
    BY DEF HeldSession, Holds
  <2>1. o = r
    BY <1>1, <1>4, TransactionIs DEF DInv
  <2>2. Holds(t) /\ request'[r] = t
    BY <1>1, <2>1
  <2>3. VersionOf(r)' = VersionRow(t)
    BY <2>2 DEF VersionOf, VersionRow
  <2>4. Holding(r, session[c])'
    BY <2>2, <2>3, <1>0, <1>1 DEF Holding
  <2> QED
    BY <1>1, <1>6, <2>1, <2>4
<1> QED
  BY <1>5, <1>7, <1>8

(* What was answered stays committed, and the request r is answered right. *)
LEMMA DurableKept ==
  ASSUME NativeIInv, DInv, ~overlapped, NEW r \in Callers, NEW t,
         request' = [request EXCEPT ![r] = t],
         events \subseteq events', versions \subseteq versions',
         t.answer = "ok" => /\ t.kind = "event" => r \in events'
                            /\ t.kind = "publish" => VersionRow(t) \in versions'
  PROVE  Durable'
<1>1. \A o \in Callers : request'[o] = IF o = r THEN t ELSE request[o]
  BY DEF NativeIInv
<1> SUFFICES ASSUME NEW o \in Callers
             PROVE  /\ Answered(o, "event")' => o \in events'
                    /\ Answered(o, "publish")' => VersionOf(o)' \in versions'
  BY DEF Durable
<1>2. CASE o = r
  <2>1. VersionOf(o)' = VersionRow(t)
    BY <1>1, <1>2 DEF VersionOf, VersionRow
  <2> QED
    BY <1>1, <1>2, <2>1 DEF Answered
<1>3. CASE o # r
  <2>1. VersionOf(o)' = VersionOf(o)
    BY <1>1, <1>3 DEF VersionOf
  <2> QED
    BY <1>1, <1>3, <2>1 DEF DInv, Durable, Answered
<1> QED
  BY <1>2, <1>3

(***************************************************************************)
(* A statement of r is answered: what is left to show is what it did to    *)
(* the session of its connection and to the committed rows.                *)
(***************************************************************************)
LEMMA StatementKeeps ==
  ASSUME NativeIInv, DInv, NEW r \in Callers, request[r].conn # Nil, overlapped' = overlapped,
         NEW t, InOrder(t), t.conn = Nil,
         request' = [request EXCEPT ![r] = t], idle' = Append(idle, request[r].conn),
         \A c \in Connections : ~session'[c].open => session'[c] = NoSession,
         ~overlapped =>
           /\ events \subseteq events' /\ versions \subseteq versions'
           /\ t.answer = "ok" => /\ t.kind = "event" => r \in events'
                                 /\ t.kind = "publish" => VersionRow(t) \in versions'
           /\ Holds(t) => InTransaction(request[r])
           /\ \A c \in Connections : session'[c].open => c = request[r].conn /\ Holds(t)
           /\ Holds(t) =>
                LET s == session'[request[r].conn]
                IN  /\ s.open
                    /\ t.rest \in {AtUpdate, AtCommit} => VersionRow(t) \in s.versions
                    /\ t.rest = AtCommit => ~s.failed
  PROVE  DInv'
<1>1. \A o \in Callers : InOrder(request'[o])
  BY DEF NativeIInv, DInv
<1>2. ~overlapped => Alone' /\ SessionHeld' /\ HeldSession'
  BY ReleaseKeeps
<1>3. ~overlapped => Durable'
  BY DurableKept
<1> QED
  BY <1>1, <1>2, <1>3 DEF DInv

-----------------------------------------------------------------------------
LEMMA DurableInit == NativeInit => DInv
<1> SUFFICES ASSUME NativeInit PROVE DInv
  OBVIOUS
<1>1. /\ \A r \in Callers : request[r] = NoOperation
      /\ \A c \in Connections : session[c] = NoSession
      /\ overlapped = FALSE
  BY DEF NativeInit
<1>2. NoOperation.rest = <<>> /\ NoOperation.conn = Nil /\ NoOperation.answer = Nil
  BY DEF NoOperation
<1>3. InOrder(NoOperation)
  BY <1>2, NilAssumption, PublishStatements, WriterStatements DEF InOrder, PublishRests
<1>4. ~InTransaction(NoOperation) /\ ~Holds(NoOperation)
  BY <1>2, PublishStatements DEF InTransaction, Holds, Held
<1>5. ~NoSession.open
  BY DEF NoSession
<1>6. Alone /\ SessionHeld /\ HeldSession
  BY <1>1, <1>4, <1>5 DEF Alone, SessionHeld, HeldSession
<1>7. Durable
  BY <1>1, <1>2, NilAssumption DEF Durable, Answered
<1> QED
  BY <1>1, <1>3, <1>5, <1>6, <1>7 DEF DInv

LEMMA BeginKeeps ==
  ASSUME NativeIInv, DInv, NEW r \in Callers, NEW kind \in Kinds, NEW d \in Drafts, Begin(r, kind, d)
  PROVE  DInv'
<1> DEFINE q == [NoOperation EXCEPT !.kind = kind, !.rest = Program[kind],
                                    !.draft = IF kind = "edit" THEN d ELSE Nil]
<1>1. q.conn = Nil /\ q.kind = kind /\ q.rest = Program[kind] /\ q.answer = Nil
  BY DEF NoOperation
<1>2. request' = [request EXCEPT ![r] = q]
  BY DEF Begin
<1>3. UNCHANGED <<versions, events, session, idle, overlapped>> /\ request[r].conn = Nil
  BY DEF Begin, NoOperation
<1> HIDE DEF q
<1>4. \A o \in Callers : request'[o] = IF o = r THEN q ELSE request[o]
  BY <1>2 DEF NativeIInv
<1>5. /\ kind = "publish" => Program[kind] \in Before
      /\ kind = "event" => Program[kind] = <<"insert">>
      /\ kind \notin {"publish", "event"} => Program[kind] \in WriterRests
  BY KindsAssumption DEF Program, Before, WriterRests
<1>6. InOrder(q)
  <2>1. <<"insert">> \in EventRests
    BY DEF EventRests
  <2>2. kind = "publish" => q.rest # AtRollback
    BY <1>1, <1>5, PublishStatements
  <2>3. kind # "publish" => q.rest # AtRollback
    BY <1>1, <1>5, <2>1, WriterStatements
  <2> QED
    BY <1>1, <1>5, <2>1, <2>2, <2>3, NilAssumption DEF InOrder, PublishRests
<1>7. ~Holds(q)
  <2>1. \A s \in Before : s \notin Held
    BY PublishStatements DEF Held
  <2> QED
    BY <1>1, <1>5, <2>1 DEF Holds
<1>8. ~InTransaction(q)
  BY <1>1, <1>6, <1>7, TransactionIs
<1>9. ASSUME ~overlapped PROVE Alone' /\ SessionHeld' /\ HeldSession'
  <2>0. Alone /\ SessionHeld /\ HeldSession
    BY <1>9 DEF DInv
  <2>1. Alone'
    <3> SUFFICES ASSUME NEW p \in Callers, NEW o \in Callers, p # o, InTransaction(request'[p])
                 PROVE  request'[o].conn = Nil /\ ~InTransaction(request'[o])
      BY DEF Alone, InTransaction
    <3>1. p # r /\ InTransaction(request[p])
      BY <1>4, <1>8
    <3> QED
      BY <1>1, <1>4, <1>8, <2>0, <3>1 DEF Alone
  <2>2. ASSUME NEW o \in Callers, NEW c \in Connections PROVE On(o, c)' <=> On(o, c)
    BY <1>1, <1>3, <1>4 DEF On
  <2>3. ~Holds(request[r])
    <3>1. request[r].rest = <<>>
      BY DEF Begin, NoOperation
    <3> QED
      BY <3>1, PublishStatements DEF Holds, Held
  <2>4. ASSUME NEW o \in Callers PROVE Holds(request'[o]) <=> Holds(request[o]) /\ o # r
    BY <1>4, <1>7, <2>3
  <2>5. SessionHeld'
    BY <1>3, <2>0, <2>2, <2>3, <2>4 DEF SessionHeld, Holds
  <2>6. HeldSession'
    <3> SUFFICES ASSUME NEW o \in Callers, Holds(request'[o])
                 PROVE  \E c \in Connections : On(o, c)' /\ Holding(o, session[c])'
      BY DEF HeldSession, Holds
    <3>1. o # r /\ Holds(request[o]) /\ request'[o] = request[o]
      BY <1>4, <2>4
    <3>2. PICK c \in Connections : On(o, c) /\ Holding(o, session[c])
      BY <2>0, <3>1 DEF HeldSession
    <3>3. Holding(o, session[c])'
      BY <1>3, <3>1, <3>2 DEF Holding, VersionOf
    <3> QED
      BY <2>2, <3>2, <3>3
  <2> QED
    BY <2>1, <2>5, <2>6
<1>10. ~overlapped => Durable'
  BY <1>1, <1>2, <1>3, DurableKept, NilAssumption
<1> QED
  BY <1>3, <1>4, <1>6, <1>9, <1>10 DEF DInv

(***************************************************************************)
(* The pool hands out the connection that came back last: to a publish     *)
(* that holds a transaction, the one of the transaction.  A statement of   *)
(* another request beside the transaction is an overlap.                   *)
(***************************************************************************)
LEMMA CheckoutKeeps ==
  ASSUME NativeIInv, DInv, NEW r \in Callers, Checkout(r)
  PROVE  DInv'
<1>1. PICK c \in Connections : /\ request' = [request EXCEPT ![r].conn = c]
                               /\ idle # <<>> => c = Last(idle)
  <2>1. CASE idle # <<>>
    <3>1. Last(idle) \in Connections
      BY <2>1 DEF NativeIInv, Last
    <3> QED
      BY <2>1, <3>1 DEF Checkout
  <2>2. CASE idle = <<>>
    BY <2>2 DEF Checkout
  <2> QED
    BY <2>1, <2>2
<1> DEFINE q == [request[r] EXCEPT !.conn = c]
<1>2. /\ request[r].rest # <<>> /\ request[r].conn = Nil
      /\ overlapped' = (overlapped \/ Torn(request'))
      /\ UNCHANGED <<versions, events, session>>
  BY DEF Checkout
<1>3. request[r] = [f \in OperationFields |-> request[r][f]]
  BY DEF NativeIInv, GoodOperation
<1>4. /\ q.conn = c /\ q.rest = request[r].rest /\ q.kind = request[r].kind
      /\ q.answer = request[r].answer /\ q.version = request[r].version /\ q.row = request[r].row
  BY <1>3 DEF OperationFields
<1>5. request' = [request EXCEPT ![r] = q]
  BY <1>1
<1> HIDE DEF q
<1>6. \A o \in Callers : request'[o] = IF o = r THEN q ELSE request[o]
  BY <1>5 DEF NativeIInv
<1>7. InOrder(q) /\ (Holds(q) <=> Holds(request[r])) /\ c # Nil
  BY <1>4, NilAssumption DEF InOrder, Holds, DInv
<1>8. ASSUME NEW o \in Callers PROVE Holds(request'[o]) <=> Holds(request[o])
  BY <1>6, <1>7
<1>9. ASSUME NEW o \in Callers PROVE VersionOf(o)' = VersionOf(o)
  BY <1>4, <1>6 DEF VersionOf
<1>10. ASSUME ~overlapped' PROVE Alone' /\ SessionHeld' /\ HeldSession'
  <2>1. ~overlapped /\ ~Torn(request')
    BY <1>2, <1>10 DEF DInv
  <2>2. Alone /\ SessionHeld /\ HeldSession
    BY <2>1 DEF DInv
  <2>3. \A o \in Callers : o # r => ~InTransaction(request[o])
    BY <2>1, <1>4, <1>6, <1>7 DEF Torn
  <2>4. Alone'
    <3> SUFFICES ASSUME NEW p \in Callers, NEW o \in Callers, p # o, InTransaction(request'[p])
                 PROVE  request'[o].conn = Nil /\ ~InTransaction(request'[o])
      BY DEF Alone, InTransaction
    <3>1. p = r
      BY <1>6, <2>3
    <3>2. request'[o].conn = Nil
      BY <2>1 DEF Torn
    <3> QED
      BY <1>6, <2>3, <3>1, <3>2
  <2>5. \A o \in Callers : Holds(request[o]) => o = r
    BY <2>3, TransactionIs DEF DInv
  <2>6. ASSUME NEW d \in Connections, On(r, d), Holds(request[r]) PROVE d = c
    <3>1. idle # <<>> /\ Last(idle) = d
      BY <1>2, <2>6, NilAssumption DEF On
    <3> QED
      BY <1>1, <3>1
  <2>7. On(r, c)'
    BY <1>4, <1>6 DEF On
  <2>8. SessionHeld'
    <3> SUFFICES ASSUME NEW d \in Connections, session[d].open
                 PROVE  \E o \in Callers : Holds(request'[o]) /\ On(o, d)'
      BY <1>2 DEF SessionHeld, Holds
    <3>1. Holds(request[r]) /\ On(r, d)
      BY <2>2, <2>5 DEF SessionHeld
    <3> QED
      BY <1>8, <2>6, <2>7, <3>1
  <2>9. HeldSession'
    <3> SUFFICES ASSUME NEW o \in Callers, Holds(request'[o])
                 PROVE  \E d \in Connections : On(o, d)' /\ Holding(o, session[d])'
      BY DEF HeldSession, Holds
    <3>1. o = r /\ Holds(request[r])
      BY <1>8, <2>5
    <3>2. Holding(r, session[c])
      BY <2>2, <2>6, <3>1 DEF HeldSession
    <3>3. Holding(r, session[c])'
      <4>1. request'[r].rest = request[r].rest
        BY <1>4, <1>6
      <4> QED
        BY <1>2, <1>9, <3>2, <4>1 DEF Holding
    <3> QED
      BY <2>7, <3>1, <3>3
  <2> QED
    BY <2>4, <2>8, <2>9
<1>11. ASSUME ~overlapped' PROVE Durable'
  <2>1. ~overlapped /\ Durable
    BY <1>2, <1>11 DEF DInv
  <2>2. ASSUME NEW o \in Callers, NEW kind PROVE Answered(o, kind)' <=> Answered(o, kind)
    BY <1>4, <1>6 DEF Answered
  <2> QED
    BY <1>2, <1>9, <2>1, <2>2 DEF Durable
<1>12. overlapped' \in BOOLEAN
  BY <1>2
<1> QED
  BY <1>2, <1>6, <1>7, <1>10, <1>11, <1>12 DEF DInv

(***************************************************************************)
(* The two reads: on their way to BEGIN a publish holds no transaction.    *)
(***************************************************************************)
LEMMA ReadKeeps ==
  ASSUME NativeIInv, DInv, NEW r \in Callers, request[r].conn # Nil, overlapped' = overlapped,
         Step(r) \in {"check", "read", "versions"},
         NEW q, IsOperation(q), InOrder(q), q.rest = request[r].rest,
         Release(r, Done(q)) \/ Release(r, Throw(request[r])),
         UNCHANGED <<versions, events, session>>
  PROVE  DInv'
<1>1. ~Holds(request[r]) /\ ~Holds(q)
  BY PublishStatements DEF Step, Holds, Held
<1>2. request[r].rest # <<>> /\ IsOperation(request[r]) /\ InOrder(request[r])
  BY StatementSays DEF NativeIInv, DInv, GoodOperation, IsOperation
<1>3. ~overlapped => \A c \in Connections : ~session[c].open
  BY <1>1, OwnSession
<1>4. CASE Release(r, Done(q))
  <2> DEFINE t == Released(Done(q))
  <2>1. request' = [request EXCEPT ![r] = t] /\ idle' = Append(idle, request[r].conn)
    BY <1>4 DEF Release, Released
  <2>2. /\ InOrder(t) /\ t.conn = Nil /\ t.kind = q.kind /\ t.rest = Tail(q.rest)
        /\ t.answer = "ok" => Tail(q.rest) = <<>>
    BY <1>2, DoneInOrder
  <2> HIDE DEF t
  <2>3. q.kind = "publish" => q.rest \in Before
    BY <1>2, PublishStatements DEF InOrder, PublishRests, Held, Step
  <2>4. q.kind = "publish" => Tail(q.rest) \notin Held /\ Tail(q.rest) # <<>>
    BY <2>3, PublishStatements DEF Held
  <2>5. q.kind # "event"
    BY <1>2, WriterStatements DEF InOrder, Step
  <2>6. ~Holds(t) /\ (t.answer = "ok" => t.kind \notin {"event", "publish"})
    BY <2>2, <2>4, <2>5 DEF Holds
  <2> QED
    BY <1>3, <2>1, <2>2, <2>6, StatementKeeps DEF DInv
<1>5. CASE Release(r, Throw(request[r]))
  <2> DEFINE t == Released(Throw(request[r]))
  <2>1. request' = [request EXCEPT ![r] = t] /\ idle' = Append(idle, request[r].conn)
    BY <1>5 DEF Release, Released
  <2>2. InOrder(t) /\ t.conn = Nil /\ t.answer = "error" /\ t.rest \in {AtRollback, <<>>}
        /\ (t.rest = AtRollback => Holds(request[r]))
    BY <1>2, ThrowInOrder
  <2> HIDE DEF t
  <2>3. ~Holds(t)
    BY <1>1, <2>2, PublishStatements DEF Holds, Held
  <2> QED
    BY <1>3, <2>1, <2>2, <2>3, StatementKeeps DEF DInv
<1> QED
  BY <1>4, <1>5

(* The statements of a publish after its reads, and the sessions they meet. *)
LEMMA PublishAt ==
  ASSUME NativeIInv, DInv, NEW r \in Callers, request[r].conn # Nil, request[r].kind = "publish"
  PROVE  /\ Step(r) = "begin" => request[r].rest = AtBegin
         /\ Step(r) = "insert" => request[r].rest = AtInsert
         /\ Step(r) = "update" => request[r].rest = AtUpdate
         /\ Step(r) = "commit" => request[r].rest = AtCommit
         /\ Step(r) = "rollback" => request[r].rest = AtRollback
<1>1. request[r].rest \in Before \cup {AtBegin, AtInsert, AtUpdate, AtCommit, AtRollback}
  BY StatementSays DEF DInv, InOrder, PublishRests, Held
<1> QED
  BY <1>1, PublishStatements DEF Step

(* Only a publish begins or ends a transaction. *)
LEMMA OthersAt ==
  ASSUME NativeIInv, DInv, NEW r \in Callers, request[r].conn # Nil, request[r].kind # "publish"
  PROVE  /\ Step(r) \in {"check", "read", "update", "insert"}
         /\ Step(r) = "insert" => request[r].kind = "event"
         /\ Step(r) # "insert" => request[r].kind # "event"
BY StatementSays, WriterStatements DEF DInv, InOrder, Step

(* The operation of r, its connection, and what Done leaves of it. *)
LEMMA DoneParts ==
  ASSUME NativeIInv, DInv, NEW r \in Callers, request[r].conn # Nil, Release(r, Done(request[r]))
  PROVE  \E t :
           /\ request' = [request EXCEPT ![r] = t] /\ idle' = Append(idle, request[r].conn)
           /\ InOrder(t) /\ t.conn = Nil /\ t.kind = request[r].kind
           /\ t.rest = Tail(request[r].rest)
           /\ VersionRow(t) = VersionRow(request[r])
           /\ t.answer = "ok" => Tail(request[r].rest) = <<>> /\ request[r].rest # AtRollback
<1> DEFINE t == Released(Done(request[r]))
<1>1. IsOperation(request[r]) /\ InOrder(request[r]) /\ request[r].rest # <<>>
  BY StatementSays DEF NativeIInv, DInv, GoodOperation, IsOperation
<1>2. request' = [request EXCEPT ![r] = t] /\ idle' = Append(idle, request[r].conn)
  BY DEF Release, Released
<1>3. /\ InOrder(t) /\ t.conn = Nil /\ t.kind = request[r].kind
      /\ t.rest = Tail(request[r].rest)
      /\ VersionRow(t) = VersionRow(request[r])
      /\ t.answer = "ok" => Tail(request[r].rest) = <<>> /\ request[r].rest # AtRollback
  BY <1>1, DoneInOrder
<1> HIDE DEF t
<1> QED
  BY <1>2, <1>3

LEMMA BeginTransactionKeeps ==
  ASSUME NativeIInv, DInv, NEW r \in Callers, BeginTransaction(r)
  PROVE  DInv'
<1>1. /\ request[r].conn # Nil /\ Step(r) = "begin" /\ Release(r, Done(request[r]))
      /\ session' = [session EXCEPT ![request[r].conn].open = TRUE]
      /\ ~session[request[r].conn].failed
      /\ UNCHANGED <<versions, events, overlapped>>
  BY DEF BeginTransaction, AtStatement
<1>2. PICK c \in Connections : c = request[r].conn
  BY <1>1, StatementSays
<1>3. PICK t : /\ request' = [request EXCEPT ![r] = t] /\ idle' = Append(idle, request[r].conn)
               /\ InOrder(t) /\ t.conn = Nil /\ t.kind = request[r].kind
               /\ t.rest = Tail(request[r].rest)
               /\ t.answer = "ok" => Tail(request[r].rest) = <<>>
  BY <1>1, DoneParts
<1>4. request[r].kind = "publish"
  BY <1>1, OthersAt
<1>5. request[r].rest = AtBegin
  BY <1>1, <1>4, PublishAt
<1>6. /\ t.rest = AtInsert /\ t.answer # "ok" /\ Holds(t)
      /\ AtInsert \notin {AtUpdate, AtCommit}
  BY <1>3, <1>4, <1>5, PublishStatements DEF Holds, Held
<1>7. ASSUME NEW d \in Connections
      PROVE  session'[d] = IF d = c THEN [session[c] EXCEPT !.open = TRUE] ELSE session[d]
  BY <1>1, <1>2 DEF NativeIInv
<1>8. session'[c].open
  BY <1>2, <1>7 DEF NativeIInv, GoodSession, SessionFields
<1>9. ~Holds(request[r]) /\ InTransaction(request[r])
  <2>1. AtBegin \notin Held
    BY PublishStatements DEF Held
  <2> QED
    BY <1>1, <1>4, <1>5, <2>1, TransactionIs DEF Holds, DInv
<1>10. ~overlapped => \A d \in Connections : ~session[d].open
  BY <1>1, <1>9, OwnSession
<1>11. ~overlapped => \A d \in Connections : session'[d].open => d = c
  BY <1>7, <1>10
<1>12. \A d \in Connections : ~session'[d].open => session'[d] = NoSession
  BY <1>7, <1>8 DEF DInv
<1> QED
  BY <1>1, <1>2, <1>3, <1>6, <1>8, <1>9, <1>11, <1>12, StatementKeeps

LEMMA InsertVersionKeeps ==
  ASSUME NativeIInv, DInv, NEW r \in Callers, insertVersion(r)
  PROVE  DInv'
<1> DEFINE q == request[r]
           v == [version |-> q.version, definition |-> q.row.draft, signed |-> Signed(q.row)]
<1>1. /\ q.conn # Nil /\ Step(r) = "insert" /\ Release(r, Done(q)) /\ q.kind = "publish"
      /\ ~session[q.conn].failed
      /\ InsertVersion(q.conn, v)
      /\ UNCHANGED <<events, overlapped>>
  BY DEF insertVersion, AtStatement
<1>2. PICK c \in Connections : c = q.conn
  BY <1>1, StatementSays
<1>3. PICK t : /\ request' = [request EXCEPT ![r] = t] /\ idle' = Append(idle, q.conn)
               /\ InOrder(t) /\ t.conn = Nil /\ t.kind = q.kind
               /\ t.rest = Tail(q.rest) /\ VersionRow(t) = VersionRow(q)
               /\ t.answer = "ok" => Tail(q.rest) = <<>>
  BY <1>1, DoneParts
<1>4. q.rest = AtInsert /\ Holds(q)
  BY <1>1, PublishAt DEF Holds, Held
<1>5. t.rest = AtUpdate /\ t.answer # "ok" /\ Holds(t) /\ AtUpdate # AtCommit
  BY <1>1, <1>3, <1>4, PublishStatements DEF Holds, Held
<1>6. InTransaction(q)
  BY <1>4, TransactionIs DEF DInv
<1>7. VersionRow(q) = v
  BY DEF VersionRow
<1> HIDE DEF v
<1>8. /\ session[c].open =>
           versions' = versions /\ session' = [session EXCEPT ![c].versions = @ \cup {v}]
      /\ ~session[c].open => versions' = versions \cup {v} /\ session' = session
  BY <1>1, <1>2 DEF InsertVersion
<1>9. session[c] = [f \in SessionFields |-> session[c][f]]
  BY DEF NativeIInv, GoodSession
<1>10. session[c].open =>
         /\ session'[c].open = session[c].open
         /\ session'[c].versions = session[c].versions \cup {v}
         /\ \A d \in Connections : d # c => session'[d] = session[d]
  BY <1>8, <1>9 DEF NativeIInv, SessionFields
<1>11. \A d \in Connections : ~session'[d].open => session'[d] = NoSession
  BY <1>8, <1>10 DEF DInv
<1>12. ~overlapped => /\ session[c].open
                      /\ \A d \in Connections : session[d].open => d = c
  BY <1>1, <1>2, <1>4, OwnSession DEF Holding
<1>13. ~overlapped => /\ session'[c].open /\ v \in session'[c].versions
                      /\ \A d \in Connections : session'[d].open => d = c
  BY <1>10, <1>12
<1>14. versions \subseteq versions'
  BY <1>8
<1> QED
  BY <1>1, <1>2, <1>3, <1>5, <1>6, <1>7, <1>11, <1>13, <1>14, StatementKeeps

LEMMA UpdateKeeps ==
  ASSUME NativeIInv, DInv, NEW r \in Callers, updateRuleSetRow(r)
  PROVE  DInv'
<1> DEFINE q == request[r]
           w == Written(q)
<1>1. /\ q.conn # Nil /\ Step(r) = "update" /\ Release(r, Done(q))
      /\ ~session[q.conn].failed
      /\ UpdateRow(q.conn, w)
      /\ UNCHANGED <<versions, events, overlapped>>
  BY DEF updateRuleSetRow, AtStatement
<1>2. PICK c \in Connections : c = q.conn
  BY <1>1, StatementSays
<1>3. PICK t : /\ request' = [request EXCEPT ![r] = t] /\ idle' = Append(idle, q.conn)
               /\ InOrder(t) /\ t.conn = Nil /\ t.kind = q.kind
               /\ t.rest = Tail(q.rest) /\ VersionRow(t) = VersionRow(q)
               /\ t.answer = "ok" => Tail(q.rest) = <<>>
  BY <1>1, DoneParts
<1> HIDE DEF w
<1>4. /\ session[c].open => session' = [session EXCEPT ![c].row = w]
      /\ ~session[c].open => session' = session
  BY <1>1, <1>2 DEF UpdateRow
<1>5. session[c] = [f \in SessionFields |-> session[c][f]]
  BY DEF NativeIInv, GoodSession
<1>6. /\ session'[c].open = session[c].open
      /\ session'[c].versions = session[c].versions
      /\ session'[c].failed = session[c].failed
      /\ \A d \in Connections : d # c => session'[d] = session[d]
  <2>1. CASE session[c].open
    BY <1>4, <1>5, <2>1 DEF NativeIInv, SessionFields
  <2>2. CASE ~session[c].open
    BY <1>4, <2>2
  <2> QED
    BY <2>1, <2>2
<1>7. \A d \in Connections : ~session'[d].open => session'[d] = NoSession
  BY <1>4, <1>6 DEF DInv
<1>8. CASE q.kind = "publish"
  <2>1. q.rest = AtUpdate /\ Holds(q)
    BY <1>1, <1>8, PublishAt DEF Holds, Held
  <2>2. t.rest = AtCommit /\ t.answer # "ok" /\ Holds(t)
    BY <1>3, <1>8, <2>1, PublishStatements DEF Holds, Held
  <2>3. InTransaction(q)
    BY <2>1, TransactionIs DEF DInv
  <2>4. VersionOf(r) = VersionRow(t)
    BY <1>3 DEF VersionOf, VersionRow
  <2>5. ~overlapped => /\ session[c].open /\ VersionRow(t) \in session[c].versions
                       /\ \A d \in Connections : session[d].open => d = c
    BY <1>1, <1>2, <2>1, <2>4, OwnSession DEF Holding
  <2>6. ~overlapped => /\ session'[c].open /\ VersionRow(t) \in session'[c].versions
                       /\ ~session'[c].failed
                       /\ \A d \in Connections : session'[d].open => d = c
    BY <1>1, <1>2, <1>6, <2>5
  <2> QED
    BY <1>1, <1>2, <1>3, <1>7, <2>2, <2>3, <2>6, StatementKeeps
<1>9. CASE q.kind # "publish"
  <2>1. ~Holds(q) /\ ~Holds(t) /\ t.kind \notin {"event", "publish"}
    BY <1>1, <1>3, <1>9, OthersAt DEF Holds
  <2>2. ~overlapped => \A d \in Connections : ~session[d].open
    BY <1>1, <2>1, OwnSession
  <2>3. ~overlapped => \A d \in Connections : ~session'[d].open
    BY <1>6, <2>2
  <2> QED
    BY <1>1, <1>3, <1>7, <2>1, <2>3, StatementKeeps
<1> QED
  BY <1>8, <1>9

(* An event that finds no open transaction is committed at once. *)
LEMMA EventKeeps ==
  ASSUME NativeIInv, DInv, NEW r \in Callers, addClientEvent(r)
  PROVE  DInv'
<1> DEFINE q == request[r]
<1>1. /\ q.conn # Nil /\ Step(r) = "insert" /\ Release(r, Done(q)) /\ q.kind = "event"
      /\ InsertEvent(q.conn, r)
      /\ UNCHANGED <<versions, overlapped>>
  BY DEF addClientEvent, AtStatement
<1>2. PICK c \in Connections : c = q.conn
  BY <1>1, StatementSays
<1>3. PICK t : /\ request' = [request EXCEPT ![r] = t] /\ idle' = Append(idle, q.conn)
               /\ InOrder(t) /\ t.conn = Nil /\ t.kind = q.kind
  BY <1>1, DoneParts
<1>4. /\ session[c].open =>
           events' = events /\ session' = [session EXCEPT ![c].events = @ \cup {r}]
      /\ ~session[c].open => events' = events \cup {r} /\ session' = session
  BY <1>1, <1>2 DEF InsertEvent
<1>5. session[c] = [f \in SessionFields |-> session[c][f]]
  BY DEF NativeIInv, GoodSession
<1>6. session[c].open =>
        /\ session'[c].open = session[c].open
        /\ \A d \in Connections : d # c => session'[d] = session[d]
  BY <1>4, <1>5 DEF NativeIInv, SessionFields
<1>7. \A d \in Connections : ~session'[d].open => session'[d] = NoSession
  BY <1>4, <1>6 DEF DInv
<1>8. ~Holds(q) /\ ~Holds(t) /\ t.kind # "publish"
  BY <1>1, <1>3 DEF Holds
<1>9. ~overlapped => \A d \in Connections : ~session[d].open
  BY <1>1, <1>8, OwnSession
<1>10. ~overlapped => /\ \A d \in Connections : ~session'[d].open
                      /\ events' = events \cup {r}
  BY <1>4, <1>9
<1> QED
  BY <1>1, <1>3, <1>7, <1>8, <1>10, StatementKeeps

(* A failed statement leaves a transaction to be rolled back. *)
LEMMA FailKeeps ==
  ASSUME NativeIInv, DInv, NEW r \in Callers, StatementFails(r)
  PROVE  DInv'
<1> DEFINE q == request[r]
           t == Released(Throw(q))
<1>1. /\ q.conn # Nil /\ Step(r) \notin {"commit", "rollback"} /\ Release(r, Throw(q))
      /\ session' = IF session[q.conn].open THEN [session EXCEPT ![q.conn].failed = TRUE] ELSE session
      /\ UNCHANGED <<versions, events, overlapped>>
  BY DEF StatementFails
<1>2. PICK c \in Connections : c = q.conn
  BY <1>1, StatementSays
<1>3. /\ request' = [request EXCEPT ![r] = t] /\ idle' = Append(idle, q.conn)
  BY <1>1 DEF Release, Released
<1>4. IsOperation(q) /\ InOrder(q)
  BY DEF NativeIInv, DInv, GoodOperation, IsOperation
<1>5. /\ InOrder(t) /\ t.conn = Nil /\ t.answer = "error" /\ t.kind = q.kind
      /\ t.rest \in {AtRollback, <<>>}
      /\ t.rest = AtRollback => Holds(q)
      /\ Holds(q) /\ q.rest # AtRollback => t.rest = AtRollback
  BY <1>4, ThrowInOrder
<1> HIDE DEF t
<1>6. Holds(t) <=> Holds(q)
  <2>1. q.rest # AtRollback
    BY <1>1, PublishStatements DEF Step
  <2> QED
    BY <1>5, <2>1, PublishStatements DEF Holds, Held
<1>7. session' = IF session[c].open THEN [session EXCEPT ![c].failed = TRUE] ELSE session
  BY <1>1, <1>2
<1>8. /\ session'[c].open = session[c].open
      /\ \A d \in Connections : d # c => session'[d] = session[d]
  BY <1>7 DEF NativeIInv, GoodSession, SessionFields
<1>9. ~session[c].open => session' = session
  BY <1>7
<1>10. \A d \in Connections : ~session'[d].open => session'[d] = NoSession
  BY <1>7, <1>8, <1>9 DEF DInv
<1>11. ~overlapped => /\ \A d \in Connections : session[d].open => d = c /\ Holds(q)
                      /\ Holds(q) => session[c].open
  BY <1>1, <1>2, OwnSession DEF Holding
<1>12. ~overlapped => /\ \A d \in Connections : session'[d].open => d = c /\ Holds(t)
                      /\ Holds(t) => session'[c].open
  BY <1>6, <1>7, <1>8, <1>11
<1>13. Holds(t) => InTransaction(q)
  BY <1>4, <1>6, TransactionIs
<1>14. t.rest \notin {AtUpdate, AtCommit}
  BY <1>5, PublishStatements
<1> QED
  BY <1>1, <1>2, <1>3, <1>5, <1>10, <1>12, <1>13, <1>14, StatementKeeps

(* The commit of a transaction that nobody interfered with is of all of it. *)
LEMMA EndKeeps ==
  ASSUME NativeIInv, DInv, NEW r \in Callers, EndTransaction(r)
  PROVE  DInv'
<1> DEFINE q == request[r]
<1>1. /\ q.conn # Nil /\ Step(r) \in {"commit", "rollback"} /\ Release(r, Done(q))
      /\ \/ Step(r) = "commit" /\ Commit(q.conn)
         \/ Step(r) = "rollback" /\ UNCHANGED <<versions, events>>
      /\ session' = [session EXCEPT ![q.conn] = NoSession]
      /\ UNCHANGED overlapped
  BY DEF EndTransaction, Commit
<1>2. PICK c \in Connections : c = q.conn
  BY <1>1, StatementSays
<1>3. PICK t : /\ request' = [request EXCEPT ![r] = t] /\ idle' = Append(idle, q.conn)
               /\ InOrder(t) /\ t.conn = Nil /\ t.kind = q.kind
               /\ t.rest = Tail(q.rest) /\ VersionRow(t) = VersionRow(q)
               /\ t.answer = "ok" => q.rest # AtRollback
  BY <1>1, DoneParts
<1>4. q.kind = "publish"
  BY <1>1, OthersAt
<1>5. /\ Step(r) = "commit" => q.rest = AtCommit
      /\ Step(r) = "rollback" => q.rest = AtRollback
      /\ q.rest \in {AtCommit, AtRollback} /\ Holds(q)
  BY <1>1, <1>4, PublishAt DEF Holds, Held
<1>6. ~Holds(t)
  BY <1>3, <1>5, PublishStatements DEF Holds, Held
<1>7. \A d \in Connections : session'[d] = IF d = c THEN NoSession ELSE session[d]
  BY <1>1, <1>2 DEF NativeIInv
<1>8. \A d \in Connections : ~session'[d].open => session'[d] = NoSession
  BY <1>7 DEF DInv
<1>9. ~NoSession.open
  BY DEF NoSession
<1>10. ~overlapped => \A d \in Connections : ~session'[d].open
  BY <1>1, <1>2, <1>7, <1>9, OwnSession
<1>11. events \subseteq events' /\ versions \subseteq versions'
  BY <1>1 DEF Commit, VersionsSeen
<1>12. ASSUME ~overlapped, t.answer = "ok" PROVE VersionRow(t) \in versions'
  <2>1. q.rest = AtCommit /\ Commit(c)
    BY <1>1, <1>2, <1>3, <1>5, <1>12
  <2>2. ~session[c].failed /\ VersionOf(r) \in session[c].versions
    BY <1>1, <1>2, <1>5, <1>12, <2>1, OwnSession DEF Holding
  <2>3. VersionOf(r) = VersionRow(t)
    BY <1>3 DEF VersionOf, VersionRow
  <2> QED
    BY <2>1, <2>2, <2>3 DEF Commit, VersionsSeen
<1> QED
  BY <1>1, <1>3, <1>4, <1>6, <1>8, <1>10, <1>11, <1>12, StatementKeeps

(* The pool closes no connection during a transaction. *)
LEMMA TimeoutKeeps ==
  ASSUME NativeIInv, DInv, NEW c \in Connections, IdleTimeout(c)
  PROVE  DInv'
<1>1. /\ \A r \in Callers : ~InTransaction(request[r])
      /\ session' = [session EXCEPT ![c] = NoSession]
      /\ UNCHANGED <<versions, events, request, overlapped>>
  BY DEF IdleTimeout
<1>2. \A r \in Callers : ~Holds(request[r])
  BY <1>1, TransactionIs DEF DInv
<1>3. \A d \in Connections : session'[d] = IF d = c THEN NoSession ELSE session[d]
  BY <1>1 DEF NativeIInv
<1>4. ~NoSession.open
  BY DEF NoSession
<1>5. ASSUME ~overlapped PROVE Alone' /\ SessionHeld' /\ HeldSession' /\ Durable'
  <2>1. \A d \in Connections : ~session'[d].open
    BY <1>2, <1>3, <1>4, <1>5 DEF DInv, SessionHeld
  <2>2. SessionHeld' /\ HeldSession'
    BY <1>1, <1>2, <2>1 DEF SessionHeld, HeldSession, Holds
  <2>3. Alone'
    BY <1>1 DEF Alone, InTransaction
  <2>4. Durable'
    BY <1>1, <1>5 DEF DInv, Durable, Answered, VersionOf
  <2> QED
    BY <2>2, <2>3, <2>4
<1> QED
  BY <1>1, <1>3, <1>5 DEF DInv

LEMMA DurableStep ==
  ASSUME NativeIInv, DInv, [NativeNext]_nativeVars
  PROVE  DInv'
<1>1. ASSUME NEW r \in Callers, CheckDraft(r) PROVE DInv'
  <2> DEFINE q == [request[r] EXCEPT !.check = RowSeen(request[r].conn)]
  <2>1. /\ request[r].conn # Nil /\ Step(r) = "check"
        /\ Release(r, Done(q)) \/ Release(r, Throw(request[r]))
        /\ UNCHANGED <<versions, events, session, overlapped>>
    BY <1>1 DEF CheckDraft, AtStatement
  <2>2. IsOperation(request[r]) /\ InOrder(request[r])
    BY DEF NativeIInv, DInv, GoodOperation, IsOperation
  <2>3. /\ IsOperation(q) /\ q.rest = request[r].rest /\ q.kind = request[r].kind
        /\ q.answer = request[r].answer
    BY <2>2 DEF IsOperation, OperationFields
  <2> HIDE DEF q
  <2>4. InOrder(q)
    BY <2>2, <2>3 DEF InOrder
  <2> QED
    BY <2>1, <2>3, <2>4, ReadKeeps
<1>2. ASSUME NEW r \in Callers, getRuleSet(r) PROVE DInv'
  <2> DEFINE q == [request[r] EXCEPT !.row = RowSeen(request[r].conn)]
  <2>1. /\ request[r].conn # Nil /\ Step(r) = "read"
        /\ Release(r, Done(q)) \/ Release(r, Throw(request[r]))
        /\ UNCHANGED <<versions, events, session, overlapped>>
    BY <1>2 DEF getRuleSet, AtStatement
  <2>2. IsOperation(request[r]) /\ InOrder(request[r])
    BY DEF NativeIInv, DInv, GoodOperation, IsOperation
  <2>3. /\ IsOperation(q) /\ q.rest = request[r].rest /\ q.kind = request[r].kind
        /\ q.answer = request[r].answer
    BY <2>2 DEF IsOperation, OperationFields
  <2> HIDE DEF q
  <2>4. InOrder(q)
    BY <2>2, <2>3 DEF InOrder
  <2> QED
    BY <2>1, <2>3, <2>4, ReadKeeps
<1>3. ASSUME NEW r \in Callers, getVersionsForRuleSet(r) PROVE DInv'
  <2> DEFINE q == [request[r] EXCEPT !.version = nextVersion(VersionsSeen(request[r].conn))]
  <2>1. /\ request[r].conn # Nil /\ Step(r) = "versions"
        /\ Release(r, Done(q))
        /\ UNCHANGED <<versions, events, session, overlapped>>
    BY <1>3 DEF getVersionsForRuleSet, AtStatement
  <2>2. IsOperation(request[r]) /\ InOrder(request[r])
    BY DEF NativeIInv, DInv, GoodOperation, IsOperation
  <2>3. /\ IsOperation(q) /\ q.rest = request[r].rest /\ q.kind = request[r].kind
        /\ q.answer = request[r].answer
    BY <2>2 DEF IsOperation, OperationFields
  <2> HIDE DEF q
  <2>4. InOrder(q)
    BY <2>2, <2>3 DEF InOrder
  <2> QED
    BY <2>1, <2>3, <2>4, ReadKeeps
<1>4. CASE UNCHANGED nativeVars
  <2>1. UNCHANGED <<versions, events, session, idle, request, overlapped>>
    BY <1>4 DEF nativeVars
  <2>2. Alone' <=> Alone
    BY <2>1 DEF Alone, InTransaction
  <2>3. (SessionHeld' <=> SessionHeld) /\ (HeldSession' <=> HeldSession)
    BY <2>1 DEF SessionHeld, HeldSession, Holds, On, Holding, VersionOf
  <2>4. Durable' <=> Durable
    BY <2>1 DEF Durable, Answered, VersionOf
  <2> QED
    BY <2>1, <2>2, <2>3, <2>4 DEF DInv
<1> QED
  BY <1>1, <1>2, <1>3, <1>4, BeginKeeps, CheckoutKeeps, BeginTransactionKeeps, InsertVersionKeeps,
     UpdateKeeps, EventKeeps, FailKeeps, EndKeeps, TimeoutKeeps DEF NativeNext

(***************************************************************************)
(* As long as no request has a statement under way beside another one's    *)
(* transaction, what was acknowledged is committed: the pool hands the     *)
(* transaction's connection back to its own next statement.                *)
(***************************************************************************)
THEOREM DurableSafe == NativeSpec => []DurableUnlessOverlapped
<1>1. DInv => DurableUnlessOverlapped
  BY DEF DInv, Durable, DurableUnlessOverlapped
<1> QED
  BY <1>1, InitEstablishes, DurableInit, NativeStepInv, DurableStep, PTL DEF NativeSpec
-----------------------------------------------------------------------------
(***************************************************************************)
(* Types, and the pool: a connection is idle or used by one statement.     *)
(***************************************************************************)
SessionTyped(s) ==
  /\ s.open \in BOOLEAN /\ s.failed \in BOOLEAN
  /\ s.versions \subseteq Versions /\ s.events \subseteq Callers

(* A request that will write a version has read which number is next. *)
Numbered == {AtBegin, AtInsert}
NumberTyped(q) == q.rest \in Numbered => q.version \in 1 .. MaxVersion

Apart ==
  /\ IsInjective(idle)
  /\ \A r \in Callers : request[r].conn \notin ToSet(idle)
  /\ \A r, o \in Callers : r # o /\ request[r].conn # Nil => request[r].conn # request[o].conn

TInv ==
  /\ versions \subseteq Versions /\ events \subseteq Callers /\ reviewed \subseteq Drafts
  /\ \A c \in Connections : SessionTyped(session[c])
  /\ \A r \in Callers : NumberTyped(request[r])
  /\ Apart

LEMMA NumberedRests ==
  /\ <<>> \notin Numbered /\ <<"rollback">> \notin Numbered
  /\ \A kind \in Kinds : Program[kind] \notin Numbered
  /\ \A s \in ToCheck \cup ToRead : Tail(s) \notin Numbered
  /\ \A s \in ToWrite \cup ToEnd :
       s # <<>> /\ Head(s) # "versions" /\ Tail(s) \in Numbered => s \in Numbered
<1>1. \A s \in Numbered : s # <<>> /\ Head(s) \in {"begin", "insert"} /\ s \in ToWrite
  BY PublishStatements DEF Numbered, AtBegin, AtInsert, ToWrite
<1>2. <<>> \notin Numbered /\ <<"rollback">> \notin Numbered
  BY <1>1, PublishStatements DEF AtRollback
<1>3. \A kind \in Kinds : Program[kind] \notin Numbered
  BY <1>1, ProgramStarts, Disjoint
<1>4. \A s \in ToCheck : Tail(s) \notin Numbered
  BY <1>1, NextStatement, Disjoint
<1>5. \A s \in ToRead : Tail(s) \notin Numbered
  <2>1. /\ Tail(<<"read", "update">>) = <<"update">> /\ Head(<<"update">>) = "update"
        /\ Tail(<<"read", "versions", "begin", "insert", "update", "commit">>)
             = <<"versions", "begin", "insert", "update", "commit">>
        /\ Head(<<"versions", "begin", "insert", "update", "commit">>) = "versions"
    OBVIOUS
  <2> QED
    BY <1>1, <2>1 DEF ToRead
<1>6. \A s \in ToEnd : s # <<>> => Tail(s) \notin Numbered
  BY <1>2, NextStatement
<1>7. ASSUME NEW s \in ToWrite, Head(s) # "versions", Tail(s) \in Numbered  PROVE s \in Numbered
  <2>1. /\ Tail(<<"insert", "update", "commit">>) = <<"update", "commit">>
        /\ Tail(<<"update", "commit">>) = <<"commit">>
        /\ Tail(<<"update">>) = <<>>
        /\ Head(<<"versions", "begin", "insert", "update", "commit">>) = "versions"
        /\ Head(<<"update", "commit">>) = "update" /\ Head(<<"commit">>) = "commit"
    OBVIOUS
  <2>2. <<"update", "commit">> \notin Numbered /\ <<"commit">> \notin Numbered
    BY <1>1, <2>1
  <2>3. s \in {<<"begin", "insert", "update", "commit">>, <<"insert", "update", "commit">>,
               <<"update", "commit">>, <<"update">>}
    BY <1>7, <2>1 DEF ToWrite
  <2> QED
    BY <1>2, <1>7, <2>1, <2>2, <2>3 DEF Numbered, AtBegin, AtInsert
<1> QED
  BY <1>2, <1>3, <1>4, <1>5, <1>6, <1>7

LEMMA TypeInit == NativeInit => TInv
<1> SUFFICES ASSUME NativeInit  PROVE TInv
  OBVIOUS
<1>1. \A c \in Connections : SessionTyped(session[c])
  BY DEF NativeInit, NoSession, SessionTyped
<1>2. \A r \in Callers : request[r].rest = <<>> /\ request[r].conn = Nil
  BY DEF NativeInit, NoOperation
<1>3. \A r \in Callers : NumberTyped(request[r])
  BY <1>2, NumberedRests DEF NumberTyped
<1>4. Apart
  BY <1>2 DEF NativeInit, Apart, IsInjective, ToSet
<1> QED
  BY <1>1, <1>3, <1>4 DEF NativeInit, TInv

(* A set of natural numbers has a least element: induction without an      *)
(* operator as a parameter.                                                *)
LEMMA LeastNumber ==
  ASSUME NEW T \in SUBSET Nat, T # {}
  PROVE  \E n \in T : \A m \in T : n <= m
<1> DEFINE R == {p \in Nat \X Nat : p[1] < p[2]}
<1>1. IsWellFoundedOn(R, Nat)
  BY NatLessThanWellFounded DEF OpToRel
<1> HIDE DEF R
<1>2. PICK n \in T : \A m \in T : <<m, n>> \notin R
  BY <1>1, WFMin
<1>3. ASSUME NEW m \in T  PROVE n <= m
  <2>1. m \in Nat /\ n \in Nat
    OBVIOUS
  <2>2. ~(m < n)
    BY <1>2, <2>1 DEF R
  <2> QED
    BY <2>1, <2>2
<1> QED
  BY <1>3

(***************************************************************************)
(* The next version number: one more than the largest so far, or 1.        *)
(***************************************************************************)
LEMMA NextNumber ==
  ASSUME NEW vs, vs \subseteq Versions, nextVersion(vs) <= MaxVersion
  PROVE  nextVersion(vs) \in 1 .. MaxVersion
<1> DEFINE S == Numbers(vs) \cup {0}
           U == {n \in Nat : \A x \in S : x <= n}
<1>1. S \subseteq 0 .. MaxVersion /\ 0 \in S
  BY MaxVersionAssumption DEF Numbers, Versions
<1>2. MaxVersion \in U
  BY <1>1, MaxVersionAssumption
<1> HIDE DEF S
<1>3. PICK n \in U : \A m \in U : n <= m
  <2>1. U \in SUBSET Nat /\ U # {}
    BY <1>2
  <2> HIDE DEF U
  <2> QED
    BY <2>1, LeastNumber
<1>4. n \in S
  <2>1. CASE n = 0
    BY <2>1, <1>1
  <2>2. CASE n # 0
    <3>1. n - 1 \in Nat /\ n - 1 \notin U
      BY <1>3, <2>2
    <3>2. PICK x \in S : ~(x <= n - 1)
      BY <3>1
    <3>3. x \in Nat /\ x <= n /\ n \in Nat
      BY <1>1, <1>3, MaxVersionAssumption
    <3> QED
      BY <3>2, <3>3
  <2> QED
    BY <2>1, <2>2
<1>5. \A y \in S : n >= y
  BY <1>1, <1>3, MaxVersionAssumption
<1>6. Max(S) \in S
  BY <1>4, <1>5 DEF Max
<1>7. nextVersion(vs) = Max(S) + 1
  BY DEF S, nextVersion
<1>8. PICK m \in 0 .. MaxVersion : m = Max(S)
  BY <1>1, <1>6
<1>9. nextVersion(vs) = m + 1 /\ m + 1 <= MaxVersion
  BY <1>7, <1>8
<1> QED
  BY ONLY <1>9, MaxVersionAssumption

(* A connection given back was in use, so it was not idle. *)
LEMMA ReleaseApart ==
  ASSUME NativeIInv, Apart, NEW r \in Callers, request[r].conn # Nil, NEW q, Release(r, q), NativeIInv'
  PROVE  Apart'
<1>1. /\ idle' = Append(idle, request[r].conn) /\ idle \in Seq(Connections)
      /\ request[r].conn \in Connections
  BY StatementSays DEF NativeIInv, Release
<1>2. \A o \in Callers : request'[o].conn = IF o = r THEN Nil ELSE request[o].conn
  <2>1. IsOperation(request'[r])
    BY DEF NativeIInv, GoodOperation, IsOperation
  <2>2. request' = [request EXCEPT ![r] = [q EXCEPT !.conn = Nil]]
    BY DEF Release
  <2>3. \A o \in Callers : request'[o] = IF o = r THEN [q EXCEPT !.conn = Nil] ELSE request[o]
    BY <2>2 DEF NativeIInv
  <2>4. DOMAIN [q EXCEPT !.conn = Nil] = OperationFields
    BY <2>1, <2>3 DEF IsOperation
  <2>5. DOMAIN q = OperationFields
    BY <2>4
  <2>6. [q EXCEPT !.conn = Nil].conn = Nil
    BY <2>5 DEF OperationFields
  <2> QED
    BY <2>3, <2>6
<1>3. /\ Len(idle) \in Nat /\ DOMAIN idle = 1 .. Len(idle)
      /\ DOMAIN idle' = 1 .. Len(idle) + 1
      /\ idle'[Len(idle) + 1] = request[r].conn
      /\ \A i \in 1 .. Len(idle) : idle'[i] = idle[i]
  BY <1>1
<1>4. \A i \in 1 .. Len(idle) : idle[i] # request[r].conn /\ idle[i] \in Connections
  BY <1>1, <1>3 DEF Apart, ToSet
<1>5. IsInjective(idle')
  <2>1. \A i, j \in 1 .. Len(idle) : idle[i] = idle[j] => i = j
    BY <1>3 DEF Apart, IsInjective
  <2> SUFFICES ASSUME NEW a \in 1 .. Len(idle) + 1, NEW b \in 1 .. Len(idle) + 1, idle'[a] = idle'[b]
               PROVE  a = b
    BY <1>3 DEF IsInjective
  <2>2. a \in 1 .. Len(idle) \/ a = Len(idle) + 1
    BY <1>3
  <2>3. b \in 1 .. Len(idle) \/ b = Len(idle) + 1
    BY <1>3
  <2> QED
    BY <2>1, <2>2, <2>3, <1>3, <1>4
<1>6. \A o \in Callers : request'[o].conn \notin ToSet(idle')
  <2> SUFFICES ASSUME NEW o \in Callers, NEW i \in 1 .. Len(idle) + 1, request'[o].conn = idle'[i]
               PROVE  FALSE
    BY <1>3 DEF ToSet
  <2>1. CASE i = Len(idle) + 1
    <3>1. request'[o].conn = request[r].conn
      BY <2>1, <1>3
    <3> QED
      BY <3>1, <1>2 DEF Apart
  <2>2. CASE i \in 1 .. Len(idle)
    <3>1. request'[o].conn = idle[i] /\ idle[i] \in Connections /\ idle[i] \in ToSet(idle)
      BY <2>2, <1>3, <1>4 DEF ToSet
    <3> QED
      BY <3>1, <1>2, NilAssumption DEF Apart
  <2> QED
    BY <2>1, <2>2, <1>3
<1>7. \A p, o \in Callers : p # o /\ request'[p].conn # Nil => request'[p].conn # request'[o].conn
  BY <1>2 DEF Apart
<1> QED
  BY <1>5, <1>6, <1>7 DEF Apart

(* A request is given an idle connection, or one that nobody has. *)
LEMMA CheckoutApart ==
  ASSUME NativeIInv, Apart, NEW r \in Callers, Checkout(r)
  PROVE  Apart'
<1>1. idle \in Seq(Connections) /\ Len(idle) \in Nat /\ DOMAIN idle = 1 .. Len(idle)
  BY DEF NativeIInv
<1>2. request[r].conn = Nil
  BY DEF Checkout
<1>3. ASSUME NEW c \in Connections, request' = [request EXCEPT ![r].conn = c]
      PROVE  \A o \in Callers : request'[o].conn = IF o = r THEN c ELSE request[o].conn
  <2>1. IsOperation(request[r])
    BY DEF NativeIInv, GoodOperation, IsOperation
  <2>2. [request[r] EXCEPT !.conn = c].conn = c
    BY <2>1 DEF IsOperation, OperationFields
  <2> QED
    BY <1>3, <2>2 DEF NativeIInv
<1>4. CASE idle # <<>>
  <2> DEFINE n == Len(idle)
             c == idle[n]
  <2>1. n \in 1 .. Len(idle) /\ c \in Connections
    BY <1>1, <1>4
  <2>2. request' = [request EXCEPT ![r].conn = c] /\ idle' = SubSeq(idle, 1, n - 1)
    BY <1>4 DEF Checkout, Last, Front
  <2>3. /\ DOMAIN idle' = 1 .. n - 1
        /\ \A i \in 1 .. n - 1 : idle'[i] = idle[i] /\ i \in 1 .. n /\ i # n
    BY <1>1, <2>1, <2>2
  <2>4. \A i, j \in 1 .. n : idle[i] = idle[j] => i = j
    BY <1>1 DEF Apart, IsInjective
  <2>5. c \in ToSet(idle) /\ ToSet(idle') \subseteq ToSet(idle)
    <3>1. c \in ToSet(idle)
      BY <1>1, <2>1 DEF ToSet
    <3>2. ASSUME NEW e \in ToSet(idle')  PROVE e \in ToSet(idle)
      <4>1. PICK i \in 1 .. n - 1 : e = idle'[i]
        BY <2>3 DEF ToSet
      <4>2. e = idle[i] /\ i \in 1 .. n
        BY <4>1, <2>3
      <4>3. DOMAIN idle = 1 .. n
        BY <1>1
      <4> QED
        BY <4>2, <4>3 DEF ToSet
    <3> QED
      BY <3>1, <3>2
  <2>6. c \notin ToSet(idle')
    BY <2>1, <2>3, <2>4 DEF ToSet
  <2>7. IsInjective(idle')
    BY <2>3, <2>4 DEF IsInjective
  <2> HIDE DEF n, c
  <2>8. \A o \in Callers : request'[o].conn = IF o = r THEN c ELSE request[o].conn
    BY <1>3, <2>1, <2>2
  <2> QED
    BY <2>5, <2>6, <2>7, <2>8 DEF Apart
<1>5. CASE idle = <<>>
  <2>1. PICK c \in Connections \ Connected : request' = [request EXCEPT ![r].conn = c]
    BY <1>5 DEF Checkout
  <2>2. idle' = idle
    BY <1>5 DEF Checkout
  <2>3. c # Nil /\ c \notin ToSet(idle) /\ \A o \in Callers : request[o].conn # c
    BY <2>1, NilAssumption DEF Connected
  <2>4. \A o \in Callers : request'[o].conn = IF o = r THEN c ELSE request[o].conn
    BY <1>3, <2>1
  <2> QED
    BY <2>2, <2>3, <2>4 DEF Apart
<1> QED
  BY <1>4, <1>5

(* The pool forgets a connection. *)
LEMMA TimeoutApart ==
  ASSUME NativeIInv, Apart, NEW c \in Connections, IdleTimeout(c)
  PROVE  Apart'
<1>1. idle \in Seq(Connections) /\ Len(idle) \in Nat /\ DOMAIN idle = 1 .. Len(idle)
  BY DEF NativeIInv
<1>2. PICK n \in 1 .. Len(idle) : idle' = SubSeq(idle, 1, n - 1) \o SubSeq(idle, n + 1, Len(idle))
  BY <1>1 DEF IdleTimeout, RemoveAt
<1> DEFINE left == SubSeq(idle, 1, n - 1)
           right == SubSeq(idle, n + 1, Len(idle))
           from(i) == IF i < n THEN i ELSE i + 1
<1>3. /\ left \in Seq(Connections) /\ Len(left) = n - 1
      /\ right \in Seq(Connections) /\ Len(right) = Len(idle) - n
      /\ \A i \in 1 .. n - 1 : left[i] = idle[i]
      /\ \A i \in 1 .. Len(idle) - n : right[i] = idle[n + i]
  <2>1. n - 1 \in Int /\ n + 1 \in Int /\ n \in Int /\ \A i \in 1 .. Len(idle) : idle[i] \in Connections
    BY <1>1
  <2>2. \A i \in 1 .. n - 1 : i \in 1 .. Len(idle)
    BY <1>1
  <2>3. \A i \in n + 1 .. Len(idle) : i \in 1 .. Len(idle)
    BY <1>1
  <2>4. /\ left \in Seq(Connections)
        /\ Len(left) = IF 1 <= n - 1 THEN n - 1 - 1 + 1 ELSE 0
        /\ \A i \in 1 .. n - 1 - 1 + 1 : left[i] = idle[1 + i - 1]
    BY <2>1, <2>2, SubSeqProperties
  <2>5. /\ right \in Seq(Connections)
        /\ Len(right) = IF n + 1 <= Len(idle) THEN Len(idle) - (n + 1) + 1 ELSE 0
        /\ \A i \in 1 .. Len(idle) - (n + 1) + 1 : right[i] = idle[n + 1 + i - 1]
    BY <1>1, <2>1, <2>3, SubSeqProperties
  <2> HIDE DEF left, right
  <2>6. Len(left) = n - 1 /\ n - 1 - 1 + 1 = n - 1 /\ \A i \in 1 .. n - 1 : 1 + i - 1 = i
    BY <2>4, <1>1
  <2>7. Len(right) = Len(idle) - n /\ Len(idle) - (n + 1) + 1 = Len(idle) - n
    <3> DEFINE k == Len(idle)
    <3>1. k \in Nat /\ n \in 1 .. k
      BY <1>1
    <3>2. /\ right \in Seq(Connections)
          /\ Len(right) = IF n + 1 <= k THEN k - (n + 1) + 1 ELSE 0
      BY <2>5
    <3> HIDE DEF k
    <3>3. k - (n + 1) + 1 = k - n /\ (n + 1 <= k \/ k - n = 0)
      BY ONLY <3>1
    <3>4. Len(right) = k - n
      BY <3>2, <3>3
    <3> QED
      BY <3>3, <3>4 DEF k
  <2>8. \A i \in 1 .. Len(idle) - n : n + 1 + i - 1 = n + i
    BY <1>1
  <2> QED
    BY <2>4, <2>5, <2>6, <2>7, <2>8
<1> HIDE DEF left, right
<1>4. /\ Len(left \o right) = Len(idle) - 1
      /\ DOMAIN (left \o right) = 1 .. Len(idle) - 1
      /\ \A i \in 1 .. Len(idle) - 1 :
           (left \o right)[i] = IF i <= n - 1 THEN left[i] ELSE right[i - (n - 1)]
  <2>1. /\ left \o right \in Seq(Connections) /\ Len(left \o right) = Len(left) + Len(right)
        /\ \A i \in 1 .. Len(left) + Len(right) :
             (left \o right)[i] = IF i <= Len(left) THEN left[i] ELSE right[i - Len(left)]
    BY <1>3, ConcatProperties
  <2>2. Len(left) + Len(right) = Len(idle) - 1
    BY <1>1, <1>3
  <2>3. DOMAIN (left \o right) = 1 .. Len(left \o right)
    BY <2>1
  <2> QED
    BY <2>1, <2>2, <2>3, <1>3
<1>5. idle' = left \o right
  BY <1>2 DEF left, right
<1>6. /\ DOMAIN idle' = 1 .. Len(idle) - 1
      /\ \A i \in 1 .. Len(idle) - 1 : idle'[i] = idle[from(i)] /\ from(i) \in 1 .. Len(idle)
  <2> SUFFICES ASSUME NEW i \in 1 .. Len(idle) - 1
               PROVE  idle'[i] = idle[from(i)] /\ from(i) \in 1 .. Len(idle)
    BY <1>4, <1>5
  <2>1. CASE i < n
    <3>0. i <= n - 1 /\ i \in 1 .. n - 1
      BY <2>1, <1>1
    <3>1. idle'[i] = left[i] /\ i \in 1 .. n - 1
      BY <3>0, <1>4, <1>5
    <3> QED
      BY <3>1, <2>1, <1>1, <1>3
  <2>2. CASE ~(i < n)
    <3>0. ~(i <= n - 1) /\ i - (n - 1) \in 1 .. Len(idle) - n
      BY <2>2, <1>1
    <3>1. idle'[i] = right[i - (n - 1)] /\ i - (n - 1) \in 1 .. Len(idle) - n
      BY <3>0, <1>4, <1>5
    <3>2. right[i - (n - 1)] = idle[n + (i - (n - 1))] /\ n + (i - (n - 1)) = i + 1
      BY <3>1, <1>1, <1>3
    <3> QED
      BY <3>1, <3>2, <2>2, <1>1
  <2> QED
    BY <2>1, <2>2
<1>7. \A i, j \in 1 .. Len(idle) - 1 : from(i) = from(j) => i = j
  BY <1>1
<1> HIDE DEF from
<1>8. IsInjective(idle')
  <2>1. \A i, j \in 1 .. Len(idle) : idle[i] = idle[j] => i = j
    BY <1>1 DEF Apart, IsInjective
  <2> QED
    BY <2>1, <1>6, <1>7 DEF IsInjective
<1>9. ToSet(idle') \subseteq ToSet(idle)
  BY <1>1, <1>6 DEF ToSet
<1>10. request' = request
  BY DEF IdleTimeout
<1> QED
  BY <1>8, <1>9, <1>10 DEF Apart

(***************************************************************************)
(* A statement is answered, or fails.                                      *)
(***************************************************************************)
LEMMA StatementTyped ==
  ASSUME NativeIInv, NativeIInv', TInv, NEW r \in Callers, request[r].conn # Nil, NEW q, Release(r, q),
         q.rest \in Numbered => q.version \in 1 .. MaxVersion,
         versions' \subseteq Versions, events' \subseteq Callers, reviewed' \subseteq Drafts,
         \A c \in Connections : SessionTyped(session'[c])
  PROVE  TInv'
<1>1. Apart'
  BY ReleaseApart DEF TInv
<1>2. \A o \in Callers : request'[o] = IF o = r THEN Released(q) ELSE request[o]
  BY DEF NativeIInv, Release, Released
<1>3. Released(q).rest = q.rest /\ Released(q).version = q.version
  <2>1. IsOperation(Released(q))
    BY <1>2 DEF NativeIInv, GoodOperation, IsOperation
  <2>2. DOMAIN Released(q) = OperationFields
    BY <2>1 DEF IsOperation
  <2>3. DOMAIN q = OperationFields
    BY <2>2 DEF Released
  <2> QED
    BY <2>3 DEF Released, OperationFields
<1>4. \A o \in Callers : NumberTyped(request'[o])
  BY <1>2, <1>3 DEF TInv, NumberTyped
<1> QED
  BY <1>1, <1>4 DEF TInv

(* After a statement that reads no version, an operation that goes on to   *)
(* write had the number before.                                            *)
LEMMA NumberKept ==
  ASSUME NativeIInv, TInv, NEW r \in Callers, request[r].conn # Nil
  PROVE  /\ Throw(request[r]).rest \notin Numbered
         /\ request[r].rest \in ToWrite \cup ToEnd /\ Step(r) # "versions" =>
              (Done(request[r]).rest \in Numbered => Done(request[r]).version \in 1 .. MaxVersion)
<1> DEFINE q == request[r]
<1>1. IsOperation(q) /\ q.rest # <<>> /\ NumberTyped(q)
  BY StatementSays DEF NativeIInv, TInv, GoodOperation, IsOperation
<1>2. Throw(q).rest \in {<<"rollback">>, <<>>}
  BY <1>1 DEF Throw, IsOperation, OperationFields
<1>3. Throw(q).rest \notin Numbered
  BY <1>2, NumberedRests
<1>4. Done(q).rest = Tail(q.rest) /\ Done(q).version = q.version
  BY <1>1 DEF Done, IsOperation, OperationFields
<1>5. q.rest \in ToWrite \cup ToEnd /\ Step(r) # "versions" =>
        (Tail(q.rest) \in Numbered => q.rest \in Numbered)
  BY <1>1, NumberedRests DEF Step
<1> QED
  BY <1>1, <1>3, <1>4, <1>5 DEF NumberTyped

LEMMA TypeKept ==
  ASSUME NativeIInv, DInv, TInv, [NativeNext]_nativeVars, NativeIInv'
  PROVE  TInv'
<1> DEFINE Kept == /\ versions' \subseteq Versions /\ events' \subseteq Callers /\ reviewed' \subseteq Drafts
                   /\ \A c \in Connections : SessionTyped(session'[c])
           Goes(r) == /\ request[r].conn # Nil
                      /\ \E q : Release(r, q) /\ (q.rest \in Numbered => q.version \in 1 .. MaxVersion)
<1>1. /\ versions \subseteq Versions /\ events \subseteq Callers /\ reviewed \subseteq Drafts
      /\ \A c \in Connections : SessionTyped(session[c])
      /\ \A r \in Callers : NumberTyped(request[r])
      /\ Apart
  BY DEF TInv
<1>2. \A c \in Connections : session[c] = [f \in SessionFields |-> session[c][f]]
  BY DEF NativeIInv, GoodSession
<1>3. \A c, d \in Connections : \A s :
        session' = [session EXCEPT ![c] = s] => session'[d] = IF d = c THEN s ELSE session[d]
  BY DEF NativeIInv
<1>4. SessionTyped(NoSession)
  BY DEF SessionTyped, NoSession
<1>5. ASSUME NEW r \in Callers, Kept, Goes(r)  PROVE TInv'
  BY <1>5, StatementTyped
<1> HIDE DEF Kept, Goes
<1>6. UNCHANGED <<versions, events, session, reviewed>> => Kept
  BY <1>1 DEF Kept
<1>7. ASSUME NEW c \in Connections, NEW s, SessionTyped(s), session' = [session EXCEPT ![c] = s],
             versions' \subseteq Versions, events' \subseteq Callers, UNCHANGED reviewed
      PROVE  Kept
  BY <1>1, <1>3, <1>7 DEF Kept
<1>8. ASSUME NEW r \in Callers, request[r].conn # Nil, Release(r, Done(request[r])),
             request[r].rest \in ToWrite \cup ToEnd, Step(r) # "versions"
      PROVE  Goes(r)
  BY <1>8, NumberKept DEF Goes
<1>9. ASSUME NEW r \in Callers, request[r].conn # Nil, Release(r, Throw(request[r]))
      PROVE  Goes(r)
  BY <1>9, NumberKept DEF Goes
<1>10. ASSUME NEW r \in Callers, NEW kind \in Kinds, NEW d \in Drafts, Begin(r, kind, d)  PROVE TInv'
  <2> DEFINE q == [NoOperation EXCEPT !.kind = kind, !.rest = Program[kind],
                                      !.draft = IF kind = "edit" THEN d ELSE Nil]
  <2>1. q.conn = Nil /\ q.rest = Program[kind]
    BY DEF NoOperation
  <2>2. request' = [request EXCEPT ![r] = q] /\ request[r].conn = Nil
    BY <1>10 DEF Begin, NoOperation
  <2> HIDE DEF q
  <2>3. \A o \in Callers : request'[o] = IF o = r THEN q ELSE request[o]
    BY <2>2 DEF NativeIInv
  <2>4. NumberTyped(q)
    BY <2>1, NumberedRests DEF NumberTyped
  <2>5. UNCHANGED <<versions, events, session, idle, reviewed>>
    BY <1>10 DEF Begin
  <2>6. \A o \in Callers : request'[o].conn = request[o].conn
    BY <2>1, <2>2, <2>3
  <2>7. Apart'
    BY <1>1, <2>5, <2>6 DEF Apart
  <2> QED
    BY <1>1, <2>3, <2>4, <2>5, <2>7 DEF TInv
<1>11. ASSUME NEW r \in Callers, Checkout(r)  PROVE TInv'
  <2>1. UNCHANGED <<versions, events, session, reviewed>>
    BY <1>11 DEF Checkout
  <2>2. Apart'
    BY <1>1, <1>11, CheckoutApart
  <2>3. \E c : request' = [request EXCEPT ![r].conn = c]
    BY <1>11 DEF Checkout
  <2>4. PICK c : request' = [request EXCEPT ![r].conn = c]
    BY <2>3
  <2>5. IsOperation(request[r])
    BY DEF NativeIInv, GoodOperation, IsOperation
  <2>6. [request[r] EXCEPT !.conn = c].rest = request[r].rest /\ [request[r] EXCEPT !.conn = c].version = request[r].version
    BY <2>5 DEF IsOperation, OperationFields
  <2>7. \A o \in Callers : request'[o].rest = request[o].rest /\ request'[o].version = request[o].version
    BY <2>4, <2>6 DEF NativeIInv
  <2>8. \A o \in Callers : NumberTyped(request'[o])
    BY <1>1, <2>7 DEF NumberTyped
  <2> QED
    BY <1>1, <2>1, <2>2, <2>8 DEF TInv
<1>12. ASSUME NEW r \in Callers, CheckDraft(r)  PROVE TInv'
  <2> DEFINE q == request[r]
             seen == RowSeen(q.conn)
             checked == [q EXCEPT !.check = seen]
  <2>1. q.conn # Nil /\ q.conn \in Connections /\ q.rest \in ToCheck
    BY <1>12, StatementSays DEF CheckDraft, AtStatement
  <2>2. Release(r, Done(checked)) \/ Release(r, Throw(q))
    BY <1>12 DEF CheckDraft
  <2>3. UNCHANGED <<versions, events, session>> /\ reviewed' \in {reviewed, reviewed \cup {seen.draft}}
    BY <1>12 DEF CheckDraft
  <2>4. seen.draft \in Drafts
    BY <2>1, SeenIsGood DEF GoodRow, Rows
  <2>5. Kept
    BY <1>1, <2>3, <2>4 DEF Kept
  <2>6. IsOperation(q)
    BY DEF NativeIInv, GoodOperation, IsOperation
  <2>7. Done(checked).rest = Tail(q.rest)
    BY <2>6 DEF Done, IsOperation, OperationFields
  <2>8. Tail(q.rest) \notin Numbered
    BY <2>1, NumberedRests
  <2> HIDE DEF checked
  <2>9. Release(r, Done(checked)) => Goes(r)
    BY <2>1, <2>7, <2>8 DEF Goes
  <2> QED
    BY <1>5, <1>9, <2>1, <2>2, <2>5, <2>9
<1>13. ASSUME NEW r \in Callers, getRuleSet(r)  PROVE TInv'
  <2> DEFINE q == request[r]
             found == [q EXCEPT !.row = RowSeen(q.conn)]
  <2>1. q.conn # Nil /\ q.conn \in Connections /\ q.rest \in ToRead
    BY <1>13, StatementSays DEF getRuleSet, AtStatement
  <2>2. Release(r, Done(found)) \/ Release(r, Throw(q))
    BY <1>13 DEF getRuleSet
  <2>3. Kept
    BY <1>6, <1>13 DEF getRuleSet
  <2>4. IsOperation(q)
    BY DEF NativeIInv, GoodOperation, IsOperation
  <2>5. Done(found).rest = Tail(q.rest)
    BY <2>4 DEF Done, IsOperation, OperationFields
  <2>6. Tail(q.rest) \notin Numbered
    BY <2>1, NumberedRests
  <2> HIDE DEF found
  <2>7. Release(r, Done(found)) => Goes(r)
    BY <2>1, <2>5, <2>6 DEF Goes
  <2> QED
    BY <1>5, <1>9, <2>1, <2>2, <2>3, <2>7
<1>13a. ASSUME NEW r \in Callers, getVersionsForRuleSet(r)  PROVE TInv'
  <2> DEFINE q == request[r]
             n == nextVersion(VersionsSeen(q.conn))
             found == [q EXCEPT !.version = n]
  <2>1. q.conn # Nil /\ q.conn \in Connections
    BY <1>13a, StatementSays DEF getVersionsForRuleSet, AtStatement
  <2>2. Release(r, Done(found))
    BY <1>13a DEF getVersionsForRuleSet
  <2>3. Kept
    BY <1>6, <1>13a DEF getVersionsForRuleSet
  <2>4. VersionsSeen(q.conn) \subseteq Versions
    BY <1>1, <2>1 DEF VersionsSeen, SessionTyped
  <2>5. n <= MaxVersion
    BY <1>13a DEF getVersionsForRuleSet
  <2>6. n \in 1 .. MaxVersion
    BY <2>4, <2>5, NextNumber
  <2>7. IsOperation(q)
    BY DEF NativeIInv, GoodOperation, IsOperation
  <2>8. Done(found).version = n
    BY <2>7 DEF Done, IsOperation, OperationFields
  <2> HIDE DEF found, n
  <2>9. Release(r, Done(found)) => Goes(r)
    BY <2>1, <2>6, <2>8 DEF Goes
  <2> QED
    BY <1>5, <1>9, <2>1, <2>2, <2>3, <2>9
<1>14. ASSUME NEW r \in Callers, BeginTransaction(r)  PROVE TInv'
  <2> DEFINE c == request[r].conn
             s == [session[c] EXCEPT !.open = TRUE]
  <2>1. c # Nil /\ c \in Connections /\ Step(r) # "versions" /\ request[r].rest \in ToWrite
    BY <1>14, StatementSays DEF BeginTransaction, AtStatement
  <2>2. session' = [session EXCEPT ![c] = s] /\ Release(r, Done(request[r])) /\ UNCHANGED <<versions, events, reviewed>>
    BY <1>14 DEF BeginTransaction
  <2>3. SessionTyped(s)
    BY <1>1, <1>2, <2>1 DEF SessionTyped, SessionFields
  <2> HIDE DEF s
  <2>4. Kept
    BY <1>1, <1>7, <2>1, <2>2, <2>3
  <2> QED
    BY <1>5, <1>8, <2>1, <2>2, <2>4
<1>15. ASSUME NEW r \in Callers, insertVersion(r)  PROVE TInv'
  <2> DEFINE q == request[r]
             c == q.conn
             v == VersionRow(q)
             s == [session[c] EXCEPT !.versions = @ \cup {v}]
  <2>1. c # Nil /\ c \in Connections /\ q.kind = "publish" /\ Head(q.rest) = "insert" /\ q.rest # <<>>
    BY <1>15, StatementSays DEF insertVersion, AtStatement, Step
  <2>2. q.rest \in ToWrite /\ q.rest \in Numbered /\ Step(r) # "versions"
    <3>1. q.rest \in PublishRests
      BY <2>1 DEF DInv, InOrder
    <3>2. q.rest = AtInsert
      BY <2>1, <3>1, PublishStatements DEF PublishRests, Held
    <3> QED
      BY <2>1, <3>2 DEF AtInsert, Numbered, ToWrite, Step
  <2>3. v \in Versions
    <3>1. q.row.draft \in Drafts
      BY <2>2 DEF NativeIInv, GoodOperation, GoodRow, Rows
    <3>2. q.version \in 1 .. MaxVersion
      BY <1>1, <2>2 DEF NumberTyped
    <3>3. Signed(q.row) \in BOOLEAN
      BY DEF Signed
    <3> QED
      BY <3>1, <3>2, <3>3 DEF VersionRow, Versions
  <2>4. \/ session' = [session EXCEPT ![c] = s] /\ UNCHANGED versions
        \/ UNCHANGED session /\ versions' = versions \cup {v}
    BY <1>15 DEF insertVersion, InsertVersion, VersionRow
  <2>5. Release(r, Done(q)) /\ UNCHANGED <<events, reviewed>>
    BY <1>15 DEF insertVersion
  <2> HIDE DEF v
  <2>6. SessionTyped(s)
    BY <1>1, <1>2, <2>1, <2>3 DEF SessionTyped, SessionFields
  <2> HIDE DEF s
  <2>7. Kept
    <3>1. CASE session' = [session EXCEPT ![c] = s] /\ UNCHANGED versions
      BY <3>1, <1>1, <1>7, <2>1, <2>5, <2>6
    <3>2. CASE UNCHANGED session /\ versions' = versions \cup {v}
      BY <3>2, <1>1, <2>3, <2>5 DEF Kept
    <3> QED
      BY <2>4, <3>1, <3>2
  <2> QED
    BY <1>5, <1>8, <2>1, <2>2, <2>5, <2>7
<1>16. ASSUME NEW r \in Callers, updateRuleSetRow(r)  PROVE TInv'
  <2> DEFINE c == request[r].conn
             s == [session[c] EXCEPT !.row = Written(request[r])]
  <2>1. c # Nil /\ c \in Connections /\ Step(r) # "versions" /\ request[r].rest \in ToWrite
    BY <1>16, StatementSays DEF updateRuleSetRow, AtStatement
  <2>2. /\ session' = [session EXCEPT ![c] = s] \/ UNCHANGED session
        /\ Release(r, Done(request[r])) /\ UNCHANGED <<versions, events, reviewed>>
    BY <1>16 DEF updateRuleSetRow, UpdateRow
  <2>3. SessionTyped(s)
    BY <1>1, <1>2, <2>1 DEF SessionTyped, SessionFields
  <2> HIDE DEF s
  <2>4. Kept
    BY <1>1, <1>6, <1>7, <2>1, <2>2, <2>3
  <2> QED
    BY <1>5, <1>8, <2>1, <2>2, <2>4
<1>17. ASSUME NEW r \in Callers, addClientEvent(r)  PROVE TInv'
  <2> DEFINE c == request[r].conn
             s == [session[c] EXCEPT !.events = @ \cup {r}]
  <2>1. c # Nil /\ c \in Connections /\ Step(r) # "versions" /\ request[r].rest \in ToWrite \cup ToEnd
    BY <1>17, StatementSays DEF addClientEvent, AtStatement
  <2>2. /\ \/ session' = [session EXCEPT ![c] = s] /\ UNCHANGED events
           \/ UNCHANGED session /\ events' = events \cup {r}
        /\ Release(r, Done(request[r])) /\ UNCHANGED <<versions, reviewed>>
    BY <1>17 DEF addClientEvent, InsertEvent
  <2>3. SessionTyped(s)
    BY <1>1, <1>2, <2>1 DEF SessionTyped, SessionFields
  <2> HIDE DEF s
  <2>4. Kept
    <3>1. CASE session' = [session EXCEPT ![c] = s] /\ UNCHANGED events
      BY <3>1, <1>1, <1>7, <2>1, <2>2, <2>3
    <3>2. CASE UNCHANGED session /\ events' = events \cup {r}
      BY <3>2, <1>1, <2>2 DEF Kept
    <3> QED
      BY <2>2, <3>1, <3>2
  <2> QED
    BY <1>5, <1>8, <2>1, <2>2, <2>4
<1>18. ASSUME NEW r \in Callers, StatementFails(r)  PROVE TInv'
  <2> DEFINE c == request[r].conn
             s == [session[c] EXCEPT !.failed = TRUE]
  <2>1. c # Nil /\ c \in Connections
    BY <1>18, StatementSays DEF StatementFails
  <2>2. /\ session' = [session EXCEPT ![c] = s] \/ UNCHANGED session
        /\ Release(r, Throw(request[r])) /\ UNCHANGED <<versions, events, reviewed>>
    BY <1>18 DEF StatementFails
  <2>3. SessionTyped(s)
    BY <1>1, <1>2, <2>1 DEF SessionTyped, SessionFields
  <2> HIDE DEF s
  <2>4. Kept
    BY <1>1, <1>6, <1>7, <2>1, <2>2, <2>3
  <2> QED
    BY <1>5, <1>9, <2>1, <2>2, <2>4
<1>19. ASSUME NEW r \in Callers, EndTransaction(r)  PROVE TInv'
  <2> DEFINE c == request[r].conn
  <2>1. c # Nil /\ c \in Connections /\ Step(r) # "versions" /\ request[r].rest \in ToEnd
    BY <1>19, StatementSays DEF EndTransaction
  <2>2. /\ session' = [session EXCEPT ![c] = NoSession]
        /\ versions' \in {versions, VersionsSeen(c)} /\ events' \in {events, events \cup session[c].events}
        /\ Release(r, Done(request[r])) /\ UNCHANGED reviewed
    BY <1>19 DEF EndTransaction, Commit
  <2>3. versions' \subseteq Versions /\ events' \subseteq Callers
    BY <1>1, <2>1, <2>2 DEF VersionsSeen, SessionTyped
  <2>4. Kept
    BY <1>4, <1>7, <2>1, <2>2, <2>3
  <2> QED
    BY <1>5, <1>8, <2>1, <2>2, <2>4
<1>20. ASSUME NEW c \in Connections, IdleTimeout(c)  PROVE TInv'
  <2>1. session' = [session EXCEPT ![c] = NoSession] /\ UNCHANGED <<versions, events, request, reviewed>>
    BY <1>20 DEF IdleTimeout
  <2>2. Kept
    BY <1>1, <1>4, <1>7, <2>1
  <2>3. Apart'
    BY <1>1, <1>20, TimeoutApart
  <2> QED
    BY <1>1, <2>1, <2>2, <2>3 DEF TInv, Kept
<1>21. CASE UNCHANGED nativeVars
  <2>1. UNCHANGED <<versions, events, session, idle, request, reviewed>>
    BY <1>21 DEF nativeVars
  <2>2. Apart'
    BY <1>1, <2>1 DEF Apart
  <2> QED
    BY <1>1, <2>1, <2>2 DEF TInv
<1> QED
  BY <1>10, <1>11, <1>12, <1>13, <1>13a, <1>14, <1>15, <1>16, <1>17, <1>18, <1>19, <1>20, <1>21 DEF NativeNext

(***************************************************************************)
(* Every variable of the store and of its pool keeps its type, and no      *)
(* connection is idle twice, idle while a statement uses it or used by two *)
(* statements, whatever statements fail and connections time out.          *)
(***************************************************************************)
THEOREM NativeTypeCorrect == NativeSpec => []NativeTypeOK
<1>1. NativeIInv /\ DInv /\ TInv => NativeTypeOK
  <2> SUFFICES ASSUME NativeIInv, DInv, TInv  PROVE NativeTypeOK
    OBVIOUS
  <2>1. rule \in Rows /\ idle \in Seq(Connections) /\ overlapped \in BOOLEAN
    BY DEF NativeIInv, GoodRow, DInv
  <2>2. \A c \in Connections : session[c].row \in Rows \cup {Nil}
    BY DEF NativeIInv, GoodSession, GoodRow
  <2> QED
    BY <2>1, <2>2 DEF TInv, SessionTyped, Apart, NativeTypeOK
<1> QED
  BY <1>1, InitEstablishes, DurableInit, TypeInit, NativeStepInv, DurableStep, TypeKept, PTL DEF NativeSpec
=============================================================================
