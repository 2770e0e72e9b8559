--------------------------- MODULE RuleSetsProofs ---------------------------
(***************************************************************************)
(* Proofs about RuleSets, for every set of keys and definitions and every  *)
(* bound.                                                                  *)
(*                                                                         *)
(* The invariants that the runs check are about the rows of rules, but     *)
(* approvals come back from two other places: the versions of a rule set   *)
(* (rollback) and the exported bundle (import).  The inductive invariant   *)
(* therefore says the same things of every row and version in both tables. *)
(***************************************************************************)
EXTENDS RuleSets, TLAPS

Statuses == {"draft", "published", "archived"}

(***************************************************************************)
(* An approval is for the definition beside it, and when it says approved  *)
(* some approve request signed that definition off.                        *)
(***************************************************************************)
Sound(approval, definition, S) ==
  /\ Approved(approval, definition)
  /\ approval.status = "approved" => definition \in S

GoodVersions(versions, S) ==
  \A n \in DOMAIN versions :
    /\ Sound(versions[n].approval, versions[n].definition, S)
    /\ versions[n].gated => versions[n].definition \in S

Served(rule) ==
  rule.status = "published" =>
    /\ LastVersion(rule.versions) # 0
    /\ rule.versions[LastVersion(rule.versions)].definition = rule.draft

GoodRule(rule, S) ==
  /\ Sound(rule.approval, rule.draft, S)
  /\ GoodVersions(rule.versions, S)
  /\ Served(rule)

GoodTable(table, S) == \A k \in Live(table) : GoodRule(table[k], S)

IInv ==
  /\ TypeOK
  /\ GoodTable(rules, signed)
  /\ GoodTable(bundle.rules, signed)

-----------------------------------------------------------------------------
(***************************************************************************)
(* The maximum that publish takes over the version numbers of a rule set   *)
(* whose versions are numbered 1 .. n is n.                                *)
(***************************************************************************)
LEMMA LastVersionOfTable ==
  ASSUME NEW n \in Nat, NEW versions, DOMAIN versions = 1 .. n
  PROVE  LastVersion(versions) = n
<1>1. n \in {0} \cup DOMAIN versions /\ \A i \in DOMAIN versions : i <= n
  OBVIOUS
<1>2. ASSUME NEW m \in {0} \cup DOMAIN versions,
             \A i \in DOMAIN versions : i <= m
      PROVE  m = n
  BY <1>2
<1> QED
  BY <1>1, <1>2 DEF LastVersion

(***************************************************************************)
(* A row that is not Absent is a rule record, and the reverse.             *)
(***************************************************************************)
LEMMA LiveRow ==
  ASSUME NEW table \in RuleTables, NEW k \in Keys
  PROVE  (k \in Live(table)) <=> (table[k] \in RuleRecord)
<1>1. table[k] \in RuleRecord \cup {Absent}
  BY DEF RuleTables
<1>2. Absent \notin RuleRecord
  BY DEF Absent, RuleRecord
<1> QED
  BY <1>1, <1>2 DEF Live

(***************************************************************************)
(* Writing one good row keeps a table of the right type and good.          *)
(***************************************************************************)
LEMMA WriteRow ==
  ASSUME NEW table \in RuleTables, NEW S, NEW k \in Keys, NEW row \in RuleRecord,
         GoodTable(table, S), GoodRule(row, S)
  PROVE  /\ [table EXCEPT ![k] = row] \in RuleTables
         /\ GoodTable([table EXCEPT ![k] = row], S)
<1>1. [table EXCEPT ![k] = row] \in RuleTables
  BY DEF RuleTables
<1>2. ASSUME NEW j \in Live([table EXCEPT ![k] = row])
      PROVE  GoodRule([table EXCEPT ![k] = row][j], S)
  <2>1. j \in Keys
    BY <1>2 DEF Live
  <2>2. CASE j = k
    BY <2>1, <2>2 DEF RuleTables
  <2>3. CASE j # k
    <3>1. [table EXCEPT ![k] = row][j] = table[j]
      BY <2>1, <2>3 DEF RuleTables
    <3>2. j \in Live(table)
      BY <2>1, <3>1, <1>2 DEF Live
    <3> QED
      BY <3>1, <3>2 DEF GoodTable
  <2> QED
    BY <2>2, <2>3
<1> QED
  BY <1>1, <1>2 DEF GoodTable

(***************************************************************************)
(* A definition once signed off stays signed off, so nothing good goes bad *)
(* when signed grows.                                                      *)
(***************************************************************************)
LEMMA SignedGrows ==
  ASSUME NEW table, NEW S, NEW T, S \subseteq T, GoodTable(table, S)
  PROVE  GoodTable(table, T)
  BY DEF GoodTable, GoodRule, GoodVersions, Sound

-----------------------------------------------------------------------------
(***************************************************************************)
(* Each row operation yields a good rule record from a good one.           *)
(***************************************************************************)
LEMMA CreateGood ==
  ASSUME NEW d \in Defs, NEW S
  PROVE  createRuleSet(d) \in RuleRecord /\ GoodRule(createRuleSet(d), S)
<1>1. NoApproval \in ApprovalRecord
  BY DEF NoApproval, ApprovalRecord
<1>2. NoVersions \in VersionTables
  <2>1. NoVersions \in [1 .. 0 -> VersionRecord]
    BY DEF NoVersions
  <2> QED
    BY <2>1, MaxVersionsAssumption DEF VersionTables
<1>3. createRuleSet(d) \in RuleRecord
  BY <1>1, <1>2 DEF createRuleSet, RuleRecord
<1>4. GoodVersions(NoVersions, S)
  BY DEF GoodVersions, NoVersions
<1> QED
  BY <1>3, <1>4
  DEF createRuleSet, GoodRule, Sound, Approved, Served, NoApproval

(* An edit of the draft withdraws its approval and its published status. *)
LEMMA UpdateGood ==
  ASSUME NEW rule \in RuleRecord, NEW d \in Defs, NEW S, GoodRule(rule, S)
  PROVE  updateDraft(rule, d) \in RuleRecord /\ GoodRule(updateDraft(rule, d), S)
<1> DEFINE new == updateDraft(rule, d)
<1>1. resetApprovalForDraftEdit(rule.approval) \in ApprovalRecord
  BY DEF resetApprovalForDraftEdit, ApprovalRecord, RuleRecord
<1>2. resetApprovalForDraftEdit(rule.approval).status \in {"none", "draft"}
  BY DEF resetApprovalForDraftEdit, ApprovalRecord, RuleRecord
<1>3. new \in RuleRecord
  BY <1>1 DEF updateDraft, RuleRecord
<1>4. /\ new.versions = rule.versions
      /\ new.approval = resetApprovalForDraftEdit(rule.approval)
      /\ new.status # "published"
  BY DEF updateDraft, RuleRecord
<1>5. Sound(new.approval, new.draft, S)
  BY <1>2, <1>4 DEF Sound, Approved
<1> QED
  BY <1>3, <1>4, <1>5 DEF GoodRule, Served

(* A review decision records the hash of the draft it was taken on. *)
LEMMA ApprovalGood ==
  ASSUME NEW rule \in RuleRecord, NEW status \in {"submitted", "approved"}, NEW S,
         GoodRule(rule, S), status = "approved" => rule.draft \in S
  PROVE  /\ setRuleApproval(rule, status) \in RuleRecord
         /\ GoodRule(setRuleApproval(rule, status), S)
<1> DEFINE new == setRuleApproval(rule, status)
           approval == [status |-> status, draft_hash |-> draftHash(rule.draft)]
<1>1. rule.draft \in Defs
  BY DEF RuleRecord
<1>2. approval \in ApprovalRecord
  BY <1>1 DEF ApprovalRecord
<1>3. new \in RuleRecord
  BY <1>2 DEF setRuleApproval, RuleRecord
<1>4. /\ new.approval = approval /\ new.draft = rule.draft
      /\ new.versions = rule.versions /\ new.status = rule.status
  BY DEF setRuleApproval, RuleRecord
<1>5. Sound(new.approval, new.draft, S)
  BY <1>4 DEF Sound, Approved
<1> QED
  BY <1>3, <1>4, <1>5 DEF GoodRule, Served

(* Publishing appends the draft as the newest version; under the approval
   workflow the draft is one that was signed off. *)
LEMMA PublishGood ==
  ASSUME NEW rule \in RuleRecord, NEW S, GoodRule(rule, S), workflow \in BOOLEAN,
         workflow => requireApprovedDraft(rule),
         nextVersion(rule.versions) <= MaxVersions
  PROVE  publish(rule) \in RuleRecord /\ GoodRule(publish(rule), S)
<1>1. PICK n \in 0 .. MaxVersions : rule.versions \in [1 .. n -> VersionRecord]
  BY DEF RuleRecord, VersionTables
<1>2. LastVersion(rule.versions) = n /\ nextVersion(rule.versions) = n + 1
  BY <1>1, LastVersionOfTable DEF nextVersion
<1>3. n \in Nat /\ n + 1 \in 0 .. MaxVersions
  BY <1>2, MaxVersionsAssumption
<1> DEFINE row == [definition |-> rule.draft, approval |-> rule.approval,
                   gated |-> workflow]
           vs == [i \in DOMAIN rule.versions \cup {n + 1} |->
                    IF i = n + 1 THEN row ELSE rule.versions[i]]
           new == publish(rule)
<1>4. row \in VersionRecord
  BY DEF VersionRecord, RuleRecord
<1>5. DOMAIN rule.versions \cup {n + 1} = 1 .. n + 1
  BY <1>1, <1>3
<1>6. vs \in [1 .. n + 1 -> VersionRecord]
  BY <1>1, <1>4, <1>5
<1>7. vs \in VersionTables
  BY <1>3, <1>6 DEF VersionTables
<1>8. new = [rule EXCEPT !.status = "published", !.versions = vs]
  BY <1>2 DEF publish
<1> HIDE DEF vs, row
<1>9. /\ new \in RuleRecord
      /\ new.status = "published" /\ new.versions = vs
      /\ new.draft = rule.draft /\ new.approval = rule.approval
  BY <1>7, <1>8 DEF RuleRecord
<1>10. Sound(new.approval, new.draft, S)
  BY <1>9 DEF GoodRule
<1>11. GoodVersions(vs, S)
  <2> SUFFICES ASSUME NEW i \in DOMAIN vs
               PROVE  /\ Sound(vs[i].approval, vs[i].definition, S)
                      /\ vs[i].gated => vs[i].definition \in S
    BY DEF GoodVersions
  <2>1. CASE i = n + 1
    <3>1. vs[i] = row
      BY <2>1 DEF vs
    <3>2. Sound(rule.approval, rule.draft, S)
      BY DEF GoodRule
    <3>3. workflow => rule.draft \in S
      BY <3>2 DEF requireApprovedDraft, Sound
    <3> QED
      BY <3>1, <3>2, <3>3 DEF row
  <2>2. CASE i # n + 1
    <3>1. i \in DOMAIN rule.versions /\ vs[i] = rule.versions[i]
      BY <2>2 DEF vs
    <3> QED
      BY <3>1 DEF GoodRule, GoodVersions
  <2> QED
    BY <2>1, <2>2
<1>12. Served(new)
  <2>1. DOMAIN vs = 1 .. n + 1
    BY <1>6
  <2>2. LastVersion(vs) = n + 1
    BY <1>3, <2>1, LastVersionOfTable
  <2>3. vs[n + 1].definition = rule.draft
    BY <1>3, <2>1 DEF vs, row
  <2> QED
    BY <1>3, <1>9, <2>2, <2>3 DEF Served
<1> QED
  BY <1>9, <1>10, <1>11, <1>12 DEF GoodRule

(* A rollback brings back a definition together with its own approval. *)
LEMMA RollbackGood ==
  ASSUME NEW rule \in RuleRecord, NEW v \in DOMAIN rule.versions, NEW S,
         GoodRule(rule, S)
  PROVE  /\ rollbackDraftToVersion(rule, v) \in RuleRecord
         /\ GoodRule(rollbackDraftToVersion(rule, v), S)
<1> DEFINE new == rollbackDraftToVersion(rule, v)
<1>1. rule.versions[v] \in VersionRecord
  BY DEF RuleRecord, VersionTables
<1>2. /\ new \in RuleRecord
      /\ new.status = "draft" /\ new.versions = rule.versions
      /\ new.draft = rule.versions[v].definition
      /\ new.approval = rule.versions[v].approval
  BY <1>1 DEF rollbackDraftToVersion, RuleRecord, VersionRecord
<1>3. Sound(new.approval, new.draft, S)
  BY <1>2 DEF GoodRule, GoodVersions
<1> QED
  BY <1>2, <1>3 DEF GoodRule, Served

(* A copy starts without versions and keeps an approval for its draft. *)
LEMMA DuplicateGood ==
  ASSUME NEW rule \in RuleRecord, NEW S, GoodRule(rule, S)
  PROVE  duplicateRuleSet(rule) \in RuleRecord /\ GoodRule(duplicateRuleSet(rule), S)
<1> DEFINE new == duplicateRuleSet(rule)
<1>1. NoVersions \in VersionTables
  <2>1. NoVersions \in [1 .. 0 -> VersionRecord]
    BY DEF NoVersions
  <2> QED
    BY <2>1, MaxVersionsAssumption DEF VersionTables
<1>2. /\ new \in RuleRecord
      /\ new.status = "draft" /\ new.versions = NoVersions
      /\ new.draft = rule.draft /\ new.approval = rule.approval
  BY <1>1 DEF duplicateRuleSet, RuleRecord
<1>3. GoodVersions(NoVersions, S)
  BY DEF GoodVersions, NoVersions
<1> QED
  BY <1>2, <1>3 DEF GoodRule, Served

(* Archiving changes nothing but the status. *)
LEMMA ArchiveGood ==
  ASSUME NEW rule \in RuleRecord, NEW S, GoodRule(rule, S)
  PROVE  /\ [rule EXCEPT !.status = "archived"] \in RuleRecord
         /\ GoodRule([rule EXCEPT !.status = "archived"], S)
<1> DEFINE new == [rule EXCEPT !.status = "archived"]
<1>1. /\ new \in RuleRecord
      /\ new.status = "archived" /\ new.versions = rule.versions
      /\ new.draft = rule.draft /\ new.approval = rule.approval
  BY DEF RuleRecord
<1> QED
  BY <1>1 DEF GoodRule, Served

-----------------------------------------------------------------------------
(* The initial state satisfies the inductive invariant. *)
LEMMA InitInv == Init => IInv
<1> SUFFICES ASSUME Init PROVE IInv
  OBVIOUS
<1>1. rules \in RuleTables /\ Live(rules) = {}
  BY DEF Init, RuleTables, Live
<1>2. bundle = [rules |-> rules, workflow |-> workflow]
  BY DEF Init
<1>3. TypeOK
  <2>1. bundle = [rules |-> rules, workflow |-> FALSE]
    BY <1>2 DEF Init
  <2>2. bundle \in [rules : RuleTables, workflow : BOOLEAN]
    BY <1>1, <2>1
  <2> QED
    BY <1>1, <2>2 DEF Init, TypeOK
<1> QED
  BY <1>1, <1>2, <1>3 DEF IInv, GoodTable

(***************************************************************************)
(* A step that writes one good row and leaves the other tables alone keeps *)
(* the invariant, even when it signs a definition off.                     *)
(***************************************************************************)
LEMMA RowStep ==
  ASSUME IInv, NEW k \in Keys, NEW row \in RuleRecord, GoodRule(row, signed'),
         rules' = [rules EXCEPT ![k] = row],
         pending' \subseteq pending, signed \subseteq signed',
         signed' \subseteq Defs, UNCHANGED <<workflow, bundle>>
  PROVE  IInv'
<1>1. GoodTable(rules, signed') /\ GoodTable(bundle.rules, signed')
  BY SignedGrows DEF IInv
<1>2. rules' \in RuleTables /\ GoodTable(rules', signed')
  BY <1>1, WriteRow DEF IInv, TypeOK
<1>3. TypeOK'
  BY <1>2 DEF IInv, TypeOK
<1> QED
  BY <1>1, <1>2, <1>3 DEF IInv

(***************************************************************************)
(* The row of a key that Exists is a good rule record.                     *)
(***************************************************************************)
LEMMA ExistingRow ==
  ASSUME IInv, NEW k \in Keys, Exists(k)
  PROVE  rules[k] \in RuleRecord /\ GoodRule(rules[k], signed)
  BY LiveRow DEF IInv, TypeOK, Exists, GoodTable

(* Every step preserves the inductive invariant. *)
LEMMA StepInv == IInv /\ [Next]_vars => IInv'
<1> SUFFICES ASSUME IInv, [Next]_vars PROVE IInv'
  OBVIOUS
<1> USE DEF IInv
<1>1. ASSUME NEW k \in Keys, NEW d \in Defs, CreateRuleSet(k, d) PROVE IInv'
  <2>1. createRuleSet(d) \in RuleRecord /\ GoodRule(createRuleSet(d), signed')
    BY CreateGood
  <2> QED
    BY <1>1, <2>1, RowStep DEF CreateRuleSet, TypeOK
<1>2. ASSUME NEW k \in Keys, NEW d \in Defs, UpdateDraft(k, d) PROVE IInv'
  <2>1. /\ updateDraft(rules[k], d) \in RuleRecord
        /\ GoodRule(updateDraft(rules[k], d), signed)
    BY <1>2, ExistingRow, UpdateGood DEF UpdateDraft
  <2> QED
    BY <1>2, <2>1, RowStep DEF UpdateDraft, TypeOK
<1>3. ASSUME NEW k \in Keys, NEW status \in {"submitted", "approved"},
             BeginReview(status, k)
      PROVE  IInv'
  BY <1>3 DEF BeginReview, TypeOK
<1>4. ASSUME NEW k \in Keys, NEW status \in {"submitted", "approved"},
             NEW force \in BOOLEAN, FinishReview(status, k, force)
      PROVE  IInv'
  <2>1. rules[k] \in RuleRecord /\ GoodRule(rules[k], signed)
    BY <1>4, ExistingRow DEF FinishReview
  <2>2. signed \subseteq signed' /\ signed' \subseteq Defs
    BY <1>4, <2>1 DEF FinishReview, TypeOK, RuleRecord
  <2>3. GoodRule(rules[k], signed')
    BY <2>1, <2>2 DEF GoodRule, GoodVersions, Sound
  <2>4. status = "approved" => rules[k].draft \in signed'
    BY <1>4 DEF FinishReview
  <2>5. /\ setRuleApproval(rules[k], status) \in RuleRecord
        /\ GoodRule(setRuleApproval(rules[k], status), signed')
    BY <2>1, <2>3, <2>4, ApprovalGood
  <2> QED
    BY <1>4, <2>2, <2>5, RowStep DEF FinishReview
<1>5. ASSUME NEW k \in Keys, NEW status \in {"submitted", "approved"},
             RefuseReview(status, k)
      PROVE  IInv'
  BY <1>5 DEF RefuseReview, TypeOK
<1>6. ASSUME NEW k \in Keys, Publish(k) PROVE IInv'
  <2>1. publish(rules[k]) \in RuleRecord /\ GoodRule(publish(rules[k]), signed)
    BY <1>6, ExistingRow, PublishGood DEF Publish, TypeOK
  <2> QED
    BY <1>6, <2>1, RowStep DEF Publish, TypeOK
<1>7. ASSUME NEW k \in Keys, ArchiveRuleSet(k) PROVE IInv'
  <2> DEFINE row == [rules[k] EXCEPT !.status = "archived"]
  <2>1. row \in RuleRecord /\ GoodRule(row, signed)
    BY <1>7, ExistingRow, ArchiveGood DEF ArchiveRuleSet
  <2>2. rules' = [rules EXCEPT ![k] = row]
    BY <1>7 DEF ArchiveRuleSet
  <2> QED
    BY <1>7, <2>1, <2>2, RowStep DEF ArchiveRuleSet, TypeOK
<1>8. ASSUME NEW k \in Keys, NEW v \in 1 .. MaxVersions,
             RollbackDraftToVersion(k, v)
      PROVE  IInv'
  <2>1. /\ rollbackDraftToVersion(rules[k], v) \in RuleRecord
        /\ GoodRule(rollbackDraftToVersion(rules[k], v), signed)
    BY <1>8, ExistingRow, RollbackGood DEF RollbackDraftToVersion
  <2> QED
    BY <1>8, <2>1, RowStep DEF RollbackDraftToVersion, TypeOK
<1>9. ASSUME NEW k \in Keys, NEW copy \in Keys, DuplicateRuleSet(k, copy)
      PROVE  IInv'
  <2>1. /\ duplicateRuleSet(rules[k]) \in RuleRecord
        /\ GoodRule(duplicateRuleSet(rules[k]), signed)
    BY <1>9, ExistingRow, DuplicateGood DEF DuplicateRuleSet
  <2> QED
    BY <1>9, <2>1, RowStep DEF DuplicateRuleSet, TypeOK
<1>10. ASSUME NEW enabled \in BOOLEAN, UpdateSettings(enabled) PROVE IInv'
  BY <1>10 DEF UpdateSettings, TypeOK
<1>11. CASE ExportBundle
  BY <1>11 DEF ExportBundle, TypeOK
<1>12. CASE ImportBundle
  <2>1. rules' \in RuleTables
    BY <1>12 DEF ImportBundle, TypeOK, RuleTables
  <2>2. GoodTable(rules', signed)
    <3> SUFFICES ASSUME NEW k \in Live(rules') PROVE GoodRule(rules'[k], signed)
      BY DEF GoodTable
    <3>1. k \in Keys
      BY DEF Live
    <3>2. CASE bundle.rules[k] = Absent
      <4>1. rules'[k] = rules[k]
        BY <1>12, <3>1, <3>2 DEF ImportBundle
      <4> QED
        BY <3>1, <4>1 DEF GoodTable, Live
    <3>3. CASE bundle.rules[k] # Absent
      <4>1. rules'[k] = bundle.rules[k]
        BY <1>12, <3>1, <3>3 DEF ImportBundle
      <4> QED
        BY <3>1, <3>3, <4>1 DEF GoodTable, Live
    <3> QED
      BY <3>2, <3>3
  <2> QED
    BY <1>12, <2>1, <2>2 DEF ImportBundle, TypeOK
<1>13. CASE UNCHANGED vars
  BY <1>13 DEF vars, TypeOK
<1> QED
  BY <1>1, <1>2, <1>3, <1>4, <1>5, <1>6, <1>7, <1>8, <1>9, <1>10, <1>11,
     <1>12, <1>13 DEF Next

(* The inductive invariant holds in every reachable state. *)
LEMMA Invariant == Spec => []IInv
<1> QED
  BY InitInv, StepInv, PTL DEF Spec

-----------------------------------------------------------------------------
(***************************************************************************)
(* Every reachable state of the rule-set tables, the pending reviews and   *)
(* the exported bundle has its type; the versions are numbered 1 .. n.     *)
(***************************************************************************)
THEOREM TypeCorrect == Spec => []TypeOK
<1>1. IInv => TypeOK
  BY DEF IInv
<1> QED
  BY <1>1, Invariant, PTL

(***************************************************************************)
(* An approval that stands is one for the draft as it is now.              *)
(***************************************************************************)
THEOREM ApprovalSafe == Spec => []ApprovalMatchesDraft
<1>1. IInv => ApprovalMatchesDraft
  BY DEF IInv, ApprovalMatchesDraft, GoodTable, GoodRule, Sound
<1> QED
  BY <1>1, Invariant, PTL

(***************************************************************************)
(* No version published under the approval workflow escaped sign-off.      *)
(***************************************************************************)
THEOREM GateSafe == Spec => []GatedVersionsSigned
<1>1. IInv => GatedVersionsSigned
  BY DEF IInv, GatedVersionsSigned, GoodTable, GoodRule, GoodVersions
<1> QED
  BY <1>1, Invariant, PTL

(***************************************************************************)
(* A published rule set serves its draft.                                  *)
(***************************************************************************)
THEOREM PublishedSafe == Spec => []PublishedIsServed
<1>1. IInv => PublishedIsServed
  BY DEF IInv, PublishedIsServed, GoodTable, GoodRule, Served
<1> QED
  BY <1>1, Invariant, PTL

-----------------------------------------------------------------------------
(***************************************************************************)
(* A step that writes one row keeps every version if the row keeps those   *)
(* it had.                                                                 *)
(***************************************************************************)
LEMMA KeepVersions ==
  ASSUME TypeOK, NEW k \in Keys, NEW row, rules' = [rules EXCEPT ![k] = row],
         Exists(k) => \A n \in DOMAIN rules[k].versions :
                        /\ n \in DOMAIN row.versions
                        /\ row.versions[n] = rules[k].versions[n]
  PROVE  VersionsKept
<1> SUFFICES ASSUME NEW j \in Live(rules), NEW n \in DOMAIN rules[j].versions
             PROVE  /\ n \in DOMAIN rules'[j].versions
                    /\ rules'[j].versions[n] = rules[j].versions[n]
  BY DEF VersionsKept
<1>1. j \in Keys
  BY DEF Live
<1>2. CASE j = k
  BY <1>1, <1>2 DEF TypeOK, RuleTables, Exists
<1>3. CASE j # k
  BY <1>1, <1>3 DEF TypeOK, RuleTables
<1> QED
  BY <1>2, <1>3

(***************************************************************************)
(* Only an import changes or removes a published version.                  *)
(***************************************************************************)
THEOREM VersionsSafe == Spec => VersionsImmutableUnlessImported
<1>1. IInv /\ [Next]_vars => [VersionsKept \/ ImportBundle]_vars
  <2> SUFFICES ASSUME IInv, Next, ~ ImportBundle PROVE VersionsKept
    OBVIOUS
  <2>0. TypeOK
    BY DEF IInv
  <2>1. ASSUME UNCHANGED rules PROVE VersionsKept
    BY <2>1 DEF VersionsKept
  <2>2. ASSUME NEW k \in Keys, NEW d \in Defs, CreateRuleSet(k, d)
        PROVE  VersionsKept
    BY <2>0, <2>2, KeepVersions DEF CreateRuleSet
  <2>3. ASSUME NEW k \in Keys, NEW d \in Defs, UpdateDraft(k, d)
        PROVE  VersionsKept
    <3>1. updateDraft(rules[k], d).versions = rules[k].versions
      BY <2>3, ExistingRow DEF UpdateDraft, updateDraft, RuleRecord
    <3> QED
      BY <2>0, <2>3, <3>1, KeepVersions DEF UpdateDraft
  <2>4. ASSUME NEW k \in Keys, NEW status \in {"submitted", "approved"},
               NEW force \in BOOLEAN, FinishReview(status, k, force)
        PROVE  VersionsKept
    <3>1. setRuleApproval(rules[k], status).versions = rules[k].versions
      BY <2>4, ExistingRow DEF FinishReview, setRuleApproval, RuleRecord
    <3> QED
      BY <2>0, <2>4, <3>1, KeepVersions DEF FinishReview
  <2>5. ASSUME NEW k \in Keys, Publish(k) PROVE VersionsKept
    <3>1. rules[k] \in RuleRecord
      BY <2>5, ExistingRow DEF Publish
    <3>2. PICK n \in 0 .. MaxVersions :
            rules[k].versions \in [1 .. n -> VersionRecord]
      BY <3>1 DEF RuleRecord, VersionTables
    <3>3. nextVersion(rules[k].versions) = n + 1
      BY <3>2, LastVersionOfTable, MaxVersionsAssumption DEF nextVersion
    <3>4. nextVersion(rules[k].versions) \notin DOMAIN rules[k].versions
      BY <3>2, <3>3, MaxVersionsAssumption
    <3> DEFINE v == nextVersion(rules[k].versions)
               old == rules[k].versions
               row == [definition |-> rules[k].draft,
                       approval |-> rules[k].approval, gated |-> workflow]
               vs == [i \in DOMAIN old \cup {v} |-> IF i = v THEN row ELSE old[i]]
    <3>5. publish(rules[k]) = [rules[k] EXCEPT !.status = "published",
                                               !.versions = vs]
      BY DEF publish
    <3>6. \A i \in DOMAIN old : i \in DOMAIN vs /\ vs[i] = old[i]
      BY <3>4
    <3> HIDE DEF vs
    <3>7. publish(rules[k]).versions = vs
      BY <3>1, <3>5 DEF RuleRecord
    <3> QED
      BY <2>0, <2>5, <3>6, <3>7, KeepVersions DEF Publish
  <2>6. ASSUME NEW k \in Keys, ArchiveRuleSet(k) PROVE VersionsKept
    <3> DEFINE row == [rules[k] EXCEPT !.status = "archived"]
    <3>1. row.versions = rules[k].versions
      BY <2>6, ExistingRow DEF ArchiveRuleSet, RuleRecord
    <3>2. rules' = [rules EXCEPT ![k] = row]
      BY <2>6 DEF ArchiveRuleSet
    <3> QED
      BY <2>0, <3>1, <3>2, KeepVersions
  <2>7. ASSUME NEW k \in Keys, NEW v \in 1 .. MaxVersions,
               RollbackDraftToVersion(k, v)
        PROVE  VersionsKept
    <3>1. rollbackDraftToVersion(rules[k], v).versions = rules[k].versions
      BY <2>7, ExistingRow
      DEF RollbackDraftToVersion, rollbackDraftToVersion, RuleRecord
    <3> QED
      BY <2>0, <2>7, <3>1, KeepVersions DEF RollbackDraftToVersion
  <2>8. ASSUME NEW k \in Keys, NEW copy \in Keys, DuplicateRuleSet(k, copy)
        PROVE  VersionsKept
    BY <2>0, <2>8, KeepVersions DEF DuplicateRuleSet
  <2> QED
    BY <2>1, <2>2, <2>3, <2>4, <2>5, <2>6, <2>7, <2>8
    DEF Next, BeginReview, RefuseReview, UpdateSettings, ExportBundle
<1> QED
  BY <1>1, Invariant, PTL DEF Spec, VersionsImmutableUnlessImported

-----------------------------------------------------------------------------
(* What ArchivedUnlessImported asks of a step that is no import. *)
ArchivedKept ==
  \A k \in Live(rules) : rules[k].status = "archived" =>
                           rules'[k].status = "archived"

(***************************************************************************)
(* A step that writes one row keeps the archived ones archived if the row  *)
(* it writes does.                                                         *)
(***************************************************************************)
LEMMA KeepArchived ==
  ASSUME TypeOK, NEW k \in Keys, NEW row, rules' = [rules EXCEPT ![k] = row],
         Exists(k) /\ rules[k].status = "archived" => row.status = "archived"
  PROVE  ArchivedKept
<1> SUFFICES ASSUME NEW j \in Live(rules), rules[j].status = "archived"
             PROVE  rules'[j].status = "archived"
  BY DEF ArchivedKept
<1>1. j \in Keys
  BY DEF Live
<1>2. CASE j = k
  BY <1>1, <1>2 DEF TypeOK, RuleTables, Exists
<1>3. CASE j # k
  BY <1>1, <1>3 DEF TypeOK, RuleTables
<1> QED
  BY <1>2, <1>3

(***************************************************************************)
(* An archived rule set leaves its archive by an import only: the draft    *)
(* edit keeps the status, and the steps that would change it refuse.       *)
(***************************************************************************)
THEOREM ArchivedSafe == Spec => ArchivedUnlessImported
<1>1. IInv /\ [Next]_vars => [ArchivedKept \/ ImportBundle]_vars
  <2> SUFFICES ASSUME IInv, Next, ~ ImportBundle PROVE ArchivedKept
    OBVIOUS
  <2>0. TypeOK
    BY DEF IInv
  <2>1. ASSUME UNCHANGED rules PROVE ArchivedKept
    BY <2>1 DEF ArchivedKept
  <2>2. ASSUME NEW k \in Keys, NEW d \in Defs, CreateRuleSet(k, d)
        PROVE  ArchivedKept
    BY <2>0, <2>2, KeepArchived DEF CreateRuleSet
  <2>3. ASSUME NEW k \in Keys, NEW d \in Defs, UpdateDraft(k, d)
        PROVE  ArchivedKept
    <3>1. rules[k].status = "archived" =>
            updateDraft(rules[k], d).status = "archived"
      BY <2>3, ExistingRow DEF UpdateDraft, updateDraft, RuleRecord
    <3> QED
      BY <2>0, <2>3, <3>1, KeepArchived DEF UpdateDraft
  <2>4. ASSUME NEW k \in Keys, NEW status \in {"submitted", "approved"},
               NEW force \in BOOLEAN, FinishReview(status, k, force)
        PROVE  ArchivedKept
    BY <2>0, <2>4, KeepArchived DEF FinishReview
  <2>5. ASSUME NEW k \in Keys, Publish(k) PROVE ArchivedKept
    BY <2>0, <2>5, KeepArchived DEF Publish
  <2>6. ASSUME NEW k \in Keys, ArchiveRuleSet(k) PROVE ArchivedKept
    <3> DEFINE row == [rules[k] EXCEPT !.status = "archived"]
    <3>1. row.status = "archived"
      BY <2>6, ExistingRow DEF ArchiveRuleSet, RuleRecord
    <3>2. rules' = [rules EXCEPT ![k] = row]
      BY <2>6 DEF ArchiveRuleSet
    <3> QED
      BY <2>0, <3>1, <3>2, KeepArchived
  <2>7. ASSUME NEW k \in Keys, NEW v \in 1 .. MaxVersions,
               RollbackDraftToVersion(k, v)
        PROVE  ArchivedKept
    BY <2>0, <2>7, KeepArchived DEF RollbackDraftToVersion
  <2>8. ASSUME NEW k \in Keys, NEW copy \in Keys, DuplicateRuleSet(k, copy)
        PROVE  ArchivedKept
    BY <2>0, <2>8, KeepArchived DEF DuplicateRuleSet
  <2> QED
    BY <2>1, <2>2, <2>3, <2>4, <2>5, <2>6, <2>7, <2>8
    DEF Next, BeginReview, RefuseReview, UpdateSettings, ExportBundle
<1> QED
  BY <1>1, Invariant, PTL DEF Spec, ArchivedUnlessImported, ArchivedKept
=============================================================================
