------------------------------ MODULE RuleSets ------------------------------
(***************************************************************************)
(* Rule sets of the SQLite store (src/src/store.js) as the administration  *)
(* handlers of src/src/server.js drive them: a draft that people edit,     *)
(* submit and approve, and the numbered versions that clients are served.  *)
(*                                                                         *)
(* The SQLite store is synchronous, so a handler that touches only the     *)
(* store runs to completion: it is one action here.  The two review        *)
(* handlers test the approval_workflow_enabled setting and then wait for   *)
(* the request body; they are two actions each.                            *)
(*                                                                         *)
(* Definitions are abstract values, every one of them valid.  Metadata is  *)
(* reduced to its approval object.  A create request carries no approval   *)
(* object (the user interface never sends one), and a bundle is imported   *)
(* as some environment exported it.                                        *)
(***************************************************************************)
EXTENDS Naturals, FiniteSets

CONSTANTS
  Keys,         \* decision keys
  Defs,         \* rule definitions
  MaxVersions,  \* bound on the versions of one rule set
  MaxReviews,   \* bound on the review requests in flight
  MaxBundle     \* bound on the rule sets of an exported bundle

ASSUME MaxVersionsAssumption == MaxVersions \in Nat

VARIABLES
  rules,     \* the rule_sets and rule_versions tables
  workflow,  \* settings.approval_workflow_enabled
  pending,   \* review requests past the setting check, waiting for their body
  bundle,    \* the configuration bundle exported last
  signed     \* history: definitions an approve request has signed off
vars == <<rules, workflow, pending, bundle, signed>>

(***************************************************************************)
(* SHA-256 of the draft's JSON: two drafts agree on it when they are equal. *)
(***************************************************************************)
draftHash(definition) == <<"sha256", definition>>
NoHash == <<"none">>

NoApproval == [status |-> "none", draft_hash |-> NoHash]
ApprovalRecord == [status : {"none", "draft", "submitted", "approved"},
                   draft_hash : {NoHash} \cup {draftHash(d) : d \in Defs}]

(***************************************************************************)
(* A row of rule_versions; gated is history: it was published while the    *)
(* approval workflow was enabled.                                          *)
(***************************************************************************)
VersionRecord == [definition : Defs, approval : ApprovalRecord, gated : BOOLEAN]
VersionTables == UNION {[1 .. n -> VersionRecord] : n \in 0 .. MaxVersions}

RuleRecord == [status : {"draft", "published", "archived"}, draft : Defs,
               approval : ApprovalRecord, versions : VersionTables]
Absent == [status |-> "absent"]
RuleTables == [Keys -> RuleRecord \cup {Absent}]

Live(table) == {k \in Keys : table[k] # Absent}
Exists(k) == k \in Live(rules)
NoVersions == [n \in {} |-> NoApproval]

TypeOK ==
  /\ rules \in RuleTables
  /\ workflow \in BOOLEAN
  /\ pending \in SUBSET ({"submitted", "approved"} \X Keys)
  /\ bundle \in [rules : RuleTables, workflow : BOOLEAN]
  /\ signed \in SUBSET Defs

Init ==
  /\ rules = [k \in Keys |-> Absent]
  /\ workflow = FALSE
  /\ pending = {}
  /\ bundle = [rules |-> rules, workflow |-> workflow]
  /\ signed = {}

-----------------------------------------------------------------------------
(***************************************************************************)
(* The rule-set row after one operation.                                   *)
(***************************************************************************)
createRuleSet(d) ==
  [status |-> "draft", draft |-> d, approval |-> NoApproval,
   versions |-> NoVersions]

(* an approval in the metadata of the request replaces the stored one before
   the reset: it ends as "draft" like any other, and is not told apart here *)
resetApprovalForDraftEdit(approval) ==
  IF approval.status = "none" THEN approval
  ELSE [approval EXCEPT !.status = "draft"]

(* Mut... are faulty variants of the definition that follows them; the     *)
(* README says which property refutes each.                                *)
MutKeepApproval(rule, d) ==
  [rule EXCEPT !.draft = d,
               !.status = IF rule.status = "archived" THEN "archived" ELSE "draft"]
MutUnarchive(rule, d) ==
  [rule EXCEPT !.draft = d,
               !.approval = resetApprovalForDraftEdit(rule.approval),
               !.status = "draft"]
updateDraft(rule, d) ==
  [rule EXCEPT !.draft = d,
               !.approval = resetApprovalForDraftEdit(rule.approval),
               !.status = IF rule.status = "archived" THEN "archived" ELSE "draft"]

setRuleApproval(rule, status) ==
  [rule EXCEPT !.approval = [status |-> status,
                             draft_hash |-> draftHash(rule.draft)]]

LastVersion(versions) ==
  CHOOSE m \in {0} \cup DOMAIN versions : \A n \in DOMAIN versions : n <= m
MutReuseLast(versions) ==
  IF DOMAIN versions = {} THEN 1 ELSE LastVersion(versions)
MutFromZero(versions) ==
  IF DOMAIN versions = {} THEN 0 ELSE LastVersion(versions) + 1
nextVersion(versions) == LastVersion(versions) + 1

publish(rule) ==
  LET v == nextVersion(rule.versions)
      row == [definition |-> rule.draft, approval |-> rule.approval,
              gated |-> workflow]
  IN [rule EXCEPT !.status = "published",
                  !.versions = [n \in DOMAIN rule.versions \cup {v} |->
                                  IF n = v THEN row ELSE rule.versions[n]]]

MutRollbackKeepsStatus(rule, v) ==
  [rule EXCEPT !.draft = rule.versions[v].definition,
               !.approval = rule.versions[v].approval]
rollbackDraftToVersion(rule, v) ==
  [rule EXCEPT !.draft = rule.versions[v].definition,
               !.approval = rule.versions[v].approval,
               !.status = "draft"]

duplicateRuleSet(rule) ==
  [rule EXCEPT !.status = "draft", !.versions = NoVersions]

MutHashOnly(rule) == rule.approval.draft_hash = draftHash(rule.draft)
requireApprovedDraft(rule) ==
  /\ rule.approval.status = "approved"
  /\ rule.approval.draft_hash = draftHash(rule.draft)

-----------------------------------------------------------------------------
(* POST /v1/rule-sets, and create_rule_draft of an assistant plan *)
CreateRuleSet(k, d) ==
  /\ ~ Exists(k)
  /\ rules' = [rules EXCEPT ![k] = createRuleSet(d)]
  /\ UNCHANGED <<workflow, pending, bundle, signed>>

(* PUT /v1/rule-sets/:key/draft, the visual editor's save, and the assistant's
   update_rule_draft and restore_rule_draft *)
UpdateDraft(k, d) ==
  /\ Exists(k)
  /\ rules' = [rules EXCEPT ![k] = updateDraft(rules[k], d)]
  /\ UNCHANGED <<workflow, pending, bundle, signed>>

(* submit-review and approve, up to the wait for the request body *)
BeginReview(status, k) ==
  /\ workflow
  /\ Cardinality(pending) < MaxReviews
  /\ pending' = pending \cup {<<status, k>>}
  /\ UNCHANGED <<rules, workflow, bundle, signed>>

(* the rest of the two handlers; body.force waives the submitted check *)
FinishReview(status, k, force) ==
  /\ <<status, k>> \in pending
  /\ pending' = pending \ {<<status, k>>}
  /\ Exists(k)
  /\ status = "approved" => rules[k].approval.status = "submitted" \/ force
  /\ rules[k].status # "archived"
  /\ rules' = [rules EXCEPT ![k] = setRuleApproval(rules[k], status)]
  /\ signed' = IF status = "approved" THEN signed \cup {rules[k].draft} ELSE signed
  /\ UNCHANGED <<workflow, bundle>>

(* any of the early returns of the two handlers *)
RefuseReview(status, k) ==
  /\ <<status, k>> \in pending
  /\ \/ ~ Exists(k)
     \/ Exists(k) /\ rules[k].status = "archived"
     \/ Exists(k) /\ status = "approved" /\ rules[k].approval.status # "submitted"
  /\ pending' = pending \ {<<status, k>>}
  /\ UNCHANGED <<rules, workflow, bundle, signed>>

(* POST /v1/rule-sets/:key/publish *)
Publish(k) ==
  /\ Exists(k)
  /\ workflow => requireApprovedDraft(rules[k])
  /\ rules[k].status # "archived"
  /\ nextVersion(rules[k].versions) <= MaxVersions
  /\ rules' = [rules EXCEPT ![k] = publish(rules[k])]
  /\ UNCHANGED <<workflow, pending, bundle, signed>>

(* POST /v1/rule-sets/:key/archive, the campaign action, archive_rule_draft *)
ArchiveRuleSet(k) ==
  /\ Exists(k)
  /\ rules' = [rules EXCEPT ![k].status = "archived"]
  /\ UNCHANGED <<workflow, pending, bundle, signed>>

(* POST /v1/rule-sets/:key/versions/:v/rollback *)
RollbackDraftToVersion(k, v) ==
  /\ Exists(k)
  /\ rules[k].status # "archived"
  /\ v \in DOMAIN rules[k].versions
  /\ rules' = [rules EXCEPT ![k] = rollbackDraftToVersion(rules[k], v)]
  /\ UNCHANGED <<workflow, pending, bundle, signed>>

(* POST /v1/rule-sets/:key/duplicate, and the campaign action *)
DuplicateRuleSet(k, copy) ==
  /\ Exists(k)
  /\ ~ Exists(copy)
  /\ rules' = [rules EXCEPT ![copy] = duplicateRuleSet(rules[k])]
  /\ UNCHANGED <<workflow, pending, bundle, signed>>

(* PUT /v1/settings *)
UpdateSettings(enabled) ==
  /\ workflow' = enabled
  /\ UNCHANGED <<rules, pending, bundle, signed>>

(* GET /v1/export *)
ExportBundle ==
  /\ Cardinality(Live(rules)) <= MaxBundle
  /\ bundle' = [rules |-> rules, workflow |-> workflow]
  /\ UNCHANGED <<rules, workflow, pending, signed>>

(* POST /v1/import: one transaction; an exported rule set replaces the whole
   row and its versions, a rule set the bundle lacks stays *)
ImportBundle ==
  /\ rules' = [k \in Keys |-> IF bundle.rules[k] = Absent THEN rules[k]
                              ELSE bundle.rules[k]]
  /\ workflow' = bundle.workflow
  /\ UNCHANGED <<pending, bundle, signed>>

Next ==
  \/ \E k \in Keys, d \in Defs : CreateRuleSet(k, d) \/ UpdateDraft(k, d)
  \/ \E k \in Keys, status \in {"submitted", "approved"} :
       \/ BeginReview(status, k)
       \/ \E force \in BOOLEAN : FinishReview(status, k, force)
       \/ RefuseReview(status, k)
  \/ \E k \in Keys : Publish(k) \/ ArchiveRuleSet(k)
  \/ \E k \in Keys, v \in 1 .. MaxVersions : RollbackDraftToVersion(k, v)
  \/ \E k, copy \in Keys : DuplicateRuleSet(k, copy)
  \/ \E enabled \in BOOLEAN : UpdateSettings(enabled)
  \/ ExportBundle
  \/ ImportBundle

Spec == Init /\ [][Next]_vars

-----------------------------------------------------------------------------
Approved(approval, definition) ==
  approval.status \in {"submitted", "approved"} =>
    approval.draft_hash = draftHash(definition)

(***************************************************************************)
(* An approval that is still submitted or approved is one for the draft as *)
(* it is now, whatever edits, rollbacks, copies and imports came between.  *)
(* This is what lets a person who sees "Approved" press publish.           *)
(***************************************************************************)
ApprovalMatchesDraft ==
  \A k \in Live(rules) : Approved(rules[k].approval, rules[k].draft)

(***************************************************************************)
(* Whatever was published while the approval workflow was enabled had been *)
(* signed off by an approve request: the gate holds along every path by    *)
(* which an approval travels (edit, rollback, duplicate, export, import).  *)
(***************************************************************************)
GatedVersionsSigned ==
  \A k \in Live(rules) : \A n \in DOMAIN rules[k].versions :
    rules[k].versions[n].gated => rules[k].versions[n].definition \in signed

(***************************************************************************)
(* The status "published" says the draft holds no unpublished change: the  *)
(* newest version, the one clients are served, is the draft.               *)
(***************************************************************************)
PublishedIsServed ==
  \A k \in Live(rules) : rules[k].status = "published" =>
    LET m == LastVersion(rules[k].versions)
    IN m # 0 /\ rules[k].versions[m].definition = rules[k].draft

VersionsKept ==
  \A k \in Live(rules) : \A n \in DOMAIN rules[k].versions :
    /\ n \in DOMAIN rules'[k].versions
    /\ rules'[k].versions[n] = rules[k].versions[n]

(***************************************************************************)
(* Only an import changes or removes a published version                   *)
(* (docs/rule-format.md calls them immutable).                             *)
(***************************************************************************)
VersionsImmutableUnlessImported == [][VersionsKept \/ ImportBundle]_vars

(***************************************************************************)
(* An archived rule set stays archived, whatever is done to its draft,     *)
(* until an import brings back an earlier state of it.                     *)
(***************************************************************************)
ArchivedUnlessImported ==
  [][\/ \A k \in Live(rules) : rules[k].status = "archived" =>
                                 rules'[k].status = "archived"
     \/ ImportBundle]_vars
=============================================================================
