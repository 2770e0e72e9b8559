--------------------------- MODULE CampaignActions --------------------------
(***************************************************************************)
(* Actions on all the assets of a campaign: the administration page asks   *)
(* for a dry run, shows how much would be affected, and on confirmation    *)
(* asks for the same without dry_run (runCampaignBulkAction of             *)
(* public/app.js; applyCampaignAction and moveCampaignAssets of server.js).*)
(*                                                                         *)
(* The loops await only the synchronous store, so a request is one step.   *)
(* An asset is a row of rule_sets or messages, reduced to its status, its  *)
(* campaign label and, for a rule set, whether it is submitted for review. *)
(* Rule keys are normalised when they are created, message ids are not:    *)
(* CopyId says which id an asset's copy gets, perhaps another's too.       *)
(***************************************************************************)
EXTENDS Naturals, Sequences, FiniteSets, SequencesExt

CONSTANTS
    RuleIds,       \* decision keys
    MessageIds,    \* message ids
    CopyId(_),     \* normalizeCampaignDuplicateId(id, suffix)
    Campaigns,     \* campaign labels, "Unassigned" among them
    MaxRequests,   \* bound on the dry runs and on what other people do
    NoAsset        \* no such asset, nothing asked

VARIABLES
    assets,     \* the rule_sets and messages tables
    workflow,   \* settings.approval_workflow_enabled
    preview,    \* the dry run the page has shown, waiting for confirmation
    undisturbed,\* history: nobody has changed an asset since that dry run
    done,       \* history: the action carried out last
    requests    \* dry runs, and what other people have done, counted

campaignVars == <<assets, workflow, preview, undisturbed, done, requests>>

Ids == RuleIds \cup MessageIds
Asset(id) == [status : IF id \in RuleIds THEN {"draft", "published", "archived"} ELSE {"active", "archived"},
              campaign : Campaigns, submitted : IF id \in RuleIds THEN BOOLEAN ELSE {FALSE}]
Bulk == {"submit_review", "archive", "duplicate", "move"}

\* Rule sets and messages are in tables of their own, and so are their copies.
ASSUME AssetsAssumption ==
    /\ IsFiniteSet(RuleIds) /\ IsFiniteSet(MessageIds) /\ RuleIds \cap MessageIds = {}
    /\ \A id \in RuleIds : CopyId(id) \notin MessageIds
    /\ \A id \in MessageIds : CopyId(id) \notin RuleIds

-----------------------------------------------------------------------------
(* listCampaignAssets, in the order of the listing *)
listCampaignAssets(table, campaign) ==
    SetToSeq({id \in Ids : table[id] # NoAsset /\ table[id].campaign = campaign})

\* The reasons to skip an asset.
MutSkipNoTarget(table, action, id) ==
    CASE action = "submit_review" -> id \in MessageIds \/ table[id].status = "archived"
      [] action = "archive"       -> table[id].status = "archived"
      [] OTHER                    -> FALSE
skip(table, action, id) ==
    CASE action = "submit_review" -> id \in MessageIds \/ table[id].status = "archived"
      [] action = "archive"       -> table[id].status = "archived"
      [] action = "duplicate"     -> table[CopyId(id)] # NoAsset
      [] OTHER                    -> FALSE

(* setRuleApproval, archiveRuleSet and upsertMessage, duplicateRuleSet and
   upsertMessage, setRuleCampaign and setMessageCampaign *)
affect(table, action, target, id) ==
    CASE action = "submit_review" -> [table EXCEPT ![id].submitted = TRUE]
      [] action = "archive"       -> [table EXCEPT ![id].status = "archived"]
      [] action = "duplicate"     ->
            [table EXCEPT ![CopyId(id)] =
                [table[id] EXCEPT !.status = IF id \in RuleIds THEN "draft" ELSE "active"]]
      [] action = "move"          -> [table EXCEPT ![id].campaign = target]

(* the loop over the assets: what it affects and leaves behind *)
affectOne(was, action, target, dryRun, id) ==
    IF skip(was.assets, action, id) THEN was
    ELSE [affected |-> was.affected \cup {id},
          assets |-> IF dryRun THEN was.assets ELSE affect(was.assets, action, target, id)]

applyCampaignAction(campaign, action, target, dryRun) ==
    LET listed == IF action = "move" /\ target = campaign THEN <<>> ELSE listCampaignAssets(assets, campaign)
        after[n \in 0 .. Len(listed)] ==
          IF n = 0 THEN [affected |-> {}, assets |-> assets]
          ELSE affectOne(after[n - 1], action, target, dryRun, listed[n])
    IN  after[Len(listed)]

-----------------------------------------------------------------------------
CampaignInit ==
    /\ assets \in {table \in [Ids -> UNION {Asset(id) : id \in Ids} \cup {NoAsset}] :
                     \A id \in Ids : table[id] # NoAsset =>
                        /\ table[id] \in Asset(id)
                        /\ ~ table[id].submitted
                        /\ table[id].status \in {"published", "active"}}
    /\ workflow \in BOOLEAN
    /\ preview = NoAsset /\ undisturbed = FALSE /\ done = NoAsset /\ requests = 0

\* With the approval workflow off, a review request is a 400, dry run or not.
Accepted(action) == action = "submit_review" => workflow

OneRequest == requests < MaxRequests /\ requests' = requests + 1

(* the dry run, and the question the page asks *)
Preview(campaign, action, target) ==
    /\ OneRequest
    /\ preview = NoAsset
    /\ Accepted(action)
    /\ action = "duplicate" => \A id \in ToSet(listCampaignAssets(assets, campaign)) : CopyId(id) \in Ids
    /\ preview' = [campaign |-> campaign, action |-> action, target |-> target,
                   affected |-> applyCampaignAction(campaign, action, target, TRUE).affected]
    /\ undisturbed' = TRUE /\ done' = NoAsset
    /\ UNCHANGED <<assets, workflow>>

(* the person confirms: the same request again, without dry_run *)
Confirm ==
    /\ preview # NoAsset
    /\ Accepted(preview.action)
    /\ preview.action = "duplicate" =>
         \A id \in ToSet(listCampaignAssets(assets, preview.campaign)) : CopyId(id) \in Ids
    /\ LET result == applyCampaignAction(preview.campaign, preview.action, preview.target, FALSE)
       IN  /\ assets' = result.assets
           /\ done' = [asked |-> preview, undisturbed |-> undisturbed, affected |-> result.affected,
                       before |-> assets]
    /\ preview' = NoAsset /\ undisturbed' = FALSE
    /\ UNCHANGED <<workflow, requests>>

(* the person declines, or the approval workflow is off by now *)
Decline ==
    /\ preview # NoAsset
    /\ preview' = NoAsset /\ undisturbed' = FALSE
    /\ UNCHANGED <<assets, workflow, done, requests>>

Others == OneRequest /\ undisturbed' = FALSE /\ done' = NoAsset

(* moveCampaignAssets with one asset: skipped in its target already *)
moveCampaignAssets(id, target) ==
    /\ Others
    /\ assets[id] # NoAsset
    /\ assets[id].campaign # target
    /\ assets' = affect(assets, "move", target, id)
    /\ UNCHANGED <<workflow, preview>>

(* a rule set or message is created, or archived by itself *)
OthersSave(id) ==
    /\ Others
    /\ \/ /\ assets[id] = NoAsset
          /\ \E asset \in Asset(id) : asset.status \in {"draft", "active"} /\ ~ asset.submitted
                                      /\ assets' = [assets EXCEPT ![id] = asset]
       \/ /\ assets[id] # NoAsset
          /\ assets[id].status # "archived"
          /\ assets' = affect(assets, "archive", NoAsset, id)
    /\ UNCHANGED <<workflow, preview>>

(* PUT /v1/settings *)
SwitchWorkflow ==
    /\ Others
    /\ workflow' = ~ workflow
    /\ UNCHANGED <<assets, preview>>

CampaignNext ==
    \/ \E campaign, target \in Campaigns, action \in Bulk :
          /\ action # "move" => target = campaign
          /\ Preview(campaign, action, target)
    \/ Confirm
    \/ Decline
    \/ \E id \in Ids : OthersSave(id) \/ \E target \in Campaigns : moveCampaignAssets(id, target)
    \/ SwitchWorkflow

CampaignSpec == CampaignInit /\ [][CampaignNext]_campaignVars

-----------------------------------------------------------------------------
CampaignTypeOK ==
    /\ \A id \in Ids : assets[id] = NoAsset \/ assets[id] \in Asset(id)
    /\ workflow \in BOOLEAN
    /\ preview # NoAsset => preview.affected \subseteq Ids

\* Two assets of one action whose copies get the same id.
Collide(affected) == \E x, y \in affected : x # y /\ CopyId(x) = CopyId(y)

\* The rows the action has written.
Written(asked) == IF asked.action = "duplicate" THEN {CopyId(id) : id \in asked.affected} ELSE asked.affected

(***************************************************************************)
(* What a person confirms is what is done: with nobody's change since the  *)
(* dry run the action affects the assets the dry run listed, writes their  *)
(* rows or copies and no other, and a copy never replaces an asset there   *)
(* was, although the dry run reads one table all along and the loop what   *)
(* it has just written.  Two message ids whose copies get one id are the   *)
(* exception: the dry run counts both, the loop finds the first's copy.    *)
(***************************************************************************)
ConfirmedIsDone ==
    (/\ done # NoAsset /\ done.undisturbed
     /\ done.asked.action = "duplicate" => ~ Collide(done.asked.affected))
      => /\ done.affected = done.asked.affected
         /\ \A id \in Ids \ Written(done.asked) : assets[id] = done.before[id]
         /\ done.asked.action = "duplicate" =>
               \A id \in Written(done.asked) : done.before[id] = NoAsset
=============================================================================
