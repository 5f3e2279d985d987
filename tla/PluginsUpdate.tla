----------------------------- MODULE PluginsUpdate -----------------------------
(***************************************************************************)
(* `cfy plugins update' (commands/plugins.py, update and                   *)
(* _update_a_blueprint): update the plugins of the deployments of one      *)
(* blueprint, or of all blueprints, taken from the manager page by page,   *)
(* one after the other; a failure of one does not stop the others.         *)
(*                                                                         *)
(* The manager is external: it lists blueprints by tenant and age, and     *)
(* other users upload and delete blueprints meanwhile.                     *)
(***************************************************************************)
EXTENDS Naturals, Sequences, SequencesExt, Lists

CONSTANTS
  Blueprints,     \* blueprints of all tenants, there or not yet
  TenantNumber,   \* the place of each one's tenant in the order of tenants
  InitialLists,   \* what the manager may list at first
  UpdatePageSize, \* pagination.size
  MaxDeletions    \* bound: blueprints deleted by others meanwhile

ASSUME UpdateAssumption ==
  /\ TenantNumber \in [Blueprints -> Nat]
  /\ InitialLists \subseteq Seq(Blueprints)
  /\ \A l \in InitialLists :
       /\ IsInjective(l)
       /\ \A i, j \in DOMAIN l : i < j => TenantNumber[l[i]] <= TenantNumber[l[j]]
  /\ UpdatePageSize \in Nat \ {0} /\ MaxDeletions \in Nat

VARIABLES
  listed,        \* the blueprints of the manager, in the order it lists them
  before,        \* (history) those that were there when the command began
  deletions,     \* (history) how many were deleted since
  skipped,       \* --except-blueprint
  updatePc,
  onPage,        \* what is left of the page
  pageOffset,    \* pagination_offset
  lastOne,       \* whether the page is the last one
  successful, failed,   \* update_results
  broken,        \* (history) blueprints whose update failed at least once
  updateResult

updateVars == <<listed, before, deletions, skipped, updatePc, onPage, pageOffset, lastOne,
                successful, failed, broken, updateResult>>
othersVars == <<listed, before, deletions>>
argVars == <<skipped, before>>

UpdateInit ==
  /\ listed \in InitialLists
  /\ before = {} /\ deletions = 0 /\ skipped = {}
  /\ updatePc = "idle" /\ onPage = <<>> /\ pageOffset = 0 /\ lastOne = FALSE
  /\ successful = <<>> /\ failed = <<>> /\ broken = {}
  /\ updateResult = "none"
-----------------------------------------------------------------------------
\* Other users: the list is sorted by tenant, the newest last.
OthersUpload(b) ==
  /\ b \notin ToSet(listed)
  /\ \E i \in 1 .. Len(listed) + 1 :
       /\ \A j \in DOMAIN listed : j < i <=> TenantNumber[listed[j]] <= TenantNumber[b]
       /\ listed' = InsertAt(listed, i, b)
  /\ UNCHANGED deletions
OthersDelete(b) ==
  /\ b \in ToSet(listed) /\ deletions < MaxDeletions
  /\ listed' = Filtered(listed, Blueprints \ {b})
  /\ deletions' = deletions + 1
Others ==
  /\ updatePc \notin {"idle", "done"}
  /\ \E b \in Blueprints : OthersUpload(b) \/ OthersDelete(b)
  /\ UNCHANGED <<argVars, updatePc, onPage, pageOffset, lastOne, successful, failed, broken,
                 updateResult>>

\* The arguments; an option that lists plugins counts as given or not, and
\* --all-to-latest may also be left out.
UpdateArgs ==
  [blueprint : {{}} \cup {{b} : b \in Blueprints}, all : BOOLEAN, except : SUBSET Blueprints,
   allToLatest : {"yes", "no", "unset"}, toLatest : BOOLEAN,
   allToMinor : BOOLEAN, toMinor : BOOLEAN]

\* The checks before the first request.
ValidUpdate(a) ==
  LET allToLatest == a.allToLatest = "yes" \/ (a.allToLatest = "unset" /\ ~a.allToMinor)
  IN  /\ (a.blueprint # {}) # a.all
      /\ a.except # {} => a.all
      /\ allToLatest # a.allToMinor
      /\ ~(a.toLatest /\ allToLatest) /\ ~(a.toMinor /\ a.allToMinor)

UpdateCall(a) ==
  /\ updatePc = "idle"
  /\ before' = ToSet(listed)
  /\ skipped' = a.except
  /\ IF ~ValidUpdate(a)
     THEN updatePc' = "done" /\ updateResult' = "invalid" /\ UNCHANGED onPage
     ELSE /\ UNCHANGED updateResult
          /\ IF a.all THEN updatePc' = "list" /\ UNCHANGED onPage
             ELSE updatePc' = "one" /\ onPage' = SetToSeq(a.blueprint)
  /\ UNCHANGED <<listed, deletions, pageOffset, lastOne, successful, failed, broken>>
-----------------------------------------------------------------------------
\* (mutant) A full page is the last one if nothing on it was skipped.
LastByLength(page) == Len(page) <= UpdatePageSize

IsLastPage(page) == Len(page) < UpdatePageSize

ListBlueprints ==
  LET page == SubSeq(listed, pageOffset + 1,
                     IF pageOffset + UpdatePageSize < Len(listed)
                     THEN pageOffset + UpdatePageSize ELSE Len(listed))
  IN  /\ updatePc = "list"
      /\ onPage' = page
      /\ lastOne' = IsLastPage(page)
      /\ pageOffset' = pageOffset + UpdatePageSize
      /\ updatePc' = "update"
      /\ UNCHANGED <<othersVars, skipped, successful, failed, broken, updateResult>>

UpdateEnd(r) == updatePc' = "done" /\ updateResult' = r

\* except_blueprints
SkipBlueprint ==
  /\ updatePc = "update" /\ onPage # <<>> /\ Head(onPage) \in skipped
  /\ onPage' = Tail(onPage)
  /\ UNCHANGED <<othersVars, skipped, updatePc, pageOffset, lastOne, successful, failed, broken,
                 updateResult>>

\* Which of the two lists the blueprint is put in.
Result(b, how) ==
  IF how \in {"refused", "failed"} THEN failed' = Append(failed, b) /\ UNCHANGED successful
                                   ELSE successful' = Append(successful, b) /\ UNCHANGED failed

\* _update_a_blueprint and its wait (module ExecutionWait): the request is
\* refused, or the execution ends; a cancelled one has no error.  A blueprint
\* that is gone is refused.
UpdateBlueprint ==
  /\ updatePc = "update" /\ onPage # <<>> /\ Head(onPage) \notin skipped
  /\ LET b == Head(onPage)
     IN  \E how \in {"refused", "failed", "terminated", "cancelled"} :
           /\ b \notin ToSet(listed) => how = "refused"
           /\ Result(b, how)
           /\ broken' = IF how \in {"refused", "failed"} THEN broken \cup {b} ELSE broken
  /\ onPage' = Tail(onPage)
  /\ UNCHANGED <<othersVars, skipped, updatePc, pageOffset, lastOne, updateResult>>

\* With a BLUEPRINT_ID the error is the command's.
UpdateOne ==
  /\ updatePc = "one"
  /\ \E how \in {"refused", "failed", "terminated", "cancelled"} :
       UpdateEnd(IF how \in {"refused", "failed"} THEN "error" ELSE "updated")
  /\ UNCHANGED <<othersVars, skipped, onPage, pageOffset, lastOne, successful, failed, broken>>

\* Any other exception than the two that are caught ends the command.
UpdateRaises ==
  /\ updatePc \in {"list", "update", "one"} /\ (updatePc = "update" => onPage # <<>>)
  /\ UpdateEnd("raised")
  /\ UNCHANGED <<othersVars, skipped, onPage, pageOffset, lastOne, successful, failed, broken>>

EndOfPage ==
  /\ updatePc = "update" /\ onPage = <<>>
  /\ IF lastOne THEN UpdateEnd("summary") ELSE updatePc' = "list" /\ UNCHANGED updateResult
  /\ UNCHANGED <<othersVars, skipped, onPage, pageOffset, lastOne, successful, failed, broken>>

UpdateStep == ListBlueprints \/ SkipBlueprint \/ UpdateBlueprint \/ UpdateOne \/ EndOfPage
UpdateNext == UpdateStep \/ UpdateRaises \/ Others \/ \E a \in UpdateArgs : UpdateCall(a)
-----------------------------------------------------------------------------
\* Types of the variables.
UpdateTypeOK ==
  /\ listed \in Seq(Blueprints) /\ IsInjective(listed)
  /\ before \subseteq Blueprints /\ skipped \subseteq Blueprints
  /\ deletions \in 0 .. MaxDeletions
  /\ updatePc \in {"idle", "one", "list", "update", "done"}
  /\ onPage \in Seq(Blueprints)
  /\ pageOffset \in Nat /\ lastOne \in BOOLEAN
  /\ successful \in Seq(Blueprints) /\ failed \in Seq(Blueprints)
  /\ broken \subseteq Blueprints
  /\ updateResult \in {"none", "invalid", "error", "updated", "raised", "summary"}

\* Every blueprint is in the summary, once the command reaches it: whatever is
\* uploaded meanwhile, and however the pages fall.  (A deletion shifts the list
\* under the offset, and may hide a blueprint.)
UpdateCoversAll ==
  updateResult = "summary" /\ deletions = 0 =>
    before \ skipped \subseteq ToSet(successful) \cup ToSet(failed)

\* "Failed blueprints" lists each one that failed, and what was excepted was
\* not touched, even when a page repeats a blueprint.
SummaryIsTrue ==
  /\ broken = ToSet(failed)
  /\ ToSet(successful) \cup ToSet(failed) \subseteq Blueprints \ skipped

\* The summary is complete and true, whoever changes the list meanwhile.
UpdateInv == UpdateTypeOK /\ UpdateCoversAll /\ SummaryIsTrue
=============================================================================
