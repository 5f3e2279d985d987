----------------------------- MODULE AgentFilters -----------------------------
(***************************************************************************)
(* Which deployments `cfy agents install' and `cfy agents validate' work   *)
(* on (commands/agents.py, get_filters_map): the filters are applied to    *)
(* lists got from the manager, and the deployments of each tenant that     *)
(* have an agent host which is not up are taken out again while the        *)
(* tenant's node instances are paged through.                              *)
(*                                                                         *)
(* A deployment is a pair of a tenant and an id, a node instance a record  *)
(* [dep, compute, started] in its tenant's list.  The manager's lists do   *)
(* not change while the command reads them.  Whether its list of nodes     *)
(* honours the ids it is asked for is open: the command's comments count   *)
(* on it, the manager of the repository's own tests returns every node.    *)
(***************************************************************************)
EXTENDS Naturals, Sequences, FiniteSets, Functions

CONSTANTS
  Tenants,
  CurrentTenant,  \* the tenant of the client
  NodesOf,        \* for each deployment <<tenant, id>>, the ids of its nodes
  PageSize,       \* pagination.size
  Inventories,    \* the lists of node instances the tenants may have
  Requests        \* what the user may ask for

\* An instance is one of a deployment of its tenant.
ASSUME FilterAssumption ==
  LET Ids == {d[2] : d \in DOMAIN NodesOf}
  IN  /\ CurrentTenant \in Tenants /\ PageSize \in Nat \ {0}
      /\ DOMAIN NodesOf \subseteq Tenants \X Ids
      /\ Inventories \subseteq [Tenants -> Seq([dep : Ids, compute : BOOLEAN, started : BOOLEAN])]
      /\ \A inv \in Inventories : \A t \in Tenants : \A i \in DOMAIN inv[t] :
           <<t, inv[t][i].dep>> \in DOMAIN NodesOf
      /\ \A r \in Requests : r.instances \subseteq Tenants \X Nat

VARIABLES
  request,        \* agent_filters and all_tenants
  instances,      \* the node instances of each tenant, in the manager's order
  filterPc,       \* where get_filters_map is, or how it ended
  tenantKeys,     \* keys of tenants_to_deployments
  selected,       \* its deployments, each with its filters
  unpaged,        \* tenants whose node instances are still to be looked at
  paging,         \* the tenant whose pages are being read, as a set of one
  offset

filterVars ==
  <<request, instances, filterPc, tenantKeys, selected, unpaged, paging, offset>>

Existing == DOMAIN NodesOf
\* client.deployments.list and client.nodes.list, with or without _all_tenants
Listed(r) == {d \in Existing : r.allTenants \/ d[1] = CurrentTenant}

\* client.nodes.list(id=requested_node_ids), the nodes of one deployment
NodesFound(r, d) == IF r.idsHonoured THEN NodesOf[d] \cap r.nodes ELSE NodesOf[d]

NoRequest == [instances |-> {}, deployments |-> {}, nodes |-> {}, allTenants |-> FALSE,
              idsHonoured |-> TRUE]

FilterInit ==
  /\ request = NoRequest
  /\ instances = [t \in Tenants |-> <<>>]
  /\ filterPc = "idle"
  /\ tenantKeys = {} /\ selected = <<>> /\ unpaged = {} /\ paging = {}
  /\ offset = 0

FilterCall(r, inv) ==
  /\ filterPc = "idle"
  /\ request' = r /\ instances' = inv
  /\ filterPc' = "read"
  /\ UNCHANGED <<tenantKeys, selected, unpaged, paging, offset>>
-----------------------------------------------------------------------------
Filter(insts, nodes) == [instances |-> insts, nodes |-> nodes]
FilterEnd(how) == filterPc' = how /\ UNCHANGED <<tenantKeys, selected, unpaged>>
Select(map) == selected' = map /\ tenantKeys' = {d[1] : d \in DOMAIN map}

\* Node instances by id exclude the other two filters, and must all exist.
SelectInstances ==
  /\ filterPc = "read" /\ request.instances # {}
  /\ IF \/ request.deployments # {} \/ request.nodes # {}
        \/ \E id \in request.instances : id[2] \notin DOMAIN instances[id[1]]
     THEN FilterEnd("error")
     ELSE LET DepOf(id) == <<id[1], instances[id[1]][id[2]].dep>>
          IN  /\ Select([d \in {DepOf(id) : id \in request.instances} |->
                           Filter({id \in request.instances : DepOf(id) = d}, {})])
              /\ filterPc' = "map" /\ UNCHANGED unpaged
  /\ UNCHANGED <<request, instances, paging, offset>>

\* Otherwise deployments are selected by their ids, which must exist, and by
\* the nodes they have; only if no id was given are the hosts looked at.
SelectDeployments ==
  /\ filterPc = "read" /\ request.instances = {}
  /\ LET byId == {d \in Listed(request) : request.deployments = {} \/ d[2] \in request.deployments}
         chosen == {d \in byId : request.nodes = {} \/ NodesFound(request, d) # {}}
     IN  IF request.deployments \subseteq {d[2] : d \in byId}
         THEN /\ Select([d \in chosen |-> Filter({}, request.nodes)])
              /\ IF request.deployments = {}
                 THEN filterPc' = "page" /\ unpaged' = {d[1] : d \in chosen}
                 ELSE filterPc' = "map" /\ unpaged' = {}
         ELSE FilterEnd("error")
  /\ UNCHANGED <<request, instances, paging, offset>>

\* for tenant_name in list(tenants_to_deployments)
NextTenant ==
  /\ filterPc = "page" /\ paging = {}
  /\ IF unpaged = {} THEN filterPc' = "map" /\ UNCHANGED <<unpaged, paging>>
     ELSE \E t \in unpaged : paging' = {t} /\ unpaged' = unpaged \ {t} /\ UNCHANGED filterPc
  /\ offset' = 0
  /\ UNCHANGED <<request, instances, tenantKeys, selected>>

InstancePage(t) == LET all == instances[t]
           IN  SubSeq(all, offset + 1, IF offset + PageSize < Len(all) THEN offset + PageSize
                                                                        ELSE Len(all))

\* (mutant) A page that is exactly full is taken for the last one.
LastPageFull(t) == Len(InstancePage(t)) <= PageSize

LastPage(t) == Len(InstancePage(t)) < PageSize \/ PageSize = Len(instances[t])

\* unstarted_computes of the page, by deployment
Unstarted(t) ==
  {<<t, ni.dep>> : ni \in {n \in Range(InstancePage(t)) : n.compute /\ ~n.started}}

\* One page: its deployments go, and the tenant's key with the last of them.
\* A further page deletes the key again, which raises KeyError.
ReadPage ==
  \E t \in paging :
    LET kept == Restrict(selected, DOMAIN selected \ Unstarted(t))
        emptied == \A d \in DOMAIN kept : d[1] # t
    IN  /\ filterPc = "page"
        /\ IF emptied /\ t \notin tenantKeys
           THEN /\ filterPc' = "KeyError"
                /\ UNCHANGED <<tenantKeys, selected, paging, offset>>
           ELSE /\ selected' = kept
                /\ tenantKeys' = IF emptied THEN tenantKeys \ {t} ELSE tenantKeys
                /\ IF LastPage(t) THEN paging' = {} /\ UNCHANGED offset
                                  ELSE offset' = offset + PageSize /\ UNCHANGED paging
                /\ UNCHANGED filterPc
        /\ UNCHANGED <<request, instances, unpaged>>

FilterStep == SelectInstances \/ SelectDeployments \/ NextTenant \/ ReadPage
FilterNext == FilterStep \/ \E r \in Requests, inv \in Inventories : FilterCall(r, inv)
-----------------------------------------------------------------------------
\* A key for every selected deployment; one tenant's pages at a time.
FilterTypeOK ==
  /\ request \in Requests \cup {NoRequest}
  /\ instances \in Inventories \/ filterPc = "idle"
  /\ filterPc \in {"idle", "read", "page", "map", "error", "KeyError"}
  /\ tenantKeys = {d[1] : d \in DOMAIN selected}
  /\ DOMAIN selected \subseteq Existing
  /\ unpaged \subseteq Tenants /\ paging \subseteq Tenants \ unpaged
  /\ Cardinality(paging) <= 1 /\ offset \in Nat

HostsAreUp(d) == \A i \in DOMAIN instances[d[1]] :
  LET ni == instances[d[1]][i] IN ni.dep = d[2] /\ ni.compute => ni.started

\* "an intersection between the union of all specified node IDs and the union
\* of all specified deployment IDs", less, if no deployment was named, those
\* with a Compute instance that is not started: however the instances are
\* spread over pages and tenants, exactly these deployments get an execution.
\* The command relies on the manager for the nodes: one that lists them all
\* makes the node filter select every deployment that has any ("filtering by
\* just node-id, still returns deployments that don't have that node", in the
\* test of the all-tenants map).
SelectsEligible ==
  filterPc = "map" =>
    DOMAIN selected =
      IF request.instances # {}
      THEN {d \in Existing : \E id \in request.instances :
              d = <<id[1], instances[id[1]][id[2]].dep>>}
      ELSE {d \in Existing :
              /\ request.allTenants \/ d[1] = CurrentTenant
              /\ request.deployments # {} => d[2] \in request.deployments
              /\ request.nodes # {} /\ request.idsHonoured => NodesOf[d] \cap request.nodes # {}
              /\ request.nodes # {} /\ ~request.idsHonoured => NodesOf[d] # {}
              /\ request.deployments = {} => HostsAreUp(d)}

\* The lists are filtered exactly, and consistent while they are.
FilterInv == FilterTypeOK /\ SelectsEligible

\* The comment of the loop: "filter out deployments that have at least one
\* Compute instance that is not in started state" - filtering ends with a map,
\* empty or not, or with the errors for what does not exist.
FilteringReturns == filterPc # "KeyError"
=============================================================================
