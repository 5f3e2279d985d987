----------------------------- MODULE MCCfyCommand ------------------------------
(* An instance of CfyCommand for TLC.  Agent filters: two tenants, one with   *)
(* five instances of two deployments on three pages.  Plugins update: three   *)
(* blueprints of two tenants in pages of two.  Certificates: two managers.    *)
EXTENDS CfyCommand

CONSTANTS mine, other, d1, d2, host, extra,
          m1, a1, b1, b2, b3, c1, k1, v1, v2, s1, s2, p1, p2,
          db, r1, ma, mb, x1, x2, x3, n1, n2, q1, q2, e1, e2

MCNodesOf ==
  (<<mine, d1>> :> {host}) @@ (<<mine, d2>> :> {host, extra}) @@ (<<other, d1>> :> {extra})

Instance(d, compute, up) == [dep |-> d, compute |-> compute, started |-> up]
MCInventories ==
  {[t \in {mine, other} |->
      IF t = mine
      THEN <<Instance(d1, TRUE, x), Instance(d2, FALSE, FALSE), Instance(d1, TRUE, y),
             Instance(d2, TRUE, z), Instance(d2, TRUE, TRUE)>>
      ELSE <<Instance(d1, TRUE, w)>>] : x, y, z, w \in BOOLEAN}
\* With what FilteringReturns is about: no tenant loses its last deployment
\* before its last page.
MCInventoriesKept ==
  {inv \in MCInventories : inv[mine][1].started \/ inv[mine][4].started}

\* What the manager does with the ids of nodes matters only when there are any.
MCRequests ==
  {r \in [instances : {{}, {<<mine, 1>>}, {<<mine, 2>>, <<other, 1>>}, {<<mine, 9>>}},
          deployments : {{}, {d1}, {d1, d2}}, nodes : {{}, {extra}, {host}},
          allTenants : BOOLEAN, idsHonoured : BOOLEAN] :
     r.nodes = {} \/ r.instances # {} => r.idsHonoured}

MCTenantNumber == (b1 :> 1) @@ (b2 :> 1) @@ (b3 :> 2)
MCInitialLists == {<<b1, b2, b3>>, <<b1, b3>>}

MCInitialLabels == {{}, {<<k1, v1>>}}

MCNodeNames == {<<"manager", 1>>, <<"manager", 2>>, <<"broker", 1>>, <<"db", 1>>}
MCMembers == <<db, r1, ma, mb>>
MCKindOf ==
  (db :> "postgresql_server") @@ (r1 :> "rabbitmq") @@ (ma :> "manager") @@ (mb :> "manager")

\* Two profiles, whose keys are at different places or, the second's, unset.
MCBeginnings ==
  {<<(n1 :> {q1}) @@ (n2 :> q), (q1 :> e1) @@ (q2 :> e2)>> : q \in {{q2}, {}}}

MCDeploymentRuns == <<x1, x2, x3>>
=============================================================================
