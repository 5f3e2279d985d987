-------------------------- MODULE ReplaceCertificates --------------------------
(***************************************************************************)
(* `cfy certificates replace' (commands/certificates.py and                *)
(* replace_certificates_config.py): check everything, have the agents      *)
(* trust the old and the new CAs, replace the certificates of one node     *)
(* after the other over SSH, and only then give up the old CAs.  The       *)
(* command stops at the first error and undoes nothing.                    *)
(*                                                                         *)
(* A certificate stands for the CA that signed it, "old" or "new"; a node  *)
(* whose certificate is replaced under the same CA keeps "old".  A manager *)
(* has two, an internal one, which the agents are served, and an external  *)
(* one, each with a CA of its own; which of them the client is served is   *)
(* open.  The nodes are those of a cluster, not of an all-in-one manager.  *)
(***************************************************************************)
EXTENDS Naturals, Sequences

CONSTANTS
  Members,         \* the databases, brokers and managers, in this order
  KindOf,          \* postgresql_server, rabbitmq or manager, for each
  StatusAttempts   \* stop_max_attempt_number

ASSUME CertificatesAssumption ==
  /\ Members \in Seq(DOMAIN KindOf)
  /\ DOMAIN KindOf = {Members[i] : i \in DOMAIN Members}
  /\ \A m \in DOMAIN KindOf : KindOf[m] \in {"postgresql_server", "rabbitmq", "manager"}
  /\ StatusAttempts \in Nat \ {0}

Kinds == {"postgresql_server", "rabbitmq", "manager"}
AgentKinds == {"rabbitmq", "manager"}   \* what agents connect to

VARIABLES
  config,        \* the kinds with new certificates and with new CAs, and what
                 \* is new of the managers' external certificates
  verifies,      \* the managers' certificate the client verifies, if
                 \* profile.rest_certificate is set
  certsPc,       \* where the command is
  node,          \* the next node
  attempts,      \* of _validate_status_ok
  staged,        \* nodes that have the new certificates and validated them
  signedBy,      \* the CA of each node's certificate, a manager's internal one
  outside,       \* the CA of the managers' external certificates
  agentsTrust,   \* the CAs the agents trust a kind of nodes with
  clientTrusts   \* the CA the client verifies the managers with

certVars == <<config, verifies, certsPc, node, attempts, staged, signedBy, outside,
              agentsTrust, clientTrusts>>

Managers == {m \in DOMAIN KindOf : KindOf[m] = "manager"}

CertInit ==
  /\ config = [nodes |-> {}, newCA |-> {}, external |-> {}] /\ verifies = "none"
  /\ certsPc = "idle" /\ node = 1 /\ attempts = 0 /\ staged = {}
  /\ signedBy = [m \in DOMAIN KindOf |-> "old"] /\ outside = [m \in Managers |-> "old"]
  /\ agentsTrust = [k \in AgentKinds |-> {"old"}]
  /\ clientTrusts = "old"
-----------------------------------------------------------------------------
CertGoto(where) == certsPc' = where
HasNewCA(k) == k \in config.newCA

\* validate_config_dict: a new CA needs new certificates for all of its kind.
ReplaceCall(nodes, newCA, external, cert) ==
  /\ certsPc = "idle"
  /\ config' = [nodes |-> nodes, newCA |-> newCA, external |-> external]
  /\ verifies' = cert
  /\ CertGoto(IF newCA \subseteq nodes /\ external # {"CA"} THEN "status" ELSE "failed")
  /\ UNCHANGED <<node, attempts, staged, signedBy, outside, agentsTrust, clientTrusts>>

\* A request goes to a manager whose certificate the client can verify.
Answered ==
  \/ verifies = "none"
  \/ \E m \in Managers :
       clientTrusts = IF verifies = "internal" THEN signedBy[m] ELSE outside[m]

\* _validate_status_ok, with its retries, before and after.
ValidateStatus ==
  /\ certsPc \in {"status", "final_status"}
  /\ \/ /\ Answered /\ attempts' = 0
        /\ CertGoto(IF certsPc = "status" THEN "validate" ELSE "replaced")
     \/ /\ attempts' = attempts + 1
        /\ CertGoto(IF attempts' = StatusAttempts THEN "failed" ELSE certsPc)
  /\ UNCHANGED <<config, verifies, node, staged, signedBy, outside, agentsTrust, clientTrusts>>

\* The relevant nodes are those with something to replace; the managers are
\* given the new CAs of the others.
Relevant(m) ==
  \/ KindOf[m] \in config.nodes
  \/ KindOf[m] = "manager" /\ (config.newCA # {} \/ config.external # {})

\* for node in relevant_nodes: node.validate_certificates()
ValidateNode ==
  /\ certsPc = "validate" /\ node <= Len(Members)
  /\ \/ /\ staged' = IF Relevant(Members[node]) THEN staged \cup {Members[node]} ELSE staged
        /\ node' = node + 1 /\ UNCHANGED certsPc
     \/ /\ Relevant(Members[node]) /\ CertGoto("failed") /\ UNCHANGED <<node, staged>>
  /\ UNCHANGED <<config, verifies, attempts, signedBy, outside, agentsTrust, clientTrusts>>

\* (mutant) The agents are given the new CAs instead of both.
BundleNewOnly == {"new"}

\* The CAs in the bundle.
Bundle == {"old", "new"}

\* _pass_new_ca_certs_to_agents: the request may also fail when it is done.
Trusting(cas) == [k \in AgentKinds |-> IF HasNewCA(k) THEN cas ELSE agentsTrust[k]]

\* bundle=True
PassBundle ==
  /\ certsPc = "validate" /\ node > Len(Members)
  /\ \/ /\ Answered \/ config.newCA \cap AgentKinds = {}
        /\ agentsTrust' = Trusting(Bundle)
        /\ CertGoto("replace") /\ node' = 1
     \/ /\ config.newCA \cap AgentKinds # {}
        /\ agentsTrust' \in {agentsTrust, Trusting(Bundle)}
        /\ CertGoto("failed") /\ UNCHANGED node
  /\ UNCHANGED <<config, verifies, attempts, staged, signedBy, outside, clientTrusts>>

\* for node in relevant_nodes: node.replace_certificates(); a command that
\* failed may have replaced them.
ReplaceNode ==
  /\ certsPc = "replace" /\ node <= Len(Members)
  /\ LET m == Members[node]
         replaced == IF HasNewCA(KindOf[m]) THEN [signedBy EXCEPT ![m] = "new"] ELSE signedBy
         shown == IF m \in Managers /\ "CA" \in config.external
                  THEN [outside EXCEPT ![m] = "new"] ELSE outside
     IN  \/ /\ signedBy' = replaced /\ outside' = shown
            /\ node' = node + 1 /\ UNCHANGED certsPc
         \/ /\ Relevant(m) /\ signedBy' \in {signedBy, replaced} /\ outside' \in {outside, shown}
            /\ CertGoto("failed") /\ UNCHANGED node
  /\ UNCHANGED <<config, verifies, attempts, staged, agentsTrust, clientTrusts>>

\* _handle_new_ca_certs: the profile is saved and the client made again, with
\* the managers' internal CA.
SwitchClient ==
  /\ certsPc = "replace" /\ node > Len(Members)
  /\ clientTrusts' = IF verifies # "none" /\ HasNewCA("manager") THEN "new" ELSE clientTrusts
  /\ CertGoto("new_CA")
  /\ UNCHANGED <<config, verifies, node, attempts, staged, signedBy, outside, agentsTrust>>

\* bundle=False
PassNewCA ==
  /\ certsPc = "new_CA"
  /\ \/ /\ Answered \/ config.newCA \cap AgentKinds = {}
        /\ agentsTrust' = Trusting({"new"}) /\ CertGoto("final_status")
     \/ /\ config.newCA \cap AgentKinds # {}
        /\ agentsTrust' \in {agentsTrust, Trusting({"new"})}
        /\ CertGoto("failed")
  /\ UNCHANGED <<config, verifies, node, attempts, staged, signedBy, outside, clientTrusts>>

CertStep == ValidateStatus \/ ValidateNode \/ PassBundle \/ ReplaceNode \/ SwitchClient \/ PassNewCA
CertNext ==
  \/ CertStep
  \/ \E nodes, newCA \in SUBSET Kinds, external \in SUBSET {"cert", "CA"},
       cert \in {"none", "internal", "external"} : ReplaceCall(nodes, newCA, external, cert)
-----------------------------------------------------------------------------
CertTypeOK ==
  /\ config \in [nodes : SUBSET Kinds, newCA : SUBSET Kinds, external : SUBSET {"cert", "CA"}]
  /\ verifies \in {"none", "internal", "external"}
  /\ certsPc \in {"idle", "status", "validate", "replace", "new_CA", "final_status",
                  "replaced", "failed"}
  /\ node \in 1 .. Len(Members) + 1 /\ attempts \in 0 .. StatusAttempts
  /\ staged \subseteq DOMAIN KindOf
  /\ signedBy \in [DOMAIN KindOf -> {"old", "new"}] /\ outside \in [Managers -> {"old", "new"}]
  /\ agentsTrust \in [AgentKinds -> (SUBSET {"old", "new"}) \ {{}}] /\ clientTrusts \in {"old", "new"}

\* "Passing a bundle of the old+new CA certs to the agents": wherever the
\* command stops, the agents can verify every manager and broker there is.
AgentsTrustAll == \A m \in DOMAIN KindOf :
  KindOf[m] \in AgentKinds => signedBy[m] \in agentsTrust[KindOf[m]]

\* No node is touched, and no agent, before every node has the new
\* certificates and found them valid.
ValidatedFirst ==
  \/ \E m \in DOMAIN KindOf : signedBy[m] = "new"
  \/ \E m \in Managers : outside[m] = "new"
  \/ \E k \in AgentKinds : agentsTrust[k] # {"old"}
  => {m \in DOMAIN KindOf : Relevant(m)} \subseteq staged

\* A client that is served the internal certificates is switched to the new CA
\* not before every manager has one from it, and before its next request: it
\* can verify all managers, but for a replacement that stops between the first
\* manager and the switch, which leaves it with the old CA.  (Nothing of the
\* kind holds for one that is served the external certificates: it is given
\* the CA of the internal ones as well.)
ClientTrustsManagers ==
  verifies = "internal" =>
    /\ clientTrusts = "new" => \A m \in Managers : signedBy[m] = "new"
    /\ certsPc \notin {"replace", "failed"} => \A m \in Managers : signedBy[m] = clientTrusts

\* The agents are not cut off however far the replacement gets, nor is the
\* client once it is through.
CertInv == CertTypeOK /\ AgentsTrustAll /\ ValidatedFirst /\ ClientTrustsManagers
=============================================================================
