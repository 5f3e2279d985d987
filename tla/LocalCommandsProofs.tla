-------------------------- MODULE LocalCommandsProofs --------------------------
(***************************************************************************)
(* Machine-checked proofs about the commands that CfyCommand puts side by  *)
(* side and that work on files: credentials, certificates, the local       *)
(* profile and its flows, archives, and the profile of a cluster; and of   *)
(* the maintenance mode.                                                   *)
(***************************************************************************)
EXTENDS CfyCommand, ListsProofs, FiniteSetTheorems, SequenceTheorems, TLAPS
-----------------------------------------------------------------------------
\* What any command does is a step of the authentication or leaves it alone.
LEMMA AuthSteps == [CfyNext]_cfyVars => [AuthNext]_authVars
BY DEF CfyNext, cfyVars, InAgents, InUpload, InPluginsInstall, InPluginsUpdate, InFlow, InLabels,
       InProfiles, InCluster, InCertificates, InLocal, InEvents, InMaintenance, InSchedules,
       InArchive, InLocalFlow

\* Fields that make one method have exactly that one.
LEMMA OneMethodIs ==
  ASSUME NEW f, NEW m \in MethodsIn(f), OneMethod(f)
  PROVE  MethodsIn(f) = {m}
<1>1. IsFiniteSet(MethodsIn(f))
  <2>1. IsFiniteSet({"credentials", "token", "kerberos"})
    <3>1. IsFiniteSet({"credentials"})
      BY FS_Singleton
    <3>2. IsFiniteSet({"credentials"} \cup {"token"})
      BY <3>1, FS_AddElement
    <3>3. IsFiniteSet(({"credentials"} \cup {"token"}) \cup {"kerberos"})
      BY <3>2, FS_AddElement
    <3> QED BY <3>3
  <2> QED BY <2>1, FS_Subset DEF MethodsIn, Methods
<1>2. \E x : MethodsIn(f) = {x}
  BY <1>1, FS_Singleton DEF OneMethod
<1> QED BY <1>2

\* Behind ValidatedIsUsable: the environment may have changed since the profile
\* was validated, and changed back.
ValidatedWhenSaved == \A e \in validated : OneMethod(authProfile \cup e)

AuthIInv == AuthInv /\ ValidatedWhenSaved

\* At first there are no credentials, and nothing was reported.
LEMMA AuthStarts == AuthInit => AuthIInv
BY DEF AuthInit, AuthIInv, AuthInv, AuthTypeOK, SetReplaces, ValidatedIsUsable, UsesTheMethod,
       ValidatedWhenSaved, Fields, Methods

\* What `profiles set' was given is what the profile then has.
LEMMA SetLeavesOne ==
  ASSUME NEW f \in SUBSET Fields, NEW o \in SUBSET Fields,
         NEW m \in {{"username", "password"}, {"token"}, {"kerberos"}}, o = m
  PROVE  AfterSet(f, o, FALSE) = m
BY DEF AfterSet, AfterUsername, Fields

\* A command that ends with the profile saved: validated, unless it was told not to.
LEMMA SavedIsValidated ==
  ASSUME NEW fields \in SUBSET Fields, NEW options \in SUBSET Fields, NEW skip \in BOOLEAN,
         \A m \in {{"username", "password"}, {"token"}, {"kerberos"}} : options = m => fields = m,
         AuthIInv, SaveOrFail(fields, options, skip)
  PROVE  AuthIInv'
<1> USE DEF AuthIInv, AuthInv
<1>1. used' = "none" /\ environment' = environment
  BY DEF SaveOrFail
<1>2. CASE (skip \/ Validates(fields)) /\ Save(fields, options, skip)
  <2>1. AuthTypeOK'
    BY <1>1, <1>2 DEF Save, AuthTypeOK
  <2>2. SetReplaces'
    BY <1>2 DEF Save, SetReplaces
  <2>3. ValidatedWhenSaved'
    BY <1>2 DEF Save, ValidatedWhenSaved, Validates, CredentialsSet
  <2>4. UsesTheMethod'
    BY <1>1 DEF UsesTheMethod, Methods
  <2> QED BY <2>1, <2>2, <2>3, <2>4 DEF ValidatedWhenSaved, ValidatedIsUsable
<1>3. CASE UNCHANGED <<authProfile, given, validated>>
  BY <1>1, <1>3 DEF AuthTypeOK, SetReplaces, ValidatedWhenSaved, ValidatedIsUsable,
                    UsesTheMethod, Methods
<1> QED BY <1>2, <1>3 DEF SaveOrFail

\* A client is made with the one method there is.
LEMMA MakeClientKeeps ==
  ASSUME AuthIInv, MakeClient
  PROVE  AuthIInv'
<1> USE DEF AuthIInv, AuthInv, MakeClient
<1>1. UsesTheMethod'
  <2> DEFINE f == authProfile \cup environment
  <2> SUFFICES ASSUME used' \in Methods PROVE MethodsIn(f) = {used'}
    BY DEF UsesTheMethod
  <2>1. used' = ClientMethod(authProfile) /\ OneMethod(f)
    BY DEF Methods, CredentialsSet
  <2>2. used' \in MethodsIn(f)
    BY <2>1 DEF ClientMethod, MethodsIn, Methods
  <2> QED BY <2>1, <2>2, OneMethodIs
<1>2. AuthTypeOK'
  BY DEF AuthTypeOK, ClientMethod, Methods
<1>3. SetReplaces' /\ ValidatedWhenSaved'
  BY DEF SetReplaces, ValidatedWhenSaved
<1> QED BY <1>1, <1>2, <1>3 DEF ValidatedWhenSaved, ValidatedIsUsable

\* Setting, unsetting and using a profile, and making a client, keep it.
LEMMA AuthKeeps ==
  ASSUME AuthIInv, [AuthNext]_authVars
  PROVE  AuthIInv'
<1> USE DEF AuthIInv, AuthInv
<1>1. ASSUME NEW options \in SUBSET Fields, NEW skip \in BOOLEAN, UseNewProfile(options, skip)
      PROVE  AuthIInv'
  BY <1>1, SavedIsValidated DEF UseNewProfile
<1>2. ASSUME NEW options \in SUBSET Fields, NEW skip \in BOOLEAN, UnsetProfile(options, skip)
      PROVE  AuthIInv'
  <2>1. authProfile \ options \in SUBSET Fields /\ {} \in SUBSET Fields
    BY DEF AuthTypeOK
  <2>2. \A m \in {{"username", "password"}, {"token"}, {"kerberos"}} : m # {}
    OBVIOUS
  <2> QED BY <1>2, <2>1, <2>2, SavedIsValidated DEF UnsetProfile
<1>3. ASSUME NEW options \in SUBSET Fields, NEW skip \in BOOLEAN, NEW clear \in BOOLEAN,
             SetProfile(options, clear, skip)
      PROVE  AuthIInv'
  <2> DEFINE fields == AfterSet(authProfile, options, clear)
             given1 == IF clear THEN {} ELSE options
  <2>1. fields \in SUBSET Fields /\ given1 \in SUBSET Fields /\ SaveOrFail(fields, given1, skip)
    BY <1>3 DEF SetProfile, AfterSet, AfterUsername, AuthTypeOK, Fields
  <2>2. \A m \in {{"username", "password"}, {"token"}, {"kerberos"}} : given1 = m => fields = m
    <3> SUFFICES ASSUME NEW m \in {{"username", "password"}, {"token"}, {"kerberos"}}, given1 = m
                 PROVE  fields = m
      OBVIOUS
    <3>1. clear = FALSE /\ options = m /\ authProfile \in SUBSET Fields
      BY DEF AuthTypeOK
    <3> QED BY <3>1, SetLeavesOne
  <2> HIDE DEF fields, given1
  <2> QED BY <2>1, <2>2, SavedIsValidated
<1>4. CASE MakeClient
  BY <1>4, MakeClientKeeps
<1>5. ASSUME NEW fields \in SUBSET Fields, ChangeEnvironment(fields)
      PROVE  AuthIInv'
  BY <1>5 DEF ChangeEnvironment, AuthTypeOK, SetReplaces, ValidatedWhenSaved,
              ValidatedIsUsable, UsesTheMethod, Methods
<1>6. CASE UNCHANGED authVars
  BY <1>6 DEF authVars, AuthTypeOK, SetReplaces, ValidatedWhenSaved, ValidatedIsUsable,
              UsesTheMethod
<1> QED BY <1>1, <1>2, <1>3, <1>4, <1>5, <1>6 DEF AuthNext

\* The profile authenticates with the one method it was given, a validated
\* profile is usable where it was validated, and a client uses the method there
\* is: `profiles use', `set' and `unset' and get_rest_client.
THEOREM OneMethodIsUsed == CfySpec => []AuthInv
<1>1. CfyInit => AuthIInv
  BY AuthStarts DEF CfyInit
<1>2. AuthIInv /\ [CfyNext]_cfyVars => AuthIInv'
  BY AuthSteps, AuthKeeps
<1>3. AuthIInv => AuthInv
  BY DEF AuthIInv
<1> QED BY <1>1, <1>2, <1>3, PTL DEF CfySpec
-----------------------------------------------------------------------------
\* What any command does is a step of the replacement or leaves it alone.
LEMMA CertSteps == [CfyNext]_cfyVars => [CertNext]_certVars
BY DEF CfyNext, cfyVars, InAgents, InUpload, InPluginsInstall, InPluginsUpdate, InFlow, InLabels,
       InProfiles, InCluster, InCertificates, InLocal, InEvents, InMaintenance, InSchedules,
       InArchive, InLocalFlow

\* What the phases of the command have done so far.  CertInv is not inductive
\* without them: a node gets the certificate of the new CA only when the agents
\* trust both CAs, and the old CA goes only when no node needs it.
Untouched ==
  /\ \A m \in DOMAIN KindOf : signedBy[m] = "old"
  /\ \A m \in Managers : outside[m] = "old"
  /\ \A k \in AgentKinds : agentsTrust[k] = {"old"}
  /\ clientTrusts = "old"
AllStaged == \A m \in DOMAIN KindOf : Relevant(m) => m \in staged
BundlePassed == \A k \in AgentKinds : agentsTrust[k] = IF HasNewCA(k) THEN Bundle ELSE {"old"}
Replaced(m) == HasNewCA(KindOf[m]) => signedBy[m] = "new"

CertPhase ==
  /\ certsPc \in {"status", "final_status"} => attempts < StatusAttempts
  /\ certsPc \notin {"idle", "failed"} => config.newCA \subseteq config.nodes
  /\ certsPc = "idle" => attempts = 0
  /\ certsPc \in {"idle", "status"} => node = 1
  /\ certsPc \in {"idle", "status", "validate"} => Untouched /\ attempts < StatusAttempts
  /\ certsPc = "validate" =>
       \A i \in DOMAIN Members : i < node => (Relevant(Members[i]) => Members[i] \in staged)
  /\ certsPc \in {"replace", "new_CA", "final_status", "replaced"} => AllStaged
  /\ certsPc \in {"replace", "new_CA"} => BundlePassed /\ attempts < StatusAttempts
  /\ certsPc = "replace" =>
       /\ clientTrusts = "old"
       /\ \A i \in DOMAIN Members : i < node => Replaced(Members[i])
  /\ \A m \in DOMAIN KindOf : signedBy[m] = "new" => HasNewCA(KindOf[m])
  /\ certsPc \in {"new_CA", "final_status", "replaced"} =>
       /\ \A m \in DOMAIN KindOf : Replaced(m)
       /\ clientTrusts = IF verifies # "none" /\ HasNewCA("manager") THEN "new" ELSE "old"

CertIInv == CertInv /\ CertPhase

\* The nodes that are gone through are all the nodes of the cluster.
LEMMA MembersAre ==
  /\ Len(Members) \in Nat /\ DOMAIN Members = 1 .. Len(Members)
  /\ \A i \in DOMAIN Members : Members[i] \in DOMAIN KindOf
  /\ \A m \in DOMAIN KindOf : \E i \in DOMAIN Members : m = Members[i]
  /\ \A m \in DOMAIN KindOf : KindOf[m] \in Kinds
BY CertificatesAssumption DEF Kinds

\* The status is asked for at least once.
LEMMA AttemptsAre == StatusAttempts \in Nat /\ StatusAttempts > 0
BY CertificatesAssumption

\* Before the command every node and agent has the old CA.
LEMMA CertStarts == CertInit => CertIInv
<1> SUFFICES ASSUME CertInit PROVE CertIInv
  OBVIOUS
<1> USE DEF CertInit
<1>1. CertTypeOK
  <2>1. agentsTrust \in [AgentKinds -> (SUBSET {"old", "new"}) \ {{}}]
    <3>1. {"old"} \in (SUBSET {"old", "new"}) \ {{}}
      OBVIOUS
    <3> QED BY <3>1
  <2>2. node \in 1 .. Len(Members) + 1 /\ attempts \in 0 .. StatusAttempts
    BY MembersAre, AttemptsAre
  <2>3. Managers \subseteq DOMAIN KindOf
    BY DEF Managers
  <2> QED BY <2>1, <2>2, <2>3 DEF CertTypeOK, Kinds
<1>2. AgentsTrustAll
  BY DEF AgentsTrustAll, AgentKinds
<1>3. ValidatedFirst
  BY DEF ValidatedFirst, AgentKinds
<1>4. ClientTrustsManagers
  BY DEF ClientTrustsManagers, Managers
<1>5. CertPhase
  BY MembersAre, AttemptsAre
     DEF CertPhase, Untouched, Replaced, HasNewCA, AgentKinds
<1> QED BY <1>1, <1>2, <1>3, <1>4, <1>5 DEF CertIInv, CertInv

\* The call, the checks of the status and of the certificates touch no node.
LEMMA ReplaceCallKeeps ==
  ASSUME CertIInv, NEW nodes \in SUBSET Kinds, NEW newCA \in SUBSET Kinds,
         NEW external \in SUBSET {"cert", "CA"}, NEW cert \in {"none", "internal", "external"},
         ReplaceCall(nodes, newCA, external, cert)
  PROVE  CertIInv'
<1> USE DEF CertIInv, CertInv, ReplaceCall, CertGoto
<1>1. /\ Untouched /\ node = 1 /\ attempts = 0
      /\ config' = [nodes |-> nodes, newCA |-> newCA, external |-> external]
  BY DEF CertPhase
<1>2. CertTypeOK'
  BY DEF CertTypeOK
<1>3. AgentsTrustAll'
  BY DEF AgentsTrustAll
<1>4. ValidatedFirst'
  BY <1>1 DEF ValidatedFirst, Untouched
<1>5. ClientTrustsManagers'
  BY <1>1 DEF ClientTrustsManagers, Untouched, Managers
<1>6. CertPhase'
  BY <1>1, AttemptsAre DEF CertPhase, Untouched, HasNewCA
<1> QED BY <1>2, <1>3, <1>4, <1>5, <1>6

\* The cluster's status before and after the replacement.
LEMMA ValidateStatusKeeps ==
  ASSUME CertIInv, ValidateStatus
  PROVE  CertIInv'
<1> USE DEF CertIInv, CertInv, ValidateStatus, CertGoto
<1>0. attempts < StatusAttempts /\ attempts \in Nat /\ StatusAttempts \in Nat /\ StatusAttempts > 0
  <2>1. attempts \in 0 .. StatusAttempts /\ certsPc \in {"status", "final_status"}
    BY DEF CertTypeOK
  <2>2. attempts < StatusAttempts
    BY <2>1 DEF CertPhase
  <2> HIDE DEF ValidateStatus
  <2>3. attempts \in Nat
    BY <2>1, AttemptsAre
  <2> QED BY <2>2, <2>3, AttemptsAre
<1>1. attempts' \in 0 .. StatusAttempts /\ (certsPc' # "failed" => attempts' < StatusAttempts)
  <2>1. \/ attempts' = 0 /\ certsPc' \in {"validate", "replaced"}
        \/ attempts' = attempts + 1 /\ (attempts' = StatusAttempts => certsPc' = "failed")
    OBVIOUS
  <2> QED BY <2>1, <1>0
<1>2. CertTypeOK'
  BY <1>1 DEF CertTypeOK
<1>3. AgentsTrustAll'
  BY DEF AgentsTrustAll
<1>4. ValidatedFirst'
  BY DEF ValidatedFirst, Relevant
<1>5. ClientTrustsManagers'
  BY DEF ClientTrustsManagers
<1>6. CertPhase'
  <2>1. Untouched' = Untouched /\ AllStaged' = AllStaged /\ BundlePassed' = BundlePassed
    BY DEF Untouched, HasNewCA, AllStaged, Relevant, BundlePassed
  <2>2. \A m \in DOMAIN KindOf : Replaced(m)' = Replaced(m)
    BY DEF Replaced, HasNewCA
  <2>3. CASE certsPc = "status"
    <3>1. node = 1 /\ Untouched
      BY <2>3 DEF CertPhase
    <3> QED BY <2>1, <2>3, <3>1, <1>1, MembersAre DEF CertPhase, HasNewCA, Untouched
  <2>4. CASE certsPc = "final_status"
    BY <2>1, <2>2, <2>4, <1>1 DEF CertPhase, HasNewCA
  <2> QED BY <2>3, <2>4
<1> QED BY <1>2, <1>3, <1>4, <1>5, <1>6

\* A node's new certificates are validated; nothing is replaced yet.
LEMMA ValidateNodeKeeps ==
  ASSUME CertIInv, ValidateNode
  PROVE  CertIInv'
<1> USE DEF CertIInv, CertInv, ValidateNode, CertGoto
<1>0. node \in DOMAIN Members /\ Members[node] \in DOMAIN KindOf /\ node \in Nat
  BY MembersAre DEF CertTypeOK
<1>1. node' \in 1 .. Len(Members) + 1
  BY <1>0, MembersAre
<1>2. CertTypeOK'
  BY <1>0, <1>1 DEF CertTypeOK
<1>3. AgentsTrustAll'
  BY DEF AgentsTrustAll
<1>4. Untouched /\ Untouched'
  BY DEF CertPhase, Untouched
<1>5. ValidatedFirst'
  BY <1>4 DEF ValidatedFirst, Untouched
<1>6. ClientTrustsManagers'
  BY <1>4 DEF ClientTrustsManagers, Untouched, Managers
<1>7. CertPhase'
  <2>1. certsPc' = "validate" =>
          \A i \in DOMAIN Members : i < node' => (Relevant(Members[i])' => Members[i] \in staged')
    <3> SUFFICES ASSUME certsPc' = "validate", NEW i \in DOMAIN Members, i < node',
                        Relevant(Members[i])
                 PROVE  Members[i] \in staged'
      BY DEF Relevant
    <3>1. CASE i = node
      BY <3>1
    <3>2. CASE i # node
      <4>1. i < node
        BY <3>2, <1>0, MembersAre
      <4> QED BY <4>1 DEF CertPhase
    <3> QED BY <3>1, <3>2
  <2> QED BY <2>1, <1>4 DEF CertPhase, HasNewCA
<1> QED BY <1>2, <1>3, <1>5, <1>6, <1>7

\* Where the agents trust both CAs of a kind, and else the old one, they can
\* verify every node of it.
LEMMA BundleTrusts ==
  ASSUME CertTypeOK, BundlePassed,
         \A m \in DOMAIN KindOf : signedBy[m] = "new" => HasNewCA(KindOf[m])
  PROVE  AgentsTrustAll
BY DEF CertTypeOK, BundlePassed, AgentsTrustAll, Bundle

\* The bundle goes to the agents when every node has its new certificate.
LEMMA PassBundleKeeps ==
  ASSUME CertIInv, PassBundle
  PROVE  CertIInv'
<1> USE DEF CertIInv, CertInv, PassBundle, CertGoto
<1>1. AllStaged
  <2> SUFFICES ASSUME NEW m \in DOMAIN KindOf, Relevant(m) PROVE m \in staged
    BY DEF AllStaged
  <2>1. PICK i \in DOMAIN Members : m = Members[i]
    BY MembersAre
  <2>2. i < node
    BY <2>1, MembersAre DEF CertTypeOK
  <2> QED BY <2>1, <2>2 DEF CertPhase
<1>2. Untouched /\ config.newCA \subseteq config.nodes /\ attempts < StatusAttempts
  BY DEF CertPhase
<1>3. AllStaged' = AllStaged /\ \A k : HasNewCA(k)' = HasNewCA(k)
  BY DEF AllStaged, Relevant, HasNewCA
<1>4. Trusting(Bundle) = [k \in AgentKinds |-> IF HasNewCA(k) THEN Bundle ELSE {"old"}]
  BY <1>2 DEF Trusting, Untouched
<1>5. agentsTrust' \in {agentsTrust, Trusting(Bundle)}
  OBVIOUS
<1>6. CertTypeOK'
  <2>1. agentsTrust' \in [AgentKinds -> (SUBSET {"old", "new"}) \ {{}}]
    <3>1. Bundle \in (SUBSET {"old", "new"}) \ {{}} /\ {"old"} \in (SUBSET {"old", "new"}) \ {{}}
      BY DEF Bundle
    <3>2. Trusting(Bundle) \in [AgentKinds -> (SUBSET {"old", "new"}) \ {{}}]
      BY <1>4, <3>1
    <3>3. agentsTrust \in [AgentKinds -> (SUBSET {"old", "new"}) \ {{}}]
      BY DEF CertTypeOK
    <3> HIDE DEF PassBundle, CertIInv
    <3> QED BY <1>5, <3>2, <3>3
  <2>2. node' \in 1 .. Len(Members) + 1
    BY MembersAre DEF CertTypeOK
  <2> QED BY <2>1, <2>2 DEF CertTypeOK
<1>7. AgentsTrustAll'
  BY <1>2, <1>4, <1>5 DEF AgentsTrustAll, Untouched, Bundle
<1>8. ValidatedFirst'
  BY <1>1 DEF ValidatedFirst, AllStaged, Relevant
<1>9. ClientTrustsManagers'
  BY DEF ClientTrustsManagers
<1>10. CertPhase'
  <2>1. CASE certsPc' = "replace"
    <3>1. BundlePassed'
      BY <2>1, <1>3, <1>4 DEF BundlePassed
    <3>2. node' = 1 /\ \A i \in DOMAIN Members : ~(i < node')
      BY <2>1, MembersAre
    <3> QED BY <2>1, <3>1, <3>2, <1>1, <1>2, <1>3 DEF CertPhase, Untouched
  <2>2. CASE certsPc' = "failed"
    BY <2>2, <1>2, <1>3 DEF CertPhase, Untouched
  <2> QED BY <2>1, <2>2
<1> QED BY <1>6, <1>7, <1>8, <1>9, <1>10

\* A node gets the certificate of a new CA only while the agents trust both.
LEMMA ReplaceNodeKeeps ==
  ASSUME CertIInv, ReplaceNode
  PROVE  CertIInv'
<1> USE DEF CertIInv, CertInv, ReplaceNode, CertGoto
<1> DEFINE n == Members[node]
           replaced == IF HasNewCA(KindOf[n]) THEN [signedBy EXCEPT ![n] = "new"] ELSE signedBy
<1>0. node \in DOMAIN Members /\ n \in DOMAIN KindOf /\ node \in Nat
  BY MembersAre DEF CertTypeOK
<1>1. AllStaged /\ BundlePassed /\ clientTrusts = "old" /\ config.newCA \subseteq config.nodes
      /\ attempts < StatusAttempts
  BY DEF CertPhase
<1>2. AllStaged' /\ BundlePassed' /\ \A k : HasNewCA(k)' = HasNewCA(k)
  BY <1>1 DEF AllStaged, Relevant, HasNewCA, BundlePassed
<1>3. signedBy' \in {signedBy, replaced}
  OBVIOUS
<1>4. \A m \in DOMAIN KindOf :
        /\ signedBy'[m] \in {"old", "new"} /\ signedBy' \in [DOMAIN KindOf -> {"old", "new"}]
        /\ signedBy[m] = "new" => signedBy'[m] = "new"
        /\ signedBy'[m] = "new" => HasNewCA(KindOf[m])
  BY <1>0, <1>3 DEF CertTypeOK, CertPhase
<1>5. certsPc' = "replace" => (HasNewCA(KindOf[n]) => signedBy'[n] = "new")
  <2> SUFFICES ASSUME certsPc' = "replace", HasNewCA(KindOf[n]) PROVE signedBy'[n] = "new"
    OBVIOUS
  <2>1. Relevant(n)
    BY <1>1 DEF HasNewCA, Relevant
  <2>2. signedBy' = replaced
    BY <2>1, <1>0
  <2> QED BY <2>2, <1>0 DEF CertTypeOK
<1>6. CertTypeOK'
  <2>1. node' \in 1 .. Len(Members) + 1
    BY <1>0, MembersAre DEF CertTypeOK
  <2>2. signedBy' \in [DOMAIN KindOf -> {"old", "new"}]
    BY <1>0, <1>4
  <2> HIDE DEF replaced, n
  <2>3. certsPc' \in {"replace", "failed"}
    BY DEF CertTypeOK
  <2>4. outside' \in [Managers -> {"old", "new"}]
    BY DEF CertTypeOK
  <2> QED BY <2>1, <2>2, <2>3, <2>4 DEF CertTypeOK
<1> HIDE DEF replaced
<1>7. AgentsTrustAll'
  BY <1>2, <1>4, <1>6, BundleTrusts DEF CertTypeOK, BundlePassed, AgentsTrustAll, Bundle
<1>8. ValidatedFirst'
  BY <1>2 DEF ValidatedFirst, AllStaged, Relevant
<1>9. ClientTrustsManagers'
  BY <1>1 DEF ClientTrustsManagers
<1>10. CertPhase'
  <2>1. CASE certsPc' = "replace"
    <3>1. ASSUME NEW i \in DOMAIN Members, i < node'
          PROVE  Replaced(Members[i])'
      <4>1. CASE i = node
        BY <4>1, <2>1, <1>2, <1>5 DEF Replaced
      <4>2. CASE i # node
        <5>1. i < node /\ Members[i] \in DOMAIN KindOf
          BY <4>2, <3>1, <1>0, MembersAre
        <5> QED BY <5>1, <1>2, <1>4 DEF Replaced, CertPhase
      <4> QED BY <4>1, <4>2
    <3> QED BY <2>1, <3>1, <1>1, <1>2, <1>4 DEF CertPhase
  <2>2. CASE certsPc' = "failed"
    BY <2>2, <1>2, <1>4 DEF CertPhase
  <2> QED BY <2>1, <2>2
<1> QED BY <1>6, <1>7, <1>8, <1>9, <1>10

\* When every node has its new certificate, the client is given the new CA ...
LEMMA SwitchClientKeeps ==
  ASSUME CertIInv, SwitchClient
  PROVE  CertIInv'
<1> USE DEF CertIInv, CertInv, SwitchClient, CertGoto
<1>1. \A m \in DOMAIN KindOf : Replaced(m)
  <2> SUFFICES ASSUME NEW m \in DOMAIN KindOf PROVE Replaced(m)
    OBVIOUS
  <2>1. PICK i \in DOMAIN Members : m = Members[i]
    BY MembersAre
  <2>2. i < node
    BY <2>1, MembersAre DEF CertTypeOK
  <2> QED BY <2>1, <2>2 DEF CertPhase
<1>2. /\ AllStaged' = AllStaged /\ BundlePassed' = BundlePassed
      /\ \A k : HasNewCA(k)' = HasNewCA(k)
      /\ \A m \in DOMAIN KindOf : Replaced(m)' = Replaced(m)
  BY DEF AllStaged, Relevant, HasNewCA, BundlePassed, Replaced
<1>3. clientTrusts' = IF verifies # "none" /\ HasNewCA("manager") THEN "new" ELSE "old"
  BY DEF CertPhase
<1>4. CertTypeOK'
  BY <1>3 DEF CertTypeOK
<1>5. AgentsTrustAll'
  BY DEF AgentsTrustAll
<1>6. ValidatedFirst'
  BY DEF ValidatedFirst, Relevant
<1>7. CertPhase'
  BY <1>1, <1>2, <1>3 DEF CertPhase
<1>8. ClientTrustsManagers'
  BY <1>1, <1>3 DEF ClientTrustsManagers, Replaced, CertPhase, CertTypeOK, Managers
<1> QED BY <1>4, <1>5, <1>6, <1>7, <1>8

\* ... and the agents give up the old one.
LEMMA PassNewCAKeeps ==
  ASSUME CertIInv, PassNewCA
  PROVE  CertIInv'
<1> USE DEF CertIInv, CertInv, PassNewCA, CertGoto
<1>1. /\ \A m \in DOMAIN KindOf : Replaced(m)
      /\ \A m \in DOMAIN KindOf : signedBy[m] = "new" => HasNewCA(KindOf[m])
      /\ AllStaged /\ BundlePassed /\ config.newCA \subseteq config.nodes
      /\ attempts < StatusAttempts
      /\ clientTrusts = IF verifies # "none" /\ HasNewCA("manager") THEN "new" ELSE "old"
  BY DEF CertPhase
<1>2. /\ AllStaged' = AllStaged
      /\ \A k : HasNewCA(k)' = HasNewCA(k)
      /\ \A m \in DOMAIN KindOf : Replaced(m)' = Replaced(m)
  BY DEF AllStaged, Relevant, HasNewCA, Replaced
<1>3. agentsTrust' \in {agentsTrust, Trusting({"new"})}
  OBVIOUS
<1>4. CertTypeOK'
  <2>1. agentsTrust' \in [AgentKinds -> (SUBSET {"old", "new"}) \ {{}}]
    <3>1. {"new"} \in (SUBSET {"old", "new"}) \ {{}}
      OBVIOUS
    <3> QED BY <1>3, <3>1 DEF CertTypeOK, Trusting
  <2> QED BY <2>1 DEF CertTypeOK
<1>5. AgentsTrustAll'
  BY <1>1, <1>3 DEF AgentsTrustAll, Replaced, Trusting, CertTypeOK
<1>6. ValidatedFirst'
  BY <1>1 DEF ValidatedFirst, AllStaged, Relevant
<1>7. ClientTrustsManagers'
  BY DEF ClientTrustsManagers
<1>8. CertPhase'
  BY <1>1, <1>2 DEF CertPhase
<1> QED BY <1>4, <1>5, <1>6, <1>7, <1>8

\* Every step of the replacement keeps it, and so does any failure.
LEMMA CertKeeps ==
  ASSUME CertIInv, [CertNext]_certVars
  PROVE  CertIInv'
<1>1. CASE CertStep
  BY <1>1, ValidateStatusKeeps, ValidateNodeKeeps, PassBundleKeeps, ReplaceNodeKeeps,
     SwitchClientKeeps, PassNewCAKeeps DEF CertStep
<1>2. ASSUME NEW nodes \in SUBSET Kinds, NEW newCA \in SUBSET Kinds,
             NEW external \in SUBSET {"cert", "CA"}, NEW cert \in {"none", "internal", "external"},
             ReplaceCall(nodes, newCA, external, cert)
      PROVE  CertIInv'
  BY <1>2, ReplaceCallKeeps
<1>3. CASE UNCHANGED certVars
  <2> USE <1>3 DEF certVars, CertIInv, CertInv
  <2>1. CertTypeOK' /\ AgentsTrustAll' /\ ValidatedFirst' /\ ClientTrustsManagers'
    BY DEF CertTypeOK, AgentsTrustAll, ValidatedFirst, ClientTrustsManagers, Relevant
  <2>2. CertPhase'
    BY DEF CertPhase, Untouched, AllStaged, BundlePassed, Replaced, HasNewCA, Relevant
  <2> QED BY <2>1, <2>2
<1> QED BY <1>1, <1>2, <1>3 DEF CertNext

\* Wherever `cfy certificates replace' stops, the agents can verify every broker
\* and manager, and no node was touched before all were validated; a client that
\* is served the managers' internal certificates can verify them before it and
\* after it, not while it runs nor after it failed half way.  This is so for any
\* cluster, with any number of databases, brokers and managers.
THEOREM AgentsAreNotCutOff == CfySpec => []CertInv
<1>1. CfyInit => CertIInv
  BY CertStarts DEF CfyInit
<1>2. CertIInv /\ [CfyNext]_cfyVars => CertIInv'
  BY CertSteps, CertKeeps
<1>3. CertIInv => CertInv
  BY DEF CertIInv
<1> QED BY <1>1, <1>2, <1>3, PTL DEF CfySpec
-----------------------------------------------------------------------------
\* What any command does is a step of the migration or leaves it alone.
LEMMA MoveSteps == [CfyNext]_cfyVars => [MoveNext]_moveVars
BY DEF CfyNext, cfyVars, InAgents, InUpload, InPluginsInstall, InPluginsUpdate, InFlow, InLabels,
       InProfiles, InCluster, InCertificates, InLocal, InEvents, InMaintenance, InSchedules,
       InArchive, InLocalFlow

\* MigrationInv is not inductive by itself: it rests on what makes a directory of
\* the new layout a lock.  Nothing is removed before there is one, a command that
\* moves has backed everything up, and what a command moves is in the new layout,
\* where no other command can make it again.
MoveTypes ==
  /\ old \subseteq LocalBlueprints /\ removing \subseteq LocalBlueprints \ old
  /\ newBlueprint \in [LocalBlueprints -> {"none", "partial", "whole"}]
  /\ newDeployment \in [LocalBlueprints -> {"none", "partial", "whole"}]
  /\ backup \in [Cmds -> SUBSET LocalBlueprints]
  /\ toMove \in [Cmds -> SUBSET LocalBlueprints]
  /\ moving \in [Cmds -> SUBSET LocalBlueprints]
  /\ movePc \in [Cmds -> {"idle", "backup", "move", "failed", "done"}]
OneAtATime == \A c \in Cmds : \A a, b \in moving[c] : a = b
OldIsWhole == ~NewLayout => old = LocalBlueprints /\ removing = {}
BackedUp == \A c \in Cmds : movePc[c] = "move" => backup[c] = LocalBlueprints
MovingIsNew == \A c \in Cmds : \A b \in moving[c] : newBlueprint[b] # "none"
MovingApart == \A c, d \in Cmds : c # d => moving[c] \cap moving[d] = {}

MoveIInv ==
  MoveTypes /\ OneAtATime /\ OldIsWhole /\ BackedUp /\ MovingIsNew /\ MovingApart
  /\ NothingLost /\ BackupFirst

\* At most one blueprint is on its way, as MigrationInv has it.
LEMMA MoveIInvImplies == MoveIInv => MigrationInv
<1> SUFFICES ASSUME MoveIInv PROVE MigrationInv
  OBVIOUS
<1>1. ASSUME NEW c \in Cmds PROVE Cardinality(moving[c]) <= 1
  <2>1. CASE moving[c] = {}
    BY <2>1, FS_EmptySet
  <2>2. CASE \E b : moving[c] = {b}
    BY <2>2, FS_Singleton
  <2> QED BY <2>1, <2>2 DEF MoveIInv, OneAtATime
<1>2. MoveTypeOK
  BY <1>1 DEF MoveIInv, MoveTypes, MoveTypeOK
<1>3. MovedByOne
  BY DEF MoveIInv, MovingApart, MovedByOne
<1> QED BY <1>2, <1>3 DEF MoveIInv, MigrationInv

\* The old layout is whole before any command begins.
LEMMA MoveStarts == MoveInit => MoveIInv
BY DEF MoveInit, MoveIInv, MoveTypes, OneAtATime, OldIsWhole, BackedUp, MovingIsNew, MovingApart,
       NothingLost, BackupFirst, NewLayout

\* A step that copies nothing back and leaves the layouts and what is moved alone.
LEMMA LayoutsStay ==
  ASSUME MoveIInv, UNCHANGED <<old, removing, newBlueprint, newDeployment>>,
         \A c \in Cmds : moving'[c] \subseteq moving[c]
  PROVE  /\ OneAtATime' /\ OldIsWhole' /\ MovingIsNew' /\ MovingApart' /\ NothingLost'
         /\ NewLayout' = NewLayout
BY DEF MoveIInv, OneAtATime, OldIsWhole, MovingIsNew, MovingApart, NothingLost, NewLayout

\* Every step of a migrating process, and its death, keeps it.
LEMMA MoveKeeps ==
  ASSUME MoveIInv, [MoveNext]_moveVars
  PROVE  MoveIInv'
<1> USE DEF MoveIInv
<1>1. ASSUME NEW c \in Cmds, FindLayout(c) PROVE MoveIInv'
  <2> USE <1>1 DEF FindLayout, MoveGoto
  <2>1. MoveTypes'
    BY DEF MoveTypes
  <2>2. OneAtATime' /\ OldIsWhole' /\ MovingIsNew' /\ MovingApart' /\ NothingLost'
        /\ NewLayout' = NewLayout
    BY LayoutsStay
  <2>3. BackedUp'
    BY DEF BackedUp, MoveTypes
  <2>4. BackupFirst'
    BY <2>2 DEF BackupFirst, IsOld, MoveTypes
  <2> QED BY <2>1, <2>2, <2>3, <2>4
<1>2. ASSUME NEW c \in Cmds, BackUp(c) PROVE MoveIInv'
  <2> USE <1>2 DEF BackUp
  <2>1. PICK b \in old \ backup[c] : backup' = [backup EXCEPT ![c] = @ \cup {b}]
    OBVIOUS
  <2>2. MoveTypes' /\ \A d \in Cmds : backup[d] \subseteq backup'[d] /\ backup'[d] \subseteq LocalBlueprints
    BY <2>1 DEF MoveTypes
  <2>3. OneAtATime' /\ OldIsWhole' /\ MovingIsNew' /\ MovingApart' /\ NothingLost'
        /\ NewLayout' = NewLayout
    BY LayoutsStay
  <2>4. BackedUp'
    BY <2>2 DEF BackedUp
  <2>5. BackupFirst'
    BY <2>2, <2>3 DEF BackupFirst
  <2> QED BY <2>2, <2>3, <2>4, <2>5
<1>3. ASSUME NEW c \in Cmds, ListOld(c) PROVE MoveIInv'
  <2> USE <1>3 DEF ListOld, MoveGoto
  <2>1. MoveTypes'
    BY DEF MoveTypes
  <2>2. OneAtATime' /\ OldIsWhole' /\ MovingIsNew' /\ MovingApart' /\ NothingLost'
        /\ NewLayout' = NewLayout
    BY LayoutsStay
  <2>3. BackedUp'
    BY DEF BackedUp, OldIsWhole, MoveTypes
  <2>4. BackupFirst'
    BY <2>2 DEF BackupFirst
  <2> QED BY <2>1, <2>2, <2>3, <2>4
<1>4. ASSUME NEW c \in Cmds, BeginMove(c) PROVE MoveIInv'
  <2> USE DEF BeginMove, MoveGoto
  <2>1. CASE UNCHANGED <<newBlueprint, moving>>
    <3>1. MoveTypes'
      BY <1>4, <2>1 DEF MoveTypes
    <3>2. OneAtATime' /\ OldIsWhole' /\ MovingIsNew' /\ MovingApart' /\ NothingLost'
          /\ NewLayout' = NewLayout
      BY <1>4, <2>1, LayoutsStay
    <3>3. BackedUp' /\ BackupFirst'
      BY <1>4, <2>1, <3>2 DEF BackedUp, BackupFirst, MoveTypes
    <3> QED BY <3>1, <3>2, <3>3
  <2>2. ASSUME NEW b \in toMove[c], b \in old, newBlueprint[b] = "none",
               newBlueprint' = [newBlueprint EXCEPT ![b] = "partial"],
               moving' = [moving EXCEPT ![c] = {b}],
               toMove' = [toMove EXCEPT ![c] = @ \ {b}], UNCHANGED movePc
        PROVE  MoveIInv'
    <3>1. b \in LocalBlueprints /\ movePc[c] = "move"
          /\ UNCHANGED <<old, removing, newDeployment, backup>>
      BY <1>4 DEF MoveTypes
    <3>2. MoveTypes'
      BY <2>2, <3>1 DEF MoveTypes
    <3>3. \A a \in LocalBlueprints : newBlueprint'[a] = IF a = b THEN "partial" ELSE newBlueprint[a]
      BY <2>2 DEF MoveTypes
    <3>4. \A d \in Cmds : moving'[d] = IF d = c THEN {b} ELSE moving[d]
      BY <2>2 DEF MoveTypes
    <3>5. OneAtATime'
      BY <3>4 DEF OneAtATime
    <3>6. \A d \in Cmds : b \notin moving[d] /\ moving[d] \subseteq LocalBlueprints
      BY <2>2 DEF MovingIsNew, MoveTypes
    <3>7. MovingIsNew' /\ MovingApart'
      BY <3>1, <3>3, <3>4, <3>6 DEF MovingIsNew, MovingApart
    <3>8. NewLayout' /\ OldIsWhole'
      BY <3>1, <3>3 DEF NewLayout, OldIsWhole
    <3>9. NothingLost'
      BY <2>2, <3>1, <3>3 DEF NothingLost
    <3>10. BackedUp' /\ BackupFirst'
      BY <2>2, <3>1 DEF BackedUp, BackupFirst
    <3> QED BY <3>2, <3>5, <3>7, <3>8, <3>9, <3>10
  <2> QED BY <1>4, <2>1, <2>2
<1>5. ASSUME NEW c \in Cmds, CopyBlueprint(c) PROVE MoveIInv'
  <2> USE DEF CopyBlueprint
  <2>1. PICK b \in moving[c] : /\ newBlueprint[b] = "partial" /\ b \in old
                               /\ newBlueprint' = [newBlueprint EXCEPT ![b] = "whole"]
    BY <1>5
  <2>2. UNCHANGED <<old, removing, newDeployment, backup, movePc, toMove, moving>>
    BY <1>5
  <2>3. MoveTypes'
    BY <2>1, <2>2 DEF MoveTypes
  <2>4. \A a \in LocalBlueprints : newBlueprint'[a] = IF a = b THEN "whole" ELSE newBlueprint[a]
    BY <2>1 DEF MoveTypes
  <2>5. NewLayout
    BY <2>1 DEF NewLayout, MoveTypes
  <2>6. OneAtATime' /\ MovingIsNew' /\ MovingApart'
    BY <2>2, <2>4 DEF OneAtATime, MovingIsNew, MovingApart, MoveTypes
  <2>7. OldIsWhole' /\ NothingLost'
    BY <2>1, <2>2, <2>4 DEF OldIsWhole, NewLayout, NothingLost, MoveTypes
  <2>8. BackedUp' /\ BackupFirst'
    BY <2>2, <2>5 DEF BackedUp, BackupFirst
  <2> QED BY <2>3, <2>6, <2>7, <2>8
<1>6. ASSUME NEW c \in Cmds, CopyDeployment(c) PROVE MoveIInv'
  <2> USE DEF CopyDeployment
  <2>1. PICK b \in moving[c] :
          /\ newDeployment[b] # "whole" /\ b \in old
          /\ newDeployment' = [newDeployment EXCEPT ![b] = IF @ = "none" THEN "partial" ELSE "whole"]
    BY <1>6
  <2>2. UNCHANGED <<old, removing, newBlueprint, backup, movePc, toMove, moving>>
    BY <1>6
  <2>3. MoveTypes'
    BY <2>1, <2>2 DEF MoveTypes
  <2>4. OneAtATime' /\ MovingIsNew' /\ MovingApart' /\ OldIsWhole' /\ BackedUp' /\ BackupFirst'
    BY <2>2 DEF OneAtATime, MovingIsNew, MovingApart, OldIsWhole, BackedUp, BackupFirst, NewLayout
  <2>5. NothingLost'
    BY <2>1, <2>2 DEF NothingLost, MoveTypes
  <2> QED BY <2>3, <2>4, <2>5
<1>7. ASSUME NEW c \in Cmds, RemoveOld(c) PROVE MoveIInv'
  <2> USE DEF RemoveOld
  <2>1. PICK b \in moving[c] :
          /\ Copied(b)
          /\ IF b \in old
             THEN old' = old \ {b} /\ removing' = removing \cup {b} /\ UNCHANGED moving
             ELSE /\ removing' = removing \ {b} /\ moving' = [moving EXCEPT ![c] = {}]
                  /\ UNCHANGED old
    BY <1>7
  <2>2. UNCHANGED <<newBlueprint, newDeployment, backup, movePc, toMove>>
    BY <1>7
  <2>3. MoveTypes' /\ \A d \in Cmds : moving'[d] \subseteq moving[d]
    BY <2>1, <2>2 DEF MoveTypes
  <2>4. NewLayout
    BY <2>1 DEF NewLayout, Copied, MoveTypes
  <2>5. OneAtATime' /\ MovingIsNew' /\ MovingApart'
    BY <2>2, <2>3 DEF OneAtATime, MovingIsNew, MovingApart
  <2>6. NothingLost'
    BY <2>1, <2>2 DEF NothingLost, Copied, MoveTypes
  <2>7. OldIsWhole' /\ BackedUp' /\ BackupFirst'
    BY <2>2, <2>4 DEF OldIsWhole, BackedUp, BackupFirst, NewLayout
  <2> QED BY <2>3, <2>5, <2>6, <2>7
<1>8. ASSUME NEW c \in Cmds, Killed(c) \/ NextCommand(c) PROVE MoveIInv'
  <2> USE <1>8 DEF Killed, NextCommand, MoveGoto
  <2>1. MoveTypes' /\ \A d \in Cmds : moving'[d] \subseteq moving[d]
    BY DEF MoveTypes
  <2>2. OneAtATime' /\ OldIsWhole' /\ MovingIsNew' /\ MovingApart' /\ NothingLost'
        /\ NewLayout' = NewLayout
    BY <2>1, LayoutsStay
  <2>3. BackedUp' /\ BackupFirst'
    BY <2>2 DEF BackedUp, BackupFirst, MoveTypes
  <2> QED BY <2>1, <2>2, <2>3
<1>9. CASE UNCHANGED moveVars
  BY <1>9 DEF moveVars, MoveTypes, OneAtATime, OldIsWhole, BackedUp, MovingIsNew, MovingApart,
              NothingLost, BackupFirst, NewLayout
<1> QED BY <1>1, <1>2, <1>3, <1>4, <1>5, <1>6, <1>7, <1>8, <1>9 DEF MoveNext

\* The local profile survives its migration, for any number of blueprints and of
\* commands that migrate it at once and are killed: nothing is lost, all was
\* backed up first, and no two commands move the same blueprint.
THEOREM MigrationLosesNothing == CfySpec => []MigrationInv
<1>1. CfyInit => MoveIInv
  BY MoveStarts DEF CfyInit
<1>2. MoveIInv /\ [CfyNext]_cfyVars => MoveIInv'
  BY MoveSteps, MoveKeeps
<1>3. MoveIInv => MigrationInv
  BY MoveIInvImplies
<1> QED BY <1>1, <1>2, <1>3, PTL DEF CfySpec
-----------------------------------------------------------------------------
\* What any command does is a step of this one or leaves it alone.
LEMMA ModeSteps == [CfyNext]_cfyVars => [ModeNext]_modeVars
BY DEF CfyNext, cfyVars, InAgents, InUpload, InPluginsInstall, InPluginsUpdate, InFlow, InLabels,
       InProfiles, InCluster, InCertificates, InLocal, InEvents, InMaintenance, InSchedules,
       InArchive, InLocalFlow

\* Behind MaintenanceInv: how late the wait can be where it checks the time and
\* where it polls, and that the mode it waits for was not refused behind its back.
ModeWaiting == modePc \in {"check", "poll"}
ModeLateness ==
  /\ modePc = "check" /\ modeTimeout > 0 => modeLeft >= -(ModeSleep + ModeLatency)
  /\ modePc = "poll" /\ modeTimeout > 0 => modeLeft >= 0
ModeAsked ==
  /\ modePc # "done" => modeResult = "none" /\ lastStatus # "activated"
  /\ ModeWaiting \/ modeResult \in {"timeout", "activated"} =>
       (mode = "deactivated" => turnedOff)
  /\ mode = "activated" => ~working

ModeIInv == MaintenanceInv /\ ModeLateness /\ ModeAsked

\* What the clock is made of.
LEMMA ModeNumbers ==
  /\ ModeSleep \in Nat /\ ModeSleep > 0 /\ ModeLatency \in Nat /\ MaxOthers \in Nat
  /\ \A t \in ModeTimeouts : t \in Nat
BY ModeAssumption

\* Nothing has been asked for at first.
LEMMA ModeStarts == ModeInit => ModeIInv
<1> SUFFICES ASSUME ModeInit PROVE ModeIInv
  OBVIOUS
<1>1. ModeTypeOK
  <2>1. othersDid \in 0 .. MaxOthers /\ modeLeft \in Int
    BY ModeNumbers DEF ModeInit
  <2> QED BY <2>1, ModeAssumption DEF ModeInit, ModeTypeOK
<1>2. ModeTimeoutIsTrue /\ ModeReportIsTrue /\ ModeLateness /\ ModeAsked
  BY DEF ModeInit, ModeTimeoutIsTrue, ModeReportIsTrue, ModeLateness, ModeAsked, ModeWaiting
<1> QED BY <1>1, <1>2 DEF ModeIInv, MaintenanceInv

\* Whatever the manager and the other users do, the wait is not made late by it.
LEMMA OnManagerKeeps ==
  ASSUME ModeIInv, OnManager
  PROVE  ModeIInv'
<1> USE DEF ModeIInv, MaintenanceInv, OnManager
<1>1. /\ mode' \in {"deactivated", "activating", "activated"} /\ working' \in BOOLEAN
      /\ turnedOff' \in BOOLEAN
      /\ turnedOff => turnedOff'
      /\ mode' = "deactivated" => mode = "deactivated" \/ turnedOff'
      /\ mode' = "activated" => ~working'
      /\ mode = "activated" /\ ~turnedOff' => mode' = "activated"
  <2> USE DEF ModeTypeOK, ModeAsked
  <2>1. CASE ExecutionsEnd
    BY <2>1 DEF ExecutionsEnd
  <2>2. CASE ExecutionsStart
    BY <2>2 DEF ExecutionsStart
  <2>3. CASE EntersMode
    BY <2>3 DEF EntersMode
  <2>4. CASE OthersTurn
    BY <2>4 DEF OthersTurn
  <2> QED BY <2>1, <2>2, <2>3, <2>4
<1>2. othersDid' \in 0 .. MaxOthers
  BY ModeNumbers DEF ModeTypeOK, ExecutionsEnd, ExecutionsStart, EntersMode, OthersTurn
<1>3. ModeTypeOK'
  BY <1>1, <1>2 DEF ModeTypeOK
<1>4. ModeTimeoutIsTrue' /\ ModeAsked'
  BY <1>1 DEF ModeTimeoutIsTrue, ModeAsked, ModeWaiting
<1>5. ModeReportIsTrue' /\ ModeLateness'
  BY <1>1 DEF ModeReportIsTrue, ModeLateness, ModeAsked
<1> QED BY <1>3, <1>4, <1>5

\* The command, the manager and other users keep it.
LEMMA ModeKeeps ==
  ASSUME ModeIInv, [ModeNext]_modeVars
  PROVE  ModeIInv'
<1> USE DEF ModeIInv, MaintenanceInv, ModeDone, ManagerVars
<1>1. ASSUME NEW wait \in BOOLEAN, NEW timeout \in ModeTimeouts, ActivateCall(wait, timeout)
      PROVE  ModeIInv'
  <2>1. timeout \in Nat
    BY ModeNumbers
  <2>2. ModeTypeOK'
    <3>1. modeTimeout' \in ModeTimeouts /\ modeLeft' \in Int
      BY <1>1, <2>1 DEF ActivateCall
    <3>2. /\ mode' \in {"deactivated", "activating", "activated"}
          /\ modePc' \in {"idle", "check", "poll", "done"}
          /\ modeResult' \in {"none", "usage", "requested", "off", "raised", "timeout", "activated"}
      BY <1>1 DEF ActivateCall, ModeTypeOK
    <3> QED BY <1>1, <3>1, <3>2 DEF ActivateCall, ModeTypeOK
  <2>3. ModeTimeoutIsTrue' /\ ModeReportIsTrue' /\ ModeAsked'
    BY <1>1 DEF ActivateCall, ModeTimeoutIsTrue, ModeReportIsTrue, ModeAsked, ModeWaiting
  <2>4. ModeLateness'
    BY <1>1, <2>1, ModeNumbers DEF ActivateCall, ModeLateness
  <2> QED BY <2>2, <2>3, <2>4
<1>2. CASE DeactivateCall
  BY <1>2 DEF DeactivateCall, ModeTypeOK, ModeTimeoutIsTrue, ModeReportIsTrue, ModeLateness,
              ModeAsked, ModeWaiting
<1>3. CASE CheckModeDeadline
  <2>1. ModeTypeOK' /\ ModeReportIsTrue' /\ ModeAsked'
    BY <1>3 DEF CheckModeDeadline, ModeTypeOK, ModeReportIsTrue, ModeAsked, ModeWaiting
  <2>2. modeTimeout \in Nat /\ modeLeft \in Int
    BY ModeNumbers DEF ModeTypeOK
  <2>3. ModeLateness'
    BY <1>3, <2>2 DEF CheckModeDeadline, ModeLateness, IsTimeout
  <2>4. ModeTimeoutIsTrue'
    <3>1. CASE IsTimeout
      <4>1. modeTimeout > 0 /\ modeLeft \in -(ModeSleep + ModeLatency) .. -1
        BY <1>3, <3>1, <2>2, ModeNumbers DEF CheckModeDeadline, ModeLateness, IsTimeout
      <4>2. lastStatus # "activated" /\ (mode = "deactivated" => turnedOff)
        BY <1>3 DEF CheckModeDeadline, ModeAsked, ModeWaiting
      <4> QED BY <1>3, <3>1, <4>1, <4>2 DEF CheckModeDeadline, ModeTimeoutIsTrue
    <3>2. CASE ~IsTimeout
      BY <1>3, <3>2 DEF CheckModeDeadline, ModeTimeoutIsTrue, ModeAsked
    <3> QED BY <3>1, <3>2
  <2> QED BY <2>1, <2>3, <2>4
<1>4. CASE PollMode
  <2> USE <1>4 DEF PollMode
  <2>1. modeLeft' \in Int /\ (modeTimeout > 0 /\ mode # "activated" => modeLeft' >= -(ModeSleep + ModeLatency))
    <3>1. modeTimeout \in Nat /\ modeLeft \in Int /\ (modeTimeout > 0 => modeLeft >= 0)
      BY ModeNumbers DEF ModeTypeOK, ModeLateness
    <3>2. CASE mode = "activated"
      BY <3>1, <3>2
    <3>3. CASE mode # "activated"
      <4>1. PICK d \in 0 .. ModeLatency : Elapsed(d + ModeSleep)
        BY <3>3
      <4>2. d \in Nat /\ d <= ModeLatency
        BY <4>1, ModeNumbers
      <4> QED BY <3>1, <3>3, <4>1, <4>2, ModeNumbers DEF Elapsed
    <3> QED BY <3>2, <3>3
  <2>2. ModeTypeOK'
    BY <2>1 DEF ModeTypeOK
  <2>3. ModeAsked'
    BY DEF ModeAsked, ModeWaiting
  <2>4. ModeLateness'
    BY <2>1 DEF ModeLateness
  <2>5. ModeTimeoutIsTrue' /\ ModeReportIsTrue'
    BY DEF ModeAsked, ModeTimeoutIsTrue, ModeReportIsTrue
  <2> QED BY <2>2, <2>3, <2>4, <2>5
<1>5. CASE PollModeFails
  BY <1>5 DEF PollModeFails, ModeTypeOK, ModeTimeoutIsTrue, ModeReportIsTrue, ModeLateness,
              ModeAsked, ModeWaiting
<1>6. CASE OnManager
  BY <1>6, OnManagerKeeps
<1>7. CASE UNCHANGED modeVars
  BY <1>7 DEF modeVars, ModeTypeOK, ModeTimeoutIsTrue, ModeReportIsTrue, ModeLateness,
              ModeAsked, ModeWaiting
<1> QED BY <1>1, <1>2, <1>3, <1>4, <1>5, <1>6, <1>7 DEF ModeNext, ModeStep

\* What `cfy maintenance-mode activate' tells is so, for any timeout and any
\* duration of the polls: a timeout is real, and at most a poll and a sleep late,
\* and in a mode that was reported nothing runs unless somebody turned it off.
THEOREM ModeIsTold == CfySpec => []MaintenanceInv
<1>1. CfyInit => ModeIInv
  BY ModeStarts DEF CfyInit
<1>2. ModeIInv /\ [CfyNext]_cfyVars => ModeIInv'
  BY ModeSteps, ModeKeeps
<1>3. ModeIInv => MaintenanceInv
  BY DEF ModeIInv
<1> QED BY <1>1, <1>2, <1>3, PTL DEF CfySpec
-----------------------------------------------------------------------------
\* Every step has its place in the order of a command; only `init' looks for the
\* blueprint after it has made its profile active, and only `uninstall' removes
\* what is stored last.
Place(o, step) ==
  CASE step = "path"              -> IF o.op = "init" THEN 4 ELSE 1
    [] step = "validate"          -> 2
    [] step = "activate"          -> 3
    [] step = "remove_deployment" -> IF o.op = "uninstall" THEN 13 ELSE 5
    [] step = "remove_blueprint"  -> IF o.op = "uninstall" THEN 14 ELSE 6
    [] step = "plugins"           -> 7
    [] step = "store_blueprint"   -> 8
    [] step = "store_deployment"  -> 9
    [] step = "clean_up"          -> 10
    [] step = "load"              -> 11
    [] step = "execute"           -> 12

AllSteps == {"path", "validate", "activate", "remove_deployment", "remove_blueprint", "plugins",
             "store_blueprint", "store_deployment", "clean_up", "load", "execute"}

\* The steps of a command.
Perhaps(wanted, step) == IF wanted THEN {step} ELSE {}
InitSteps(o) ==
  {"activate"} \cup Perhaps(o.op = "init", "path") \cup {"remove_deployment", "remove_blueprint"}
    \cup Perhaps(o.plugins, "plugins") \cup {"store_blueprint", "store_deployment"}
StepsOf(o) ==
  CASE o.op = "init"      -> InitSteps(o)
    [] o.op = "install"   -> {"path"} \cup Perhaps(o.validate, "validate") \cup InitSteps(o)
                               \cup {"clean_up", "load", "execute"}
    [] o.op = "start"     -> {"load", "execute"}
    [] o.op = "uninstall" -> {"load", "execute", "remove_deployment", "remove_blueprint"}

InOrder(o, s) == \A i, j \in DOMAIN s : i < j => Place(o, s[i]) < Place(o, s[j])

\* Steps s in the order of command o, and which.
Ordered(o, s, set) == s \in Seq(AllSteps) /\ InOrder(o, s) /\ Range(s) = set

\* Places are numbers.
LEMMA PlacesAre ==
  ASSUME NEW o, NEW x \in AllSteps
  PROVE  Place(o, x) \in Nat
BY DEF Place, AllSteps

\* Two lists in order, one before the other, joined.
LEMMA JoinedInOrder ==
  ASSUME NEW o, NEW s, NEW t, NEW S, NEW T, Ordered(o, s, S), Ordered(o, t, T),
         \A x \in S, y \in T : Place(o, x) < Place(o, y)
  PROVE  Ordered(o, s \o t, S \cup T)
<1> DEFINE u == s \o t
<1>1. /\ u \in Seq(AllSteps) /\ Len(u) = Len(s) + Len(t)
      /\ \A i \in 1 .. Len(s) : u[i] = s[i]
      /\ \A i \in 1 .. Len(t) : u[Len(s) + i] = t[i]
  BY ConcatProperties DEF Ordered
<1>2. /\ Len(s) \in Nat /\ Len(t) \in Nat
      /\ DOMAIN s = 1 .. Len(s) /\ DOMAIN t = 1 .. Len(t) /\ DOMAIN u = 1 .. Len(s) + Len(t)
  BY <1>1, LenProperties DEF Ordered
<1> HIDE DEF u
<1>3. \A i \in DOMAIN u : \/ i \in DOMAIN s /\ u[i] = s[i]
                          \/ i - Len(s) \in DOMAIN t /\ u[i] = t[i - Len(s)] /\ i > Len(s)
  <2> TAKE i \in DOMAIN u
  <2>1. CASE i <= Len(s)
    BY <2>1, <1>1, <1>2
  <2>2. CASE ~(i <= Len(s))
    <3>1. i - Len(s) \in 1 .. Len(t) /\ i = Len(s) + (i - Len(s))
      BY <2>2, <1>2
    <3> QED BY <3>1, <2>2, <1>1, <1>2
  <2> QED BY <2>1, <2>2
<1>4. Range(s) = S /\ Range(t) = T /\ InOrder(o, s) /\ InOrder(o, t)
  BY DEF Ordered
<1>5. \A i \in DOMAIN s : s[i] \in S
  BY <1>4 DEF Range
<1>6. \A i \in DOMAIN t : t[i] \in T
  BY <1>4 DEF Range
<1>7. InOrder(o, u)
  <2> SUFFICES ASSUME NEW i \in DOMAIN u, NEW j \in DOMAIN u, i < j
               PROVE  Place(o, u[i]) < Place(o, u[j])
    BY DEF InOrder
  <2>1. CASE i \in DOMAIN s /\ u[i] = s[i] /\ j \in DOMAIN s /\ u[j] = s[j]
    BY <2>1, <1>4 DEF InOrder
  <2>2. CASE i \in DOMAIN s /\ u[i] = s[i] /\ j - Len(s) \in DOMAIN t /\ u[j] = t[j - Len(s)]
    BY <2>2, <1>5, <1>6
  <2>3. CASE /\ i - Len(s) \in DOMAIN t /\ u[i] = t[i - Len(s)] /\ i > Len(s)
             /\ j - Len(s) \in DOMAIN t /\ u[j] = t[j - Len(s)]
    <3>1. i - Len(s) < j - Len(s)
      BY <1>2
    <3> QED BY <2>3, <3>1, <1>4 DEF InOrder
  <2>4. CASE i > Len(s) /\ j \in DOMAIN s
    BY <2>4, <1>2
  <2> QED BY <1>3, <2>1, <2>2, <2>3, <2>4
<1>8. Range(u) = S \cup T
  <2>1. \A i \in DOMAIN u : u[i] \in S \cup T
    BY <1>3, <1>5, <1>6
  <2>2. \A x \in S : \E i \in DOMAIN u : u[i] = x
    <3> TAKE x \in S
    <3>1. PICK i \in DOMAIN s : s[i] = x
      BY <1>4 DEF Range
    <3>2. i \in DOMAIN u /\ u[i] = x
      BY <3>1, <1>1, <1>2
    <3> QED BY <3>2
  <2>3. \A x \in T : \E i \in DOMAIN u : u[i] = x
    <3> TAKE x \in T
    <3>1. PICK i \in DOMAIN t : t[i] = x
      BY <1>4 DEF Range
    <3>2. Len(s) + i \in DOMAIN u /\ u[Len(s) + i] = x
      BY <3>1, <1>1, <1>2
    <3> QED BY <3>2
  <2> QED BY <2>1, <2>2, <2>3 DEF Range
<1> QED BY <1>1, <1>7, <1>8 DEF Ordered, u

\* A list of one step.
LEMMA OneInOrder ==
  ASSUME NEW o, NEW x \in AllSteps
  PROVE  Ordered(o, <<x>>, {x})
BY DEF Ordered, InOrder, Range

\* A list of two steps.
LEMMA TwoInOrder ==
  ASSUME NEW o, NEW x \in AllSteps, NEW y \in AllSteps, Place(o, x) < Place(o, y)
  PROVE  Ordered(o, <<x, y>>, {x, y})
<1>1. DOMAIN <<x, y>> = {1, 2} /\ <<x, y>>[1] = x /\ <<x, y>>[2] = y
      /\ <<x, y>> \in Seq(AllSteps)
  OBVIOUS
<1>2. Range(<<x, y>>) = {x, y}
  BY <1>1 DEF Range
<1>3. \A i, j \in {1, 2} : i < j => i = 1 /\ j = 2
  OBVIOUS
<1>4. InOrder(o, <<x, y>>)
  BY <1>1, <1>3 DEF InOrder
<1> QED BY <1>1, <1>2, <1>4 DEF Ordered

\* A step that an option may leave out.
LEMMA PerhapsInOrder ==
  ASSUME NEW o, NEW x \in AllSteps, NEW wanted
  PROVE  Ordered(o, Optional(wanted, x), Perhaps(wanted, x))
<1>1. CASE wanted
  BY <1>1, OneInOrder DEF Optional, Perhaps
<1>2. CASE ~wanted
  <2>1. Ordered(o, <<>>, {})
    BY DEF Ordered, InOrder, Range
  <2> QED BY <1>2, <2>1 DEF Optional, Perhaps
<1> QED BY <1>1, <1>2

\* The plan of a command is the list of its steps in their order.
LEMMA PlanInOrder ==
  ASSUME NEW o \in LocalOps
  PROVE  Ordered(o, LocalPlan(o), StepsOf(o)) /\ LocalPlan(o) # <<>>
<1>1. Ordered(o, <<"load", "execute">>, {"load", "execute"})
  <2>1. Place(o, "load") < Place(o, "execute")
    BY DEF Place
  <2> QED BY <2>1, TwoInOrder DEF AllSteps
<1>2. Ordered(o, Removal, {"remove_deployment", "remove_blueprint"})
  <2>1. Place(o, "remove_deployment") < Place(o, "remove_blueprint")
    BY DEF Place
  <2> QED BY <2>1, TwoInOrder DEF AllSteps, Removal
<1>3. ASSUME o.op \in {"init", "install"}
      PROVE  Ordered(o, InitPlan(o), InitSteps(o))
  <2> DEFINE S1 == {"activate"} \cup Perhaps(o.op = "init", "path")
             S2 == S1 \cup {"remove_deployment", "remove_blueprint"}
             S3 == S2 \cup Perhaps(o.plugins, "plugins")
             P1 == <<"activate">> \o Optional(o.op = "init", "path")
             P2 == P1 \o Removal
             P3 == P2 \o Optional(o.plugins, "plugins")
  <2>1. Ordered(o, P1, S1)
    <3>1. Ordered(o, <<"activate">>, {"activate"})
          /\ Ordered(o, Optional(o.op = "init", "path"), Perhaps(o.op = "init", "path"))
      BY OneInOrder, PerhapsInOrder DEF AllSteps
    <3>2. \A x \in {"activate"}, y \in Perhaps(o.op = "init", "path") : Place(o, x) < Place(o, y)
      BY DEF Place, Perhaps
    <3> QED BY <3>1, <3>2, JoinedInOrder
  <2>2. Ordered(o, P2, S2)
    <3>1. \A x \in S1, y \in {"remove_deployment", "remove_blueprint"} : Place(o, x) < Place(o, y)
      BY <1>3 DEF Place, Perhaps
    <3> HIDE DEF P1, S1
    <3> QED BY <2>1, <1>2, <3>1, JoinedInOrder
  <2>3. Ordered(o, P3, S3)
    <3>1. Ordered(o, Optional(o.plugins, "plugins"), Perhaps(o.plugins, "plugins"))
      BY PerhapsInOrder DEF AllSteps
    <3>2. \A x \in S2, y \in Perhaps(o.plugins, "plugins") : Place(o, x) < Place(o, y)
      BY <1>3 DEF Place, Perhaps
    <3> HIDE DEF P2, S2
    <3> QED BY <2>2, <3>1, <3>2, JoinedInOrder
  <2>4. Ordered(o, <<"store_blueprint", "store_deployment">>, {"store_blueprint", "store_deployment"})
    <3>1. Place(o, "store_blueprint") < Place(o, "store_deployment")
      BY DEF Place
    <3> QED BY <3>1, TwoInOrder DEF AllSteps
  <2>5. \A x \in S3, y \in {"store_blueprint", "store_deployment"} : Place(o, x) < Place(o, y)
    BY <1>3 DEF Place, Perhaps
  <2>6. Ordered(o, P3 \o <<"store_blueprint", "store_deployment">>,
                S3 \cup {"store_blueprint", "store_deployment"})
    <3> HIDE DEF P3, S3
    <3> QED BY <2>3, <2>4, <2>5, JoinedInOrder
  <2>7. InitSteps(o) = S3 \cup {"store_blueprint", "store_deployment"}
    BY DEF InitSteps
  <2>8. InitPlan(o) = P3 \o <<"store_blueprint", "store_deployment">>
    BY DEF InitPlan
  <2> HIDE DEF P3, S3
  <2> QED BY <2>6, <2>7, <2>8
<1>0. Ordered(o, LocalPlan(o), StepsOf(o)) => LocalPlan(o) # <<>>
  <2>1. StepsOf(o) # {}
    <3>1. "load" \in StepsOf(o) \/ "activate" \in StepsOf(o)
      BY DEF StepsOf, InitSteps, LocalOps
    <3> QED BY <3>1
  <2>2. Range(<<>>) = {}
    BY DEF Range
  <2> QED BY <2>1, <2>2 DEF Ordered
<1>4. CASE o.op = "init"
  BY <1>0, <1>3, <1>4 DEF LocalPlan, StepsOf
<1>5. CASE o.op = "install"
  <2>0. InitSteps(o) \subseteq {"activate", "remove_deployment", "remove_blueprint", "plugins",
                                "store_blueprint", "store_deployment"}
    BY <1>5 DEF InitSteps, Perhaps
  <2> DEFINE S1 == {"path"} \cup Perhaps(o.validate, "validate")
             S2 == S1 \cup InitSteps(o)
             P1 == <<"path">> \o Optional(o.validate, "validate")
             P2 == P1 \o InitPlan(o)
             End == <<"clean_up", "load", "execute">>
  <2>1. Ordered(o, P1, S1)
    <3>1. Ordered(o, <<"path">>, {"path"})
          /\ Ordered(o, Optional(o.validate, "validate"), Perhaps(o.validate, "validate"))
      BY OneInOrder, PerhapsInOrder DEF AllSteps
    <3>2. \A x \in {"path"}, y \in Perhaps(o.validate, "validate") : Place(o, x) < Place(o, y)
      BY <1>5 DEF Place, Perhaps
    <3> QED BY <3>1, <3>2, JoinedInOrder
  <2>2. Ordered(o, P2, S2)
    <3>1. \A x \in S1, y \in InitSteps(o) : Place(o, x) < Place(o, y)
      BY <1>5, <2>0 DEF Place, Perhaps
    <3> HIDE DEF P1, S1
    <3> QED BY <2>1, <1>3, <1>5, <3>1, JoinedInOrder
  <2>3. Ordered(o, End, {"clean_up", "load", "execute"})
    <3>1. Ordered(o, <<"clean_up">>, {"clean_up"})
      BY OneInOrder DEF AllSteps
    <3>2. \A x \in {"clean_up"}, y \in {"load", "execute"} : Place(o, x) < Place(o, y)
      BY DEF Place
    <3>3. Ordered(o, <<"clean_up">> \o <<"load", "execute">>, {"clean_up"} \cup {"load", "execute"})
      BY <3>1, <3>2, <1>1, JoinedInOrder
    <3>4. <<"clean_up">> \o <<"load", "execute">> = End
      <4> DEFINE A == <<"clean_up">> \o <<"load", "execute">>
      <4>0. {<<"clean_up">>, <<"load", "execute">>, End} \subseteq Seq(AllSteps)
        BY DEF AllSteps
      <4>1. A \in Seq(AllSteps) /\ Len(A) = 3 /\ Len(End) = 3
        BY <4>0, ConcatProperties
      <4>2. A[1] = End[1] /\ A[2] = End[2] /\ A[3] = End[3]
        BY <4>0, ConcatProperties
      <4> HIDE DEF A, End
      <4>3. \A i \in 1 .. Len(A) : A[i] = End[i]
        BY <4>1, <4>2
      <4>4. End \in Seq(AllSteps) /\ Len(A) = Len(End)
        BY <4>0, <4>1
      <4>5. A = End
        BY <4>1, <4>3, <4>4, SeqEqual
      <4> QED BY <4>5 DEF A
    <3>5. {"clean_up"} \cup {"load", "execute"} = {"clean_up", "load", "execute"}
      OBVIOUS
    <3> QED BY <3>3, <3>4, <3>5
  <2>4. \A x \in S2, y \in {"clean_up", "load", "execute"} : Place(o, x) < Place(o, y)
    BY <1>5, <2>0 DEF Place, Perhaps
  <2>5. StepsOf(o) = S2 \cup {"clean_up", "load", "execute"} /\ LocalPlan(o) = P2 \o End
    BY <1>5 DEF StepsOf, LocalPlan
  <2>6. Ordered(o, LocalPlan(o), StepsOf(o))
    <3> HIDE DEF P2, S2, End
    <3> QED BY <2>2, <2>3, <2>4, <2>5, JoinedInOrder
  <2> QED BY <2>6, <1>0
<1>6. CASE o.op = "start"
  BY <1>0, <1>1, <1>6 DEF LocalPlan, StepsOf
<1>7. CASE o.op = "uninstall"
  <2>1. \A x \in {"load", "execute"}, y \in {"remove_deployment", "remove_blueprint"} :
          Place(o, x) < Place(o, y)
    BY <1>7 DEF Place
  <2>2. StepsOf(o) = {"load", "execute"} \cup {"remove_deployment", "remove_blueprint"}
        /\ LocalPlan(o) = <<"load", "execute">> \o Removal
    BY <1>7 DEF StepsOf, LocalPlan
  <2>3. Ordered(o, LocalPlan(o), StepsOf(o))
    BY <1>1, <1>2, <2>1, <2>2, JoinedInOrder
  <2> QED BY <2>3, <1>0
<1> QED BY <1>4, <1>5, <1>6, <1>7 DEF LocalOps

\* What is left after the first of them.
LEMMA RestInOrder ==
  ASSUME NEW o, NEW s, NEW S, Ordered(o, s, S), s # <<>>
  PROVE  /\ Head(s) \in S /\ Head(s) \in AllSteps
         /\ \A x \in S \ {Head(s)} : Place(o, Head(s)) < Place(o, x)
         /\ Ordered(o, Tail(s), S \ {Head(s)})
<1> DEFINE t == Tail(s)
<1>1. /\ Head(s) \in AllSteps /\ t \in Seq(AllSteps) /\ Len(t) = Len(s) - 1
      /\ \A i \in 1 .. Len(t) : t[i] = s[i + 1]
      /\ Len(s) \in Nat /\ Len(s) > 0 /\ DOMAIN s = 1 .. Len(s) /\ DOMAIN t = 1 .. Len(t)
      /\ Head(s) = s[1]
  BY HeadTailProperties, LenProperties, EmptySeq DEF Ordered
<1> HIDE DEF t
<1>2. Range(s) = S /\ InOrder(o, s)
  BY DEF Ordered
<1>3. \A i \in DOMAIN t : i + 1 \in DOMAIN s /\ t[i] = s[i + 1] /\ i + 1 > 1
  BY <1>1
<1>4. \A i \in DOMAIN s : i = 1 \/ (i - 1 \in DOMAIN t /\ t[i - 1] = s[i] /\ 1 < i)
  BY <1>1
<1>5. \A x \in S \ {Head(s)} : \E i \in DOMAIN t : t[i] = x
  BY <1>1, <1>2, <1>4 DEF Range
<1>6. 1 \in DOMAIN s
  BY <1>1
<1>7. \A i \in DOMAIN t : t[i] \in S /\ Place(o, Head(s)) < Place(o, t[i])
  BY <1>1, <1>2, <1>3, <1>6 DEF InOrder, Range
<1>8. \A i \in DOMAIN t : t[i] # Head(s)
  BY <1>1, <1>7, PlacesAre
<1>9. InOrder(o, t)
  <2> SUFFICES ASSUME NEW i \in DOMAIN t, NEW j \in DOMAIN t, i < j
               PROVE  Place(o, t[i]) < Place(o, t[j])
    BY DEF InOrder
  <2>1. i + 1 < j + 1
    BY <1>1
  <2> QED BY <2>1, <1>2, <1>3 DEF InOrder
<1>10. Range(t) = S \ {Head(s)}
  BY <1>5, <1>7, <1>8 DEF Range
<1>11. Head(s) \in S
  BY <1>1, <1>2, <1>6 DEF Range
<1> QED BY <1>1, <1>5, <1>7, <1>9, <1>10, <1>11 DEF Ordered, t
-----------------------------------------------------------------------------
\* Behind LocalInv: how far the command is says what it has done.  A command that
\* goes on has all the steps left that come after its next one; a command that
\* raised has at most its clean-up left.
Pending == Range(localSteps)
Going == localResult = "none" /\ localOp # NoOp
LocalSequence ==
  /\ localOp = NoOp => localSteps = <<>>
  /\ localResult \notin {"none", "failed"} => localSteps = <<>>
  /\ localResult = "failed" => localSteps \in {<<>>, <<"clean_up">>}
  /\ Ordered(localOp, localSteps, Pending)
  /\ Going => /\ Pending \subseteq StepsOf(localOp)
              /\ \A x \in StepsOf(localOp), y \in Pending :
                   Place(localOp, y) <= Place(localOp, x) => x \in Pending
LocalProgress ==
  localResult \in {"none", "done"} =>
    /\ localOp.op \in {"init", "install"} =>
         /\ "remove_deployment" \in Pending => storage = storedBefore
         /\ "remove_deployment" \notin Pending /\ "store_deployment" \in Pending =>
              localDeployment = {}
         /\ "store_blueprint" \notin Pending => localBlueprint = givenVersion
         /\ "store_deployment" \notin Pending => localDeployment = givenVersion
    /\ localOp.op = "install" /\ "execute" \notin Pending => application = "installed"
    /\ localOp.op = "uninstall" =>
         /\ executed <=> "execute" \notin Pending
         /\ "remove_deployment" \notin Pending => localDeployment = {}
         /\ "remove_blueprint" \notin Pending => localBlueprint = {}

LocalIInv == LocalInv /\ LocalSequence /\ LocalProgress

\* Where the next step is h, the steps that are pending are h and those after it.
LEMMA NextStep ==
  ASSUME LocalIInv, NEW h, LocalAt(h), localResult = "none"
  PROVE  /\ h \in StepsOf(localOp) /\ localOp \in LocalOps
         /\ \A x \in StepsOf(localOp) : x \in Pending <=> Place(localOp, h) <= Place(localOp, x)
         /\ \A x : x \in Pending => x \in StepsOf(localOp)
         /\ Ordered(localOp, Tail(localSteps), Pending \ {h})
<1>1. localSteps # <<>> /\ Head(localSteps) = h /\ Ordered(localOp, localSteps, Pending)
  BY DEF LocalAt, LocalIInv, LocalSequence
<1>2. /\ h \in Pending /\ \A x \in Pending \ {h} : Place(localOp, h) < Place(localOp, x)
      /\ Ordered(localOp, Tail(localSteps), Pending \ {h})
      /\ h \in AllSteps
  BY <1>1, RestInOrder
<1>3. Going /\ localOp \in LocalOps
  BY <1>1 DEF Going, LocalIInv, LocalSequence, LocalInv, LocalTypeOK
<1>4. /\ Pending \subseteq StepsOf(localOp)
      /\ \A x \in StepsOf(localOp), y \in Pending :
           Place(localOp, y) <= Place(localOp, x) => x \in Pending
  BY <1>3 DEF LocalIInv, LocalSequence
<1>5. \A x \in Pending : Place(localOp, h) <= Place(localOp, x)
  <2> TAKE x \in Pending
  <2>1. CASE x = h
    <3>1. Place(localOp, h) \in Nat
      BY <1>2, PlacesAre
    <3> QED BY <2>1, <3>1
  <2>2. CASE x # h
    <3>1. x \in AllSteps
      BY <1>1 DEF Ordered, Range
    <3>2. Place(localOp, h) \in Nat /\ Place(localOp, x) \in Nat
      BY <1>2, <3>1, PlacesAre
    <3> QED BY <2>2, <1>2, <3>2
  <2> QED BY <2>1, <2>2
<1> QED BY <1>2, <1>3, <1>4, <1>5

\* A step that is done goes, and the others stay.
LEMMA ProceedKeeps ==
  ASSUME LocalIInv, NEW h, LocalAt(h), localResult = "none", Proceed, UNCHANGED localOp
  PROVE  /\ LocalSequence' /\ Pending' = Pending \ {h}
         /\ localResult' \in {"none", "done"} /\ (localResult' = "done" => Pending' = {})
         /\ localSteps' # <<>> => localResult' = "none"
<1>1. Ordered(localOp, localSteps', Pending \ {h})
  BY NextStep DEF Proceed
<1>2. Pending' = Pending \ {h}
  BY <1>1 DEF Ordered, Pending
<1>3. localResult' = IF localSteps' = <<>> THEN "done" ELSE "none"
  BY DEF Proceed
<1>4. localOp # NoOp /\ Going
  BY DEF LocalIInv, LocalSequence, LocalAt, Going
<1>5. \A x \in StepsOf(localOp), y \in Pending \ {h} :
        Place(localOp, y) <= Place(localOp, x) => x \in Pending \ {h}
  <2> SUFFICES ASSUME NEW x \in StepsOf(localOp), NEW y \in Pending \ {h},
                      Place(localOp, y) <= Place(localOp, x)
               PROVE  x \in Pending /\ x # h
    OBVIOUS
  <2>1. x \in Pending
    BY <1>4 DEF LocalIInv, LocalSequence
  <2>2. Place(localOp, h) < Place(localOp, y)
    BY RestInOrder DEF LocalAt, LocalIInv, LocalSequence
  <2>3. h \in AllSteps /\ y \in AllSteps
    BY RestInOrder DEF LocalAt, LocalIInv, LocalSequence, Ordered, Range
  <2>4. Place(localOp, h) \in Nat /\ Place(localOp, y) \in Nat
    BY <2>3, PlacesAre
  <2> QED BY <2>1, <2>2, <2>4
<1>6. Range(<<>>) = {}
  BY DEF Range
<1>7. LocalSequence'
  <2>1. Going' => Pending' \subseteq StepsOf(localOp)
    BY <1>2, NextStep
  <2>2. localOp' # NoOp /\ localResult' # "failed" /\ (localResult' \notin {"none", "failed"} => localSteps' = <<>>)
    BY <1>3, <1>4
  <2> QED BY <1>1, <1>2, <1>5, <2>1, <2>2 DEF LocalSequence
<1> QED BY <1>2, <1>3, <1>6, <1>7 DEF Pending

\* A step that raises leaves at most the clean-up.
LEMMA RaiseKeeps ==
  ASSUME LocalIInv, NEW h, LocalAt(h), localResult = "none", h # "path", Raise, UNCHANGED localOp
  PROVE  /\ LocalSequence' /\ localResult' = "failed"
         /\ "clean_up" \in Pending => "clean_up" \in Pending'
         /\ Pending' \subseteq {"clean_up"}
<1>1. localResult' = "failed" /\ localSteps' \in {<<>>, <<"clean_up">>}
  BY DEF Raise
<1>2. Ordered(localOp, <<>>, {}) /\ Ordered(localOp, <<"clean_up">>, {"clean_up"})
  <2>1. Ordered(localOp, <<>>, {})
    BY DEF Ordered, InOrder, Range
  <2> QED BY <2>1, OneInOrder DEF AllSteps
<1>3. Pending' \subseteq {"clean_up"} /\ Ordered(localOp, localSteps', Pending')
  BY <1>1, <1>2 DEF Ordered, Pending
<1>4. localOp' # NoOp
  BY DEF LocalIInv, LocalSequence, LocalAt
<1>5. LocalSequence'
  BY <1>1, <1>3, <1>4 DEF LocalSequence, Going
<1>6. "clean_up" \in Pending => "clean_up" \in Pending'
  BY <1>2 DEF Raise, InTryBlock, LocalAt, Pending, Ordered
<1> QED BY <1>1, <1>3, <1>5, <1>6

\* The steps that change what is stored, and where they are in every plan.
Late == {"remove_deployment", "remove_blueprint", "store_blueprint", "store_deployment", "load",
         "execute"}

\* A step that comes after the checks is reached when they are over.
LEMMA ChecksAreOver ==
  ASSUME LocalIInv, NEW h \in Late, LocalAt(h), localResult = "none"
  PROVE  "path" \notin Pending /\ "validate" \notin Pending
<1>1. /\ h \in StepsOf(localOp) /\ localOp \in LocalOps
      /\ \A x \in StepsOf(localOp) : x \in Pending <=> Place(localOp, h) <= Place(localOp, x)
      /\ \A x : x \in Pending => x \in StepsOf(localOp)
  BY NextStep
<1>2. ~ (Place(localOp, h) <= Place(localOp, "path")) \/ "path" \notin StepsOf(localOp)
  BY <1>1 DEF Late, Place, StepsOf, InitSteps, Perhaps, LocalOps
<1>3. ~ (Place(localOp, h) <= Place(localOp, "validate")) \/ "validate" \notin StepsOf(localOp)
  BY <1>1 DEF Late, Place, StepsOf, InitSteps, Perhaps, LocalOps
<1> QED BY <1>1, <1>2, <1>3

\* After a failure only the `finally' is left to do.
LEMMA OnlyCleanUpRemains ==
  ASSUME LocalIInv, NEW h, LocalAt(h)
  PROVE  localResult = "none" \/ (localResult = "failed" /\ localSteps = <<"clean_up">> /\ h = "clean_up")
<1>1. localSteps # <<>> /\ Head(localSteps) = h
  BY DEF LocalAt
<1>2. localResult \in {"none", "failed"}
  BY <1>1 DEF LocalIInv, LocalSequence
<1>3. localResult = "failed" => localSteps = <<"clean_up">>
  BY <1>1 DEF LocalIInv, LocalSequence
<1>4. Head(<<"clean_up">>) = "clean_up"
  OBVIOUS
<1> QED BY <1>1, <1>2, <1>3, <1>4

\* What every step but the first and the clean-up has in common.
LEMMA StepKeeps ==
  ASSUME LocalIInv, NEW h \in Late \cup {"validate", "activate", "plugins"}, LocalAt(h),
         Proceed \/ Raise, UNCHANGED <<Command, localTemp>>,
         h \notin Late => UNCHANGED storage
  PROVE  /\ localResult = "none"
         /\ LocalSequence' /\ ChecksComeFirst' /\ TempIsRemoved'
         /\ \/ Pending' = Pending \ {h} /\ localResult' \in {"none", "done"}
               /\ (localResult' = "done" => Pending' = {})
            \/ localResult' = "failed" /\ Raise
<1>1. localResult = "none" /\ h # "path" /\ h # "clean_up"
  BY OnlyCleanUpRemains DEF Late
<1>2. localOp' = localOp /\ storedBefore' = storedBefore /\ localTemp' = localTemp
  BY DEF Command
<1>3. CASE Proceed
  <2>1. /\ LocalSequence' /\ Pending' = Pending \ {h} /\ localResult' \in {"none", "done"}
        /\ (localResult' = "done" => Pending' = {})
    BY <1>1, <1>2, <1>3, ProceedKeeps
  <2>2. ChecksComeFirst'
    <3>1. CASE h \in Late
      <4>1. "path" \notin Pending' /\ "validate" \notin Pending'
        BY <1>1, <2>1, <3>1, ChecksAreOver
      <4> QED BY <4>1, <2>1 DEF ChecksComeFirst, Pending
    <3>2. CASE h \notin Late
      BY <3>2, <1>2, <2>1 DEF ChecksComeFirst, Pending, LocalIInv, LocalInv, storage
    <3> QED BY <3>1, <3>2
  <2>3. TempIsRemoved'
    BY <1>1, <1>2, <2>1 DEF TempIsRemoved, LocalTempAfter, Pending, LocalIInv, LocalInv
  <2> QED BY <1>1, <2>1, <2>2, <2>3
<1>4. CASE Raise
  <2>1. /\ LocalSequence' /\ localResult' = "failed"
        /\ "clean_up" \in Pending => "clean_up" \in Pending'
        /\ Pending' \subseteq {"clean_up"}
    BY <1>1, <1>2, <1>4, RaiseKeeps
  <2>2. ChecksComeFirst'
    BY <2>1 DEF ChecksComeFirst, Pending
  <2>3. TempIsRemoved'
    BY <1>1, <1>2, <2>1 DEF TempIsRemoved, LocalTempAfter, Pending, LocalIInv, LocalInv
  <2> QED BY <1>1, <1>4, <2>1, <2>2, <2>3
<1> QED BY <1>3, <1>4


\* Which commands have a step, and where.
LEMMA StepsAre ==
  ASSUME NEW o \in LocalOps
  PROVE  /\ o.op \in {"init", "install", "start", "uninstall"}
         /\ "path" \in StepsOf(o) <=> o.op \in {"init", "install"}
         /\ "remove_deployment" \in StepsOf(o) <=> o.op # "start"
         /\ "remove_blueprint" \in StepsOf(o) <=> o.op # "start"
         /\ "store_blueprint" \in StepsOf(o) <=> o.op \in {"init", "install"}
         /\ "store_deployment" \in StepsOf(o) <=> o.op \in {"init", "install"}
         /\ "clean_up" \in StepsOf(o) <=> o.op = "install"
         /\ "load" \in StepsOf(o) <=> o.op # "init"
         /\ "execute" \in StepsOf(o) <=> o.op # "init"
<1>1. CASE o.op = "init"
  BY <1>1 DEF StepsOf, InitSteps, Perhaps
<1>2. CASE o.op = "install"
  BY <1>2 DEF StepsOf, InitSteps, Perhaps
<1>3. CASE o.op = "start"
  BY <1>3 DEF StepsOf
<1>4. CASE o.op = "uninstall"
  BY <1>4 DEF StepsOf
<1> QED BY <1>1, <1>2, <1>3, <1>4 DEF LocalOps

\* The places the proofs calculate with.
LEMMA PlacesOf ==
  ASSUME NEW o
  PROVE  /\ Place(o, "path") = IF o.op = "init" THEN 4 ELSE 1
         /\ Place(o, "remove_deployment") = IF o.op = "uninstall" THEN 13 ELSE 5
         /\ Place(o, "remove_blueprint") = IF o.op = "uninstall" THEN 14 ELSE 6
         /\ Place(o, "store_blueprint") = 8
         /\ Place(o, "store_deployment") = 9
         /\ Place(o, "clean_up") = 10
         /\ Place(o, "load") = 11
         /\ Place(o, "execute") = 12
BY DEF Place

\* What is pending where a step changes what is stored.
LEMMA WhatIsPending ==
  ASSUME LocalIInv, localResult = "none"
  PROVE  /\ LocalAt("path") => localOp.op \in {"init", "install"} /\ "remove_deployment" \in Pending
                               /\ (localOp.op = "install" => "clean_up" \in Pending)
         /\ LocalAt("remove_deployment") =>
              /\ localOp.op \in {"init", "install"} =>
                   {"store_blueprint", "store_deployment"} \subseteq Pending
              /\ localOp.op = "install" => "execute" \in Pending
              /\ localOp.op = "uninstall" => "execute" \notin Pending /\ "remove_blueprint" \in Pending
              /\ localOp.op \in {"init", "install", "uninstall"}
         /\ LocalAt("remove_blueprint") =>
              /\ localOp.op \in {"init", "install"} =>
                   {"store_blueprint", "store_deployment"} \subseteq Pending
              /\ localOp.op = "install" => "execute" \in Pending
              /\ localOp.op = "uninstall" => "execute" \notin Pending
              /\ localOp.op \in {"init", "install", "uninstall"}
              /\ "remove_deployment" \notin Pending
         /\ LocalAt("store_blueprint") =>
              /\ localOp.op \in {"init", "install"} /\ "store_deployment" \in Pending
              /\ "remove_deployment" \notin Pending
              /\ localOp.op = "install" => "execute" \in Pending
         /\ LocalAt("store_deployment") =>
              /\ localOp.op \in {"init", "install"} /\ "store_blueprint" \notin Pending
              /\ "remove_deployment" \notin Pending
              /\ localOp.op = "install" => "execute" \in Pending
         /\ LocalAt("clean_up") => localOp.op = "install"
         /\ LocalAt("load") =>
              /\ localOp.op \in {"install", "start", "uninstall"} /\ "execute" \in Pending
              /\ localOp.op = "install" =>
                   {"remove_deployment", "store_blueprint", "store_deployment"} \cap Pending = {}
              /\ localOp.op = "uninstall" => {"remove_deployment", "remove_blueprint"} \subseteq Pending
         /\ LocalAt("execute") =>
              /\ localOp.op \in {"install", "start", "uninstall"} /\ "execute" \in Pending
              /\ localOp.op = "install" =>
                   {"remove_deployment", "store_blueprint", "store_deployment"} \cap Pending = {}
              /\ localOp.op = "uninstall" => {"remove_deployment", "remove_blueprint"} \subseteq Pending
<1> DEFINE AtStep(h) ==
      /\ h \in StepsOf(localOp) /\ localOp \in LocalOps
      /\ \A x \in StepsOf(localOp) : x \in Pending <=> Place(localOp, h) <= Place(localOp, x)
      /\ \A x : x \in Pending => x \in StepsOf(localOp)
<1>1. \A h : LocalAt(h) => AtStep(h)
  BY NextStep
<1> QED BY <1>1, StepsAre, PlacesOf

\* What a step that raises leaves as it was holds after it.
LEMMA RaisedInv ==
  ASSUME LocalIInv, localResult' = "failed", UNCHANGED <<Command, ranOn>>,
         LocalTypeOK', DeploymentIsOfBlueprint', LocalSequence', ChecksComeFirst', TempIsRemoved',
         UninstallIsRepeatable'
  PROVE  LocalIInv'
<1>1. RunsWhatWasGiven'
  BY DEF LocalIInv, LocalInv, RunsWhatWasGiven, Command
<1>2. LocalProgress'
  BY DEF LocalProgress
<1> QED BY <1>1, <1>2 DEF LocalIInv, LocalInv

\* A step that changes nothing of what is stored.
LEMMA CheckOrPrepareKeeps ==
  ASSUME LocalIInv, CheckOrPrepare
  PROVE  LocalIInv'
<1> USE DEF CheckOrPrepare, Kept, Command, storage
<1>1. PICK h \in {"validate", "activate", "plugins"} : LocalAt(h)
  OBVIOUS
<1>2. /\ localResult = "none" /\ LocalSequence' /\ ChecksComeFirst' /\ TempIsRemoved'
      /\ \/ Pending' = Pending \ {h} /\ localResult' \in {"none", "done"}
            /\ (localResult' = "done" => Pending' = {})
         \/ localResult' = "failed" /\ Raise
  BY <1>1, StepKeeps
<1>3. LocalTypeOK' /\ DeploymentIsOfBlueprint'
  BY <1>2 DEF LocalIInv, LocalInv, LocalTypeOK, DeploymentIsOfBlueprint
<1>4. CASE localResult' = "failed"
  <2>1. UninstallIsRepeatable'
    BY <1>4 DEF LocalIInv, LocalInv, UninstallIsRepeatable
  <2> QED BY <1>2, <1>3, <1>4, <2>1, RaisedInv
<1>5. CASE localResult' \in {"none", "done"} /\ Pending' = Pending \ {h} /\ (localResult' = "done" => Pending' = {})
  <2>1. LocalProgress'
    BY <1>1, <1>2, <1>5 DEF LocalIInv, LocalProgress
  <2>2. RunsWhatWasGiven' /\ UninstallIsRepeatable'
    BY <1>5, <2>1 DEF LocalIInv, LocalInv, LocalProgress, RunsWhatWasGiven, UninstallIsRepeatable
  <2> QED BY <1>2, <1>3, <2>1, <2>2 DEF LocalIInv, LocalInv
<1> QED BY <1>2, <1>4, <1>5

\* The first half of remove().
LEMMA RemoveDeploymentKeeps ==
  ASSUME LocalIInv, RemoveDeployment
  PROVE  LocalIInv'
<1> USE DEF RemoveDeployment, Kept, Command
<1> DEFINE h == "remove_deployment"
<1>1. LocalAt(h) /\ h \in Late
  BY DEF Late
<1>2. /\ localResult = "none" /\ LocalSequence' /\ ChecksComeFirst' /\ TempIsRemoved'
      /\ \/ Pending' = Pending \ {h} /\ localResult' \in {"none", "done"}
            /\ (localResult' = "done" => Pending' = {})
         \/ localResult' = "failed" /\ Raise
  BY <1>1, StepKeeps
<1>3. LocalTypeOK' /\ DeploymentIsOfBlueprint'
  BY <1>2 DEF LocalIInv, LocalInv, LocalTypeOK, DeploymentIsOfBlueprint
<1>0. /\ localOp.op \in {"init", "install"} => {"store_blueprint", "store_deployment"} \subseteq Pending
      /\ localOp.op = "install" => "execute" \in Pending
      /\ localOp.op = "uninstall" => "execute" \notin Pending /\ "remove_blueprint" \in Pending
      /\ localOp.op \in {"init", "install", "uninstall"}
  BY <1>1, <1>2, WhatIsPending
<1>4. CASE localResult' = "failed" /\ Raise
  <2>1. UNCHANGED <<localDeployment, application>>
    BY <1>2, <1>4 DEF Proceed, Raise
  <2>2. UninstallIsRepeatable'
    BY <1>4, <2>1 DEF LocalIInv, LocalInv, UninstallIsRepeatable
  <2> QED BY <1>2, <1>3, <1>4, <2>2, RaisedInv
<1>5. CASE localResult' \in {"none", "done"} /\ Pending' = Pending \ {h} /\ (localResult' = "done" => Pending' = {})
  <2>0. localDeployment' = {} /\ localBlueprint' = localBlueprint
    BY <1>5 DEF Raise
  <2>1. LocalProgress'
    BY <1>0, <1>2, <1>5, <2>0 DEF LocalIInv, LocalProgress
  <2>2. UninstallIsRepeatable'
    BY <1>0, <1>2, <1>5, <2>0, <2>1
       DEF LocalIInv, LocalInv, LocalProgress, UninstallIsRepeatable
  <2>3. RunsWhatWasGiven'
    BY <1>5, <2>1 DEF LocalIInv, LocalInv, LocalProgress, RunsWhatWasGiven
  <2> QED BY <1>2, <1>3, <2>1, <2>2, <2>3 DEF LocalIInv, LocalInv
<1> QED BY <1>2, <1>4, <1>5

\* The second half of remove().
LEMMA RemoveBlueprintKeeps ==
  ASSUME LocalIInv, RemoveBlueprint
  PROVE  LocalIInv'
<1> USE DEF RemoveBlueprint, Kept, Command
<1> DEFINE h == "remove_blueprint"
<1>1. LocalAt(h) /\ h \in Late
  BY DEF Late
<1>2. /\ localResult = "none" /\ LocalSequence' /\ ChecksComeFirst' /\ TempIsRemoved'
      /\ \/ Pending' = Pending \ {h} /\ localResult' \in {"none", "done"}
            /\ (localResult' = "done" => Pending' = {})
         \/ localResult' = "failed" /\ Raise
  BY <1>1, StepKeeps
<1>0. /\ localOp.op \in {"init", "install"} => {"store_blueprint", "store_deployment"} \subseteq Pending
      /\ localOp.op = "install" => "execute" \in Pending
      /\ localOp.op = "uninstall" => "execute" \notin Pending
      /\ localOp.op \in {"init", "install", "uninstall"}
      /\ "remove_deployment" \notin Pending
  BY <1>1, <1>2, WhatIsPending
<1>3. localDeployment = {}
  BY <1>0, <1>2 DEF LocalIInv, LocalProgress
<1>6. LocalTypeOK' /\ DeploymentIsOfBlueprint'
  BY <1>2, <1>3 DEF LocalIInv, LocalInv, LocalTypeOK, DeploymentIsOfBlueprint
<1>4. CASE localResult' = "failed" /\ Raise
  <2>1. UNCHANGED localBlueprint
    BY <1>2, <1>4 DEF Proceed, Raise
  <2>2. UninstallIsRepeatable'
    BY <1>4, <2>1 DEF LocalIInv, LocalInv, UninstallIsRepeatable
  <2> QED BY <1>2, <1>4, <1>6, <2>2, RaisedInv
<1>5. CASE localResult' \in {"none", "done"} /\ Pending' = Pending \ {h} /\ (localResult' = "done" => Pending' = {})
  <2>0. localBlueprint' = {}
    BY <1>5 DEF Raise
  <2>1. LocalProgress'
    BY <1>0, <1>2, <1>3, <1>5, <2>0 DEF LocalIInv, LocalProgress
  <2>2. UninstallIsRepeatable'
    BY <1>0, <1>2, <1>3, <1>5, <2>0, <2>1
       DEF LocalIInv, LocalInv, LocalProgress, UninstallIsRepeatable
  <2>3. RunsWhatWasGiven'
    BY <1>5, <2>1 DEF LocalIInv, LocalInv, LocalProgress, RunsWhatWasGiven
  <2> QED BY <1>2, <1>6, <2>1, <2>2, <2>3 DEF LocalIInv, LocalInv
<1> QED BY <1>2, <1>4, <1>5

\* The first half of init_env().
LEMMA StoreBlueprintKeeps ==
  ASSUME LocalIInv, StoreBlueprint
  PROVE  LocalIInv'
<1> USE DEF StoreBlueprint, Kept, Command
<1> DEFINE h == "store_blueprint"
<1>1. LocalAt(h) /\ h \in Late
  BY DEF Late
<1>2. /\ localResult = "none" /\ LocalSequence' /\ ChecksComeFirst' /\ TempIsRemoved'
      /\ \/ Pending' = Pending \ {h} /\ localResult' \in {"none", "done"}
            /\ (localResult' = "done" => Pending' = {})
         \/ localResult' = "failed" /\ Raise
  BY <1>1, StepKeeps
<1>0. /\ localOp.op \in {"init", "install"} /\ "store_deployment" \in Pending
      /\ "remove_deployment" \notin Pending
      /\ localOp.op = "install" => "execute" \in Pending
  BY <1>1, <1>2, WhatIsPending
<1>3. localDeployment = {}
  BY <1>0, <1>2 DEF LocalIInv, LocalProgress
<1>6. LocalTypeOK' /\ DeploymentIsOfBlueprint' /\ UninstallIsRepeatable'
  BY <1>0, <1>2, <1>3 DEF LocalIInv, LocalInv, LocalTypeOK, DeploymentIsOfBlueprint,
                          UninstallIsRepeatable
<1>4. CASE localResult' = "failed" /\ Raise
  BY <1>2, <1>4, <1>6, RaisedInv
<1>5. CASE localResult' \in {"none", "done"} /\ Pending' = Pending \ {h} /\ (localResult' = "done" => Pending' = {})
  <2>0. localBlueprint' = givenVersion
    BY <1>5 DEF Raise
  <2>1. LocalProgress'
    BY <1>0, <1>2, <1>3, <1>5, <2>0 DEF LocalIInv, LocalProgress
  <2>2. RunsWhatWasGiven'
    BY <1>5, <2>1 DEF LocalIInv, LocalInv, LocalProgress, RunsWhatWasGiven
  <2> QED BY <1>2, <1>6, <2>1, <2>2 DEF LocalIInv, LocalInv
<1> QED BY <1>2, <1>4, <1>5

\* The second half of init_env(): the deployment is of that blueprint.
LEMMA StoreDeploymentKeeps ==
  ASSUME LocalIInv, StoreDeployment
  PROVE  LocalIInv'
<1> USE DEF StoreDeployment, Kept, Command
<1> DEFINE h == "store_deployment"
<1>1. LocalAt(h) /\ h \in Late
  BY DEF Late
<1>2. /\ localResult = "none" /\ LocalSequence' /\ ChecksComeFirst' /\ TempIsRemoved'
      /\ \/ Pending' = Pending \ {h} /\ localResult' \in {"none", "done"}
            /\ (localResult' = "done" => Pending' = {})
         \/ localResult' = "failed" /\ Raise
  BY <1>1, StepKeeps
<1>0. /\ localOp.op \in {"init", "install"} /\ "store_blueprint" \notin Pending
      /\ "remove_deployment" \notin Pending
      /\ localOp.op = "install" => "execute" \in Pending
  BY <1>1, <1>2, WhatIsPending
<1>3. localBlueprint = givenVersion
  BY <1>0, <1>2 DEF LocalIInv, LocalProgress
<1>6. LocalTypeOK' /\ DeploymentIsOfBlueprint' /\ UninstallIsRepeatable'
  BY <1>0, <1>2, <1>3 DEF LocalIInv, LocalInv, LocalTypeOK, DeploymentIsOfBlueprint,
                          UninstallIsRepeatable
<1>4. CASE localResult' = "failed" /\ Raise
  BY <1>2, <1>4, <1>6, RaisedInv
<1>5. CASE localResult' \in {"none", "done"} /\ Pending' = Pending \ {h} /\ (localResult' = "done" => Pending' = {})
  <2>0. localDeployment' = givenVersion
    BY <1>5 DEF Raise
  <2>1. LocalProgress'
    BY <1>0, <1>2, <1>3, <1>5, <2>0 DEF LocalIInv, LocalProgress
  <2>2. RunsWhatWasGiven'
    BY <1>5, <2>1 DEF LocalIInv, LocalInv, LocalProgress, RunsWhatWasGiven
  <2> QED BY <1>2, <1>6, <2>1, <2>2 DEF LocalIInv, LocalInv
<1> QED BY <1>2, <1>4, <1>5

\* load_env(): there is a deployment, and it is of the stored blueprint.
LEMMA LoadEnvKeeps ==
  ASSUME LocalIInv, LoadEnv
  PROVE  LocalIInv'
<1> USE DEF LoadEnv, Command
<1> DEFINE h == "load"
<1>1. LocalAt(h) /\ h \in Late
  BY DEF Late
<1>2. /\ localResult = "none" /\ LocalSequence' /\ ChecksComeFirst' /\ TempIsRemoved'
      /\ \/ Pending' = Pending \ {h} /\ localResult' \in {"none", "done"}
            /\ (localResult' = "done" => Pending' = {})
         \/ localResult' = "failed" /\ Raise
  BY <1>1, StepKeeps
<1>0. /\ localOp.op \in {"install", "start", "uninstall"} /\ "execute" \in Pending
      /\ localOp.op = "install" =>
           {"remove_deployment", "store_blueprint", "store_deployment"} \cap Pending = {}
      /\ localOp.op = "uninstall" => {"remove_deployment", "remove_blueprint"} \subseteq Pending
  BY <1>1, <1>2, WhatIsPending
<1>3. localOp.op = "install" => localDeployment = givenVersion /\ localBlueprint = givenVersion
  BY <1>0, <1>2 DEF LocalIInv, LocalProgress
<1>6. LocalTypeOK' /\ DeploymentIsOfBlueprint' /\ UninstallIsRepeatable'
  BY <1>0, <1>2 DEF LocalIInv, LocalInv, LocalTypeOK, DeploymentIsOfBlueprint,
                    UninstallIsRepeatable, LocalProgress
<1>4. CASE localResult' = "failed" /\ Raise
  <2>1. UNCHANGED ranOn
    BY <1>2, <1>4 DEF Proceed, Raise
  <2> QED BY <1>2, <1>4, <1>6, <2>1, RaisedInv
<1>5. CASE localResult' \in {"none", "done"} /\ Pending' = Pending \ {h} /\ (localResult' = "done" => Pending' = {})
  <2>0. ranOn' = localDeployment
    BY <1>5 DEF Raise
  <2>1. LocalProgress'
    BY <1>0, <1>2, <1>3, <1>5 DEF LocalIInv, LocalProgress
  <2>2. RunsWhatWasGiven'
    BY <1>0, <1>3, <1>5, <2>0, <2>1 DEF LocalIInv, LocalInv, LocalProgress, RunsWhatWasGiven
  <2> QED BY <1>2, <1>6, <2>1, <2>2 DEF LocalIInv, LocalInv
<1> QED BY <1>2, <1>4, <1>5

\* The workflow runs on what was stored.
LEMMA ExecuteKeeps ==
  ASSUME LocalIInv, Execute
  PROVE  LocalIInv'
<1> USE DEF Execute, Command
<1> DEFINE h == "execute"
<1>1. LocalAt(h) /\ h \in Late
  BY DEF Late
<1>2. /\ localResult = "none" /\ LocalSequence' /\ ChecksComeFirst' /\ TempIsRemoved'
      /\ \/ Pending' = Pending \ {h} /\ localResult' \in {"none", "done"}
            /\ (localResult' = "done" => Pending' = {})
         \/ localResult' = "failed" /\ Raise
  BY <1>1, StepKeeps
<1>0. /\ localOp.op \in {"install", "start", "uninstall"} /\ "execute" \in Pending
      /\ localOp.op = "install" =>
           {"remove_deployment", "store_blueprint", "store_deployment"} \cap Pending = {}
      /\ localOp.op = "uninstall" => {"remove_deployment", "remove_blueprint"} \subseteq Pending
  BY <1>1, <1>2, WhatIsPending
<1>3. localOp.op = "install" => localDeployment = givenVersion /\ localBlueprint = givenVersion
  BY <1>0, <1>2 DEF LocalIInv, LocalProgress
<1>6. LocalTypeOK' /\ DeploymentIsOfBlueprint'
  <2>1. application' \in {application, "installed", "uninstalled"} /\ executed' \in {executed, TRUE}
    OBVIOUS
  <2>2. localResult' \in {"none", "done", "failed"}
    BY <1>2
  <2>3. UNCHANGED <<localOp, givenVersion, localCount, storedBefore, localBlueprint, localDeployment,
                    localTemp, ranOn>>
    OBVIOUS
  <2> HIDE DEF Execute, Command
  <2>4. /\ application' \in {"none", "partly", "installed", "uninstalled"}
        /\ executed' \in BOOLEAN
    BY <2>1 DEF LocalIInv, LocalInv, LocalTypeOK
  <2>5. LocalTypeOK'
    BY <2>2, <2>3, <2>4 DEF LocalIInv, LocalInv, LocalTypeOK
  <2>6. DeploymentIsOfBlueprint'
    BY <2>3 DEF LocalIInv, LocalInv, DeploymentIsOfBlueprint
  <2> QED BY <2>5, <2>6
<1>4. CASE localResult' = "failed" /\ Raise
  <2>1. UNCHANGED <<application, executed>>
    BY <1>2, <1>4 DEF Proceed, Raise
  <2>2. UninstallIsRepeatable'
    BY <1>4, <2>1 DEF LocalIInv, LocalInv, UninstallIsRepeatable
  <2> QED BY <1>2, <1>4, <1>6, <2>2, RaisedInv
<1>5. CASE localResult' \in {"none", "done"} /\ Pending' = Pending \ {h} /\ (localResult' = "done" => Pending' = {})
  <2>0. executed' = TRUE /\ application' = IF localOp.op = "uninstall" THEN "uninstalled" ELSE "installed"
    BY <1>5 DEF Raise
  <2>1. LocalProgress'
    BY <1>0, <1>2, <1>3, <1>5, <2>0 DEF LocalIInv, LocalProgress
  <2>2. RunsWhatWasGiven' /\ UninstallIsRepeatable'
    BY <1>0, <1>3, <1>5, <2>0, <2>1
       DEF LocalIInv, LocalInv, LocalProgress, RunsWhatWasGiven, UninstallIsRepeatable
  <2> QED BY <1>2, <1>6, <2>1, <2>2 DEF LocalIInv, LocalInv
<1> QED BY <1>2, <1>4, <1>5

\* The blueprint's path, extracted from an archive or not.
LEMMA GetLocalPathKeeps ==
  ASSUME LocalIInv, GetLocalPath
  PROVE  LocalIInv'
<1> USE DEF GetLocalPath, Command, storage
<1>1. LocalAt("path") /\ localResult = "none"
  BY OnlyCleanUpRemains
<1>0. /\ localOp.op \in {"init", "install"} /\ "remove_deployment" \in Pending
      /\ localOp.op = "install" => "clean_up" \in Pending
  BY <1>1, WhatIsPending
<1>2. storage = storedBefore
  BY <1>0, <1>1 DEF LocalIInv, LocalProgress
<1>3. LocalTypeOK' /\ DeploymentIsOfBlueprint' /\ UninstallIsRepeatable' /\ ChecksComeFirst'
  <2>1. localTemp' \in {"none", "there"}
    OBVIOUS
  <2>2. localResult' \in {"none", "done", "bad_path"}
    BY <1>1 DEF Proceed
  <2> QED BY <1>0, <1>2, <2>1, <2>2 DEF LocalIInv, LocalInv, LocalTypeOK, DeploymentIsOfBlueprint,
                                   UninstallIsRepeatable, ChecksComeFirst
<1>4. CASE Proceed
  <2>1. /\ LocalSequence' /\ Pending' = Pending \ {"path"} /\ localResult' \in {"none", "done"}
        /\ (localResult' = "done" => Pending' = {})
    BY <1>1, <1>4, ProceedKeeps
  <2>2. TempIsRemoved'
    BY <1>0, <2>1 DEF TempIsRemoved, Pending
  <2>3. LocalProgress'
    BY <1>0, <1>1, <2>1 DEF LocalIInv, LocalProgress
  <2>4. RunsWhatWasGiven'
    BY <2>1, <2>3 DEF LocalIInv, LocalInv, LocalProgress, RunsWhatWasGiven
  <2> QED BY <1>3, <2>1, <2>2, <2>3, <2>4 DEF LocalIInv, LocalInv
<1>5. CASE localSteps' = <<>> /\ localResult' = "bad_path"
  <2>1. Ordered(localOp, <<>>, {}) /\ Pending' = {}
    BY <1>5 DEF Ordered, InOrder, Range, Pending
  <2>2. LocalSequence'
    BY <1>5, <2>1 DEF LocalSequence, Going
  <2>3. TempIsRemoved' /\ LocalProgress' /\ RunsWhatWasGiven'
    BY <1>5 DEF TempIsRemoved, LocalProgress, RunsWhatWasGiven, LocalIInv, LocalInv
  <2> QED BY <1>3, <2>2, <2>3 DEF LocalIInv, LocalInv
<1> QED BY <1>4, <1>5

\* The directory an archive was extracted to is removed.
LEMMA CleanUpKeeps ==
  ASSUME LocalIInv, CleanUp
  PROVE  LocalIInv'
<1> USE DEF CleanUp, Command, storage
<1>1. LocalTypeOK' /\ DeploymentIsOfBlueprint' /\ TempIsRemoved'
  <2>1. localResult' \in {"none", "done", "failed", "unclean", "bad_path", "killed"}
    BY DEF Proceed, LocalIInv, LocalInv, LocalTypeOK
  <2>2. localTemp' \in {"none", "removed", "emptied", "partly"}
    BY DEF LocalTempAfter
  <2>3. TempIsRemoved'
    BY DEF TempIsRemoved, LocalTempAfter
  <2> QED BY <2>1, <2>2, <2>3 DEF LocalIInv, LocalInv, LocalTypeOK, DeploymentIsOfBlueprint
<1>2. CASE localResult = "none" /\ Proceed
  <2>1. /\ LocalSequence' /\ Pending' = Pending \ {"clean_up"} /\ localResult' \in {"none", "done"}
        /\ (localResult' = "done" => Pending' = {})
    BY <1>2, ProceedKeeps
  <2>2. LocalProgress'
    BY <1>2, <2>1 DEF LocalIInv, LocalProgress
  <2>3. RunsWhatWasGiven' /\ UninstallIsRepeatable' /\ ChecksComeFirst'
    BY <2>1, <2>2 DEF LocalIInv, LocalInv, LocalProgress, RunsWhatWasGiven, UninstallIsRepeatable,
                      ChecksComeFirst, Pending
  <2> QED BY <1>1, <2>1, <2>2, <2>3 DEF LocalIInv, LocalInv
<1>3. CASE localResult = "failed" /\ localSteps = <<"clean_up">> /\ Proceed
  <2>1. localSteps' = <<>> /\ localResult' = "failed"
    BY <1>3 DEF Proceed
  <2>2. Ordered(localOp, <<>>, {}) /\ Range(<<>>) = {}
    BY DEF Ordered, InOrder, Range
  <2>3. LocalSequence' /\ ChecksComeFirst'
    BY <2>1, <2>2 DEF LocalSequence, Going, Pending, ChecksComeFirst
  <2>4. UninstallIsRepeatable'
    BY <1>3, <2>1 DEF LocalIInv, LocalInv, UninstallIsRepeatable
  <2> QED BY <1>1, <2>1, <2>3, <2>4, RaisedInv
<1>4. CASE localSteps' = <<>> /\ localResult' = "unclean"
  <2>1. Ordered(localOp, <<>>, {}) /\ Range(<<>>) = {} /\ Pending' = {}
    BY <1>4 DEF Ordered, InOrder, Range, Pending
  <2>2. LocalSequence' /\ ChecksComeFirst' /\ LocalProgress'
    BY <1>4, <2>1 DEF LocalSequence, Going, Pending, ChecksComeFirst, LocalProgress
  <2>3. RunsWhatWasGiven' /\ UninstallIsRepeatable'
    BY <1>4 DEF LocalIInv, LocalInv, RunsWhatWasGiven, UninstallIsRepeatable
  <2> QED BY <1>1, <2>2, <2>3 DEF LocalIInv, LocalInv
<1>5. localResult = "none" \/ (localResult = "failed" /\ localSteps = <<"clean_up">>)
  BY OnlyCleanUpRemains
<1> QED BY <1>2, <1>3, <1>4, <1>5

\* The process is killed, between any two steps.
LEMMA LocalKilledKeeps ==
  ASSUME LocalIInv, LocalKilled
  PROVE  LocalIInv'
<1> USE DEF LocalKilled, Kept, Command, storage
<1>1. Ordered(localOp, <<>>, {}) /\ Range(<<>>) = {}
  BY DEF Ordered, InOrder, Range
<1>2. LocalSequence' /\ ChecksComeFirst'
  BY <1>1 DEF LocalSequence, Going, Pending, ChecksComeFirst
<1>3. LocalTypeOK' /\ DeploymentIsOfBlueprint' /\ TempIsRemoved' /\ RunsWhatWasGiven'
      /\ UninstallIsRepeatable' /\ LocalProgress'
  BY DEF LocalIInv, LocalInv, LocalTypeOK, DeploymentIsOfBlueprint, TempIsRemoved,
         RunsWhatWasGiven, UninstallIsRepeatable, LocalProgress
<1> QED BY <1>2, <1>3 DEF LocalIInv, LocalInv

\* A command is called, with what is stored from earlier ones.
LEMMA LocalCallKeeps ==
  ASSUME LocalIInv, NEW o \in LocalOps, NEW v \in Versions, LocalCall(o, v)
  PROVE  LocalIInv'
<1> USE DEF LocalCall, storage
<1>1. Ordered(o, LocalPlan(o), StepsOf(o)) /\ LocalPlan(o) # <<>>
  BY PlanInOrder
<1>2. Pending' = StepsOf(o) /\ localOp' = o
  BY <1>1 DEF Ordered, Pending
<1>3. LocalSequence'
  <2>1. o # NoOp
    <3>1. o.op # "none" /\ NoOp.op = "none"
      BY StepsAre DEF NoOp
    <3> QED BY <3>1
  <2> QED BY <1>1, <1>2, <2>1 DEF LocalSequence
<1>4. LocalTypeOK'
  <2>1. localCount' \in 0 .. MaxLocalCommands
    BY LocalAssumption DEF LocalIInv, LocalInv, LocalTypeOK
  <2>2. {v} \in {{}} \cup {{w} : w \in Versions}
    OBVIOUS
  <2> QED BY <2>1, <2>2 DEF LocalIInv, LocalInv, LocalTypeOK
<1>5. LocalProgress'
  BY <1>2, StepsAre DEF LocalProgress
<1>6. DeploymentIsOfBlueprint' /\ RunsWhatWasGiven' /\ UninstallIsRepeatable'
      /\ ChecksComeFirst' /\ TempIsRemoved'
  BY DEF LocalIInv, LocalInv, DeploymentIsOfBlueprint, RunsWhatWasGiven, UninstallIsRepeatable,
         ChecksComeFirst, TempIsRemoved
<1> QED BY <1>3, <1>4, <1>5, <1>6 DEF LocalIInv, LocalInv

\* Nothing is stored at first.
LEMMA LocalStarts == LocalInit => LocalIInv
<1> SUFFICES ASSUME LocalInit PROVE LocalIInv
  OBVIOUS
<1> USE DEF LocalInit
<1>1. Ordered(localOp, <<>>, {}) /\ Range(<<>>) = {}
  BY DEF Ordered, InOrder, Range
<1>2. LocalSequence
  BY <1>1 DEF LocalSequence, Going, Pending
<1>3. localOp.op = "none"
  BY DEF NoOp
<1>4. LocalTypeOK
  <2>1. localCount \in 0 .. MaxLocalCommands
    BY LocalAssumption
  <2> QED BY <2>1 DEF LocalTypeOK
<1>5. DeploymentIsOfBlueprint /\ RunsWhatWasGiven /\ UninstallIsRepeatable /\ ChecksComeFirst
      /\ TempIsRemoved /\ LocalProgress
  BY <1>1, <1>3 DEF DeploymentIsOfBlueprint, RunsWhatWasGiven, UninstallIsRepeatable,
       ChecksComeFirst, TempIsRemoved, LocalProgress
<1> QED BY <1>2, <1>4, <1>5 DEF LocalIInv, LocalInv

\* Every step of every local command keeps it.
LEMMA LocalKeeps ==
  ASSUME LocalIInv, [LocalNext]_localVars
  PROVE  LocalIInv'
<1>1. CASE LocalFlowStep
  BY <1>1, GetLocalPathKeeps, CheckOrPrepareKeeps, RemoveDeploymentKeeps, RemoveBlueprintKeeps,
     StoreBlueprintKeeps, StoreDeploymentKeeps, CleanUpKeeps, LoadEnvKeeps, ExecuteKeeps
     DEF LocalFlowStep
<1>2. CASE LocalKilled
  BY <1>2, LocalKilledKeeps
<1>3. ASSUME NEW o \in LocalOps, NEW v \in Versions, LocalCall(o, v) PROVE LocalIInv'
  BY <1>3, LocalCallKeeps
<1>4. CASE UNCHANGED localVars
  <2> USE <1>4 DEF localVars, storage
  <2>1. LocalTypeOK' /\ DeploymentIsOfBlueprint' /\ TempIsRemoved' /\ RunsWhatWasGiven'
        /\ UninstallIsRepeatable' /\ ChecksComeFirst'
    BY DEF LocalIInv, LocalInv, LocalTypeOK, DeploymentIsOfBlueprint, TempIsRemoved,
           LocalTempAfter, RunsWhatWasGiven, UninstallIsRepeatable, ChecksComeFirst
  <2>2. LocalSequence' /\ LocalProgress'
    BY DEF LocalIInv, LocalSequence, LocalProgress, Going, Pending
  <2> QED BY <2>1, <2>2 DEF LocalIInv, LocalInv
<1> QED BY <1>1, <1>2, <1>3, <1>4 DEF LocalNext

\* What any command does is a local step or leaves what is local alone.
LEMMA LocalFlowSteps == [CfyNext]_cfyVars => [LocalNext]_localVars
BY DEF CfyNext, cfyVars, InAgents, InUpload, InPluginsInstall, InPluginsUpdate, InFlow, InLabels,
       InProfiles, InCluster, InCertificates, InLocal, InEvents, InMaintenance, InSchedules,
       InArchive, InLocalFlow

\* Local commands, repeated, interrupted and failed at any step: a stored deployment
\* is of the stored blueprint, `install' runs on what it was given, an `uninstall'
\* can be repeated until its workflow has succeeded, and leaves no record of an
\* installed application from then on, nothing that is stored goes before the checks
\* (what is removed before initializing fails is lost), and the archive's directory
\* is removed before the workflow runs, completely if the blueprint is at its top.
THEOREM LocalRecordsBelongTogether == CfySpec => []LocalInv
<1>1. CfyInit => LocalIInv
  BY LocalStarts DEF CfyInit
<1>2. LocalIInv /\ [CfyNext]_cfyVars => LocalIInv'
  BY LocalFlowSteps, LocalKeeps
<1>3. LocalIInv => LocalInv
  BY DEF LocalIInv
<1> QED BY <1>1, <1>2, <1>3, PTL DEF CfySpec
-----------------------------------------------------------------------------
\* Behind ArchiveInv: what the steps of an export and of an import have done.  A
\* readable archive holds keys of the profiles it has, and one key only for
\* profiles that share it, and what was told of it is so; ...
KeysAreWhole ==
  \A n \in Saved : HasKey(archive.pathsOf, n) =>
    archive.keys[n] = archive.keysOf[n] /\ archive.keys[n] # NoFile
ArchiveIsSound ==
  /\ archive.dir \/ archive.keys = NoKeys
  /\ archive.readable /\ ~leftOver =>
       /\ \A n \in Saved : archive.keys[n] # NoFile =>
            HasKey(archive.keyPath, n) /\ archive.keysOf[n] = archive.keys[n]
       /\ \A m, n \in Saved :
            HasKey(archive.keyPath, n) /\ archive.keyPath[m] = archive.keyPath[n] =>
              archive.keysOf[m] = archive.keysOf[n]
  /\ archive.complete # "none" => archive.keyPath = archive.pathsOf
  /\ archive.complete = "keys" => KeysAreWhole

\* ... what was backed up are the keys the profiles name; ...
BackedUpTo(rest) ==
  \A n \in Saved \ rest : HasKey(keyPath, n) => exportedKey[n] = KeyOf(n) /\ KeyOf(n) # NoFile
ExportPhase ==
  /\ transferPc = "back_up" => BackedUpTo(left)
  /\ transferPc = "open" => ~includeKeys
  /\ transferPc = "pack" /\ includeKeys => BackedUpTo({})
  /\ transferPc = "remove" => archive.keyPath = archive.pathsOf /\ KeysAreWhole

\* ... and each key of the archive is in the directory until it is in its place.
Importing == transferPc \in {"extract_keys", "extract", "restore"}
KeysOnTheirWay ==
  /\ transferPc = "extract_keys" => \A n \in Saved \ left : exportedKey[n] = archive.keys[n]
  /\ transferPc = "extract" => \A n \in Saved : exportedKey[n] = archive.keys[n]
  /\ transferPc = "restore" =>
       /\ \A n \in Saved : exportedKey[n] \in {NoFile, archive.keys[n]}
       /\ \A n \in Saved : archive.keys[n] # NoFile =>
            IF n \in left THEN exportedKey[n] = archive.keys[n] ELSE KeyOf(n) = archive.keysOf[n]
OthersKept ==
  /\ \A n \in Saved \ ThoseIn(archive.keyPath) : keyPath[n] = untouched[1][n]
  /\ \A p \in KeyPaths :
       (\A m \in ThoseIn(archive.keyPath) : p \notin archive.keyPath[m]) =>
         keyFile[p] = untouched[2][p]
ImportPhase ==
  /\ ~Importing => untouched = <<>>
  /\ Importing => archive.readable
  /\ transferPc = "extract" =>
       /\ left \subseteq ThoseIn(archive.keyPath)
       /\ \A n \in ThoseIn(archive.keyPath) \ left : keyPath[n] = archive.keyPath[n]
  /\ transferPc = "restore" =>
       \A n \in ThoseIn(archive.keyPath) : keyPath[n] = archive.keyPath[n]
  /\ Importing /\ ~leftOver => KeysOnTheirWay /\ OthersKept

ArchiveIInv ==
  /\ ArchiveTypeOK /\ ArchiveIsSound /\ ExportPhase /\ ImportPhase
  /\ KeysPutBack

\* A profile that has a key has one.
LEMMA TheKey ==
  ASSUME NEW paths \in Paths, NEW n \in Saved, HasKey(paths, n)
  PROVE  \E p \in KeyPaths : paths[n] = {p} /\ (CHOOSE q \in paths[n] : TRUE) = p
<1>1. PICK p \in KeyPaths \cup {NoPath} : paths[n] = {p}
  BY DEF Paths, HasKey
<1>2. p \in KeyPaths
  BY <1>1 DEF HasKey
<1> QED BY <1>1, <1>2

\* A key's content is a value, or what copying left of it.
LEMMA KeyTypes ==
  ASSUME ArchiveTypeOK, NEW n \in Saved
  PROVE  KeyOf(n) \in Contents \cup {NoFile, HalfFile}
BY TheKey DEF ArchiveTypeOK, KeyOf

\* What is told of the keys follows from where they are.
LEMMA ArchiveIInvImplies == ArchiveIInv => ArchiveInv
<1> SUFFICES ASSUME ArchiveIInv PROVE ArchiveInv
  OBVIOUS
<1>1. NoKeyLost
  BY DEF NoKeyLost, ArchiveIInv, ImportPhase, Importing, KeysOnTheirWay, ArchiveIsSound, ThoseIn
<1>2. OthersIntact
  BY DEF OthersIntact, ArchiveIInv, ImportPhase, OthersKept
<1>3. ArchiveIsComplete
  BY DEF ArchiveIsComplete, ArchiveIInv, ArchiveIsSound, KeysAreWhole
<1> QED BY <1>1, <1>2, <1>3 DEF ArchiveIInv, ArchiveInv

\* No archive was made yet.
LEMMA ArchiveStarts == ArchiveInit => ArchiveIInv
<1> SUFFICES ASSUME ArchiveInit PROVE ArchiveIInv
  OBVIOUS
<1> USE DEF ArchiveInit
<1>1. ArchiveTypeOK
  <2>1. keyPath \in Paths /\ keyFile \in [KeyPaths -> Contents \cup {NoFile, HalfFile}]
    BY ArchiveAssumption
  <2>2. NoKeys \in [Saved -> Contents \cup {NoFile, HalfFile}]
    BY DEF NoKeys
  <2>3. NoProfiles \in Paths
    BY DEF NoProfiles, Paths
  <2> QED BY <2>1, <2>2, <2>3 DEF ArchiveTypeOK, NoArchive, Resting
<1>2. ArchiveIsSound /\ ExportPhase /\ ImportPhase /\ KeysPutBack
  BY DEF ArchiveIsSound, ExportPhase, ImportPhase, KeysPutBack, NoArchive, Importing
<1> QED BY <1>1, <1>2 DEF ArchiveIInv

\* While no transfer is under way, it is enough that the archive is left alone.
LEMMA ArchiveRests ==
  ASSUME ArchiveIInv, ArchiveTypeOK', transferPc' \in Resting \ {"restored"},
         untouched' = <<>>, UNCHANGED <<archive, leftOver>>
  PROVE  ArchiveIInv'
BY DEF ArchiveIInv, ArchiveIsSound, KeysAreWhole, HasKey, ExportPhase, ImportPhase, KeysPutBack,
       Importing, Resting

\* What a transfer sets when it ends.
LEMMA ArchiveEnds ==
  ASSUME ArchiveIInv, NEW how \in Resting \ {"restored"}, Finish(how),
         keyPath' = keyPath, keyFile' = keyFile,
         exportedDir' \in BOOLEAN,
         exportedKey' \in [Saved -> Contents \cup {NoFile, HalfFile}],
         exportedDir' \/ exportedKey' = NoKeys, UNCHANGED <<archive, leftOver>>
  PROVE  ArchiveIInv'
<1>1. ArchiveTypeOK'
  BY DEF ArchiveIInv, ArchiveTypeOK, Finish
<1> QED BY <1>1, ArchiveRests DEF Finish

\* Stopping anywhere.
LEMMA ArchiveStops == ArchiveIInv /\ TransferStops => ArchiveIInv'
<1> SUFFICES ASSUME ArchiveIInv, TransferStops PROVE ArchiveIInv'
  OBVIOUS
<1>1. Finish("error") /\ UNCHANGED <<files, archive, leftOver>>
  BY DEF TransferStops
<1>2. "error" \in Resting \ {"restored"}
  BY DEF Resting
<1> QED BY <1>1, <1>2, ArchiveEnds DEF files, ArchiveIInv, ArchiveTypeOK

\* The user changes, adds and removes keys.
LEMMA ArchiveUser == ArchiveIInv /\ UserChanges => ArchiveIInv'
<1> SUFFICES ASSUME ArchiveIInv, UserChanges PROVE ArchiveIInv'
  OBVIOUS
<1>1. /\ transferPc \in Resting /\ transferPc' = "none"
      /\ UNCHANGED <<exportedDir, exportedKey, archive, includeKeys, left, untouched, leftOver>>
  BY DEF UserChanges, Goto
<1>2. keyPath' \in Paths
  <2>1. keyPath \in Paths
    BY DEF ArchiveIInv, ArchiveTypeOK
  <2>2. \/ \E n \in Saved, path \in KeyPaths \cup {NoPath} :
             keyPath' = [keyPath EXCEPT ![n] = {path}]
        \/ \E n \in Saved : keyPath' = [keyPath EXCEPT ![n] = {}]
        \/ keyPath' = keyPath
    BY DEF UserChanges
  <2> QED BY <2>1, <2>2 DEF Paths
<1>3. keyFile' \in [KeyPaths -> Contents \cup {NoFile, HalfFile}]
  BY DEF UserChanges, ArchiveIInv, ArchiveTypeOK
<1>4. ArchiveTypeOK'
  BY <1>1, <1>2, <1>3 DEF ArchiveIInv, ArchiveTypeOK, Resting
<1>5. untouched = <<>>
  BY <1>1 DEF ArchiveIInv, ImportPhase, Importing, Resting
<1> QED BY <1>1, <1>4, <1>5, ArchiveRests DEF Resting

\* An export begins; what an earlier one left may be there.
LEMMA ArchiveExport ==
  ASSUME ArchiveIInv, NEW keys \in BOOLEAN, ExportCall(keys)
  PROVE  ArchiveIInv'
<1> USE DEF ExportCall, Goto, files
<1>1. ArchiveTypeOK'
  BY DEF ArchiveIInv, ArchiveTypeOK, ThoseIn, Resting
<1>2. untouched = <<>>
  BY DEF ArchiveIInv, ImportPhase, Importing, Resting
<1>3. ExportPhase'
  BY DEF ExportPhase, BackedUpTo, ThoseIn, HasKey
<1>4. transferPc' \in {"error", "back_up", "open"}
  OBVIOUS
<1> QED BY <1>1, <1>2, <1>3, <1>4
        DEF ArchiveIInv, ArchiveIsSound, KeysAreWhole, HasKey, ImportPhase, Importing, KeysPutBack

\* One more key is in the directory, or the command has ended.
LEMMA ArchiveBacksUp == ArchiveIInv /\ BackUpKey => ArchiveIInv'
<1> SUFFICES ASSUME ArchiveIInv, BackUpKey PROVE ArchiveIInv'
  OBVIOUS
<1>1. /\ transferPc = "back_up"
      /\ UNCHANGED <<keyPath, keyFile, archive, leftOver>>
  BY DEF BackUpKey
<1>2. untouched = <<>>
  BY <1>1 DEF ArchiveIInv, ImportPhase, Importing
<1>3. PICK n \in left :
       IF ~HasKey(keyPath, n)
       THEN /\ left' = left \ {n}
            /\ UNCHANGED <<exportedDir, exportedKey, transferPc, untouched, includeKeys>>
       ELSE /\ exportedDir' = TRUE
            /\ \/ /\ KeyOf(n) # NoFile
                  /\ exportedKey' = [exportedKey EXCEPT ![n] = KeyOf(n)]
                  /\ left' = left \ {n} /\ UNCHANGED <<transferPc, untouched, includeKeys>>
               \/ /\ \/ UNCHANGED exportedKey
                     \/ /\ KeyOf(n) # NoFile
                        /\ exportedKey' = [exportedKey EXCEPT ![n] = HalfFile]
                  /\ Finish("error")
  BY DEF BackUpKey, BackupName
<1> DEFINE KeyFiles == [Saved -> Contents \cup {NoFile, HalfFile}]
<1>4. n \in Saved /\ exportedKey \in KeyFiles
  BY DEF ArchiveIInv, ArchiveTypeOK
<1>5. KeyOf(n) \in Contents \cup {NoFile, HalfFile}
  BY <1>4, KeyTypes DEF ArchiveIInv
<1>6. exportedKey' \in KeyFiles
  BY <1>3, <1>4, <1>5
<1>7. exportedDir' \in BOOLEAN /\ (exportedDir' \/ exportedKey' = NoKeys)
  <2>1. exportedDir \in BOOLEAN /\ (exportedDir \/ exportedKey = NoKeys)
    BY DEF ArchiveIInv, ArchiveTypeOK
  <2>2. NoKeys' = NoKeys
    BY DEF NoKeys
  <2> QED BY <1>3, <2>1, <2>2
<1>8. CASE Finish("error")
  BY <1>1, <1>6, <1>7, <1>8, ArchiveEnds DEF Resting
<1>9. CASE ~Finish("error")
  <2>1. /\ left' = left \ {n} /\ UNCHANGED <<transferPc, untouched, includeKeys>>
        /\ \/ exportedKey' = exportedKey /\ ~HasKey(keyPath, n)
           \/ exportedKey' = [exportedKey EXCEPT ![n] = KeyOf(n)] /\ KeyOf(n) # NoFile
    BY <1>3, <1>9
  <2>2. ArchiveTypeOK'
    BY <1>1, <1>6, <1>7, <2>1 DEF ArchiveIInv, ArchiveTypeOK
  <2>3. \A m \in Saved : KeyOf(m)' = KeyOf(m)
    BY <1>1 DEF KeyOf, HasKey
  <2>4. BackedUpTo(left)
    BY <1>1 DEF ArchiveIInv, ExportPhase
  <2>5. BackedUpTo(left)'
    BY <1>1, <1>4, <2>1, <2>3, <2>4 DEF BackedUpTo, HasKey
  <2> QED BY <1>1, <1>2, <2>1, <2>2, <2>5
          DEF ArchiveIInv, ArchiveIsSound, KeysAreWhole, HasKey, ExportPhase, ImportPhase,
              Importing, KeysPutBack
<1> QED BY <1>8, <1>9

\* The earlier archive is truncated.
LEMMA ArchiveOpens == ArchiveIInv /\ OpenArchive => ArchiveIInv'
<1> SUFFICES ASSUME ArchiveIInv, OpenArchive PROVE ArchiveIInv'
  OBVIOUS
<1> USE DEF OpenArchive, Goto, files
<1>1. ArchiveTypeOK'
  <2>1. NoKeys \in [Saved -> Contents \cup {NoFile, HalfFile}] /\ NoProfiles \in Paths
    BY DEF NoKeys, NoProfiles, Paths
  <2> QED BY <2>1 DEF ArchiveIInv, ArchiveTypeOK, NoArchive
<1>2. untouched = <<>>
  BY DEF ArchiveIInv, ImportPhase, Importing
<1>3. includeKeys => transferPc = "back_up" /\ left = {}
  BY DEF ArchiveIInv, ExportPhase
<1>4. includeKeys => BackedUpTo({})
  BY <1>3 DEF ArchiveIInv, ExportPhase
<1>5. BackedUpTo({})' <=> BackedUpTo({})
  BY DEF BackedUpTo, KeyOf, HasKey
<1> QED BY <1>1, <1>2, <1>4, <1>5
        DEF ArchiveIInv, ArchiveIsSound, KeysAreWhole, HasKey, ExportPhase, ImportPhase,
            Importing, KeysPutBack, NoArchive

\* What an archive of some of the files is; of the keys of profiles that it has,
\* those that were backed up.
LEMMA ArchiveOfSome ==
  ASSUME ArchiveIInv, transferPc = "pack", UNCHANGED files,
         NEW keys \in SUBSET Saved, NEW profiles \in SUBSET Saved,
         leftOver' = OtherKeys(keys, profiles),
         NEW told \in {"none", "profiles", "keys"},
         archive' = [ArchiveOf(keys, profiles) EXCEPT !.complete = told]
  PROVE  /\ archive' \in [readable : BOOLEAN, keyPath : Paths, dir : BOOLEAN,
                          keys : [Saved -> Contents \cup {NoFile, HalfFile}], pathsOf : Paths,
                          keysOf : [Saved -> Contents \cup {NoFile, HalfFile}],
                          complete : {"none", "profiles", "keys"}]
         /\ leftOver' \in BOOLEAN
         /\ archive'.dir \/ archive'.keys = NoKeys
         /\ ~leftOver' =>
              /\ \A n \in Saved : archive'.keys[n] # NoFile =>
                   HasKey(archive'.keyPath, n) /\ archive'.keysOf[n] = archive'.keys[n]
              /\ \A m, n \in Saved :
                   HasKey(archive'.keyPath, n) /\ archive'.keyPath[m] = archive'.keyPath[n] =>
                     archive'.keysOf[m] = archive'.keysOf[n]
         /\ archive'.complete = told
         /\ archive'.pathsOf = keyPath
         /\ \A n \in Saved : /\ archive'.keysOf[n] = KeyOf(n)
                             /\ n \in keys => archive'.keys[n] = exportedKey[n]
         /\ profiles = Saved => archive'.keyPath = keyPath
<1> DEFINE kept == [n \in Saved |-> KeyOf(n)]
           packed == [n \in Saved |-> IF n \in keys THEN exportedKey[n] ELSE NoFile]
           paths == [n \in Saved |-> IF n \in profiles THEN keyPath[n] ELSE {}]
           KeyFiles == [Saved -> Contents \cup {NoFile, HalfFile}]
<1>1. archive' = [readable |-> TRUE, dir |-> exportedDir, keys |-> packed, keyPath |-> paths,
                  pathsOf |-> keyPath, keysOf |-> kept, complete |-> told]
  BY DEF ArchiveOf
<1>2. keyPath \in Paths /\ exportedKey \in KeyFiles /\ exportedDir \in BOOLEAN
      /\ (exportedDir \/ exportedKey = NoKeys)
  BY DEF ArchiveIInv, ArchiveTypeOK
<1>3. kept \in KeyFiles
  BY KeyTypes DEF ArchiveIInv
<1>4. packed \in KeyFiles
  BY <1>2
<1>5. paths \in Paths
  BY <1>2 DEF Paths
<1>6. leftOver' \in BOOLEAN
  BY DEF OtherKeys
<1>7. \A n \in Saved : /\ kept[n] = KeyOf(n)
                       /\ n \in keys => packed[n] = exportedKey[n]
                       /\ n \notin keys => packed[n] = NoFile
                       /\ n \in profiles => paths[n] = keyPath[n]
                       /\ n \notin profiles => paths[n] = {}
  OBVIOUS
<1>8. profiles = Saved => paths = keyPath
  BY <1>2 DEF Paths
<1>9. exportedDir \/ packed = NoKeys
  BY <1>2 DEF NoKeys
<1> HIDE DEF kept, packed, paths
<1>10. ASSUME ~leftOver', NEW n \in Saved, packed[n] # NoFile
       PROVE  HasKey(paths, n) /\ kept[n] = packed[n]
  <2>1. n \in keys /\ exportedKey[n] # NoFile
    BY <1>7, <1>10
  <2>2. includeKeys /\ n \in profiles /\ HasKey(keyPath, n)
    BY <1>10, <2>1 DEF OtherKeys
  <2>3. exportedKey[n] = KeyOf(n)
    BY <2>2 DEF ArchiveIInv, ExportPhase, BackedUpTo
  <2> QED BY <1>7, <2>1, <2>2, <2>3 DEF HasKey
<1>11. ASSUME NEW m \in Saved, NEW n \in Saved, HasKey(paths, n), paths[m] = paths[n]
       PROVE  kept[m] = kept[n]
  <2>1. n \in profiles /\ m \in profiles
    BY <1>7, <1>11 DEF HasKey
  <2>2. keyPath[m] = keyPath[n]
    BY <1>7, <1>11, <2>1
  <2> QED BY <1>7, <2>2 DEF KeyOf, HasKey
<1>12. /\ archive'.keyPath = paths /\ archive'.keys = packed /\ archive'.keysOf = kept
       /\ archive'.dir = exportedDir /\ archive'.pathsOf = keyPath /\ archive'.complete = told
  BY <1>1
<1>13. archive' \in [readable : BOOLEAN, keyPath : Paths, dir : BOOLEAN, keys : KeyFiles,
                     pathsOf : Paths, keysOf : KeyFiles, complete : {"none", "profiles", "keys"}]
  <2>1. told \in {"none", "profiles", "keys"}
    OBVIOUS
  <2> HIDE DEF KeyFiles
  <2>2. [readable |-> TRUE, dir |-> exportedDir, keys |-> packed, keyPath |-> paths,
         pathsOf |-> keyPath, keysOf |-> kept, complete |-> told]
          \in [readable : BOOLEAN, keyPath : Paths, dir : BOOLEAN, keys : KeyFiles,
               pathsOf : Paths, keysOf : KeyFiles, complete : {"none", "profiles", "keys"}]
    BY <1>2, <1>3, <1>4, <1>5, <2>1
  <2> QED BY <1>1, <2>2
<1>14. \A n \in Saved : archive'.keys[n] # NoFile /\ ~leftOver' =>
         HasKey(archive'.keyPath, n) /\ archive'.keysOf[n] = archive'.keys[n]
  BY <1>10, <1>12
<1>15. \A m, n \in Saved :
         HasKey(archive'.keyPath, n) /\ archive'.keyPath[m] = archive'.keyPath[n] =>
           archive'.keysOf[m] = archive'.keysOf[n]
  BY <1>11, <1>12
<1> QED BY <1>6, <1>7, <1>8, <1>9, <1>12, <1>13, <1>14, <1>15

\* What is packed is what was backed up.
LEMMA ArchivePacks == ArchiveIInv /\ Pack => ArchiveIInv'
<1> SUFFICES ASSUME ArchiveIInv, Pack PROVE ArchiveIInv'
  OBVIOUS
<1> DEFINE told == IF includeKeys THEN "none" ELSE "profiles"
<1>1. /\ transferPc = "pack" /\ UNCHANGED files
      /\ leftOver' = OtherKeys(Saved, Saved)
      /\ archive' = [ArchiveOf(Saved, Saved) EXCEPT !.complete = told]
  BY DEF Pack, ArchiveOf
<1>2. untouched = <<>>
  BY <1>1 DEF ArchiveIInv, ImportPhase, Importing
<1>3. /\ transferPc' = (IF includeKeys THEN "remove" ELSE "exported") /\ untouched' = <<>>
      /\ includeKeys' \in BOOLEAN /\ left' \subseteq Saved
  BY <1>2 DEF Pack, Finish, Goto, ArchiveIInv, ArchiveTypeOK
<1> DEFINE KeyFiles == [Saved -> Contents \cup {NoFile, HalfFile}]
<1>4. /\ archive' \in [readable : BOOLEAN, keyPath : Paths, dir : BOOLEAN, keys : KeyFiles,
                       pathsOf : Paths, keysOf : KeyFiles, complete : {"none", "profiles", "keys"}]
      /\ leftOver' \in BOOLEAN
      /\ archive'.dir \/ archive'.keys = NoKeys
      /\ ~leftOver' =>
           /\ \A n \in Saved : archive'.keys[n] # NoFile =>
                HasKey(archive'.keyPath, n) /\ archive'.keysOf[n] = archive'.keys[n]
           /\ \A m, n \in Saved :
                HasKey(archive'.keyPath, n) /\ archive'.keyPath[m] = archive'.keyPath[n] =>
                  archive'.keysOf[m] = archive'.keysOf[n]
      /\ archive'.complete = told
      /\ archive'.pathsOf = keyPath /\ archive'.keyPath = keyPath
      /\ \A n \in Saved : archive'.keysOf[n] = KeyOf(n) /\ archive'.keys[n] = exportedKey[n]
  BY <1>1, ArchiveOfSome
<1>5. ArchiveTypeOK'
  BY <1>1, <1>3, <1>4 DEF ArchiveIInv, ArchiveTypeOK, files, Resting, NoKeys
<1>6. ArchiveIsSound'
  <2>1. NoKeys' = NoKeys
    BY DEF NoKeys
  <2>2. archive'.complete # "keys"
    BY <1>4
  <2> QED BY <1>4, <2>1, <2>2 DEF ArchiveIsSound, HasKey
<1>7. ExportPhase'
  <2>1. transferPc' = "remove" => KeysAreWhole'
    <3> SUFFICES ASSUME includeKeys, NEW n \in Saved, HasKey(keyPath, n)
                 PROVE  archive'.keys[n] = archive'.keysOf[n] /\ archive'.keys[n] # NoFile
      BY <1>3, <1>4 DEF KeysAreWhole, HasKey
    <3>1. exportedKey[n] = KeyOf(n) /\ KeyOf(n) # NoFile
      BY <1>1 DEF ArchiveIInv, ExportPhase, BackedUpTo
    <3> QED BY <1>4, <3>1
  <2> QED BY <1>3, <1>4, <2>1 DEF ExportPhase
<1> QED BY <1>3, <1>5, <1>6, <1>7 DEF ArchiveIInv, ImportPhase, Importing, KeysPutBack

\* An archive whose packing failed has some of the files.
LEMMA ArchivePackFails == ArchiveIInv /\ PackFails => ArchiveIInv'
<1> SUFFICES ASSUME ArchiveIInv, PackFails PROVE ArchiveIInv'
  OBVIOUS
<1>1. /\ transferPc = "pack" /\ UNCHANGED files
      /\ transferPc' = "error" /\ left' = {} /\ untouched' = <<>> /\ includeKeys' = FALSE
  BY DEF PackFails, Finish
<1>2. PICK keys \in SUBSET Saved, profiles \in SUBSET Saved :
        archive' = ArchiveOf(keys, profiles) /\ leftOver' = OtherKeys(keys, profiles)
  BY DEF PackFails
<1>3. archive' = [ArchiveOf(keys, profiles) EXCEPT !.complete = "none"]
  BY <1>2 DEF ArchiveOf
<1> DEFINE KeyFiles == [Saved -> Contents \cup {NoFile, HalfFile}]
<1>4. /\ archive' \in [readable : BOOLEAN, keyPath : Paths, dir : BOOLEAN, keys : KeyFiles,
                       pathsOf : Paths, keysOf : KeyFiles, complete : {"none", "profiles", "keys"}]
      /\ leftOver' \in BOOLEAN
      /\ archive'.dir \/ archive'.keys = NoKeys
      /\ ~leftOver' =>
           /\ \A n \in Saved : archive'.keys[n] # NoFile =>
                HasKey(archive'.keyPath, n) /\ archive'.keysOf[n] = archive'.keys[n]
           /\ \A m, n \in Saved :
                HasKey(archive'.keyPath, n) /\ archive'.keyPath[m] = archive'.keyPath[n] =>
                  archive'.keysOf[m] = archive'.keysOf[n]
      /\ archive'.complete = "none"
  BY <1>1, <1>2, <1>3, ArchiveOfSome
<1>5. ArchiveTypeOK'
  BY <1>1, <1>4 DEF ArchiveIInv, ArchiveTypeOK, files, Resting, NoKeys
<1>6. ArchiveIsSound'
  <2>1. NoKeys' = NoKeys
    BY DEF NoKeys
  <2> QED BY <1>4, <2>1 DEF ArchiveIsSound, HasKey
<1> QED BY <1>1, <1>5, <1>6 DEF ArchiveIInv, ExportPhase, ImportPhase, Importing, KeysPutBack

\* The directory of copies is removed after they were packed; only then is the
\* archive told to be complete.
LEMMA ArchiveRemoves == ArchiveIInv /\ RemoveExported => ArchiveIInv'
<1> SUFFICES ASSUME ArchiveIInv, RemoveExported PROVE ArchiveIInv'
  OBVIOUS
<1>1. NoKeys \in [Saved -> Contents \cup {NoFile, HalfFile}]
  BY DEF NoKeys
<1>2. /\ transferPc = "remove" /\ exportedDir' = FALSE /\ exportedKey' = NoKeys
      /\ UNCHANGED <<keyPath, keyFile, leftOver>>
  BY DEF RemoveExported
<1>3. CASE ~exportedDir
  BY <1>1, <1>2, <1>3, ArchiveEnds DEF RemoveExported, Resting, NoKeys
<1>4. CASE exportedDir
  <2>1. /\ transferPc' = "exported" /\ left' = {} /\ untouched' = <<>> /\ includeKeys' = FALSE
        /\ archive' = [archive EXCEPT !.complete = "keys"]
    BY <1>4 DEF RemoveExported, Finish
  <2>2. archive \in [readable : BOOLEAN, keyPath : Paths, dir : BOOLEAN,
                     keys : [Saved -> Contents \cup {NoFile, HalfFile}], pathsOf : Paths,
                     keysOf : [Saved -> Contents \cup {NoFile, HalfFile}],
                     complete : {"none", "profiles", "keys"}]
    BY DEF ArchiveIInv, ArchiveTypeOK
  <2>3. /\ archive' \in [readable : BOOLEAN, keyPath : Paths, dir : BOOLEAN,
                     keys : [Saved -> Contents \cup {NoFile, HalfFile}], pathsOf : Paths,
                     keysOf : [Saved -> Contents \cup {NoFile, HalfFile}],
                     complete : {"none", "profiles", "keys"}]
        /\ archive'.readable = archive.readable /\ archive'.dir = archive.dir
        /\ archive'.keys = archive.keys /\ archive'.keyPath = archive.keyPath
        /\ archive'.pathsOf = archive.pathsOf /\ archive'.keysOf = archive.keysOf
    BY <2>1, <2>2
  <2>4. ArchiveTypeOK'
    BY <1>1, <1>2, <2>1, <2>3 DEF ArchiveIInv, ArchiveTypeOK, Resting, NoKeys
  <2>5. archive.keyPath = archive.pathsOf /\ KeysAreWhole
    BY <1>2 DEF ArchiveIInv, ExportPhase
  <2>6. ArchiveIsSound'
    BY <1>2, <2>3, <2>5 DEF ArchiveIInv, ArchiveIsSound, KeysAreWhole, HasKey, NoKeys
  <2> QED BY <2>1, <2>4, <2>6 DEF ArchiveIInv, ExportPhase, ImportPhase, Importing, KeysPutBack
<1> QED BY <1>3, <1>4

\* An import begins.
LEMMA ArchiveImport ==
  ASSUME ArchiveIInv, NEW keys \in BOOLEAN, ImportCall(keys)
  PROVE  ArchiveIInv'
<1> USE DEF ImportCall, Goto, files
<1>1. ArchiveTypeOK'
  BY DEF ArchiveIInv, ArchiveTypeOK, Resting
<1>2. CASE ~archive.readable
  <2>1. untouched = <<>>
    BY DEF ArchiveIInv, ImportPhase, Importing, Resting
  <2> QED BY <1>1, <1>2, <2>1, ArchiveRests DEF Resting
<1>3. CASE archive.readable
  <2>1. /\ transferPc' = "extract_keys" /\ untouched' = <<keyPath, keyFile>>
        /\ left' = {n \in Saved : archive.keys[n] # NoFile}
        /\ UNCHANGED <<archive, keyPath, keyFile, exportedKey>>
        /\ leftOver' = (leftOver \/ \E n \in Saved \ left' : exportedKey[n] # NoFile)
    BY <1>3
  <2>2. ~leftOver' => KeysOnTheirWay' /\ OthersKept'
    BY <2>1 DEF KeysOnTheirWay, OthersKept
  <2>3. ArchiveIsSound'
    <3>1. ~leftOver' => ~leftOver
      BY <2>1
    <3>2. archive' = archive /\ NoKeys' = NoKeys
      BY <2>1 DEF NoKeys
    <3> QED BY <3>1, <3>2 DEF ArchiveIInv, ArchiveIsSound, KeysAreWhole, HasKey
  <2> QED BY <1>1, <1>3, <2>1, <2>2, <2>3
          DEF ArchiveIInv, ExportPhase, ImportPhase, Importing, KeysPutBack
<1> QED BY <1>2, <1>3

\* One more key of the archive is in the directory, or the command has ended.
LEMMA ArchiveExtractsKey == ArchiveIInv /\ ExtractKey => ArchiveIInv'
<1> SUFFICES ASSUME ArchiveIInv, ExtractKey PROVE ArchiveIInv'
  OBVIOUS
<1>1. /\ transferPc = "extract_keys" /\ exportedDir' = TRUE
      /\ UNCHANGED <<keyPath, keyFile, archive, leftOver>>
  BY DEF ExtractKey
<1>2. PICK n \in left :
       \/ /\ exportedKey' = [exportedKey EXCEPT ![n] = archive.keys[n]]
          /\ left' = left \ {n} /\ UNCHANGED <<transferPc, untouched, includeKeys>>
       \/ exportedKey' = [exportedKey EXCEPT ![n] = HalfFile] /\ Finish("error")
  BY DEF ExtractKey
<1> DEFINE KeyFiles == [Saved -> Contents \cup {NoFile, HalfFile}]
<1>3. n \in Saved /\ exportedKey \in KeyFiles /\ archive.keys \in KeyFiles
  BY DEF ArchiveIInv, ArchiveTypeOK
<1>4. exportedKey' \in KeyFiles
  BY <1>2, <1>3
<1>5. CASE Finish("error")
  BY <1>1, <1>4, <1>5, ArchiveEnds DEF Resting
<1>6. CASE ~Finish("error")
  <2>1. /\ exportedKey' = [exportedKey EXCEPT ![n] = archive.keys[n]]
        /\ left' = left \ {n} /\ UNCHANGED <<transferPc, untouched, includeKeys>>
    BY <1>2, <1>6
  <2>2. ArchiveTypeOK'
    BY <1>1, <1>4, <2>1 DEF ArchiveIInv, ArchiveTypeOK
  <2>3. archive.readable /\ (~leftOver => KeysOnTheirWay /\ OthersKept)
    BY <1>1 DEF ArchiveIInv, ImportPhase, Importing
  <2>4. KeysOnTheirWay => \A m \in Saved \ left' : exportedKey'[m] = archive.keys[m]
    BY <1>1, <1>3, <2>1 DEF KeysOnTheirWay
  <2>5. ~leftOver' => KeysOnTheirWay' /\ OthersKept'
    BY <1>1, <2>1, <2>3, <2>4 DEF KeysOnTheirWay, OthersKept, ThoseIn
  <2>6. ArchiveIsSound'
    BY <1>1 DEF ArchiveIInv, ArchiveIsSound, KeysAreWhole, HasKey, NoKeys
  <2> QED BY <1>1, <2>1, <2>2, <2>3, <2>5, <2>6
          DEF ArchiveIInv, ExportPhase, ImportPhase, Importing, KeysPutBack
<1> QED BY <1>5, <1>6

\* The keys of the archive are in the directory now, and no others.
LEMMA ArchiveKeysExtracted == ArchiveIInv /\ KeysExtracted => ArchiveIInv'
<1> SUFFICES ASSUME ArchiveIInv, KeysExtracted PROVE ArchiveIInv'
  OBVIOUS
<1>1. /\ transferPc = "extract_keys" /\ left = {} /\ transferPc' = "extract"
      /\ exportedDir' = (exportedDir \/ archive.dir) /\ left' = ThoseIn(archive.keyPath)
      /\ UNCHANGED <<keyPath, keyFile, exportedKey, archive, includeKeys, untouched, leftOver>>
  BY DEF KeysExtracted, Goto
<1>2. ArchiveTypeOK'
  <2>1. exportedDir' \in BOOLEAN /\ (exportedDir' \/ exportedKey' = NoKeys)
    BY <1>1 DEF ArchiveIInv, ArchiveTypeOK
  <2>2. left' \subseteq Saved /\ NoKeys' = NoKeys
    BY <1>1 DEF ThoseIn, NoKeys
  <2> QED BY <1>1, <2>1, <2>2 DEF ArchiveIInv, ArchiveTypeOK
<1>3. archive.readable /\ (~leftOver => KeysOnTheirWay /\ OthersKept)
  BY <1>1 DEF ArchiveIInv, ImportPhase, Importing
<1>4. KeysOnTheirWay => \A m \in Saved : exportedKey[m] = archive.keys[m]
  BY <1>1 DEF KeysOnTheirWay
<1>5. ~leftOver' => KeysOnTheirWay' /\ OthersKept'
  BY <1>1, <1>3, <1>4 DEF KeysOnTheirWay, OthersKept, ThoseIn
<1>6. ArchiveIsSound'
  BY <1>1 DEF ArchiveIInv, ArchiveIsSound, KeysAreWhole, HasKey, NoKeys
<1> QED BY <1>1, <1>2, <1>3, <1>5, <1>6
        DEF ArchiveIInv, ExportPhase, ImportPhase, Importing, KeysPutBack, ThoseIn

\* The profiles of an archive are put in place.
LEMMA ArchiveExtractsProfile == ArchiveIInv /\ ExtractProfile => ArchiveIInv'
<1> SUFFICES ASSUME ArchiveIInv, ExtractProfile PROVE ArchiveIInv'
  OBVIOUS
<1>1. /\ transferPc = "extract"
      /\ UNCHANGED <<keyFile, exportedDir, exportedKey, archive, transferPc, includeKeys,
                     untouched, leftOver>>
  BY DEF ExtractProfile
<1>2. PICK n \in left : keyPath' = [keyPath EXCEPT ![n] = archive.keyPath[n]] /\ left' = left \ {n}
  BY DEF ExtractProfile
<1>3. /\ archive.readable /\ left \subseteq ThoseIn(archive.keyPath)
      /\ \A m \in ThoseIn(archive.keyPath) \ left : keyPath[m] = archive.keyPath[m]
      /\ ~leftOver => KeysOnTheirWay /\ OthersKept
  BY <1>1 DEF ArchiveIInv, ImportPhase, Importing
<1>4. n \in Saved /\ keyPath \in Paths /\ archive.keyPath \in Paths
  BY DEF ArchiveIInv, ArchiveTypeOK
<1>5. keyPath' \in Paths
  BY <1>2, <1>4 DEF Paths
<1>6. ArchiveTypeOK'
  BY <1>1, <1>2, <1>5 DEF ArchiveIInv, ArchiveTypeOK
<1>7. ThoseIn(archive.keyPath)' = ThoseIn(archive.keyPath)
  BY <1>1 DEF ThoseIn
<1>8. /\ left' \subseteq ThoseIn(archive.keyPath)
      /\ \A m \in ThoseIn(archive.keyPath) \ left' : keyPath'[m] = archive.keyPath[m]
      /\ \A m \in Saved \ ThoseIn(archive.keyPath) : keyPath'[m] = keyPath[m]
  BY <1>2, <1>3, <1>4 DEF Paths, ThoseIn
<1>9. ~leftOver' => KeysOnTheirWay' /\ OthersKept'
  BY <1>1, <1>3, <1>7, <1>8 DEF KeysOnTheirWay, OthersKept
<1> QED BY <1>1, <1>3, <1>6, <1>7, <1>8, <1>9
        DEF ArchiveIInv, ArchiveIsSound, KeysAreWhole, HasKey, ExportPhase, ImportPhase,
            Importing, KeysPutBack

\* The keys are extracted to the directory of copies.
LEMMA ArchiveExtracted == ArchiveIInv /\ Extracted => ArchiveIInv'
<1> SUFFICES ASSUME ArchiveIInv, Extracted PROVE ArchiveIInv'
  OBVIOUS
<1>1. /\ transferPc = "extract" /\ left = {}
      /\ UNCHANGED <<keyPath, keyFile, exportedDir, exportedKey, archive, leftOver>>
  BY DEF Extracted, files
<1>2. CASE ~includeKeys
  BY <1>1, <1>2, ArchiveEnds DEF Extracted, Resting, ArchiveIInv, ArchiveTypeOK
<1>3. CASE includeKeys
  <2>1. /\ transferPc' = "restore" /\ left' = ThoseIn(keyPath)
        /\ UNCHANGED <<untouched, includeKeys>>
    BY <1>3 DEF Extracted, Goto
  <2>2. ArchiveTypeOK'
    BY <1>1, <2>1 DEF ArchiveIInv, ArchiveTypeOK, ThoseIn
  <2>3. /\ archive.readable
        /\ \A n \in ThoseIn(archive.keyPath) : keyPath[n] = archive.keyPath[n]
        /\ ~leftOver => KeysOnTheirWay /\ OthersKept
    BY <1>1 DEF ArchiveIInv, ImportPhase, Importing
  <2>4. ASSUME ~leftOver, NEW n \in Saved, archive.keys[n] # NoFile
        PROVE  n \in left' /\ exportedKey[n] = archive.keys[n]
    <3>1. HasKey(archive.keyPath, n)
      BY <2>3, <2>4 DEF ArchiveIInv, ArchiveIsSound
    <3>2. n \in ThoseIn(archive.keyPath)
      BY <3>1 DEF HasKey, ThoseIn
    <3> QED BY <1>1, <2>1, <2>3, <2>4, <3>2 DEF ThoseIn, KeysOnTheirWay
  <2>5. ~leftOver => KeysOnTheirWay' /\ OthersKept'
    BY <1>1, <2>1, <2>3, <2>4 DEF KeysOnTheirWay, OthersKept, ThoseIn
  <2> QED BY <1>1, <2>1, <2>2, <2>3, <2>5
          DEF ArchiveIInv, ArchiveIsSound, KeysAreWhole, HasKey, ExportPhase, ImportPhase,
              Importing, KeysPutBack,
              ThoseIn
<1> QED BY <1>2, <1>3

\* A key moves to its place.  Profiles that name the same place have the same key.
LEMMA ArchiveRestoresKey == ArchiveIInv /\ RestoreKey => ArchiveIInv'
<1> SUFFICES ASSUME ArchiveIInv, RestoreKey PROVE ArchiveIInv'
  OBVIOUS
<1> DEFINE moved(n) == HasKey(keyPath, n) /\ exportedKey[n] # NoFile
<1>1. transferPc = "restore" /\ UNCHANGED <<keyPath, exportedDir, archive, leftOver>>
  BY DEF RestoreKey
<1>2. PICK n \in left :
       \/ /\ keyFile' = [p \in KeyPaths |->
               IF moved(n) /\ p \in keyPath[n] THEN exportedKey[n] ELSE keyFile[p]]
          /\ exportedKey' = IF moved(n) THEN [exportedKey EXCEPT ![n] = NoFile] ELSE exportedKey
          /\ left' = left \ {n} /\ UNCHANGED <<transferPc, untouched, includeKeys>>
       \/ /\ Finish("error") /\ UNCHANGED exportedKey
          /\ \/ UNCHANGED keyFile
             \/ keyFile' = [p \in KeyPaths |->
                              IF p \in keyPath[n] THEN HalfFile ELSE keyFile[p]]
  BY DEF RestoreKey, BackupName
<1>3. CASE Finish("error") /\ UNCHANGED exportedKey
             /\ keyFile' \in [KeyPaths -> Contents \cup {NoFile, HalfFile}]
  <2>1. ArchiveTypeOK'
    BY <1>1, <1>3 DEF ArchiveIInv, ArchiveTypeOK, Finish, Resting, NoKeys
  <2> QED BY <1>1, <1>3, <2>1, ArchiveRests DEF Finish, Resting
<1>0. keyFile \in [KeyPaths -> Contents \cup {NoFile, HalfFile}]
  BY DEF ArchiveIInv, ArchiveTypeOK
<1>4. CASE ~(Finish("error") /\ UNCHANGED exportedKey
             /\ keyFile' \in [KeyPaths -> Contents \cup {NoFile, HalfFile}])
  <2>1. /\ keyFile' = [p \in KeyPaths |->
             IF moved(n) /\ p \in keyPath[n] THEN exportedKey[n] ELSE keyFile[p]]
        /\ exportedKey' = IF moved(n) THEN [exportedKey EXCEPT ![n] = NoFile] ELSE exportedKey
        /\ left' = left \ {n} /\ UNCHANGED <<transferPc, untouched, includeKeys>>
    BY <1>0, <1>2, <1>4
  <2>2. /\ n \in Saved /\ exportedKey \in [Saved -> Contents \cup {NoFile, HalfFile}]
        /\ keyFile \in [KeyPaths -> Contents \cup {NoFile, HalfFile}]
        /\ exportedDir \in BOOLEAN /\ (exportedDir \/ exportedKey = NoKeys)
        /\ keyPath \in Paths /\ archive.keyPath \in Paths
    BY DEF ArchiveIInv, ArchiveTypeOK
  <2>3. ArchiveTypeOK'
    <3>1. exportedKey' \in [Saved -> Contents \cup {NoFile, HalfFile}]
      BY <2>1, <2>2
    <3>2. keyFile' \in [KeyPaths -> Contents \cup {NoFile, HalfFile}]
      BY <2>1, <2>2
    <3>3. exportedDir \/ exportedKey' = NoKeys
      BY <2>1, <2>2 DEF NoKeys
    <3> HIDE DEF moved
    <3> QED BY <1>1, <2>1, <3>1, <3>2, <3>3 DEF ArchiveIInv, ArchiveTypeOK, NoKeys
  <2>4. /\ archive.readable
        /\ \A m \in ThoseIn(archive.keyPath) : keyPath[m] = archive.keyPath[m]
        /\ ~leftOver => KeysOnTheirWay /\ OthersKept
    BY <1>1 DEF ArchiveIInv, ImportPhase, Importing
  <2>5. ASSUME ~leftOver PROVE KeysOnTheirWay' /\ OthersKept'
    <3>1. /\ KeysOnTheirWay /\ OthersKept
          /\ \A m \in Saved : archive.keys[m] # NoFile =>
               HasKey(archive.keyPath, m) /\ archive.keysOf[m] = archive.keys[m]
          /\ \A l, m \in Saved :
               HasKey(archive.keyPath, m) /\ archive.keyPath[l] = archive.keyPath[m] =>
                 archive.keysOf[l] = archive.keysOf[m]
      BY <2>4, <2>5 DEF ArchiveIInv, ArchiveIsSound
    <3>2. \A m \in Saved : HasKey(archive.keyPath, m) => keyPath[m] = archive.keyPath[m]
      BY <2>4 DEF HasKey, ThoseIn
    <3>3. ASSUME NEW m \in Saved, archive.keys[m] # NoFile
          PROVE  \E p \in KeyPaths : /\ keyPath[m] = {p} /\ archive.keyPath[m] = {p}
                                     /\ KeyOf(m) = keyFile[p] /\ KeyOf(m)' = keyFile'[p]
      <4>1. HasKey(archive.keyPath, m) /\ keyPath[m] = archive.keyPath[m]
        BY <3>1, <3>2, <3>3
      <4>2. HasKey(keyPath, m)
        BY <4>1 DEF HasKey
      <4>3. PICK p \in KeyPaths : keyPath[m] = {p} /\ (CHOOSE q \in keyPath[m] : TRUE) = p
        BY <2>2, <4>2, TheKey
      <4> QED BY <1>1, <4>1, <4>2, <4>3 DEF KeyOf, HasKey
    <3>4. moved(n) => archive.keys[n] = exportedKey[n]
      BY <1>1, <2>2, <3>1 DEF KeysOnTheirWay
    <3>5. ASSUME NEW m \in Saved, archive.keys[m] # NoFile
          PROVE  IF m \in left' THEN exportedKey'[m] = archive.keys[m]
                                ELSE KeyOf(m)' = archive.keysOf[m]
      <4>1. PICK p \in KeyPaths : /\ keyPath[m] = {p} /\ archive.keyPath[m] = {p}
                                  /\ KeyOf(m) = keyFile[p] /\ KeyOf(m)' = keyFile'[p]
        BY <3>3, <3>5
      <4>2. CASE m \in left'
        <5>1. m # n /\ m \in left
          BY <2>1, <4>2
        <5>2. exportedKey[m] = archive.keys[m]
          BY <1>1, <3>1, <3>5, <5>1 DEF KeysOnTheirWay
        <5>3. exportedKey'[m] = exportedKey[m]
          BY <2>1, <2>2, <5>1
        <5> QED BY <4>2, <5>2, <5>3
      <4>3. CASE m = n
        <5>1. exportedKey[n] = archive.keys[n]
          BY <1>1, <3>1, <3>5, <4>3 DEF KeysOnTheirWay
        <5>2. moved(n)
          BY <3>1, <3>2, <3>5, <4>3, <5>1 DEF HasKey
        <5>3. KeyOf(n)' = exportedKey[n] /\ n \notin left'
          BY <2>1, <4>1, <4>3, <5>2
        <5> QED BY <3>1, <3>5, <4>3, <5>1, <5>3
      <4>4. CASE m \notin left /\ m # n
        <5>1. KeyOf(m) = archive.keysOf[m]
          BY <1>1, <3>1, <3>5, <4>4 DEF KeysOnTheirWay
        <5>2. CASE ~(moved(n) /\ p \in keyPath[n])
          <6>1. keyFile'[p] = keyFile[p]
            BY <2>1, <5>2
          <6> QED BY <2>1, <4>1, <4>4, <5>1, <6>1
        <5>3. CASE moved(n) /\ p \in keyPath[n]
          <6>1. archive.keys[n] = exportedKey[n] /\ archive.keys[n] # NoFile
            BY <3>4, <5>3
          <6>2. PICK q \in KeyPaths : keyPath[n] = {q} /\ archive.keyPath[n] = {q}
            BY <2>2, <3>3, <6>1
          <6>3. archive.keyPath[m] = archive.keyPath[n]
            BY <4>1, <5>3, <6>2
          <6>4. archive.keysOf[m] = archive.keysOf[n] /\ archive.keysOf[n] = archive.keys[n]
            BY <2>2, <3>1, <6>1, <6>3
          <6>5. keyFile'[p] = exportedKey[n]
            BY <2>1, <5>3
          <6> QED BY <2>1, <4>1, <4>4, <6>1, <6>4, <6>5
        <5> QED BY <5>2, <5>3
      <4> QED BY <2>1, <4>2, <4>3, <4>4
    <3>6. \A m \in Saved : exportedKey'[m] \in {NoFile, archive.keys[m]}
      <4>1. \A m \in Saved : exportedKey[m] \in {NoFile, archive.keys[m]}
        BY <1>1, <3>1 DEF KeysOnTheirWay
      <4> QED BY <2>1, <2>2, <4>1
    <3>7. KeysOnTheirWay'
      <4> HIDE DEF moved
      <4> QED BY <1>1, <2>1, <3>5, <3>6 DEF KeysOnTheirWay
    <3>8. ASSUME NEW p \in KeyPaths, \A m \in ThoseIn(archive.keyPath) : p \notin archive.keyPath[m]
          PROVE  keyFile'[p] = keyFile[p]
      <4>1. ~(moved(n) /\ p \in keyPath[n])
        <5> SUFFICES ASSUME moved(n), p \in keyPath[n] PROVE FALSE
          OBVIOUS
        <5>1. archive.keys[n] # NoFile
          BY <3>4
        <5>2. PICK q \in KeyPaths : keyPath[n] = {q} /\ archive.keyPath[n] = {q}
          BY <2>2, <3>3, <5>1
        <5> QED BY <2>2, <3>8, <5>2 DEF ThoseIn
      <4> QED BY <2>1, <4>1
    <3>9. OthersKept'
      <4> HIDE DEF moved
      <4> QED BY <1>1, <2>1, <3>1, <3>8 DEF OthersKept, ThoseIn
    <3> QED BY <3>7, <3>9
  <2>6. ArchiveIsSound'
    BY <1>1 DEF ArchiveIInv, ArchiveIsSound, KeysAreWhole, HasKey, NoKeys
  <2>7. ImportPhase'
    <3> HIDE DEF moved
    <3> QED BY <1>1, <2>1, <2>4, <2>5 DEF ImportPhase, Importing, ThoseIn
  <2> HIDE DEF moved
  <2> QED BY <1>1, <2>1, <2>3, <2>6, <2>7 DEF ArchiveIInv, ExportPhase, KeysPutBack
<1> QED BY <1>3, <1>4

\* All the keys are back.
LEMMA ArchiveRestored == ArchiveIInv /\ Restored => ArchiveIInv'
<1> SUFFICES ASSUME ArchiveIInv, Restored PROVE ArchiveIInv'
  OBVIOUS
<1>1. /\ transferPc = "restore" /\ left = {}
      /\ transferPc' = "restored" /\ left' = {} /\ untouched' = <<>> /\ includeKeys' = FALSE
      /\ UNCHANGED <<keyPath, keyFile, exportedDir, exportedKey, archive, leftOver>>
  BY DEF Restored, Finish, files
<1>2. ArchiveTypeOK'
  BY <1>1 DEF ArchiveIInv, ArchiveTypeOK, Resting, NoKeys
<1>3. ArchiveIsSound'
  BY <1>1 DEF ArchiveIInv, ArchiveIsSound, KeysAreWhole, HasKey, NoKeys
<1>4. /\ \A n \in ThoseIn(archive.keyPath) : keyPath[n] = archive.keyPath[n]
      /\ ~leftOver => KeysOnTheirWay
  BY <1>1 DEF ArchiveIInv, ImportPhase, Importing
<1>5. KeysPutBack'
  <2>1. ASSUME ~leftOver, NEW n \in Saved, archive.keys[n] # NoFile
        PROVE  KeyOf(n) = archive.keysOf[n]
    BY <1>1, <1>4, <2>1 DEF KeysOnTheirWay
  <2>2. \A n \in Saved : KeyOf(n)' = KeyOf(n)
    BY <1>1 DEF KeyOf, HasKey
  <2> QED BY <1>1, <1>4, <2>1, <2>2 DEF KeysPutBack, ThoseIn
<1> QED BY <1>1, <1>2, <1>3, <1>5 DEF ArchiveIInv, ExportPhase, ImportPhase, Importing

\* Every step of exports and imports, failed or stopped, keeps it.
LEMMA ArchiveKept == ArchiveIInv /\ [ArchiveNext]_archiveVars => ArchiveIInv'
<1> SUFFICES ASSUME ArchiveIInv, [ArchiveNext]_archiveVars PROVE ArchiveIInv'
  OBVIOUS
<1>1. CASE UNCHANGED archiveVars
  BY <1>1 DEF archiveVars, ArchiveIInv, ArchiveTypeOK, ArchiveIsSound, KeysAreWhole, ExportPhase,
              BackedUpTo,
              ImportPhase, Importing, KeysOnTheirWay, OthersKept, KeysPutBack, KeyOf, HasKey,
              ThoseIn, NoKeys
<1>2. CASE ArchiveNext
  BY <1>2, ArchiveUser, ArchiveExport, ArchiveBacksUp, ArchiveOpens, ArchivePacks, ArchivePackFails,
     ArchiveRemoves, ArchiveImport, ArchiveExtractsKey, ArchiveKeysExtracted,
     ArchiveExtractsProfile, ArchiveExtracted,
     ArchiveRestoresKey, ArchiveRestored, ArchiveStops DEF ArchiveNext, TransferStep
<1> QED BY <1>1, <1>2

\* What any command does is a step of these or leaves files alone.
LEMMA ArchiveSteps == [CfyNext]_cfyVars => [ArchiveNext]_archiveVars
BY DEF CfyNext, cfyVars, InAgents, InUpload, InPluginsInstall, InPluginsUpdate, InFlow, InLabels,
       InProfiles, InCluster, InCertificates, InLocal, InEvents, InMaintenance, InSchedules,
       InArchive, InLocalFlow

\* Whatever fails or stops, packing half way included, and whatever the user
\* changes in between: an archive of which the export told that it is complete has
\* every profile and, with the keys, the key of every profile that names one; an
\* import that has ended has put each key of its archive back, one that stops
\* while it puts them back has lost none, and other profiles and their keys are as
\* they were.
THEOREM KeysArePutBack == CfySpec => []ArchiveInv
<1>1. CfyInit => ArchiveIInv
  BY ArchiveStarts DEF CfyInit
<1>2. ArchiveIInv /\ [CfyNext]_cfyVars => ArchiveIInv'
  BY ArchiveSteps, ArchiveKept
<1>3. ArchiveIInv => ArchiveInv
  BY ArchiveIInvImplies
<1> QED BY <1>1, <1>2, <1>3, PTL DEF CfySpec
-----------------------------------------------------------------------------
\* What a list of nodes is.
Details == Certs \cup {NoCert}
Nodes == [name : NodeNames, cert : Details]
NamedOnce(nodes) == \A i, j \in DOMAIN nodes : nodes[i].name = nodes[j].name => i = j

\* Behind ClusterInv: the command has the profile that is on disk, the types
\* before the one that is merged next are as received, and nothing is told of a
\* manager that is not stored.
ClusterIInv ==
  /\ ClusterInv
  /\ cluster \in [Types -> Seq(NodeNames)] /\ received \in [Types -> Seq(NodeNames)]
  /\ stored \in [Types -> Seq(Nodes)] /\ loaded \in [Types -> Seq(Nodes)]
  /\ certOf \in [NodeNames -> Details]
  /\ \A t \in Types : ToSet(received[t]) \subseteq NodesOfType(t) /\ IsInjective(received[t])
  /\ clusterPc[1] # "idle" => loaded = stored
  /\ \A k \in 1 .. 3 : clusterPc = <<"merge", k>> =>
       \A l \in 1 .. 3 : l < k => Names(stored[NodeTypes[l]]) = ToSet(received[NodeTypes[l]])
  /\ \A n \in NodeNames :
       n[1] = "manager" /\ n \notin Names(stored["manager"]) => certOf[n] = NoCert

\* The three types of nodes, in the order in which they are merged.
LEMMA TypesAre ==
  /\ Types = {"manager", "broker", "db"}
  /\ NodeTypes[1] = "manager" /\ NodeTypes[2] = "broker" /\ NodeTypes[3] = "db"
<1>1. /\ NodeTypes[1] = "manager" /\ NodeTypes[2] = "broker" /\ NodeTypes[3] = "db"
  BY DEF NodeTypes
<1>2. DOMAIN NodeTypes = {1, 2, 3}
  <2>1. DOMAIN NodeTypes = 1 .. 3
    BY DEF NodeTypes
  <2> QED BY <2>1
<1> QED BY <1>1, <1>2 DEF Types, ToSet

\* A profile without nodes.
LEMMA ClusterStarts == ClusterInit => ClusterIInv
<1> SUFFICES ASSUME ClusterInit PROVE ClusterIInv
  OBVIOUS
<1>1. /\ \A t \in Types : NoLists[t] = <<>>
      /\ NoLists \in [Types -> Seq(NodeNames)] /\ NoLists \in [Types -> Seq(Nodes)]
  BY DEF NoLists
<1>2. DOMAIN <<>> = {} /\ ToSet(<<>>) = {} /\ Names(<<>>) = {} /\ IsInjective(<<>>)
  BY DEF ToSet, Names, IsInjective
<1>3. /\ clusterPc[1] = "idle" /\ clusterPc # <<"idle", "updated">>
      /\ \A k \in 1 .. 3 : clusterPc # <<"merge", k>>
  BY DEF ClusterInit
<1>4. "manager" \in Types
  BY TypesAre
<1>5. ClusterInv
  BY <1>1, <1>2, <1>3, <1>4
     DEF ClusterInit, ClusterInv, ClusterTypeOK, DetailsKept, UpToDate
<1>6. certOf \in [NodeNames -> Details] /\ \A n \in NodeNames : certOf[n] = NoCert
  BY DEF ClusterInit, Details
<1> QED BY <1>1, <1>2, <1>3, <1>5, <1>6 DEF ClusterInit, ClusterIInv

\* Adding a node to a list and taking one out of it.
LEMMA NodeAdded ==
  ASSUME NEW s \in Seq(NodeNames), NEW n \in NodeNames, IsInjective(s), n \notin ToSet(s)
  PROVE  /\ Append(s, n) \in Seq(NodeNames) /\ IsInjective(Append(s, n))
         /\ ToSet(Append(s, n)) = ToSet(s) \cup {n}
<1> DEFINE r == Append(s, n)
<1>1. /\ r \in Seq(NodeNames) /\ Len(r) = Len(s) + 1 /\ Len(s) \in Nat
      /\ r[Len(s) + 1] = n /\ \A i \in 1 .. Len(s) : r[i] = s[i]
      /\ DOMAIN r = 1 .. Len(s) + 1 /\ DOMAIN s = 1 .. Len(s)
  OBVIOUS
<1>2. \A i \in 1 .. Len(s) + 1 : i \in 1 .. Len(s) \/ i = Len(s) + 1
  BY <1>1
<1> HIDE DEF r
<1>3. \A i \in 1 .. Len(s) : i \in 1 .. Len(s) + 1
  BY <1>1
<1>4. Len(s) + 1 \in 1 .. Len(s) + 1
  BY <1>1
<1>5. ToSet(r) = ToSet(s) \cup {n}
  BY <1>1, <1>2, <1>3, <1>4 DEF ToSet
<1>6. IsInjective(r)
  <2> SUFFICES ASSUME NEW i \in 1 .. Len(s) + 1, NEW j \in 1 .. Len(s) + 1, r[i] = r[j]
               PROVE  i = j
    BY <1>1 DEF IsInjective
  <2> QED BY <1>1, <1>2 DEF IsInjective, ToSet
<1> QED BY <1>1, <1>5, <1>6 DEF r

\* The first of the managers is another than before, and nothing else.
LEMMA MovedToFront ==
  ASSUME NEW s \in Seq(Nodes), NEW i \in DOMAIN s, NamedOnce(s)
  PROVE  /\ MoveToFront(s, i) \in Seq(Nodes) /\ NamedOnce(MoveToFront(s, i))
         /\ ToSet(MoveToFront(s, i)) = ToSet(s)
<1> DEFINE r == MoveToFront(s, i)
           NodePlace(k) == IF k = 1 THEN i ELSE IF k <= i THEN k - 1 ELSE k
<1>1. Len(s) \in Nat /\ DOMAIN s = 1 .. Len(s) /\ i \in 1 .. Len(s)
  OBVIOUS
<1>2. /\ SubSeq(s, 1, i - 1) \in Seq(Nodes) /\ Len(SubSeq(s, 1, i - 1)) = i - 1
      /\ \A k \in 1 .. i - 1 : SubSeq(s, 1, i - 1)[k] = s[k]
  BY <1>1
<1>3. /\ SubSeq(s, i + 1, Len(s)) \in Seq(Nodes) /\ Len(SubSeq(s, i + 1, Len(s))) = Len(s) - i
      /\ \A k \in 1 .. Len(s) - i : SubSeq(s, i + 1, Len(s))[k] = s[i + k]
  BY <1>1
<1>4. /\ r \in Seq(Nodes) /\ Len(r) = Len(s)
      /\ \A k \in 1 .. Len(s) : r[k] = s[NodePlace(k)]
  <2> DEFINE a == SubSeq(s, 1, i - 1)
             b == SubSeq(s, i + 1, Len(s))
             first == <<s[i]>>
  <2>1. first \in Seq(Nodes) /\ Len(first) = 1 /\ first[1] = s[i]
    OBVIOUS
  <2>2. r = first \o (a \o b)
    BY DEF MoveToFront, RemoveAt
  <2>3. /\ a \in Seq(Nodes) /\ Len(a) = i - 1 /\ \A l \in 1 .. i - 1 : a[l] = s[l]
        /\ b \in Seq(Nodes) /\ Len(b) = Len(s) - i /\ \A l \in 1 .. Len(s) - i : b[l] = s[i + l]
    BY <1>2, <1>3
  <2> HIDE DEF a, b, first, r
  <2>4. /\ a \o b \in Seq(Nodes) /\ Len(a \o b) = (i - 1) + (Len(s) - i)
        /\ \A k \in 1 .. (i - 1) + (Len(s) - i) :
             (a \o b)[k] = IF k <= i - 1 THEN a[k] ELSE b[k - (i - 1)]
    <3>1. a \in Seq(Nodes) /\ b \in Seq(Nodes)
      BY <2>3
    <3>2. /\ a \o b \in Seq(Nodes) /\ Len(a \o b) = Len(a) + Len(b)
          /\ \A k \in 1 .. Len(a) + Len(b) :
               (a \o b)[k] = IF k <= Len(a) THEN a[k] ELSE b[k - Len(a)]
      BY <3>1, ConcatProperties
    <3> QED BY <2>3, <3>2
  <2>5. (i - 1) + (Len(s) - i) = Len(s) - 1
    BY <1>1
  <2>6. ASSUME NEW k \in 1 .. Len(s) - 1
        PROVE  (a \o b)[k] = IF k < i THEN s[k] ELSE s[k + 1]
    <3>1. (a \o b)[k] = IF k <= i - 1 THEN a[k] ELSE b[k - (i - 1)]
      BY <2>4, <2>5
    <3>2. CASE k < i
      <4>1. k <= i - 1 /\ k \in 1 .. i - 1
        BY <1>1, <3>2
      <4> QED BY <2>3, <3>1, <3>2, <4>1
    <3>3. CASE ~(k < i)
      <4>1. k - (i - 1) \in 1 .. Len(s) - i /\ i + (k - (i - 1)) = k + 1 /\ ~(k <= i - 1)
        BY <1>1, <3>3
      <4>2. b[k - (i - 1)] = s[i + (k - (i - 1))]
        BY <2>3, <4>1
      <4> QED BY <3>1, <3>3, <4>1, <4>2
    <3> QED BY <3>2, <3>3
  <2>7. /\ r \in Seq(Nodes) /\ Len(r) = 1 + (Len(s) - 1)
        /\ \A k \in 1 .. 1 + (Len(s) - 1) :
             r[k] = IF k <= 1 THEN first[k] ELSE (a \o b)[k - 1]
    <3>1. Len(a \o b) = Len(s) - 1
      BY <2>4, <2>5
    <3>2. first \in Seq(Nodes) /\ a \o b \in Seq(Nodes)
      BY <2>1, <2>4
    <3>3. /\ r \in Seq(Nodes) /\ Len(r) = Len(first) + Len(a \o b)
          /\ \A k \in 1 .. Len(first) + Len(a \o b) :
               r[k] = IF k <= Len(first) THEN first[k] ELSE (a \o b)[k - Len(first)]
      BY <2>2, <3>2, ConcatProperties
    <3> QED BY <2>1, <3>1, <3>3
  <2>8. 1 + (Len(s) - 1) = Len(s)
    BY <1>1
  <2>9. ASSUME NEW k \in 1 .. Len(s) PROVE r[k] = s[NodePlace(k)]
    <3>1. r[k] = IF k <= 1 THEN first[k] ELSE (a \o b)[k - 1]
      BY <2>7, <2>8
    <3>2. CASE k = 1
      BY <2>1, <3>1, <3>2
    <3>3. CASE k # 1
      <4>1. k - 1 \in 1 .. Len(s) - 1 /\ ~(k <= 1) /\ (k - 1) + 1 = k /\ (k - 1 < i <=> k <= i)
        BY <1>1, <3>3
      <4> QED BY <2>6, <3>1, <3>3, <4>1
    <3> QED BY <3>2, <3>3
  <2> QED BY <2>7, <2>8, <2>9
<1> HIDE DEF r
<1>5. DOMAIN r = 1 .. Len(s)
  BY <1>1, <1>4
<1>6. \A k \in 1 .. Len(s) : NodePlace(k) \in 1 .. Len(s)
  BY <1>1
<1>7. \A k, l \in 1 .. Len(s) : NodePlace(k) = NodePlace(l) => k = l
  BY <1>1
<1>8. \A l \in 1 .. Len(s) : \E k \in 1 .. Len(s) : NodePlace(k) = l
  <2> SUFFICES ASSUME NEW l \in 1 .. Len(s) PROVE \E k \in 1 .. Len(s) : NodePlace(k) = l
    OBVIOUS
  <2>1. CASE l = i
    BY <1>1, <2>1
  <2>2. CASE l < i
    <3>1. l + 1 \in 1 .. Len(s) /\ NodePlace(l + 1) = l
      BY <1>1, <2>2
    <3> QED BY <3>1
  <2>3. CASE l > i
    BY <1>1, <2>3
  <2> QED BY <1>1, <2>1, <2>2, <2>3
<1> HIDE DEF NodePlace
<1>9. NamedOnce(r)
  BY <1>1, <1>4, <1>5, <1>6, <1>7 DEF NamedOnce
<1>10. ToSet(r) = ToSet(s)
  <2>1. ASSUME NEW l \in 1 .. Len(s) PROVE \E k \in 1 .. Len(s) : r[k] = s[l]
    BY <1>4, <1>8
  <2>2. ASSUME NEW k \in 1 .. Len(s) PROVE \E l \in 1 .. Len(s) : s[l] = r[k]
    BY <1>4, <1>6
  <2>3. ToSet(s) \subseteq ToSet(r)
    BY <1>1, <1>5, <2>1 DEF ToSet
  <2>4. ToSet(r) \subseteq ToSet(s)
    BY <1>1, <1>5, <2>2 DEF ToSet
  <2> QED BY <2>3, <2>4
<1> QED BY <1>4, <1>9, <1>10 DEF r

\* Filtering keeps apart what is named apart.
LEMMA StaysNamedOnce ==
  ASSUME NEW s \in Seq(Nodes), NEW keep, NamedOnce(s)
  PROVE  NamedOnce(Filtered(s, keep))
<1> DEFINE r == Filtered(s, keep)
<1>1. r \in Seq(Nodes) /\ \E h : Picks(s, keep, r, h, Len(s))
  BY FilteredPicks
<1> HIDE DEF r
<1>2. PICK h : Picks(s, keep, r, h, Len(s))
  BY <1>1
<1>3. DOMAIN r = 1 .. Len(r) /\ DOMAIN s = 1 .. Len(s) /\ Len(r) \in Nat /\ Len(s) \in Nat
  BY <1>1
<1>4. ASSUME NEW k \in 1 .. Len(r), NEW l \in 1 .. Len(r), r[k].name = r[l].name PROVE k = l
  <2>1. h[k] \in DOMAIN s /\ h[l] \in DOMAIN s /\ s[h[k]].name = s[h[l]].name
    BY <1>2, <1>3, <1>4 DEF Picks
  <2>2. h[k] = h[l]
    BY <2>1 DEF NamedOnce
  <2>3. h[k] \in Nat
    BY <1>3, <2>1
  <2>4. k < l => h[k] < h[l]
    BY <1>2 DEF Picks
  <2>5. l < k => h[l] < h[k]
    BY <1>2 DEF Picks
  <2>6. ~(k < l) /\ ~(l < k)
    BY <2>2, <2>3, <2>4, <2>5
  <2> QED BY <1>3, <2>6
<1>5. NamedOnce(r)
  BY <1>3, <1>4 DEF NamedOnce
<1> QED BY <1>5 DEF r

\* Merging: the nodes that were received, each as it was stored or new.
LEMMA MergedNodes ==
  ASSUME NEW s \in Seq(Nodes), NamedOnce(s), NEW names \in Seq(NodeNames), IsInjective(names)
  PROVE  /\ Merged(s, names) \in Seq(Nodes) /\ NamedOnce(Merged(s, names))
         /\ Names(Merged(s, names)) = ToSet(names)
         /\ \A nd \in ToSet(Merged(s, names)) :
              nd \in ToSet(s) \/ (nd.cert = NoCert /\ nd.name \notin Names(s))
<1> DEFINE new == Filtered(names, NodeNames \ Names(s))
           added == [i \in DOMAIN new |-> [name |-> new[i], cert |-> NoCert]]
           all == s \o added
           keep == [name : ToSet(names), cert : Details]
           m == Filtered(all, keep)
<1>1. Merged(s, names) = m
  BY DEF Merged, Details
<1>2. new \in Seq(NodeNames) /\ IsInjective(new) /\ ToSet(new) = ToSet(names) \cap (NodeNames \ Names(s))
  BY ListFiltered
<1> HIDE DEF new
<1>3. /\ added \in Seq(Nodes) /\ Len(added) = Len(new) /\ Len(new) \in Nat
      /\ \A i \in 1 .. Len(new) : added[i] = [name |-> new[i], cert |-> NoCert] /\ new[i] \in NodeNames
      /\ DOMAIN new = 1 .. Len(new)
  <2>1. DOMAIN new = 1 .. Len(new) /\ Len(new) \in Nat /\ \A i \in 1 .. Len(new) : new[i] \in NodeNames
    BY <1>2
  <2>2. \A i \in 1 .. Len(new) : [name |-> new[i], cert |-> NoCert] \in Nodes
    BY <2>1 DEF Nodes, Details
  <2>3. added \in [1 .. Len(new) -> Nodes]
    BY <2>1, <2>2
  <2>4. added \in Seq(Nodes) /\ Len(added) = Len(new)
    BY <2>1, <2>3
  <2>5. \A i \in 1 .. Len(new) : added[i] = [name |-> new[i], cert |-> NoCert]
    BY <2>1
  <2> QED BY <2>1, <2>4, <2>5
<1> HIDE DEF added
<1>4. /\ Len(s) \in Nat /\ DOMAIN s = 1 .. Len(s) /\ \A i \in 1 .. Len(s) : s[i] \in Nodes
      /\ all \in Seq(Nodes) /\ Len(all) = Len(s) + Len(new)
      /\ \A i \in 1 .. Len(s) + Len(new) :
           all[i] = IF i <= Len(s) THEN s[i] ELSE added[i - Len(s)]
  <2>1. /\ all \in Seq(Nodes) /\ Len(all) = Len(s) + Len(added)
        /\ \A i \in 1 .. Len(s) + Len(added) :
             all[i] = IF i <= Len(s) THEN s[i] ELSE added[i - Len(s)]
    <3>1. s \in Seq(Nodes) /\ added \in Seq(Nodes)
      BY <1>3
    <3> QED BY <3>1, ConcatProperties
  <2> HIDE DEF all
  <2> QED BY <1>3, <2>1
<1> HIDE DEF all
<1>5. DOMAIN all = 1 .. Len(s) + Len(new)
  BY <1>4
<1>6. /\ \A i \in 1 .. Len(s) : i \in DOMAIN all /\ all[i] = s[i]
      /\ \A j \in 1 .. Len(new) :
           /\ Len(s) + j \in DOMAIN all
           /\ all[Len(s) + j].name = new[j] /\ all[Len(s) + j].cert = NoCert
      /\ \A i \in DOMAIN all :
           i \in 1 .. Len(s) \/ \E j \in 1 .. Len(new) : i = Len(s) + j
  <2>1. \A i \in 1 .. Len(s) : i \in DOMAIN all /\ all[i] = s[i]
    BY <1>3, <1>4, <1>5
  <2>2. ASSUME NEW j \in 1 .. Len(new)
        PROVE  /\ Len(s) + j \in DOMAIN all
               /\ all[Len(s) + j].name = new[j] /\ all[Len(s) + j].cert = NoCert
    <3>1. Len(s) + j \in 1 .. Len(s) + Len(new) /\ ~(Len(s) + j <= Len(s)) /\ (Len(s) + j) - Len(s) = j
      BY <1>3, <1>4
    <3>2. all[Len(s) + j] = added[j] /\ Len(s) + j \in DOMAIN all
      BY <1>4, <1>5, <3>1
    <3>3. added[j].name = new[j] /\ added[j].cert = NoCert
      <4> DEFINE nd == [name |-> new[j], cert |-> NoCert]
      <4>1. added[j] = nd
        BY <1>3
      <4>2. nd.name = new[j] /\ nd.cert = NoCert
        OBVIOUS
      <4> HIDE DEF nd
      <4> QED BY <4>1, <4>2
    <3> QED BY <3>2, <3>3
  <2>3. ASSUME NEW i \in DOMAIN all, i \notin 1 .. Len(s)
        PROVE  \E j \in 1 .. Len(new) : i = Len(s) + j
    <3>1. i - Len(s) \in 1 .. Len(new) /\ i = Len(s) + (i - Len(s))
      BY <1>3, <1>4, <1>5, <2>3
    <3> QED BY <3>1
  <2> QED BY <2>1, <2>2, <2>3
<1>7. \A j \in 1 .. Len(new) : new[j] \in ToSet(names) /\ new[j] \notin Names(s)
  BY <1>2, <1>3 DEF ToSet
<1>8. NamedOnce(all)
  <2> SUFFICES ASSUME NEW i \in DOMAIN all, NEW k \in DOMAIN all, all[i].name = all[k].name
               PROVE  i = k
    BY DEF NamedOnce
  <2>1. CASE i \in 1 .. Len(s) /\ k \in 1 .. Len(s)
    BY <1>4, <1>6, <2>1 DEF NamedOnce
  <2>2. \A a \in 1 .. Len(s), b \in 1 .. Len(new) : all[a].name # all[Len(s) + b].name
    <3>1. \A a \in 1 .. Len(s) : all[a].name \in Names(s)
      BY <1>4, <1>6 DEF Names
    <3>2. \A b \in 1 .. Len(new) : all[Len(s) + b].name = new[b]
      BY <1>6
    <3> QED BY <1>7, <3>1, <3>2
  <2>3. CASE i \in 1 .. Len(s) /\ k \notin 1 .. Len(s)
    BY <1>6, <2>2, <2>3
  <2>4. CASE i \notin 1 .. Len(s) /\ k \in 1 .. Len(s)
    BY <1>6, <2>2, <2>4
  <2>5. CASE i \notin 1 .. Len(s) /\ k \notin 1 .. Len(s)
    <3>1. PICK a \in 1 .. Len(new) : i = Len(s) + a
      BY <1>6, <2>5
    <3>2. PICK b \in 1 .. Len(new) : k = Len(s) + b
      BY <1>6, <2>5
    <3>3. new[a] = new[b]
      BY <1>6, <3>1, <3>2
    <3>4. a = b
      BY <1>2, <1>3, <3>3 DEF IsInjective
    <3> QED BY <3>1, <3>2, <3>4
  <2> QED BY <2>1, <2>3, <2>4, <2>5
<1>9. m \in Seq(Nodes) /\ NamedOnce(m)
  BY <1>4, <1>8, FilteredPicks, StaysNamedOnce
<1>10. ToSet(m) = ToSet(all) \cap keep
  BY <1>4, ListFiltered
<1>11. ToSet(m) = {nd \in ToSet(all) : nd.name \in ToSet(names)}
  <2>1. \A nd \in ToSet(all) : nd \in Nodes
    BY <1>4, <1>5 DEF ToSet
  <2>2. \A nd \in Nodes : nd \in keep <=> nd.name \in ToSet(names)
    BY DEF Nodes
  <2> HIDE DEF m, keep
  <2> QED BY <1>10, <2>1, <2>2
<1> HIDE DEF m, keep
<1>12. ASSUME NEW nd \in ToSet(m)
       PROVE  nd \in ToSet(s) \/ (nd.cert = NoCert /\ nd.name \notin Names(s))
  <2>1. PICK i \in DOMAIN all : nd = all[i]
    BY <1>11 DEF ToSet
  <2>2. CASE i \in 1 .. Len(s)
    BY <1>4, <1>6, <2>1, <2>2 DEF ToSet
  <2>3. CASE i \notin 1 .. Len(s)
    BY <1>6, <1>7, <2>1, <2>3
  <2> QED BY <2>2, <2>3
<1>13. \A q : Names(q) = {nd.name : nd \in ToSet(q)}
  BY DEF Names, ToSet
<1>14. Names(m) \subseteq ToSet(names)
  BY <1>11, <1>13
<1>15. ASSUME NEW n \in ToSet(names) PROVE n \in Names(m)
  <2>1. \E nd \in ToSet(all) : nd.name = n
    <3>1. CASE n \in Names(s)
      <4>1. PICK i \in 1 .. Len(s) : s[i].name = n
        BY <1>4, <3>1 DEF Names
      <4> QED BY <1>6, <4>1 DEF ToSet
    <3>2. CASE n \notin Names(s)
      <4>1. n \in NodeNames
        BY DEF ToSet
      <4>2. PICK j \in 1 .. Len(new) : new[j] = n
        BY <1>2, <1>3, <3>2, <4>1 DEF ToSet
      <4> QED BY <1>6, <4>2 DEF ToSet
    <3> QED BY <3>1, <3>2
  <2> QED BY <1>11, <1>13, <2>1
<1> QED BY <1>1, <1>9, <1>12, <1>14, <1>15

\* The places of the update, and when there is none.
LEMMA EndPlaces ==
  ASSUME ClusterIInv
  PROVE  /\ \/ clusterPc = <<"idle">> \/ clusterPc = <<"idle", "updated">>
            \/ \E k \in 1 .. 3 : clusterPc = <<"get", k>> \/ clusterPc = <<"merge", k>>
         /\ clusterPc[1] = "idle" <=> clusterPc \in {<<"idle">>, <<"idle", "updated">>}
         /\ clusterPc[1] = "get" => clusterPc[2] \in 1 .. 3 /\ clusterPc = <<"get", clusterPc[2]>>
         /\ clusterPc[1] = "merge" => clusterPc[2] \in 1 .. 3 /\ clusterPc = <<"merge", clusterPc[2]>>
<1>1. \/ clusterPc = <<"idle">> \/ clusterPc = <<"idle", "updated">>
      \/ \E k \in 1 .. 3 : clusterPc = <<"get", k>> \/ clusterPc = <<"merge", k>>
  BY DEF ClusterIInv, ClusterInv, ClusterTypeOK
<1>2. CASE clusterPc \in {<<"idle">>, <<"idle", "updated">>}
  BY <1>2
<1>3. ASSUME NEW k \in 1 .. 3, clusterPc = <<"get", k>> PROVE clusterPc[1] = "get" /\ clusterPc[2] = k
  BY <1>3
<1>4. ASSUME NEW k \in 1 .. 3, clusterPc = <<"merge", k>> PROVE clusterPc[1] = "merge" /\ clusterPc[2] = k
  BY <1>4
<1>5. CASE \E k \in 1 .. 3 : clusterPc = <<"get", k>>
  BY <1>3, <1>5
<1>6. CASE \E k \in 1 .. 3 : clusterPc = <<"merge", k>>
  BY <1>4, <1>6
<1> QED BY <1>1, <1>2, <1>5, <1>6

\* The manager's lists change, and nothing else.
LEMMA ListsChange ==
  ASSUME ClusterIInv, UNCHANGED <<stored, loaded, received, clusterPc, certOf>>,
         NEW t \in Types, NEW list \in Seq(NodeNames), cluster' = [cluster EXCEPT ![t] = list],
         ToSet(list) \subseteq NodesOfType(t), IsInjective(list)
  PROVE  ClusterIInv'
<1>1. /\ cluster' \in [Types -> Seq(NodeNames)]
      /\ \A u \in Types : cluster'[u] = IF u = t THEN list ELSE cluster[u]
  BY DEF ClusterIInv
<1>2. \A u \in Types : ToSet(cluster'[u]) \subseteq NodesOfType(u) /\ IsInjective(cluster'[u])
  BY <1>1 DEF ClusterIInv, ClusterInv, ClusterTypeOK
<1>3. ClusterInv'
  BY <1>2 DEF ClusterIInv, ClusterInv, ClusterTypeOK, DetailsKept, UpToDate
<1> QED BY <1>1, <1>3 DEF ClusterIInv

\* A node joins the cluster, but not the profile yet.
LEMMA AddNodeKeeps ==
  ASSUME ClusterIInv, NEW n \in NodeNames, AddNode(n)
  PROVE  ClusterIInv'
<1> DEFINE list == Append(cluster[n[1]], n)
<1>1. n[1] \in Types /\ cluster[n[1]] \in Seq(NodeNames) /\ IsInjective(cluster[n[1]])
      /\ ToSet(cluster[n[1]]) \subseteq NodesOfType(n[1])
  BY ClusterAssumption DEF ClusterIInv, ClusterInv, ClusterTypeOK
<1>2. list \in Seq(NodeNames) /\ IsInjective(list) /\ ToSet(list) = ToSet(cluster[n[1]]) \cup {n}
  BY <1>1, NodeAdded DEF AddNode
<1>3. n \in NodesOfType(n[1])
  BY DEF NodesOfType
<1>4. cluster' = [cluster EXCEPT ![n[1]] = list]
  BY DEF AddNode
<1> HIDE DEF list
<1>5. ToSet(list) \subseteq NodesOfType(n[1])
  BY <1>1, <1>2, <1>3
<1> QED BY <1>1, <1>2, <1>4, <1>5, ListsChange DEF AddNode

\* A node leaves the cluster, but not the profile yet.
LEMMA RemoveNodeKeeps ==
  ASSUME ClusterIInv, NEW n \in NodeNames, RemoveNode(n)
  PROVE  ClusterIInv'
<1> DEFINE list == Filtered(cluster[n[1]], NodeNames \ {n})
<1>1. n[1] \in Types /\ cluster[n[1]] \in Seq(NodeNames) /\ IsInjective(cluster[n[1]])
      /\ ToSet(cluster[n[1]]) \subseteq NodesOfType(n[1])
  BY ClusterAssumption DEF ClusterIInv, ClusterInv, ClusterTypeOK
<1>2. list \in Seq(NodeNames) /\ IsInjective(list) /\ ToSet(list) \subseteq ToSet(cluster[n[1]])
  BY <1>1, ListFiltered
<1>3. cluster' = [cluster EXCEPT ![n[1]] = list]
  BY DEF RemoveNode
<1> HIDE DEF list
<1>4. ToSet(list) \subseteq NodesOfType(n[1])
  BY <1>1, <1>2
<1> QED BY <1>1, <1>2, <1>3, <1>4, ListsChange DEF RemoveNode

\* An update begins with the profile as it is on disk.
LEMMA UpdateProfileKeeps == ClusterIInv /\ UpdateProfile => ClusterIInv'
<1> SUFFICES ASSUME ClusterIInv, UpdateProfile PROVE ClusterIInv'
  OBVIOUS
<1> USE DEF UpdateProfile
<1>1. /\ clusterPc' = <<"get", 1>> /\ clusterPc' \in {"get", "merge"} \X (1 .. 3)
      /\ clusterPc' # <<"idle", "updated">> /\ \A k \in 1 .. 3 : clusterPc' # <<"merge", k>>
  OBVIOUS
<1>2. /\ \A t \in Types : received'[t] = <<>>
      /\ received' \in [Types -> Seq(NodeNames)]
  BY DEF NoLists
<1>3. ToSet(<<>>) = {} /\ IsInjective(<<>>)
  BY DEF ToSet, IsInjective
<1>4. ClusterInv'
  BY <1>1 DEF ClusterIInv, ClusterInv, ClusterTypeOK, DetailsKept, UpToDate
<1> QED BY <1>1, <1>2, <1>3, <1>4 DEF ClusterIInv

\* An update that is killed, or whose request fails.
LEMMA UpdateEndsKeeps == ClusterIInv /\ UpdateEnds => ClusterIInv'
<1> SUFFICES ASSUME ClusterIInv, UpdateEnds PROVE ClusterIInv'
  OBVIOUS
<1> USE DEF UpdateEnds
<1>1. /\ clusterPc' = <<"idle">> /\ clusterPc'[1] = "idle"
      /\ clusterPc' # <<"idle", "updated">> /\ \A k \in 1 .. 3 : clusterPc' # <<"merge", k>>
  OBVIOUS
<1>2. /\ \A t \in Types : received'[t] = <<>>
      /\ received' \in [Types -> Seq(NodeNames)] /\ loaded' \in [Types -> Seq(Nodes)]
  BY DEF NoLists
<1>3. ToSet(<<>>) = {} /\ IsInjective(<<>>)
  BY DEF ToSet, IsInjective
<1>4. ClusterInv'
  BY <1>1 DEF ClusterIInv, ClusterInv, ClusterTypeOK, DetailsKept, UpToDate
<1> QED BY <1>1, <1>2, <1>3, <1>4 DEF ClusterIInv

\* The user gives a manager of the profile a certificate.
LEMMA SetClusterKeeps ==
  ASSUME ClusterIInv, NEW n \in NodeNames, NEW c \in Certs, SetCluster(n, c)
  PROVE  ClusterIInv'
<1> USE DEF SetCluster
<1> DEFINE s == stored["manager"]
           set == [i \in DOMAIN s |-> IF s[i].name = n THEN [s[i] EXCEPT !.cert = c] ELSE s[i]]
<1>1. "manager" \in Types /\ s \in Seq(Nodes) /\ Len(s) \in Nat /\ DOMAIN s = 1 .. Len(s)
  BY TypesAre DEF ClusterIInv
<1>2. ASSUME NEW i \in DOMAIN s
      PROVE  /\ set[i] \in Nodes /\ set[i].name = s[i].name
             /\ set[i].cert = IF s[i].name = n THEN c ELSE s[i].cert
  <2>1. s[i] \in Nodes
    BY <1>1
  <2>2. [s[i] EXCEPT !.cert = c] = [name |-> s[i].name, cert |-> c]
    BY <2>1 DEF Nodes
  <2>3. [name |-> s[i].name, cert |-> c] \in Nodes
    BY <2>1 DEF Nodes, Details
  <2>4. [name |-> s[i].name, cert |-> c].name = s[i].name /\ [name |-> s[i].name, cert |-> c].cert = c
    OBVIOUS
  <2> QED BY <2>1, <2>2, <2>3, <2>4
<1>3. set \in Seq(Nodes) /\ DOMAIN set = DOMAIN s
  <2>1. set \in [1 .. Len(s) -> Nodes]
    BY <1>1, <1>2
  <2> HIDE DEF set
  <2> QED BY <1>1, <2>1
<1>4. stored' = [stored EXCEPT !["manager"] = set]
  OBVIOUS
<1> HIDE DEF set, s
<1>5. /\ stored' \in [Types -> Seq(Nodes)] /\ stored'["manager"] = set
      /\ \A t \in Types : t # "manager" => stored'[t] = stored[t]
  BY <1>1, <1>3, <1>4 DEF ClusterIInv
<1>6. Names(set) = Names(s)
  BY <1>2, <1>3 DEF Names
<1>7. /\ Names(s) \subseteq NodesOfType("manager")
      /\ \A i, j \in DOMAIN s : s[i].name = s[j].name => i = j
      /\ \A i \in DOMAIN s : s[i].cert \in Certs \cup {NoCert}
      /\ \A i \in DOMAIN s : s[i].cert = certOf[s[i].name]
  BY <1>1 DEF ClusterIInv, ClusterInv, ClusterTypeOK, DetailsKept, s
<1>8. \A t \in Types : Names(stored'[t]) = Names(stored[t])
  BY <1>5, <1>6 DEF s
<1>9. /\ certOf' \in [NodeNames -> Details] /\ certOf'[n] = c
      /\ \A o \in NodeNames : o # n => certOf'[o] = certOf[o]
  BY DEF ClusterIInv, Details
<1>10. ClusterTypeOK'
  <2>1. \A t \in Types :
          /\ Names(stored'[t]) \subseteq NodesOfType(t)
          /\ \A i, j \in DOMAIN stored'[t] : stored'[t][i].name = stored'[t][j].name => i = j
          /\ \A i \in DOMAIN stored'[t] : stored'[t][i].cert \in Certs \cup {NoCert}
    <3> SUFFICES ASSUME NEW t \in Types
                 PROVE  /\ Names(stored'[t]) \subseteq NodesOfType(t)
                        /\ \A i, j \in DOMAIN stored'[t] :
                             stored'[t][i].name = stored'[t][j].name => i = j
                        /\ \A i \in DOMAIN stored'[t] : stored'[t][i].cert \in Certs \cup {NoCert}
      OBVIOUS
    <3>1. CASE t = "manager"
      <4>1. \A i, j \in DOMAIN set : set[i].name = set[j].name => i = j
        BY <1>2, <1>3, <1>7
      <4>2. \A i \in DOMAIN set : set[i].cert \in Certs \cup {NoCert}
        BY <1>2, <1>3, <1>7
      <4>3. stored'[t] = set /\ Names(set) \subseteq NodesOfType(t)
        BY <1>5, <1>6, <1>7, <3>1
      <4>4. \A i, j \in DOMAIN stored'[t] : stored'[t][i].name = stored'[t][j].name => i = j
        BY <4>1, <4>3
      <4>5. \A i \in DOMAIN stored'[t] : stored'[t][i].cert \in Certs \cup {NoCert}
        BY <4>2, <4>3
      <4> HIDE DEF SetCluster
      <4> QED BY <4>3, <4>4, <4>5
    <3>2. CASE t # "manager"
      BY <1>5, <3>2 DEF ClusterIInv, ClusterInv, ClusterTypeOK
    <3> QED BY <3>1, <3>2
  <2> QED BY <2>1 DEF ClusterIInv, ClusterInv, ClusterTypeOK
<1>11. DetailsKept'
  <2>1. \A i \in DOMAIN set : set[i].cert = certOf'[set[i].name]
    <3>1. \A i \in DOMAIN s : s[i].name \in NodeNames
      BY <1>7 DEF Names, NodesOfType
    <3> QED BY <1>2, <1>3, <1>7, <1>9, <3>1
  <2> QED BY <1>5, <2>1 DEF DetailsKept
<1>12. UpToDate'
  BY <1>8 DEF ClusterIInv, ClusterInv, UpToDate
<1>13. \A k \in 1 .. 3 : clusterPc' # <<"merge", k>>
  BY EndPlaces
<1>14. \A o \in NodeNames :
         o[1] = "manager" /\ o \notin Names(stored'["manager"]) => certOf'[o] = NoCert
  <2>1. n \in Names(stored'["manager"])
    BY <1>1, <1>8
  <2> QED BY <1>1, <1>8, <1>9, <2>1 DEF ClusterIInv
<1> QED BY <1>5, <1>9, <1>10, <1>11, <1>12, <1>13, <1>14 DEF ClusterIInv, ClusterInv

\* One list of the profile that the command has is changed, and the profile saved.
LEMMA ProfileSaved ==
  ASSUME ClusterIInv, NEW t \in Types, NEW list \in Seq(Nodes),
         loaded = stored, loaded' = [loaded EXCEPT ![t] = list], stored' = loaded',
         NamedOnce(list), Names(list) \subseteq NodesOfType(t)
  PROVE  /\ stored' \in [Types -> Seq(Nodes)] /\ loaded' \in [Types -> Seq(Nodes)]
         /\ stored'[t] = list /\ \A u \in Types : u # t => stored'[u] = stored[u]
         /\ \A u \in Types :
              /\ Names(stored'[u]) \subseteq NodesOfType(u)
              /\ \A i, j \in DOMAIN stored'[u] : stored'[u][i].name = stored'[u][j].name => i = j
              /\ \A i \in DOMAIN stored'[u] : stored'[u][i].cert \in Certs \cup {NoCert}
<1>1. /\ stored' \in [Types -> Seq(Nodes)] /\ loaded' \in [Types -> Seq(Nodes)]
      /\ stored'[t] = list /\ \A u \in Types : u # t => stored'[u] = stored[u]
  BY DEF ClusterIInv
<1>2. \A i \in DOMAIN list : list[i].cert \in Certs \cup {NoCert}
  <2>1. \A i \in DOMAIN list : list[i] \in Nodes
    OBVIOUS
  <2>2. \A nd \in Nodes : nd.cert \in Certs \cup {NoCert}
    BY DEF Nodes, Details
  <2> QED BY <2>1, <2>2
<1>3. ASSUME NEW u \in Types
      PROVE  /\ Names(stored'[u]) \subseteq NodesOfType(u)
             /\ \A i, j \in DOMAIN stored'[u] : stored'[u][i].name = stored'[u][j].name => i = j
             /\ \A i \in DOMAIN stored'[u] : stored'[u][i].cert \in Certs \cup {NoCert}
  <2>1. CASE u = t
    BY <1>1, <1>2, <2>1 DEF NamedOnce
  <2>2. CASE u # t
    BY <1>1, <2>2 DEF ClusterIInv, ClusterInv, ClusterTypeOK
  <2> QED BY <2>1, <2>2
<1> QED BY <1>1, <1>3

\* Asking for the nodes of a type, with a failover or without.
LEMMA GetNodesKeeps == ClusterIInv /\ GetNodes => ClusterIInv'
<1> SUFFICES ASSUME ClusterIInv, GetNodes PROVE ClusterIInv'
  OBVIOUS
<1> DEFINE k == clusterPc[2]
           t == NodeTypes[k]
<1>1. k \in 1 .. 3 /\ clusterPc = <<"get", k>> /\ clusterPc[1] # "idle" /\ loaded = stored
  BY EndPlaces DEF GetNodes, ClusterIInv
<1>2. t \in Types
  BY <1>1, TypesAre
<1>3. received' = [received EXCEPT ![t] = cluster[t]]
  BY DEF GetNodes
<1>4. clusterPc' = IF k = 3 THEN <<"merge", 1>> ELSE <<"get", k + 1>>
  BY DEF GetNodes
<1> HIDE DEF k, t
<1>5. /\ received' \in [Types -> Seq(NodeNames)]
      /\ \A u \in Types : ToSet(received'[u]) \subseteq NodesOfType(u) /\ IsInjective(received'[u])
  <2>1. /\ cluster[t] \in Seq(NodeNames)
        /\ ToSet(cluster[t]) \subseteq NodesOfType(t) /\ IsInjective(cluster[t])
    BY <1>2 DEF ClusterIInv, ClusterInv, ClusterTypeOK
  <2> QED BY <1>2, <1>3, <2>1 DEF ClusterIInv
<1>6. /\ clusterPc' \in {"get", "merge"} \X (1 .. 3)
      /\ clusterPc' # <<"idle", "updated">>
      /\ \A l \in 2 .. 3 : clusterPc' # <<"merge", l>>
      /\ clusterPc'[1] # "idle"
  <2>1. CASE k = 3
    BY <1>4, <2>1
  <2>2. CASE k # 3
    <3>1. k + 1 \in 1 .. 3
      BY <1>1, <2>2
    <3> QED BY <1>4, <2>2, <3>1
  <2> QED BY <2>1, <2>2
<1>7. \A m \in 1 .. 3 : clusterPc' = <<"merge", m>> => ~\E l \in 1 .. 3 : l < m
  <2>1. \A m \in 1 .. 3 : clusterPc' = <<"merge", m>> => m \notin 2 .. 3
    BY <1>6
  <2>2. \A m \in 1 .. 3 : m \notin 2 .. 3 => ~\E l \in 1 .. 3 : l < m
    OBVIOUS
  <2> QED BY <2>1, <2>2
<1>8. /\ UNCHANGED <<cluster, certOf>>
      /\ \/ UNCHANGED <<stored, loaded>>
         \/ \E i \in DOMAIN loaded["manager"] :
              /\ loaded' = [loaded EXCEPT !["manager"] = MoveToFront(loaded["manager"], i)]
              /\ stored' = loaded'
  BY DEF GetNodes
<1>9. CASE UNCHANGED <<stored, loaded>>
  <2>1. ClusterInv'
    BY <1>6, <1>8, <1>9 DEF ClusterIInv, ClusterInv, ClusterTypeOK, DetailsKept, UpToDate
  <2> QED BY <1>1, <1>5, <1>7, <1>8, <1>9, <2>1 DEF ClusterIInv
<1>10. ASSUME NEW i \in DOMAIN loaded["manager"],
              loaded' = [loaded EXCEPT !["manager"] = MoveToFront(loaded["manager"], i)],
              stored' = loaded'
       PROVE  ClusterIInv'
  <2> DEFINE s == loaded["manager"]
             list == MoveToFront(s, i)
  <2>1. "manager" \in Types /\ s \in Seq(Nodes) /\ s = stored["manager"]
    BY <1>1, TypesAre DEF ClusterIInv
  <2>2. /\ NamedOnce(s) /\ Names(s) \subseteq NodesOfType("manager")
        /\ \A j \in DOMAIN s : s[j].cert = certOf[s[j].name]
    BY <2>1 DEF ClusterIInv, ClusterInv, ClusterTypeOK, DetailsKept, NamedOnce
  <2>3. list \in Seq(Nodes) /\ NamedOnce(list) /\ ToSet(list) = ToSet(s)
    BY <1>10, <2>1, <2>2, MovedToFront
  <2>4. loaded' = [loaded EXCEPT !["manager"] = list]
    BY <1>10
  <2> HIDE DEF s, list
  <2>5. Names(list) = Names(s)
    <3>1. \A q : Names(q) = {nd.name : nd \in ToSet(q)}
      BY DEF Names, ToSet
    <3> QED BY <2>3, <3>1
  <2>6. /\ stored' \in [Types -> Seq(Nodes)] /\ loaded' \in [Types -> Seq(Nodes)]
        /\ stored'["manager"] = list
        /\ \A u \in Types : u # "manager" => stored'[u] = stored[u]
        /\ \A u \in Types :
              /\ Names(stored'[u]) \subseteq NodesOfType(u)
              /\ \A a, b \in DOMAIN stored'[u] : stored'[u][a].name = stored'[u][b].name => a = b
              /\ \A a \in DOMAIN stored'[u] : stored'[u][a].cert \in Certs \cup {NoCert}
    BY <1>1, <1>10, <2>1, <2>2, <2>3, <2>4, <2>5, ProfileSaved
  <2>7. ClusterTypeOK'
    BY <1>6, <1>8, <2>6 DEF ClusterIInv, ClusterInv, ClusterTypeOK
  <2>8. DetailsKept'
    <3>1. \A j \in DOMAIN list : list[j] \in ToSet(s)
      BY <2>3 DEF ToSet
    <3>2. \A nd \in ToSet(s) : nd.cert = certOf[nd.name]
      BY <2>2 DEF ToSet
    <3> QED BY <1>8, <2>6, <3>1, <3>2 DEF DetailsKept
  <2>9. UpToDate'
    BY <1>6 DEF UpToDate
  <2>10. Names(stored'["manager"]) = Names(stored["manager"])
    BY <2>1, <2>5, <2>6
  <2> QED BY <1>1, <1>5, <1>7, <1>8, <1>10, <2>6, <2>7, <2>8, <2>9, <2>10 DEF ClusterIInv, ClusterInv
<1> QED BY <1>8, <1>9, <1>10

\* Merging the nodes of a type, and saving.
LEMMA UpdateClusterNodesKeeps == ClusterIInv /\ UpdateClusterNodes => ClusterIInv'
<1> SUFFICES ASSUME ClusterIInv, UpdateClusterNodes PROVE ClusterIInv'
  OBVIOUS
<1> DEFINE k == clusterPc[2]
           t == NodeTypes[k]
           s == loaded[t]
           list == Merged(s, received[t])
<1>1. k \in 1 .. 3 /\ clusterPc = <<"merge", k>> /\ clusterPc[1] # "idle" /\ loaded = stored
  BY EndPlaces DEF UpdateClusterNodes, ClusterIInv
<1>2. t \in Types
  BY <1>1, TypesAre
<1>3. /\ loaded' = [loaded EXCEPT ![t] = list] /\ stored' = loaded'
      /\ certOf' = [n \in NodeNames |->
                     IF n[1] = t /\ n \notin ToSet(received[t]) THEN NoCert ELSE certOf[n]]
      /\ UNCHANGED <<cluster, received>>
      /\ clusterPc' = IF k = 3 THEN <<"idle", "updated">> ELSE <<"merge", k + 1>>
  BY DEF UpdateClusterNodes
<1> HIDE DEF k, t
<1>4. s \in Seq(Nodes) /\ NamedOnce(s) /\ received[t] \in Seq(NodeNames)
      /\ IsInjective(received[t]) /\ ToSet(received[t]) \subseteq NodesOfType(t)
      /\ s = stored[t] /\ Names(s) \subseteq NodesOfType(t)
  BY <1>1, <1>2 DEF ClusterIInv, ClusterInv, ClusterTypeOK, NamedOnce
<1> HIDE DEF s
<1>5. /\ list \in Seq(Nodes) /\ NamedOnce(list) /\ Names(list) = ToSet(received[t])
      /\ \A nd \in ToSet(list) : nd \in ToSet(s) \/ (nd.cert = NoCert /\ nd.name \notin Names(s))
  BY <1>4, MergedNodes
<1> HIDE DEF list
<1>6. /\ stored' \in [Types -> Seq(Nodes)] /\ loaded' \in [Types -> Seq(Nodes)]
      /\ stored'[t] = list /\ \A u \in Types : u # t => stored'[u] = stored[u]
      /\ \A u \in Types :
           /\ Names(stored'[u]) \subseteq NodesOfType(u)
           /\ \A i, j \in DOMAIN stored'[u] : stored'[u][i].name = stored'[u][j].name => i = j
           /\ \A i \in DOMAIN stored'[u] : stored'[u][i].cert \in Certs \cup {NoCert}
  BY <1>1, <1>2, <1>3, <1>4, <1>5, ProfileSaved
<1>7. /\ clusterPc' \in {<<"idle">>, <<"idle", "updated">>} \cup ({"get", "merge"} \X (1 .. 3))
      /\ \A m \in 1 .. 3 : clusterPc' = <<"merge", m>> => k # 3 /\ m = k + 1
      /\ clusterPc' = <<"idle", "updated">> => k = 3
  <2>1. CASE k = 3
    BY <1>3, <2>1
  <2>2. CASE k # 3
    <3>1. k + 1 \in 1 .. 3
      BY <1>1, <2>2
    <3>2. clusterPc' = <<"merge", k + 1>>
      BY <1>3, <2>2
    <3> QED BY <2>2, <3>1, <3>2
  <2> QED BY <2>1, <2>2
<1>8. ClusterTypeOK'
  BY <1>3, <1>6, <1>7 DEF ClusterIInv, ClusterInv, ClusterTypeOK
<1>9. /\ certOf' \in [NodeNames -> Details]
      /\ \A n \in NodeNames :
           certOf'[n] = IF n[1] = t /\ n \notin ToSet(received[t]) THEN NoCert ELSE certOf[n]
  BY <1>3 DEF ClusterIInv, Details
<1>10. \A n \in NodesOfType(t) : n \in NodeNames /\ n[1] = t
  BY DEF NodesOfType
<1>11. DetailsKept'
  <2>1. CASE t = "manager"
    <3>1. \A i \in DOMAIN s : s[i].cert = certOf[s[i].name]
      BY <1>4, <2>1 DEF ClusterIInv, ClusterInv, DetailsKept
    <3>2. ASSUME NEW i \in DOMAIN list PROVE list[i].cert = certOf'[list[i].name]
      <4>1. list[i] \in ToSet(list) /\ list[i].name \in ToSet(received[t])
        BY <1>5 DEF ToSet, Names
      <4>2. list[i].name \in NodeNames /\ list[i].name[1] = t
        BY <1>4, <1>10, <4>1
      <4>3. certOf'[list[i].name] = certOf[list[i].name]
        BY <1>9, <4>1, <4>2
      <4>4. CASE list[i] \in ToSet(s)
        BY <3>1, <4>3, <4>4 DEF ToSet
      <4>5. CASE list[i].cert = NoCert /\ list[i].name \notin Names(s)
        BY <1>4, <2>1, <4>2, <4>3, <4>5 DEF ClusterIInv
      <4> QED BY <1>5, <4>1, <4>4, <4>5
    <3> QED BY <1>6, <2>1, <3>2 DEF DetailsKept
  <2>2. CASE t # "manager"
    <3>1. "manager" \in Types
      BY TypesAre
    <3>2. stored'["manager"] = stored["manager"]
      BY <1>6, <2>2, <3>1
    <3>3. \A i \in DOMAIN stored["manager"] :
            stored["manager"][i].name \in NodeNames /\ stored["manager"][i].name[1] = "manager"
      BY <3>1 DEF ClusterIInv, ClusterInv, ClusterTypeOK, Names, NodesOfType
    <3>4. \A i \in DOMAIN stored["manager"] :
            stored["manager"][i].cert = certOf[stored["manager"][i].name]
      BY DEF ClusterIInv, ClusterInv, DetailsKept
    <3>5. \A i \in DOMAIN stored["manager"] :
            stored["manager"][i].cert = certOf'[stored["manager"][i].name]
      BY <1>9, <2>2, <3>3, <3>4
    <3> QED BY <3>2, <3>5 DEF DetailsKept
  <2> QED BY <2>1, <2>2
<1>12. \A l \in 1 .. 3 : l <= k => Names(stored'[NodeTypes[l]]) = ToSet(received'[NodeTypes[l]])
  <2> SUFFICES ASSUME NEW l \in 1 .. 3, l <= k
               PROVE  Names(stored'[NodeTypes[l]]) = ToSet(received'[NodeTypes[l]])
    OBVIOUS
  <2>1. CASE l = k
    BY <1>3, <1>5, <1>6, <2>1 DEF t
  <2>2. CASE l # k
    <3>1. NodeTypes[l] \in Types /\ NodeTypes[l] # t
      BY <1>1, <2>2, TypesAre DEF t
    <3>2. l < k
      BY <1>1, <2>2
    <3>3. Names(stored[NodeTypes[l]]) = ToSet(received[NodeTypes[l]])
      BY <1>1, <3>2 DEF ClusterIInv
    <3> QED BY <1>3, <1>6, <3>1, <3>3
  <2> QED BY <2>1, <2>2
<1>13. UpToDate'
  <2> SUFFICES ASSUME k = 3, NEW u \in Types PROVE Names(stored'[u]) = ToSet(received'[u])
    BY <1>7 DEF UpToDate
  <2>1. PICK l \in 1 .. 3 : u = NodeTypes[l]
    BY TypesAre
  <2> QED BY <1>12, <2>1
<1>14. \A m \in 1 .. 3 : clusterPc' = <<"merge", m>> =>
         \A l \in 1 .. 3 : l < m => Names(stored'[NodeTypes[l]]) = ToSet(received'[NodeTypes[l]])
  <2> SUFFICES ASSUME NEW m \in 1 .. 3, clusterPc' = <<"merge", m>>, NEW l \in 1 .. 3, l < m
               PROVE  Names(stored'[NodeTypes[l]]) = ToSet(received'[NodeTypes[l]])
    OBVIOUS
  <2>1. l <= k
    BY <1>1, <1>7
  <2> QED BY <1>12, <2>1
<1>15. \A n \in NodeNames :
         n[1] = "manager" /\ n \notin Names(stored'["manager"]) => certOf'[n] = NoCert
  <2>1. CASE t = "manager"
    BY <1>5, <1>6, <1>9, <2>1
  <2>2. CASE t # "manager"
    <3>1. stored'["manager"] = stored["manager"]
      BY <1>6, <2>2, TypesAre
    <3> QED BY <1>9, <2>2, <3>1 DEF ClusterIInv
  <2> QED BY <2>1, <2>2
<1>16. clusterPc'[1] # "idle" => loaded' = stored'
  BY <1>3
<1> QED BY <1>3, <1>6, <1>8, <1>9, <1>11, <1>13, <1>14, <1>15, <1>16 DEF ClusterIInv, ClusterInv

\* Every step of an update, and of those who change the cluster, keeps it.
LEMMA ClusterKeeps ==
  ASSUME ClusterIInv, [ClusterNext]_clusterVars
  PROVE  ClusterIInv'
<1>1. CASE UNCHANGED clusterVars
  BY <1>1 DEF clusterVars, ClusterIInv, ClusterInv, ClusterTypeOK, DetailsKept, UpToDate
<1>2. CASE ClusterNext
  BY <1>2, UpdateProfileKeeps, GetNodesKeeps, UpdateClusterNodesKeeps, UpdateEndsKeeps, AddNodeKeeps,
     RemoveNodeKeeps, SetClusterKeeps DEF ClusterNext
<1> QED BY <1>1, <1>2

\* What any command does is a step of the update or leaves it alone.
LEMMA ClusterSteps == [CfyNext]_cfyVars => [ClusterNext]_clusterVars
BY DEF CfyNext, cfyVars, InAgents, InUpload, InPluginsInstall, InPluginsUpdate, InFlow, InLabels,
       InProfiles, InCluster, InCertificates, InLocal, InEvents, InMaintenance, InSchedules,
       InArchive, InLocalFlow

\* The certificates that the user has set for a cluster's managers stay with
\* them, whatever is added or removed by hand and wherever an update or a
\* failover breaks in; an update that ends well leaves exactly the nodes that
\* it was told of.
THEOREM DetailsSurviveUpdates == CfySpec => []ClusterInv
<1>1. CfyInit => ClusterIInv
  BY ClusterStarts DEF CfyInit
<1>2. ClusterIInv /\ [CfyNext]_cfyVars => ClusterIInv'
  BY ClusterSteps, ClusterKeeps
<1>3. ClusterIInv => ClusterInv
  BY DEF ClusterIInv
<1> QED BY <1>1, <1>2, <1>3, PTL DEF CfySpec
=============================================================================
