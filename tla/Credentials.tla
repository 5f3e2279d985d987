------------------------------ MODULE Credentials ------------------------------
(***************************************************************************)
(* How the client authenticates: the fields of the profile that `cfy       *)
(* profiles use, set and unset' write (commands/profiles.py) and the       *)
(* environment variables of the same names, from which get_rest_client     *)
(* makes a client with one method (env.py).                                *)
(*                                                                         *)
(* A profile and the environment are the sets of fields that have a value. *)
(* Each command is a process of its own; the user may change the           *)
(* environment in between.  The manager is external: it may be down, or    *)
(* reject what is sent to it.                                              *)
(***************************************************************************)
EXTENDS FiniteSets

Fields == {"username", "password", "token", "kerberos"}
Methods == {"credentials", "token", "kerberos"}

VARIABLES
  authProfile,   \* the profile on disk
  environment,   \* CLOUDIFY_USERNAME, ..._PASSWORD, ..._TOKEN, ..._KERBEROS_ENV
  used,          \* what the last other command's client authenticated with
  given,         \* (history) the options of `use' or `set', if the profile was
                 \* not changed since
  validated      \* (history) the environment the profile was validated in,
                 \* as a set of one; nothing if it was not

authVars == <<authProfile, environment, used, given, validated>>

AuthInit ==
  /\ authProfile = {} /\ environment = {} /\ used = "none"
  /\ given = {} /\ validated = {}
-----------------------------------------------------------------------------
\* check_configured_auth
MethodsIn(fields) ==
  {m \in Methods : IF m = "credentials" THEN {"username", "password"} \cap fields # {}
                                        ELSE m \in fields}
OneMethod(fields) ==
  /\ "username" \in fields <=> "password" \in fields
  /\ Cardinality(MethodsIn(fields)) = 1

\* assert_credentials_set.  get_from_profile_or_env_var raises if a field is
\* set in both.
CredentialsSet(fields) ==
  fields \cap environment = {} /\ OneMethod(fields \cup environment)

\* get_rest_client, after assert_credentials_set: a token comes first, and
\* kerberos_env is that of the profile only.
ClientMethod(fields) ==
  IF "token" \in fields \cup environment THEN "token"
  ELSE IF "kerberos" \in fields THEN "kerberos"
  ELSE IF "username" \in fields \cup environment THEN "credentials" ELSE "nothing"

\* _validate_credentials succeeds: the client is made and the manager answers.
Validates(fields) == CredentialsSet(fields)

Save(fields, options, skip) ==
  /\ authProfile' = fields
  /\ given' = options
  /\ validated' = IF skip THEN {} ELSE {environment}

\* The command's end: saved, or an error before the profile was saved.
SaveOrFail(fields, options, skip) ==
  /\ \/ (skip \/ Validates(fields)) /\ Save(fields, options, skip)
     \/ ~skip /\ UNCHANGED <<authProfile, given, validated>>
  /\ used' = "none" /\ UNCHANGED environment

\* profiles.use, _create_profile: the options are checked by themselves; with
\* --skip-credentials-validation the errors of the first request are ignored.
UseNewProfile(options, skip) ==
  /\ authProfile = {}
  /\ options = {} \/ OneMethod(options)
  /\ SaveOrFail(options, options, skip)

\* (mutant) A user name leaves the other methods where they are.
AfterUsernameKeeps(fields) == fields \cup {"username"}

AfterUsername(fields) == (fields \cup {"username"}) \ {"token", "kerberos"}

\* profiles.set: the options are handled in this order, and the later clear
\* what the earlier have set.  An empty --kerberos-env clears too.
AfterSet(fields, options, clearKerberos) ==
  LET named  == IF "username" \in options THEN AfterUsername(fields) ELSE fields
      passed == IF "password" \in options THEN named \cup {"password"} ELSE named
      tokened == IF "token" \in options THEN {"token"} ELSE passed
  IN  IF clearKerberos THEN {} ELSE IF "kerberos" \in options THEN {"kerberos"} ELSE tokened

SetProfile(options, clearKerberos, skip) ==
  /\ options # {} \/ clearKerberos
  /\ clearKerberos => "kerberos" \notin options
  /\ SaveOrFail(AfterSet(authProfile, options, clearKerberos),
                IF clearKerberos THEN {} ELSE options, skip)

\* profiles.unset has no option for the token.
UnsetProfile(options, skip) ==
  /\ options # {} /\ "token" \notin options
  /\ SaveOrFail(authProfile \ options, {}, skip)

\* Any other command's client.
MakeClient ==
  /\ used' = IF CredentialsSet(authProfile) THEN ClientMethod(authProfile) ELSE "error"
  /\ UNCHANGED <<authProfile, environment, given, validated>>

ChangeEnvironment(fields) ==
  /\ environment' = fields /\ used' = "none"
  /\ UNCHANGED <<authProfile, given, validated>>

AuthNext ==
  \/ \E options \in SUBSET Fields, skip \in BOOLEAN :
       \/ UseNewProfile(options, skip) \/ UnsetProfile(options, skip)
       \/ \E clear \in BOOLEAN : SetProfile(options, clear, skip)
  \/ MakeClient
  \/ \E fields \in SUBSET Fields : ChangeEnvironment(fields)
-----------------------------------------------------------------------------
AuthTypeOK ==
  /\ authProfile \subseteq Fields /\ environment \subseteq Fields /\ given \subseteq Fields
  /\ validated \subseteq SUBSET Fields
  /\ used \in Methods \cup {"none", "error", "nothing"}

\* Whatever the profile held before, also what --skip-credentials-validation
\* let in: once a method was set, the profile has this method and no other.
SetReplaces ==
  \A m \in {{"username", "password"}, {"token"}, {"kerberos"}} :
    given = m => authProfile = m

\* A profile that was saved after its validation gives a client, in the
\* environment it was validated in.
ValidatedIsUsable == environment \in validated => OneMethod(authProfile \cup environment)

\* "Only one auth method may be set at a time": a client is made with the one
\* method there is.  (Kerberos from the environment is accepted, but the
\* client is then made with nothing.)
UsesTheMethod ==
  used \in Methods => MethodsIn(authProfile \cup environment) = {used}

\* A profile authenticates with the one method it was given.
AuthInv == AuthTypeOK /\ SetReplaces /\ ValidatedIsUsable /\ UsesTheMethod
=============================================================================
