--------------------------- MODULE FailoverService ---------------------------
(***************************************************************************)
(* What a cluster client promises its callers, whatever order it tries the *)
(* managers in: a request is answered by one of the candidate managers     *)
(* that is up at that moment, and it is reported unanswerable only if no   *)
(* candidate stayed up while it ran.                                       *)
(***************************************************************************)
CONSTANTS Hosts, NoHost

VARIABLES
  up,          \* hosts that are up
  members,     \* the managers of the profile
  busy,        \* a request is running
  candidates,  \* the hosts that may answer it
  alive,       \* the hosts that have been up since it started
  outcome      \* how the last request ended

vars == <<up, members, busy, candidates, alive, outcome>>

NoOutcome == [result |-> "none", by |-> NoHost]

Init ==
  /\ up \subseteq Hosts
  /\ members \subseteq Hosts
  /\ busy = FALSE
  /\ candidates = {}
  /\ alive = {}
  /\ outcome = NoOutcome

Toggle(h) ==
  /\ up' = IF h \in up THEN up \ {h} ELSE up \cup {h}
  /\ alive' = alive \ {h}
  /\ UNCHANGED <<members, busy, candidates, outcome>>

\* A request goes to all the members, or to one chosen host.
Begin(c) ==
  /\ ~busy
  /\ busy' = TRUE
  /\ candidates' = c
  /\ alive' = up
  /\ outcome' = NoOutcome
  /\ UNCHANGED <<up, members>>

End(result, by) ==
  /\ busy
  /\ busy' = FALSE
  /\ candidates' = {}
  /\ alive' = {}
  /\ outcome' = [result |-> result, by |-> by]
  /\ UNCHANGED <<up, members>>

Answer(h) == h \in candidates \cap up /\ \E r \in {"ok", "error"} : End(r, h)

Unanswered ==
  /\ candidates \cap alive = {}
  /\ \E r \in {"error", "offline"} : End(r, NoHost)

\* The caller goes away, between requests or during one.
Leave ==
  /\ busy' = FALSE
  /\ candidates' = {}
  /\ alive' = {}
  /\ outcome' = NoOutcome
  /\ UNCHANGED <<up, members>>

Next ==
  \/ \E h \in Hosts : Toggle(h) \/ Answer(h) \/ Begin({h})
  \/ Begin(members)
  \/ Unanswered
  \/ Leave

Spec == Init /\ [][Next]_vars
=============================================================================
