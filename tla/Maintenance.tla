------------------------------ MODULE Maintenance ------------------------------
(***************************************************************************)
(* `cfy maintenance-mode activate' and `deactivate'                        *)
(* (commands/maintenance_mode.py): ask the manager to enter the mode, and  *)
(* with --wait poll it until it has, or the time is up.                    *)
(*                                                                         *)
(* The manager is external: from the request on it starts no execution,    *)
(* and is in the mode when none is left.  Other users start executions and *)
(* turn the mode on and off.                                               *)
(***************************************************************************)
EXTENDS Integers

CONSTANTS
  ModeTimeouts,   \* values of --timeout
  ModeLatency,    \* bound: duration of a poll
  ModeSleep,      \* DEFAULT_TIMEOUT_INTERVAL
  MaxOthers       \* bound: what other users do

ASSUME ModeAssumption ==
  /\ ModeTimeouts \subseteq Nat /\ 0 \in ModeTimeouts   \* the default
  /\ ModeLatency \in Nat /\ ModeSleep \in Nat \ {0}
  /\ MaxOthers \in Nat

VARIABLES
  mode,          \* of the manager
  working,       \* whether executions run
  othersDid,     \* how much others have done
  turnedOff,     \* (history) someone turned the mode off since it was asked for
  modeTimeout,   \* --timeout
  modeLeft,      \* deadline - time.time()
  modePc,
  lastStatus,    \* the status the last poll got
  modeResult

modeVars == <<mode, working, othersDid, turnedOff, modeTimeout, modeLeft, modePc, lastStatus,
              modeResult>>

ModeInit ==
  /\ mode = "deactivated" /\ working \in BOOLEAN
  /\ othersDid = 0 /\ turnedOff = FALSE
  /\ modeTimeout = 0 /\ modeLeft = 0
  /\ modePc = "idle" /\ lastStatus = "none" /\ modeResult = "none"
-----------------------------------------------------------------------------
ManagerVars == <<mode, working, othersDid, turnedOff>>

\* The manager and its other users.
ExecutionsEnd ==
  /\ working /\ working' = FALSE
  /\ UNCHANGED <<mode, othersDid, turnedOff>>
ExecutionsStart ==
  /\ mode = "deactivated" /\ ~working /\ othersDid < MaxOthers
  /\ working' = TRUE /\ othersDid' = othersDid + 1
  /\ UNCHANGED <<mode, turnedOff>>
EntersMode ==
  /\ mode = "activating" /\ ~working
  /\ mode' = "activated"
  /\ UNCHANGED <<working, othersDid, turnedOff>>
OthersTurn ==
  /\ othersDid < MaxOthers
  /\ othersDid' = othersDid + 1
  /\ mode' = IF mode = "deactivated" THEN "activating" ELSE "deactivated"
  /\ turnedOff' = (turnedOff \/ mode' = "deactivated")
  /\ UNCHANGED working

OnManager ==
  /\ ExecutionsEnd \/ ExecutionsStart \/ EntersMode \/ OthersTurn
  /\ UNCHANGED <<modeTimeout, modeLeft, modePc, lastStatus, modeResult>>

ModeDone(how) == modePc' = "done" /\ modeResult' = how

\* activate(); the manager refuses if the mode is on already.
ActivateCall(wait, timeout) ==
  /\ modePc = "idle"
  /\ modeTimeout' = timeout /\ modeLeft' = timeout
  /\ turnedOff' = FALSE
  /\ \/ /\ timeout # 0 /\ ~wait
        /\ ModeDone("usage") /\ UNCHANGED mode
     \/ /\ timeout = 0 \/ wait
        /\ mode = "deactivated" /\ mode' = "activating"
        /\ IF wait THEN modePc' = "check" /\ UNCHANGED modeResult ELSE ModeDone("requested")
     \/ /\ timeout = 0 \/ wait
        /\ ModeDone("raised") /\ UNCHANGED mode
  /\ UNCHANGED <<working, othersDid, lastStatus>>

\* deactivate()
DeactivateCall ==
  /\ modePc = "idle"
  /\ \/ ModeDone("off") /\ mode' = "deactivated" /\ turnedOff' = TRUE
     \/ ModeDone("raised") /\ UNCHANGED <<mode, turnedOff>>
  /\ UNCHANGED <<working, othersDid, modeTimeout, modeLeft, lastStatus>>

\* (mutant) A timeout of zero is one that has passed.
IsTimeoutAlways == modeLeft < 0

\* _is_timeout: a timeout of zero is none.
IsTimeout == modeTimeout > 0 /\ modeLeft < 0

CheckModeDeadline ==
  /\ modePc = "check"
  /\ IF IsTimeout THEN ModeDone("timeout") ELSE modePc' = "poll" /\ UNCHANGED modeResult
  /\ UNCHANGED <<ManagerVars, modeTimeout, modeLeft, lastStatus>>

\* Time that has passed, which counts only with a timeout.
Elapsed(d) == modeLeft' = IF modeTimeout = 0 THEN -1 ELSE modeLeft - d

\* The status is asked for; unless the mode is on, a sleep.
PollMode ==
  /\ modePc = "poll"
  /\ lastStatus' = mode
  /\ IF mode = "activated" THEN ModeDone("activated") /\ UNCHANGED modeLeft
     ELSE /\ modePc' = "check" /\ UNCHANGED modeResult
          /\ \E d \in 0 .. ModeLatency : Elapsed(d + ModeSleep)
  /\ UNCHANGED <<ManagerVars, modeTimeout>>

PollModeFails ==
  /\ modePc = "poll" /\ ModeDone("raised")
  /\ UNCHANGED <<ManagerVars, modeTimeout, modeLeft, lastStatus>>

ModeStep == CheckModeDeadline \/ PollMode
ModeNext ==
  \/ ModeStep \/ PollModeFails \/ OnManager \/ DeactivateCall
  \/ \E wait \in BOOLEAN, timeout \in ModeTimeouts : ActivateCall(wait, timeout)

\* A wait with a timeout has an end; without one it lasts as long as it takes.
ModeWaits == modePc \in {"check", "poll"} /\ modeTimeout > 0
-----------------------------------------------------------------------------
\* Types of the variables.
ModeTypeOK ==
  /\ mode \in {"deactivated", "activating", "activated"} /\ working \in BOOLEAN
  /\ othersDid \in 0 .. MaxOthers /\ turnedOff \in BOOLEAN
  /\ modeTimeout \in ModeTimeouts /\ modeLeft \in Int
  /\ modePc \in {"idle", "check", "poll", "done"}
  /\ lastStatus \in {"none", "deactivated", "activating", "activated"}
  /\ modeResult \in {"none", "usage", "requested", "off", "raised", "timeout", "activated"}

\* "Timed out ... Note that the manager is still entering maintenance mode":
\* it was asked to and has not been told otherwise since, or another user
\* has.  A timeout is reported only when there is one and it has passed, and
\* at most one poll and one sleep late.
ModeTimeoutIsTrue ==
  modeResult = "timeout" =>
    /\ modeTimeout > 0 /\ modeLeft \in -(ModeSleep + ModeLatency) .. -1
    /\ lastStatus # "activated"
    /\ mode = "deactivated" => turnedOff

\* No execution runs in a mode that was reported to be on, unless another user
\* has turned it off again.
ModeReportIsTrue ==
  modeResult = "activated" => (mode = "activated" /\ ~working) \/ turnedOff

\* What is told of the mode is so.
MaintenanceInv == ModeTypeOK /\ ModeTimeoutIsTrue /\ ModeReportIsTrue
=============================================================================
