---------------------------- MODULE BlueprintUpload ----------------------------
(***************************************************************************)
(* `cfy blueprints upload' (commands/blueprints.py, upload): an archive is *)
(* extracted to a temporary directory, sent and cleaned up again, and the  *)
(* upload that the manager runs is followed to its end                     *)
(* (utils.wait_for_blueprint_upload).                                      *)
(*                                                                         *)
(* The manager is external: it creates the upload's execution some time    *)
(* after the blueprint, logs events and ends the upload in some state, or  *)
(* never does.  Time passes in remote calls, at most UploadLatency units   *)
(* each, and in sleeps of one unit.                                        *)
(***************************************************************************)
EXTENDS Integers

CONSTANTS
  UploadTimeout,    \* DEFAULT_TIMEOUT
  UploadLatency,    \* bound: duration of a remote call
  MaxUploadEvents,  \* bound: events an upload logs
  LookupAttempts    \* stop_max_attempt_number

ASSUME UploadAssumption ==
  /\ UploadTimeout \in Nat /\ UploadLatency \in Nat
  /\ MaxUploadEvents \in Nat /\ LookupAttempts \in Nat \ {0}

VARIABLES
  blueprint,     \* the blueprint on the manager
  source,        \* what is uploaded and how
  uploadPc,      \* where the command is
  tempDir,       \* the directory of tempfile.mkdtemp
  lookups,       \* attempts to get the upload's execution so far
  timeLeft,      \* deadline - time.time()
  fetchTime,     \* the timeout given to fetch_and_process_events
  seenState,     \* the blueprint's state as it was read last
  seenEvents,    \* events shown
  uploadResult   \* how the command ended

uploadVars == <<blueprint, source, uploadPc, tempDir, lookups, timeLeft, fetchTime,
                seenState, seenEvents, uploadResult>>
uploadWait == <<blueprint, lookups, timeLeft, fetchTime, seenState, seenEvents>>
clock == <<timeLeft, fetchTime>>

FAILED_UPLOAD == {"failed_uploading", "invalid"}
END_UPLOAD == FAILED_UPLOAD \cup {"uploaded"}

\* A blueprint file, with or without an icon, one in an archive (`depth' of the
\* subdirectories of the archive's directory, given with -n), or a URL.
Sources ==
  [kind : {"file", "iconed", "archive", "url"}, depth : 0 .. 2, validate : BOOLEAN,
   async : BOOLEAN]
NoSource == [kind |-> "none", depth |-> 0, validate |-> FALSE, async |-> FALSE]

UploadInit ==
  /\ blueprint = [state |-> "absent", execution |-> FALSE, events |-> 0, ended |-> 0]
  /\ source = NoSource
  /\ uploadPc = "idle" /\ tempDir = "none"
  /\ lookups = 0 /\ timeLeft = UploadTimeout /\ fetchTime = UploadTimeout
  /\ seenState = "absent" /\ seenEvents = 0
  /\ uploadResult = "none"
-----------------------------------------------------------------------------
\* The manager.
CreateUploadExecution ==
  /\ blueprint.state = "uploading" /\ ~blueprint.execution
  /\ blueprint' = [blueprint EXCEPT !.execution = TRUE]
LogUploadEvent ==
  /\ blueprint.execution /\ blueprint.events < MaxUploadEvents
  /\ blueprint' = [blueprint EXCEPT !.events = @ + 1]
EndUpload ==
  /\ blueprint.state = "uploading" /\ blueprint.execution
  /\ \E s \in END_UPLOAD :
       blueprint' = [blueprint EXCEPT !.state = s, !.ended = blueprint.events]
UploadServer ==
  /\ CreateUploadExecution \/ LogUploadEvent \/ EndUpload
  /\ UNCHANGED <<source, uploadPc, tempDir, lookups, clock, seenState, seenEvents,
                 uploadResult>>

UploadEnd(r) == uploadPc' = "done" /\ uploadResult' = r
UploadGoto(where) == uploadPc' = where /\ UNCHANGED uploadResult
TakesTime == \E d \in 0 .. UploadLatency : timeLeft' = timeLeft - d

UploadCall(s) ==
  /\ uploadPc = "idle"
  /\ s.depth > 0 => s.kind = "archive"
  /\ source' = s
  /\ UploadGoto("get")
  /\ UNCHANGED <<uploadWait, tempDir>>

\* blueprint.get: an archive, and a file with an icon, make a temporary
\* directory.  The named file may not be in the archive; or the file is found and
\* get_visibility raises.  Both leave the directory: the try begins later.
GetBlueprint ==
  /\ uploadPc = "get"
  /\ tempDir' = IF source.kind \in {"archive", "iconed"} THEN "made" ELSE "none"
  /\ \/ UploadEnd("bad_source") \/ UploadEnd("bad_visibility")
     \/ UploadGoto(IF source.validate /\ source.kind # "url" THEN "validate" ELSE "send")
  /\ UNCHANGED <<uploadWait, source>>

\* (mutant) A failed validation leaves without the finally.
ValidateLeaves ==
  /\ uploadPc = "validate"
  /\ UploadGoto("send") \/ UploadEnd("error")
  /\ UNCHANGED <<uploadWait, source, tempDir>>

\* finally: shutil.rmtree(dirname(dirname(processed_blueprint_path))).  With the
\* file in the archive's directory that is the temporary directory, with one in a
\* subdirectory the archive's directory, and deeper down a part of the archive.
TempAfter ==
  CASE tempDir # "made" -> tempDir
    [] source.depth = 0 -> "removed"
    [] source.depth = 1 -> "emptied"
    [] OTHER            -> "partly"

Validate ==
  /\ uploadPc = "validate"
  /\ \/ UploadGoto("send") /\ UNCHANGED tempDir
     \/ UploadEnd("error") /\ tempDir' = TempAfter
  /\ UNCHANGED <<uploadWait, source>>

\* blueprints.upload or publish_archive, then upload_icon for a URL.
Send ==
  /\ uploadPc = "send"
  /\ \/ /\ tempDir' = TempAfter
        /\ blueprint' = [blueprint EXCEPT !.state = "uploading"]
        /\ IF source.async THEN UploadEnd("started") ELSE UploadGoto("lookup")
     \/ /\ tempDir' = TempAfter /\ UploadEnd("error")
        \* refused, no answer, or only the icon failed
        /\ \E state \in {blueprint.state, "uploading"} :
             blueprint' = [blueprint EXCEPT !.state = state]
  /\ UNCHANGED <<source, lookups, clock, seenState, seenEvents>>
-----------------------------------------------------------------------------
\* _handle_errors
UploadVerdict(state) == IF state \in FAILED_UPLOAD THEN "failed" ELSE "uploaded"

\* (mutant) The attempts are not counted.
LookupForever ==
  /\ uploadPc = "lookup"
  /\ seenState' = blueprint.state
  /\ IF ~blueprint.execution THEN UploadGoto("lookup")
     ELSE IF blueprint.state \in END_UPLOAD THEN UploadEnd(UploadVerdict(blueprint.state))
          ELSE UploadGoto("check")
  /\ UNCHANGED <<blueprint, source, tempDir, lookups, clock, seenEvents>>

\* _get_blueprint_and_upload_execution_id, retried until the execution is
\* there, then, if the upload has ended, its result without any events.
Lookup ==
  /\ uploadPc = "lookup"
  /\ lookups' = lookups + 1
  /\ seenState' = blueprint.state
  /\ IF ~blueprint.execution
     THEN IF lookups' = LookupAttempts THEN UploadEnd("no_execution") ELSE UploadGoto("lookup")
     ELSE IF blueprint.state \in END_UPLOAD THEN UploadEnd(UploadVerdict(blueprint.state))
          ELSE UploadGoto("check")
  /\ UNCHANGED <<blueprint, source, tempDir, clock, seenEvents>>

\* if time.time() > deadline
CheckUploadDeadline ==
  /\ uploadPc = "check"
  /\ IF timeLeft < 0 THEN UploadEnd("timeout")
     ELSE UploadGoto(IF seenState \in END_UPLOAD THEN "fetch" ELSE "poll")
  /\ fetchTime' = timeLeft
  /\ UNCHANGED <<blueprint, source, tempDir, lookups, timeLeft, seenState, seenEvents>>

\* (mutant) The loop is left as soon as the upload has ended.
PollUploadLast ==
  /\ uploadPc = "poll"
  /\ seenState' = blueprint.state
  /\ UploadGoto(IF blueprint.state \in END_UPLOAD THEN "final" ELSE "fetch")
  /\ TakesTime
  /\ UNCHANGED <<blueprint, source, tempDir, lookups, fetchTime, seenEvents>>

\* blueprint = client.blueprints.get(blueprint.id)
PollUpload ==
  /\ uploadPc = "poll"
  /\ seenState' = blueprint.state
  /\ UploadGoto("fetch")
  /\ TakesTime
  /\ UNCHANGED <<blueprint, source, tempDir, lookups, fetchTime, seenEvents>>

\* upload_ended
UploadEnded == seenState \in END_UPLOAD

\* fetch_and_process_events with the remaining timeout (module ExecutionWait),
\* then the end of the loop, or the sleep.
FetchEvents ==
  /\ uploadPc = "fetch"
  /\ \E n \in seenEvents .. blueprint.events, d \in 0 .. UploadLatency :
       \/ /\ n = blueprint.events /\ seenEvents' = n
          /\ timeLeft' = timeLeft - d - IF UploadEnded THEN 0 ELSE 1
          /\ UploadGoto(IF UploadEnded THEN "final" ELSE "check")
       \/ /\ d > fetchTime /\ seenEvents' = n
          /\ timeLeft' = timeLeft - d
          /\ UploadEnd("timeout")
  /\ UNCHANGED <<blueprint, source, tempDir, lookups, fetchTime, seenState>>

\* The blueprint is read again for its errors.
ReadResult ==
  /\ uploadPc = "final"
  /\ seenState' = blueprint.state
  /\ UploadEnd(UploadVerdict(blueprint.state))
  /\ UNCHANGED <<blueprint, source, tempDir, lookups, clock, seenEvents>>

\* A call of the wait fails.
UploadCallFails ==
  /\ uploadPc \in {"lookup", "poll", "fetch", "final"}
  /\ IF uploadPc = "lookup" /\ lookups + 1 < LookupAttempts
     THEN lookups' = lookups + 1 /\ UNCHANGED <<uploadPc, uploadResult>>
     ELSE UploadEnd("error") /\ UNCHANGED lookups
  /\ UNCHANGED <<blueprint, source, tempDir, clock, seenState, seenEvents>>

UploadStep ==
  \/ GetBlueprint \/ Validate \/ Send
  \/ Lookup \/ CheckUploadDeadline \/ PollUpload \/ FetchEvents \/ ReadResult
UploadNext ==
  UploadStep \/ UploadServer \/ UploadCallFails \/ \E s \in Sources : UploadCall(s)
-----------------------------------------------------------------------------
\* Types; every overrun of the deadline is at most a turn of the loop.
UploadTypeOK ==
  /\ blueprint.state \in {"absent", "uploading"} \cup END_UPLOAD
  /\ source \in Sources \cup {NoSource}
  /\ uploadPc \in {"idle", "get", "validate", "send", "lookup", "check", "poll", "fetch",
                   "final", "done"}
  /\ tempDir \in {"none", "made", "partly", "emptied", "removed"}
  /\ lookups \in 0 .. LookupAttempts
  /\ timeLeft \in -(2 * UploadLatency + 1) .. UploadTimeout
  /\ seenState \in {"absent", "uploading"} \cup END_UPLOAD
  /\ seenEvents \in 0 .. blueprint.events
  /\ uploadResult \in {"none", "bad_source", "bad_visibility", "error", "started", "no_execution", "failed", "uploaded", "timeout"}

\* "Blueprint uploaded" is only said of a blueprint that the manager has, and a
\* failure only reported of an upload that failed, whenever the upload ended in
\* between the calls of the wait.
UploadReportIsTrue ==
  /\ uploadResult = "uploaded" => blueprint.state = "uploaded"
  /\ uploadResult = "failed" => blueprint.state \in FAILED_UPLOAD

\* When the loop of the wait is left because the upload ended, every event up to
\* that end has been handled: the state is polled before the events are fetched.
\* (An upload that has ended at the first look is told without its events.)
UploadEventsComplete ==
  uploadPc = "final" => seenEvents >= blueprint.ended

\* "Once the blueprint has been uploaded, the temporary directory needs to be
\* cleaned up": an upload that got as far as its try statement leaves nothing
\* extracted behind, whether it is validated, refused or sent, if the file is at
\* most one subdirectory down, and no directory if it is in none.  It is not so
\* below, nor when the file is missing or the visibility is wrong.
ExtractedIsRemoved ==
  uploadPc = "done" /\ uploadResult \notin {"bad_source", "bad_visibility"} =>
    /\ source.depth = 0 => tempDir \in {"none", "removed"}
    /\ source.depth = 1 => tempDir = "emptied"

\* What the command says of the upload is so, the wait shows what the upload
\* logged, and what was extracted is cleaned up as far as it is.
UploadInv == UploadTypeOK /\ UploadReportIsTrue /\ UploadEventsComplete /\ ExtractedIsRemoved
=============================================================================
