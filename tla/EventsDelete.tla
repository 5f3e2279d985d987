----------------------------- MODULE EventsDelete ------------------------------
(***************************************************************************)
(* `cfy events delete' (commands/events.py, delete): delete the events of  *)
(* a deployment that lie in a range of times; with --store-before they are *)
(* kept, by the manager or, with --output-path, by the command, which      *)
(* first writes to a file what it fetches, execution after execution.      *)
(*                                                                         *)
(* Two files are open on that path: the handle the events are written with *)
(* keeps its own place in it, the one of the headers and counts is opened  *)
(* anew for each execution and appends (click.echo flushes both).  A text  *)
(* is one cell of the file, whatever its length.  Fetching the events of   *)
(* an execution is one step; ExecutionWait has it in full.  Debug logs are *)
(* fetched like all others, and written only by a command run with -vv.    *)
(*                                                                         *)
(* The manager is external: it lists the first page of the executions, and *)
(* logs events at any moment.                                              *)
(***************************************************************************)
EXTENDS Naturals, Sequences, FiniteSets, SequencesExt, Lists

CONSTANTS
  DeploymentRuns,   \* the executions of the deployment, as the manager lists them
  RunsPerPage,      \* how many of them it lists at a time
  MaxDeleteEvents   \* bound: events logged

ASSUME EventsAssumption ==
  /\ DeploymentRuns \in Seq(ToSet(DeploymentRuns)) /\ IsInjective(DeploymentRuns)
  /\ RunsPerPage \in 1 .. Len(DeploymentRuns) /\ MaxDeleteEvents \in Nat

LogRuns == ToSet(DeploymentRuns)
FirstPage == SubSeq(DeploymentRuns, 1, RunsPerPage)
\* An event: its execution, its number in the log, whether it is in the range
\* (and no log, if logs are not included), whether it is a debug log.
LogEvents == [run : LogRuns, n : 1 .. MaxDeleteEvents, inRange : BOOLEAN, debug : BOOLEAN]
EventSorts == {"event", "debug", "outside"}
Title(r) == [title |-> r]
Texts == LogEvents \cup {Title(r) : r \in LogRuns \cup {"deployment", "count"}}

VARIABLES
  eventLog,      \* the events on the manager, in the order they were logged
  loggedCount,
  storeArgs,     \* --store-before, --output-path and -vv
  deletePc,
  toStore,       \* executions whose events are still to be written
  cells,         \* the output file
  place,         \* the position of the events' handle in it
  known,         \* (history) events that were there when theirs were fetched
  handed,        \* (history) the events handed to the file, in order
  gone,          \* (history) events that were deleted
  deleteResult

eventsVars == <<eventLog, loggedCount, storeArgs, deletePc, toStore, cells, place, known,
                handed, gone, deleteResult>>
fileVars == <<cells, place, known, handed>>

EventsInit ==
  /\ eventLog = <<>> /\ loggedCount = 0
  /\ storeArgs = [store |-> FALSE, path |-> FALSE, verbose |-> FALSE]
  /\ deletePc = "idle" /\ toStore = <<>> /\ cells = <<>> /\ place = 0
  /\ known = {} /\ handed = <<>> /\ gone = {} /\ deleteResult = "none"
-----------------------------------------------------------------------------
LogEvent(r, sort) ==
  /\ loggedCount < MaxDeleteEvents /\ deletePc # "done"
  /\ loggedCount' = loggedCount + 1
  /\ eventLog' = Append(eventLog, [run |-> r, n |-> loggedCount', inRange |-> sort # "outside",
                                  debug |-> sort = "debug"])
  /\ UNCHANGED <<storeArgs, deletePc, toStore, fileVars, gone, deleteResult>>

\* The deployment has to exist.
DeleteCall(args) ==
  /\ deletePc = "idle"
  /\ storeArgs' = args
  /\ \/ deletePc' = (IF args.store /\ args.path THEN "list" ELSE "delete") /\ UNCHANGED deleteResult
     \/ deletePc' = "done" /\ deleteResult' = "raised"
  /\ UNCHANGED <<eventLog, loggedCount, toStore, fileVars, gone>>

\* executions.list(), then open(output_path, 'w') and its first line.
OpenOutput ==
  /\ deletePc = "list"
  /\ toStore' = FirstPage
  /\ cells' = <<Title("deployment")>> /\ place' = 1
  /\ deletePc' = "title"
  /\ UNCHANGED <<eventLog, loggedCount, storeArgs, known, handed, gone, deleteResult>>

\* (mutant) The file is opened anew, not to append.
AppendTextTruncates(t) == cells' = <<t>>

\* open(output_path, 'a')
AppendText(t) == cells' = Append(cells, t)

\* The line above the events of the next execution.
WriteTitle ==
  /\ deletePc = "title"
  /\ IF toStore = <<>> THEN deletePc' = "delete" /\ UNCHANGED cells
     ELSE deletePc' = "fetch" /\ AppendText(Title(Head(toStore)))
  /\ UNCHANGED <<eventLog, loggedCount, storeArgs, toStore, place, known, handed, gone,
                 deleteResult>>

\* What the manager selects, for a listing as for a deletion.
InTimeRange(events) == Filtered(events, {e \in LogEvents : e.inRange})

\* The file with es written over it from `place' on.
Overwritten(es) ==
  [i \in 1 .. IF place + Len(es) > Len(cells) THEN place + Len(es) ELSE Len(cells) |->
     IF i \in place + 1 .. place + Len(es) THEN es[i - place] ELSE cells[i]]

\* logs.create_event_message_prefix has nothing to say of a debug log, unless
\* the command was run with -vv.
HasOutput(e) == e.debug => storeArgs.verbose

\* DeletedEventsLogger.log, `if output'
WithOutput(events) == Filtered(events, {e \in LogEvents : HasOutput(e)})

\* fetch_and_process_events: all of the execution's events, or the first
\* of them and an exception.
StoreEvents ==
  /\ deletePc = "fetch"
  /\ LET es == Filtered(InTimeRange(eventLog), {e \in LogEvents : e.run = Head(toStore)})
     IN  \E k \in 0 .. Len(es) :
           LET written == WithOutput(SubSeq(es, 1, k))
           IN
           /\ cells' = Overwritten(written)
           /\ place' = place + Len(written)
           /\ handed' = handed \o written
           /\ known' = known \cup ToSet(es)
           /\ \/ k = Len(es) /\ deletePc' = "count" /\ UNCHANGED deleteResult
              \/ deletePc' = "done" /\ deleteResult' = "raised"
  /\ UNCHANGED <<eventLog, loggedCount, storeArgs, toStore, gone>>

\* `Listed ... events'
WriteCount ==
  /\ deletePc = "count"
  /\ AppendText(Title("count"))
  /\ toStore' = Tail(toStore)
  /\ deletePc' = "title"
  /\ UNCHANGED <<eventLog, loggedCount, storeArgs, place, known, handed, gone, deleteResult>>

\* events.delete(); a call that fails may have been obeyed.
DeleteEvents ==
  /\ deletePc = "delete"
  /\ deletePc' = "done"
  /\ \/ /\ eventLog' = Filtered(eventLog, {e \in LogEvents : ~e.inRange})
        /\ gone' = ToSet(InTimeRange(eventLog))
        /\ deleteResult' \in {IF gone' = {} THEN "nothing" ELSE "deleted", "raised"}
     \/ deleteResult' = "raised" /\ UNCHANGED <<eventLog, gone>>
  /\ UNCHANGED <<loggedCount, storeArgs, toStore, fileVars>>

\* The executions cannot be listed, or the file not be opened.
ListingFails ==
  /\ deletePc = "list"
  /\ deletePc' = "done" /\ deleteResult' = "raised"
  /\ UNCHANGED <<eventLog, loggedCount, storeArgs, toStore, fileVars, gone>>

EventsStep == OpenOutput \/ WriteTitle \/ StoreEvents \/ WriteCount \/ DeleteEvents
EventsNext ==
  \/ EventsStep \/ ListingFails
  \/ \E r \in LogRuns, sort \in EventSorts : LogEvent(r, sort)
  \/ \E store, path, verbose \in BOOLEAN :
       DeleteCall([store |-> store, path |-> path, verbose |-> verbose])
-----------------------------------------------------------------------------
\* Types of the variables.
EventsTypeOK ==
  /\ eventLog \in Seq(LogEvents) /\ loggedCount \in 0 .. MaxDeleteEvents
  /\ storeArgs \in [store : BOOLEAN, path : BOOLEAN, verbose : BOOLEAN]
  /\ deletePc \in {"idle", "list", "title", "fetch", "count", "delete", "done"}
  /\ toStore \in Seq(LogRuns)
  /\ cells \in Seq(Texts) /\ place \in 0 .. Len(cells)
  /\ known \subseteq LogEvents /\ gone \subseteq LogEvents
  /\ handed \in Seq(LogEvents)
  /\ deleteResult \in {"none", "raised", "nothing", "deleted"}

\* Although two handles write to one file, what is overwritten are titles: all
\* the events that were handed to the file are in it, once and in that order.
EventsInFile == Filtered(cells, LogEvents) = handed

\* "List events prior to their deletion": an event that is deleted is in the
\* file, unless its execution is not among those that were listed, or it was
\* logged after its execution's events had been fetched, or it is a debug log
\* and the command was run without -vv - what is not written is deleted too.
StoredBeforeDeleted ==
  gone # {} /\ storeArgs.store /\ storeArgs.path =>
    /\ \A e \in known : HasOutput(e) => e \in ToSet(handed)
    /\ \A e \in gone \ ToSet(handed) :
         \/ ~HasOutput(e)
         \/ e.run \notin ToSet(FirstPage)
         \/ \A k \in known : k.run = e.run => k.n < e.n

\* Nothing outside the range is stored or deleted.
OnlyInRange == \A e \in gone \cup ToSet(handed) : e.inRange

\* What is deleted has been stored, in order, as far as it is listed and has
\* output, and is what was asked for.
EventsInv == EventsTypeOK /\ EventsInFile /\ StoredBeforeDeleted /\ OnlyInRange
=============================================================================
