-------------------------------- MODULE Labels --------------------------------
(***************************************************************************)
(* Adding and deleting labels of a deployment, a deployment group or a     *)
(* blueprint (labels_utils.py) and the metadata, blueprint labels and      *)
(* resource tags, of a plugin (commands/plugins.py).  Both read what is    *)
(* there, change their copy and send the whole of it back.  Several shells *)
(* may do so to the same resource.                                         *)
(*                                                                         *)
(* A label is a pair of a key and a value; in what is to be deleted the    *)
(* value may be AnyValue, a bare key.  Metadata can also hold a key that   *)
(* has lost its last value.                                                *)
(***************************************************************************)
EXTENDS Naturals, Sequences, FiniteSets

CONSTANTS
  Shells, Keys, Values, AnyValue,
  InitialLabels,   \* what the labels may be at first
  MaxLabelWrites   \* bound: commands that get to write

LabelPairs == Keys \X Values

ASSUME LabelAssumption ==
  AnyValue \notin Values /\ InitialLabels \subseteq SUBSET LabelPairs /\ MaxLabelWrites \in Nat

VARIABLES
  resource,    \* "labels" or "metadata"
  content,     \* the labels on the manager
  emptyKeys,   \* keys of the metadata that have no value
  change,      \* what each shell's command is to do
  labelPc,
  copy,        \* the labels each command has read ...
  copyEmpty,   \* ... and the keys without values
  firstLabels, \* (history) the labels there were at first
  writes,      \* (history) the changes the manager was sent, in that order
  keptWrites,  \* (history) those of them that are in the labels on the manager
  copyKept,    \* (history) those that are in a command's copy, and how many
  readAt       \* had been sent when it was read

labelVars == <<resource, content, emptyKeys, change, labelPc, copy, copyEmpty, firstLabels,
               writes, keptWrites, copyKept, readAt>>
labelStore == <<content, emptyKeys, writes, keptWrites>>

NoChange == [op |-> "none", pairs |-> {}]

LabelInit ==
  /\ resource \in {"labels", "metadata"}
  /\ firstLabels \in InitialLabels /\ content = firstLabels /\ emptyKeys = {}
  /\ change = [s \in Shells |-> NoChange]
  /\ labelPc = [s \in Shells |-> "idle"]
  /\ copy = [s \in Shells |-> {}] /\ copyEmpty = [s \in Shells |-> {}]
  /\ writes = <<>> /\ keptWrites = {}
  /\ copyKept = [s \in Shells |-> {}] /\ readAt = [s \in Shells |-> 0]

LabelCall(s, op, pairs) ==
  /\ labelPc[s] = "idle" /\ pairs # {}
  /\ Len(writes) + Cardinality({u \in Shells : labelPc[u] # "idle"}) < MaxLabelWrites
  /\ op = "add" => pairs \subseteq LabelPairs
  /\ change' = [change EXCEPT ![s] = [op |-> op, pairs |-> pairs]]
  /\ labelPc' = [labelPc EXCEPT ![s] = "read"]
  /\ UNCHANGED <<resource, labelStore, firstLabels, copy, copyEmpty, copyKept, readAt>>
-----------------------------------------------------------------------------
\* _get_resource_labels, client.get
ReadLabels(s) ==
  /\ labelPc[s] = "read"
  /\ copy' = [copy EXCEPT ![s] = content]
  /\ copyEmpty' = [copyEmpty EXCEPT ![s] = emptyKeys]
  /\ copyKept' = [copyKept EXCEPT ![s] = keptWrites]
  /\ readAt' = [readAt EXCEPT ![s] = Len(writes)]
  /\ labelPc' = [labelPc EXCEPT ![s] = "write"]
  /\ UNCHANGED <<resource, labelStore, firstLabels, change>>

\* (mutant) A bare key deletes nothing but a label without a value.
MatchesExactly(pair, pairs) == pair \in pairs

\* A label is named by its key and value, or by its key alone.
Matches(pair, pairs) == pair \in pairs \/ <<pair[1], AnyValue>> \in pairs

Changed(have, c) ==
  IF c.op = "add" THEN have \cup c.pairs
  ELSE {pair \in have : ~Matches(pair, c.pairs)}

\* Metadata: a key whose last value goes stays; a bare key goes, but with the
\* values it has, also when there are none.
EmptyAfter(s) ==
  LET named == {p[1] : p \in {q \in change[s].pairs : q[2] = AnyValue}}
      after == {p[1] : p \in Changed(copy[s], change[s])}
  IN  IF resource = "labels" THEN {}
      ELSE ((copyEmpty[s] \cup {p[1] : p \in copy[s]}) \ named) \ after

\* What is not sent: labels that change nothing, and a deletion from no
\* metadata at all.
NothingToDo(s) ==
  IF resource = "labels" THEN Changed(copy[s], change[s]) = copy[s]
  ELSE change[s].op = "delete" /\ copy[s] = {} /\ copyEmpty[s] = {}

LabelEnds(s) ==
  /\ labelPc' = [labelPc EXCEPT ![s] = "idle"]
  /\ change' = [change EXCEPT ![s] = NoChange]
  /\ copy' = [copy EXCEPT ![s] = {}] /\ copyEmpty' = [copyEmpty EXCEPT ![s] = {}]
  /\ copyKept' = [copyKept EXCEPT ![s] = {}] /\ readAt' = [readAt EXCEPT ![s] = 0]

LeaveLabels(s) ==
  /\ labelPc[s] = "write" /\ NothingToDo(s)
  /\ LabelEnds(s)
  /\ UNCHANGED <<resource, labelStore, firstLabels>>

\* update_labels, update, put; the command may still fail, if the answer is lost.
WriteLabels(s) ==
  /\ labelPc[s] = "write" /\ ~NothingToDo(s)
  /\ content' = Changed(copy[s], change[s])
  /\ emptyKeys' = EmptyAfter(s)
  /\ writes' = Append(writes, [op |-> change[s].op, pairs |-> change[s].pairs,
                              read |-> readAt[s]])
  /\ keptWrites' = copyKept[s] \cup {Len(writes) + 1}
  /\ LabelEnds(s)
  /\ UNCHANGED <<resource, firstLabels>>

\* A call that has no effect.
LabelCallFails(s) ==
  /\ labelPc[s] \in {"read", "write"}
  /\ LabelEnds(s)
  /\ UNCHANGED <<resource, labelStore, firstLabels>>

LabelNext ==
  \E s \in Shells :
    \/ ReadLabels(s) \/ LeaveLabels(s) \/ WriteLabels(s) \/ LabelCallFails(s)
    \/ \E op \in {"add", "delete"}, pairs \in SUBSET (Keys \X (Values \cup {AnyValue})) :
         LabelCall(s, op, pairs)
-----------------------------------------------------------------------------
\* Types; a key without a value has none.
LabelTypeOK ==
  /\ resource \in {"labels", "metadata"}
  /\ content \subseteq LabelPairs /\ firstLabels \subseteq LabelPairs
  /\ emptyKeys \subseteq Keys \ {p[1] : p \in content}
  /\ resource = "labels" => emptyKeys = {}
  /\ keptWrites \subseteq 1 .. Len(writes)
  /\ \A s \in Shells :
       /\ change[s].op \in {"none", "add", "delete"}
       /\ change[s].pairs \subseteq Keys \X (Values \cup {AnyValue})
       /\ labelPc[s] \in {"idle", "read", "write"}
       /\ copy[s] \subseteq LabelPairs /\ copyEmpty[s] \subseteq Keys
       /\ copyKept[s] \subseteq 1 .. readAt[s] /\ readAt[s] \in 0 .. Len(writes)

Adds(i, p) == writes[i].op = "add" /\ p \in writes[i].pairs
Deletes(i, p) == writes[i].op = "delete" /\ \E q \in writes[i].pairs : q \in {p, <<p[1], AnyValue>>}

\* The labels are what the changes that are in them add up to: one is there if
\* the last change that named it, by its key or with its value, added it, or
\* if it was there at first and no change deleted it.
LastChangeCounts ==
  \A p \in LabelPairs :
    p \in content <=>
      \/ p \in firstLabels /\ \A i \in keptWrites : ~Deletes(i, p)
      \/ \E i \in keptWrites : Adds(i, p) /\ \A j \in keptWrites : j > i => ~Deletes(j, p)

\* Each command sends all the labels back.  What that can undo is bounded: a
\* change is lost only to a command that had read before it was made and wrote
\* after it, and whose own change is not lost.  The newest change is never
\* lost, and without such an overlap none is.
OnlyOverlapLoses ==
  /\ writes # <<>> => Len(writes) \in keptWrites
  /\ \A i \in (1 .. Len(writes)) \ keptWrites : \E j \in keptWrites : i < j /\ writes[j].read < i

\* Adding and deleting, by key or by label, and the lost updates of several shells.
LabelInv == LabelTypeOK /\ LastChangeCounts /\ OnlyOverlapLoses
=============================================================================
