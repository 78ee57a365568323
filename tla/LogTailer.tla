----------------------------- MODULE LogTailer -----------------------------
(***************************************************************************)
(* How native/discord-monitor.py follows cowrie.json: poll_once compares   *)
(* the path's inode and size with the saved source, drains the rotated     *)
(* file it was reading and reads LOG_PATH line by line, saving the offset  *)
(* with each line.  Cowrie appends, renames the file away and creates a    *)
(* new one, and somebody may truncate it or remove a renamed one, all      *)
(* between any two steps.                                                  *)
(*                                                                         *)
(* A file is its complete lines: consume stops before a line without its   *)
(* newline as it does at the end of the file.  Offsets and sizes count     *)
(* lines.  Files are numbered in the order of their creation and no inode  *)
(* is used twice.  What queue_line does with a line is in DiscordMonitor;  *)
(* here the state lists the lines it has absorbed.                         *)
(***************************************************************************)
EXTENDS Naturals, Sequences, FiniteSets

CONSTANTS
  Calm,           \* the file system keeps the pace of the polls, see below
  MaxSeen,
  MaxFiles,       \* bound: files Cowrie creates
  MaxLines,       \* bound: lines Cowrie writes
  MaxTruncations, \* bound: truncations of LOG_PATH and removals of rotated files
  MaxCrashes,     \* bound: times the process is killed
  MaxFaults       \* bound: times save_state raises

ASSUME TailerAssumption ==
  /\ Calm \in BOOLEAN
  /\ MaxSeen \in Nat \ {0} /\ MaxFiles \in Nat \ {0} /\ MaxLines \in Nat
  /\ MaxTruncations \in Nat /\ MaxCrashes \in Nat /\ MaxFaults \in Nat

VARIABLES
  files,      \* the files created so far, each the lines it holds
  present,    \* LOG_PATH names the last file; otherwise nothing, until Cowrie
              \* has created the next
  written,    \* number of lines Cowrie wrote; a line is its number
  lost,       \* lines truncated or removed before they were read, and those of
              \* files renamed before the monitor had come to them
  truncations,
  state,      \* the monitor's state in memory: source, seen, absorbed
  disk,       \* what STATE_PATH holds
  pc,         \* where poll_once is; "down" when the process is not running
  identity,   \* the file regular_stat(LOG_PATH) found in this poll
  handle,     \* the open file and the position in it
  crashes, faults

fsVars == <<files, present, written, lost, truncations>>
vars == <<fsVars, state, disk, pc, identity, handle, crashes, faults>>

-----------------------------------------------------------------------------

NoSource == [file |-> 0, offset |-> 0]

DefaultState == [source |-> NoSource, seen |-> <<>>, absorbed |-> <<>>]

Current == Len(files)

Elements(q) == {q[n] : n \in DOMAIN q}

\* Mutant of AppendBounded: the list is cut one item late.
AppendBoundedLate(items, value) ==
  LET all == Append(items, value)
  IN IF Len(all) > MaxSeen + 1 THEN Tail(all) ELSE all

AppendBounded(items, value) ==
  LET all == Append(items, value)
  IN IF Len(all) > MaxSeen THEN Tail(all) ELSE all

\* queue_line: a line whose digest is in seen is ignored.
QueueLine(st, line) ==
  IF line \in Elements(st.seen)
  THEN st
  ELSE [st EXCEPT !.seen = AppendBounded(@, line), !.absorbed = Append(@, line)]

SaveFails ==
  /\ faults < MaxFaults
  /\ faults' = faults + 1
  /\ pc' = "idle"
  /\ UNCHANGED disk

\* save_state of state', then on to next; or it raises and the poll ends.
SaveState(next) ==
  \/ disk' = state' /\ pc' = next /\ UNCHANGED faults
  \/ SaveFails

-----------------------------------------------------------------------------
(* Cowrie and the file system (external).  They are calm when LOG_PATH is  *)
(* not renamed between the stat and the opening of it, and when a file     *)
(* that was truncated is not written, and none is truncated that has       *)
(* unread lines, before the monitor has polled it.                         *)

\* The monitor has saved that it has come to the last file.
Reached == disk.source.file = Current

\* The monitor is not between regular_stat and the open of consume.
NotOpening == pc \in {"down", "idle", "follow"}

WriteLine ==
  /\ present
  /\ written < MaxLines
  /\ Calm /\ Reached => disk.source.offset <= Len(files[Current])
  /\ written' = written + 1
  /\ files' = [files EXCEPT ![Current] = Append(@, written + 1)]
  /\ UNCHANGED <<present, lost, truncations, state, disk, pc, identity, handle,
                 crashes, faults>>

\* A file renamed before the monitor has come to it is never looked for.
Rename ==
  /\ present
  /\ Calm => NotOpening
  /\ Len(files) < MaxFiles
  /\ present' = FALSE
  /\ lost' = IF Reached THEN lost ELSE lost \cup Elements(files[Current])
  /\ UNCHANGED <<files, written, truncations, state, disk, pc, identity, handle,
                 crashes, faults>>

Create ==
  /\ ~present
  /\ files' = Append(files, <<>>)
  /\ present' = TRUE
  /\ UNCHANGED <<written, lost, truncations, state, disk, pc, identity, handle,
                 crashes, faults>>

Truncate ==
  /\ present
  /\ truncations < MaxTruncations
  /\ Calm => NotOpening /\ disk.source = [file |-> Current, offset |-> Len(files[Current])]
  /\ truncations' = truncations + 1
  /\ lost' = lost \cup (Elements(files[Current]) \ Elements(state.absorbed))
  /\ files' = [files EXCEPT ![Current] = <<>>]
  /\ UNCHANGED <<present, written, state, disk, pc, identity, handle, crashes, faults>>

\* A rotated file that the monitor does not have open is deleted: locate_inode
\* finds it no more, which is the same as finding it with nothing to read.
Remove(f) ==
  /\ f < Current
  /\ pc \in {"drain", "follow"} => handle.file # f
  /\ truncations < MaxTruncations
  /\ truncations' = truncations + 1
  /\ lost' = lost \cup (Elements(files[f]) \ Elements(disk.absorbed))
  /\ files' = [files EXCEPT ![f] = <<>>]
  /\ UNCHANGED <<present, written, state, disk, pc, identity, handle, crashes, faults>>

-----------------------------------------------------------------------------
(* The monitor.                                                            *)

Start ==
  /\ pc = "down"
  /\ pc' = "idle"
  /\ state' = disk
  /\ UNCHANGED <<fsVars, disk, identity, handle, crashes, faults>>

\* poll_once up to the choice of what to read.  Without LOG_PATH the poll reads
\* nothing.

StatFirst ==
  /\ pc = "idle" /\ present
  /\ state.source = NoSource
  /\ state' = [state EXCEPT !.source = [file |-> Current, offset |-> 0]]
  /\ SaveState("open")
  /\ identity' = Current
  /\ UNCHANGED <<fsVars, handle, crashes>>

StatSame ==
  /\ pc = "idle" /\ present
  /\ state.source.file = Current
  /\ state.source.offset <= Len(files[Current])
  /\ identity' = Current
  /\ pc' = "open"
  /\ UNCHANGED <<fsVars, state, disk, handle, crashes, faults>>

StatTruncated ==
  /\ pc = "idle" /\ present
  /\ state.source.file = Current
  /\ state.source.offset > Len(files[Current])
  /\ identity' = Current
  /\ state' = [state EXCEPT !.source.offset = 0]
  /\ SaveState("open")
  /\ UNCHANGED <<fsVars, handle, crashes>>

\* Mutant of StatRotated: the old file is not drained.
StatRotatedForgets ==
  /\ pc = "idle" /\ present
  /\ state.source # NoSource
  /\ state.source.file # Current
  /\ identity' = Current
  /\ state' = [state EXCEPT !.source = [file |-> Current, offset |-> 0]]
  /\ SaveState("open")
  /\ UNCHANGED <<fsVars, handle, crashes>>

\* The inode is another one: locate_inode finds the old file and consume opens it;
\* of a removed one there is nothing to drain, whatever the offset.
StatRotated ==
  /\ pc = "idle" /\ present
  /\ state.source # NoSource
  /\ state.source.file # Current
  /\ identity' = Current
  /\ handle' = state.source
  /\ pc' = "drain"
  /\ UNCHANGED <<fsVars, state, disk, crashes, faults>>

\* Mutant of OpenLog: consume reads from the start.
OpenLogFromStart ==
  /\ pc = "open"
  /\ present
  /\ handle' = [file |-> Current, offset |-> 0]
  /\ pc' = "follow"
  /\ UNCHANGED <<fsVars, state, disk, identity, crashes, faults>>

\* consume(LOG_PATH) opens whatever the path names by now, or fails.
OpenLog ==
  /\ pc = "open"
  /\ \/ /\ present
        /\ handle' = [file |-> Current, offset |-> state.source.offset]
        /\ pc' = "follow"
     \/ /\ ~present
        /\ pc' = "idle"
        /\ UNCHANGED handle
  /\ UNCHANGED <<fsVars, state, disk, identity, crashes, faults>>

\* Mutant of ReadLine: the offset is saved, the line is absorbed after that.
ReadLineLate ==
  /\ pc \in {"drain", "follow"}
  /\ handle.offset < Len(files[handle.file])
  /\ handle' = [handle EXCEPT !.offset = @ + 1]
  /\ LET moved == [state EXCEPT !.source.offset = handle.offset + 1]
     IN /\ state' = QueueLine(moved, files[handle.file][handle.offset + 1])
        /\ disk' = moved
  /\ UNCHANGED <<fsVars, pc, identity, crashes, faults>>

\* consume, one line: queue_line, the offset, and both in one save_state.
ReadLine ==
  /\ pc \in {"drain", "follow"}
  /\ handle.offset < Len(files[handle.file])
  /\ handle' = [handle EXCEPT !.offset = @ + 1]
  /\ state' = [QueueLine(state, files[handle.file][handle.offset + 1]) EXCEPT
                 !.source.offset = handle.offset + 1]
  /\ SaveState(pc)
  /\ UNCHANGED <<fsVars, identity, crashes>>

\* The old file is drained: the source is now the file that was found, from 0.
DrainEnds ==
  /\ pc = "drain"
  /\ handle.offset >= Len(files[handle.file])
  /\ state' = [state EXCEPT !.source = [file |-> identity, offset |-> 0]]
  /\ SaveState("open")
  /\ UNCHANGED <<fsVars, identity, handle, crashes>>

FollowEnds ==
  /\ pc = "follow"
  /\ handle.offset >= Len(files[handle.file])
  /\ pc' = "idle"
  /\ UNCHANGED <<fsVars, state, disk, identity, handle, crashes, faults>>

Crash ==
  /\ pc # "down"
  /\ crashes < MaxCrashes
  /\ crashes' = crashes + 1
  /\ pc' = "down"
  /\ state' = disk
  /\ UNCHANGED <<fsVars, disk, identity, handle, faults>>

-----------------------------------------------------------------------------

Init ==
  /\ files = <<>> /\ present = FALSE /\ written = 0 /\ lost = {} /\ truncations = 0
  /\ state = DefaultState
  /\ disk = DefaultState
  /\ pc = "down"
  /\ identity = 0
  /\ handle = NoSource
  /\ crashes = 0
  /\ faults = 0

Monitor == \/ Start \/ StatFirst \/ StatSame \/ StatTruncated \/ StatRotated
           \/ OpenLog \/ ReadLine \/ DrainEnds \/ FollowEnds

Removal == \E f \in DOMAIN files : Remove(f)

Next == Monitor \/ WriteLine \/ Rename \/ Create \/ Truncate \/ Removal \/ Crash

Spec == Init /\ [][Next]_vars

\* systemd restarts the monitor, poll_once runs for ever, and Cowrie creates the
\* next file after it renamed one.
FairSpec == Spec /\ WF_vars(Monitor) /\ WF_vars(Create)

-----------------------------------------------------------------------------

Source == [file : 0..MaxFiles, offset : 0..MaxLines]

IsState(st) ==
  /\ st \in [source : Source, seen : Seq(1..MaxLines), absorbed : Seq(1..MaxLines)]
  /\ Len(st.seen) <= MaxSeen

\* The variables hold what the code keeps in them; the memory of digests stays
\* within MAX_SEEN.
TypeOK ==
  /\ files \in Seq(Seq(1..MaxLines)) /\ Len(files) <= MaxFiles
  /\ present \in BOOLEAN /\ written \in 0..MaxLines /\ lost \subseteq 1..MaxLines
  /\ truncations \in Nat
  /\ IsState(state) /\ IsState(disk)
  /\ pc \in {"down", "idle", "open", "drain", "follow"}
  /\ identity \in 0..MaxFiles
  /\ handle \in Source
  /\ crashes \in Nat /\ faults \in Nat

\* No line before the saved position was skipped, whatever crashed or rotated,
\* also several times while the monitor was down: a file it had come to is
\* absorbed to its end, the last one to the offset; only whole files it had not
\* come to are passed over.
NothingSkipped ==
  disk.source # NoSource =>
    \A f \in 1..disk.source.file : \A n \in 1..Len(files[f]) :
      f < disk.source.file \/ n <= disk.source.offset
        => files[f][n] \in Elements(disk.absorbed) \cup lost

\* Lines are absorbed in the order in which Cowrie wrote them, across files, and
\* none a second time, whether or not its digest is still in seen.
AbsorbedInOrder ==
  \A a, b \in DOMAIN disk.absorbed : a < b => disk.absorbed[a] < disk.absorbed[b]

\* CONTROL-ARCHITECTURE.md: "On rotation it drains the old inode if still
\* present": when the saved source goes to another file, no line of the file it
\* named before is left unread.
OldInodeDrained ==
  [][disk.source # NoSource /\ disk'.source.file # disk.source.file
       => Elements(files[disk.source.file]) \subseteq Elements(disk'.absorbed)]_vars

\* Every line comes to be absorbed for good, unless a truncation or a removal took
\* it or its file was renamed before the monitor had come to it.
LinesAbsorbed ==
  \A n \in 1..MaxLines :
    (n <= written) ~> [](n \in Elements(state.absorbed) \cup lost)

=============================================================================
