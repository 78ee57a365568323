-------------------------- MODULE LogTailerProofs --------------------------
(***************************************************************************)
(* Proofs about LogTailer: its type invariant, and, for a calm log, that   *)
(* no line is skipped and that lines are absorbed in the order in which    *)
(* they were written.                                                      *)
(***************************************************************************)
EXTENDS LogTailer, SequenceTheorems, TLAPS

\* A saved or remembered position is in a file that exists.
Placed(st) ==
  /\ st.source.file <= Len(files)
  /\ st.source.file = 0 => st.source.offset = 0

TypeInv ==
  /\ TypeOK
  /\ \A f \in DOMAIN files : Len(files[f]) <= written
  /\ present => files # <<>>
  /\ ~present => Len(files) < MaxFiles
  /\ Placed(state) /\ Placed(disk)
  /\ identity <= Len(files) /\ handle.file <= Len(files)
  /\ pc \in {"open", "drain"} => identity >= 1
  /\ pc \in {"open", "drain", "follow"} => state.source.file >= 1
  /\ pc \in {"drain", "follow"} => handle.file >= 1

\* Line n of file f lies beyond the position of st.
Beyond(st, f, n) ==
  \/ f > st.source.file
  \/ f = st.source.file /\ n > st.source.offset

\* Lines are numbered in the order of the files and within each.
FilesOrdered ==
  \A f, g \in DOMAIN files : \A n \in DOMAIN files[f] : \A m \in DOMAIN files[g] :
    f < g \/ (f = g /\ n < m) => files[f][n] < files[g][m]

LinesWritten ==
  \A f \in DOMAIN files : \A n \in DOMAIN files[f] : files[f][n] <= written

\* The parts of soundness take the log as parameters (its files, whether LOG_PATH
\* exists, the last line written, the lines lost): a step changes a state or the
\* log, never both.

\* What st has passed it has absorbed, or it was lost.
PassedIsAbsorbed(st, log, gone) ==
  \A f \in DOMAIN log : \A n \in DOMAIN log[f] :
    ~Beyond(st, f, n) => log[f][n] \in Elements(st.absorbed) \cup gone

\* Files between the position and the last were renamed before it came to them.
BetweenIsLost(st, log, there, gone) ==
  \A f \in DOMAIN log :
    st.source.file < f /\ (f < Len(log) \/ ~there) => Elements(log[f]) \subseteq gone

\* What st has absorbed was written before every line beyond its position.
AbsorbedBehind(st, log, last) ==
  \A a \in DOMAIN st.absorbed :
    /\ st.absorbed[a] <= last
    /\ \A f \in DOMAIN log : \A n \in DOMAIN log[f] :
         Beyond(st, f, n) => st.absorbed[a] < log[f][n]

Ordered(st) ==
  \A a, b \in DOMAIN st.absorbed : a < b => st.absorbed[a] < st.absorbed[b]

SoundIn(st, log, there, last, gone) ==
  /\ Elements(st.seen) \subseteq Elements(st.absorbed)
  /\ PassedIsAbsorbed(st, log, gone)
  /\ BetweenIsLost(st, log, there, gone)
  /\ AbsorbedBehind(st, log, last)
  /\ Ordered(st)

Sound(st) == SoundIn(st, files, present, written, lost)

\* An offset beyond the end of the last file is one the disk has as well, and
\* the file was truncated to nothing.
PastTheEnd ==
  /\ state.source.file = Len(files) /\ Len(files) > 0
       /\ state.source.offset > Len(files[Len(files)])
     => disk.source.file = Len(files) /\ disk.source.offset >= state.source.offset
  /\ disk.source.file = Len(files) /\ Len(files) > 0
       /\ disk.source.offset > Len(files[Len(files)])
     => files[Len(files)] = <<>>

\* What the poll has read of the log's identity is still so.
Poll ==
  /\ pc \in {"open", "drain"} => present /\ identity = Len(files)
  /\ pc = "open" => state.source.file = identity
  /\ pc = "drain" => state.source.file < identity
  /\ pc \in {"drain", "follow"} => handle = state.source

IInv ==
  /\ TypeInv
  /\ FilesOrdered /\ LinesWritten
  /\ disk.source.file <= state.source.file
  /\ Sound(state) /\ Sound(disk)
  /\ PastTheEnd
  /\ Poll

-----------------------------------------------------------------------------
(* Sequences.                                                              *)

LineNo == 1..MaxLines
State  == [source : Source, seen : Seq(LineNo), absorbed : Seq(LineNo)]

LEMMA AppendElements ==
  ASSUME NEW q \in Seq(LineNo), NEW v \in LineNo
  PROVE  Elements(Append(q, v)) = Elements(q) \cup {v}
<1> DEFINE all == Append(q, v)
<1>1. /\ DOMAIN all = 1..(Len(q) + 1) /\ DOMAIN q = 1..Len(q) /\ Len(q) \in Nat
      /\ \A n \in 1..Len(q) : all[n] = q[n]
      /\ all[Len(q) + 1] = v
  BY AppendProperties
<1> HIDE DEF all
<1>2. Elements(all) \subseteq Elements(q) \cup {v}
  BY <1>1 DEF Elements
<1>3. Elements(q) \subseteq Elements(all) /\ v \in Elements(all)
  BY <1>1 DEF Elements
<1> QED BY <1>2, <1>3 DEF all

\* append_bounded adds the value, may drop the oldest, and keeps the limit.
LEMMA BoundedAppendFacts ==
  ASSUME NEW q \in Seq(LineNo), Len(q) <= MaxSeen, NEW v \in LineNo
  PROVE  /\ AppendBounded(q, v) \in Seq(LineNo)
         /\ Len(AppendBounded(q, v)) <= MaxSeen
         /\ Elements(AppendBounded(q, v)) \subseteq Elements(q) \cup {v}
<1> DEFINE all == Append(q, v)
<1>1. /\ all \in Seq(LineNo) /\ Len(all) = Len(q) + 1 /\ all # <<>>
      /\ \A n \in 1..Len(q) : all[n] = q[n]
      /\ all[Len(q) + 1] = v
  BY AppendProperties
<1>2. Len(q) \in Nat /\ MaxSeen \in Nat \ {0}
  BY TailerAssumption
<1>3. \A n \in 1..Len(all) : all[n] \in Elements(q) \cup {v}
  BY <1>1, <1>2 DEF Elements
<1> HIDE DEF all
<1>4. /\ Tail(all) \in Seq(LineNo)
      /\ Len(Tail(all)) = Len(all) - 1
      /\ \A n \in 1..Len(Tail(all)) : Tail(all)[n] = all[n + 1]
  BY <1>1, HeadTailProperties
<1>5. \A n \in 1..Len(Tail(all)) : Tail(all)[n] \in Elements(q) \cup {v}
  BY <1>1, <1>2, <1>3, <1>4
<1>6. AppendBounded(q, v) = IF Len(all) > MaxSeen THEN Tail(all) ELSE all
  BY DEF AppendBounded, all
<1>7. CASE Len(all) > MaxSeen
  BY <1>1, <1>2, <1>4, <1>5, <1>6, <1>7 DEF Elements
<1>8. CASE ~(Len(all) > MaxSeen)
  BY <1>1, <1>2, <1>3, <1>6, <1>8 DEF Elements
<1> QED BY <1>7, <1>8

\* queue_line absorbs a line it does not remember, and leaves the source.
LEMMA QueueLineFacts ==
  ASSUME NEW st \in State, Len(st.seen) <= MaxSeen, NEW line \in LineNo
  PROVE  /\ QueueLine(st, line) \in State
         /\ Len(QueueLine(st, line).seen) <= MaxSeen
         /\ QueueLine(st, line).source = st.source
         /\ line \in Elements(st.seen) => QueueLine(st, line) = st
         /\ line \notin Elements(st.seen) =>
              /\ QueueLine(st, line).absorbed = Append(st.absorbed, line)
              /\ Elements(QueueLine(st, line).seen) \subseteq Elements(st.seen) \cup {line}
<1>1. CASE line \in Elements(st.seen)
  BY <1>1 DEF QueueLine
<1>2. CASE line \notin Elements(st.seen)
  <2>1. st.seen \in Seq(LineNo) /\ st.absorbed \in Seq(LineNo) /\ st.source \in Source
    BY DEF State
  <2>2. Append(st.absorbed, line) \in Seq(LineNo)
    BY <2>1, AppendProperties
  <2>3. /\ AppendBounded(st.seen, line) \in Seq(LineNo)
        /\ Len(AppendBounded(st.seen, line)) <= MaxSeen
        /\ Elements(AppendBounded(st.seen, line)) \subseteq Elements(st.seen) \cup {line}
    BY <2>1, BoundedAppendFacts
  <2>4. QueueLine(st, line) = [st EXCEPT !.seen = AppendBounded(st.seen, line),
                                         !.absorbed = Append(st.absorbed, line)]
    BY <1>2 DEF QueueLine
  <2>5. /\ QueueLine(st, line).seen = AppendBounded(st.seen, line)
        /\ QueueLine(st, line).absorbed = Append(st.absorbed, line)
        /\ QueueLine(st, line).source = st.source
        /\ QueueLine(st, line) \in State
    BY <2>1, <2>2, <2>3, <2>4 DEF State
  <2> QED BY <1>2, <2>3, <2>5
<1> QED BY <1>1, <1>2

-----------------------------------------------------------------------------
(* The files.                                                              *)

\* A line is appended to the last file.
LEMMA WriteFacts ==
  ASSUME TypeInv, WriteLine
  PROVE  /\ files' \in Seq(Seq(LineNo)) /\ Len(files') = Len(files) /\ Current \in 1..Len(files)
         /\ \A f \in 1..Len(files) : f # Current => files'[f] = files[f]
         /\ Len(files'[Current]) = Len(files[Current]) + 1
         /\ \A n \in 1..Len(files[Current]) : files'[Current][n] = files[Current][n]
         /\ files'[Current][Len(files[Current]) + 1] = written + 1
<1>1. files \in Seq(Seq(LineNo)) /\ Len(files) \in Nat /\ files # <<>>
  BY DEF TypeInv, TypeOK, WriteLine, LineNo
<1>2. Current \in 1..Len(files)
  BY <1>1, EmptySeq DEF Current
<1>3. files[Current] \in Seq(LineNo)
  BY <1>1, <1>2, ElementOfSeq
<1>4. written + 1 \in LineNo
  BY TailerAssumption DEF TypeInv, TypeOK, WriteLine, LineNo
<1> DEFINE new == Append(files[Current], written + 1)
<1>5. /\ new \in Seq(LineNo) /\ Len(new) = Len(files[Current]) + 1
      /\ \A n \in 1..Len(files[Current]) : new[n] = files[Current][n]
      /\ new[Len(files[Current]) + 1] = written + 1
  BY <1>3, <1>4, AppendProperties
<1>6. files' = [files EXCEPT ![Current] = new]
  BY DEF WriteLine
<1> HIDE DEF new
<1>7. /\ files' \in Seq(Seq(LineNo)) /\ Len(files') = Len(files)
      /\ \A f \in 1..Len(files) : files'[f] = IF f = Current THEN new ELSE files[f]
  BY <1>1, <1>2, <1>5, <1>6, ExceptSeq
<1> QED BY <1>2, <1>5, <1>7

\* The last file is emptied.
LEMMA TruncateFacts ==
  ASSUME TypeInv, Truncate
  PROVE  /\ files' \in Seq(Seq(LineNo)) /\ Len(files') = Len(files) /\ Current \in 1..Len(files)
         /\ \A f \in 1..Len(files) : f # Current => files'[f] = files[f]
         /\ files'[Current] = <<>> /\ Len(files'[Current]) = 0
<1>1. files \in Seq(Seq(LineNo)) /\ Len(files) \in Nat /\ files # <<>>
  BY DEF TypeInv, TypeOK, Truncate, LineNo
<1>2. Current \in 1..Len(files)
  BY <1>1, EmptySeq DEF Current
<1>3. <<>> \in Seq(LineNo) /\ Len(<<>>) = 0
  BY EmptySeq
<1>4. files' = [files EXCEPT ![Current] = <<>>]
  BY DEF Truncate
<1>5. /\ files' \in Seq(Seq(LineNo)) /\ Len(files') = Len(files)
      /\ \A f \in 1..Len(files) : files'[f] = IF f = Current THEN <<>> ELSE files[f]
  BY <1>1, <1>2, <1>3, <1>4, ExceptSeq
<1> QED BY <1>2, <1>3, <1>5

\* A file before the last one is emptied.
LEMMA RemoveFacts ==
  ASSUME TypeInv, NEW f \in DOMAIN files, Remove(f)
  PROVE  /\ files' \in Seq(Seq(LineNo)) /\ Len(files') = Len(files)
         /\ f \in 1..Len(files) /\ f < Len(files)
         /\ \A g \in 1..Len(files) : g # f => files'[g] = files[g]
         /\ files'[f] = <<>> /\ Len(files'[f]) = 0
<1>1. files \in Seq(Seq(LineNo)) /\ Len(files) \in Nat /\ DOMAIN files = 1..Len(files)
  BY EmptySeq DEF TypeInv, TypeOK, LineNo
<1>2. f \in 1..Len(files) /\ f < Len(files)
  BY <1>1 DEF Remove, Current
<1>3. <<>> \in Seq(LineNo) /\ Len(<<>>) = 0
  BY EmptySeq
<1>4. files' = [files EXCEPT ![f] = <<>>]
  BY DEF Remove
<1>5. /\ files' \in Seq(Seq(LineNo)) /\ Len(files') = Len(files)
      /\ \A g \in 1..Len(files) : files'[g] = IF g = f THEN <<>> ELSE files[g]
  BY <1>1, <1>2, <1>3, <1>4, ExceptSeq
<1> QED BY <1>2, <1>3, <1>5

\* An empty file is added.
LEMMA CreateFacts ==
  ASSUME TypeInv, Create
  PROVE  /\ files' \in Seq(Seq(LineNo)) /\ Len(files') = Len(files) + 1 /\ Len(files) \in Nat
         /\ \A f \in 1..Len(files) : files'[f] = files[f]
         /\ files'[Len(files) + 1] = <<>> /\ Len(files'[Len(files) + 1]) = 0
<1>1. files \in Seq(Seq(LineNo)) /\ Len(files) \in Nat
  BY DEF TypeInv, TypeOK, LineNo
<1>2. <<>> \in Seq(LineNo) /\ Len(<<>>) = 0
  BY EmptySeq
<1>3. files' = Append(files, <<>>)
  BY DEF Create
<1> QED BY <1>1, <1>2, <1>3, AppendProperties

-----------------------------------------------------------------------------
(* Type correctness, at any pace of the file system.                       *)

LEMMA InitType == Init => TypeInv
<1> SUFFICES ASSUME Init PROVE TypeInv
  OBVIOUS
<1>1. /\ files \in Seq(Seq(1..MaxLines)) /\ Len(files) = 0 /\ DOMAIN files = {}
      /\ <<>> \in Seq(1..MaxLines) /\ Len(<<>>) = 0
  BY EmptySeq DEF Init
<1>2. NoSource \in Source
  BY TailerAssumption DEF NoSource, Source
<1>3. IsState(DefaultState) /\ DefaultState.source = NoSource
  BY <1>1, <1>2, TailerAssumption DEF IsState, DefaultState
<1>4. /\ present = FALSE /\ written = 0 /\ lost = {} /\ truncations = 0
      /\ state = DefaultState /\ disk = DefaultState /\ pc = "down"
      /\ identity = 0 /\ handle = NoSource /\ crashes = 0 /\ faults = 0
  BY DEF Init
<1>5. IsState(state) /\ IsState(disk) /\ handle \in Source
  BY <1>2, <1>3, <1>4
<1>6. present \in BOOLEAN /\ lost \subseteq 1..MaxLines
  BY <1>4
<1>7. /\ written \in 0..MaxLines /\ truncations \in Nat /\ identity \in 0..MaxFiles
      /\ crashes \in Nat /\ faults \in Nat /\ Len(files) <= MaxFiles
      /\ pc \in {"down", "idle", "open", "drain", "follow"}
  BY <1>1, <1>4, TailerAssumption
<1>8. TypeOK
  BY <1>1, <1>5, <1>6, <1>7 DEF TypeOK
<1>9. Placed(state) /\ Placed(disk) /\ handle.file = 0
  BY <1>1, <1>3, <1>4 DEF Placed, NoSource
<1>10. ~present /\ Len(files) < MaxFiles
  BY <1>1, <1>4, TailerAssumption
<1> QED BY <1>1, <1>4, <1>8, <1>9, <1>10 DEF TypeInv

\* What Cowrie and the file system do leaves the monitor's variables alone.
LEMMA EnvironmentType ==
  ASSUME TypeInv, WriteLine \/ Rename \/ Create \/ Truncate \/ Removal
  PROVE  TypeInv'
<1> USE TailerAssumption
<1>1. /\ files \in Seq(Seq(LineNo)) /\ Len(files) \in Nat
      /\ \A f \in 1..Len(files) : files[f] \in Seq(LineNo) /\ Len(files[f]) \in Nat
      /\ written \in Nat
      /\ \A f \in 1..Len(files) : Len(files[f]) <= written
  BY ElementOfSeq DEF TypeInv, TypeOK, LineNo
<1>2. /\ UNCHANGED <<state, disk, pc, identity, handle, crashes, faults>>
      /\ state.source.file \in Nat /\ disk.source.file \in Nat
      /\ identity \in Nat /\ handle.file \in Nat
  <2>1. UNCHANGED <<state, disk, pc, identity, handle, crashes, faults>>
    BY DEF WriteLine, Rename, Create, Truncate, Removal, Remove
  <2>2. state.source \in Source /\ disk.source \in Source /\ handle \in Source /\ identity \in Nat
    BY DEF TypeInv, TypeOK, IsState
  <2> QED BY <2>1, <2>2 DEF Source
<1>3. ASSUME WriteLine PROVE TypeInv'
  <2>1. \A f \in 1..Len(files) : Len(files'[f]) <= written + 1
    <3> TAKE f \in 1..Len(files)
    <3>1. CASE f = Current
      BY <1>1, <1>3, <3>1, WriteFacts
    <3>2. CASE f # Current
      <4>1. files'[f] = files[f]
        BY <1>3, <3>2, WriteFacts
      <4>2. Len(files[f]) <= written /\ Len(files[f]) \in Nat
        BY <1>1
      <4> QED BY <1>1, <4>1, <4>2
    <3> QED BY <3>1, <3>2
  <2>2. /\ files' \in Seq(Seq(LineNo)) /\ Len(files') = Len(files) /\ DOMAIN files' = 1..Len(files)
        /\ files' # <<>>
    BY <1>1, <1>3, WriteFacts
  <2>3. written' = written + 1 /\ written' \in 0..MaxLines /\ UNCHANGED <<present, lost, truncations>>
    BY <1>3 DEF WriteLine, TypeInv, TypeOK
  <2>4. TypeOK'
    BY <1>2, <2>2, <2>3 DEF TypeInv, TypeOK, IsState, LineNo
  <2> QED BY <1>2, <2>1, <2>2, <2>3, <2>4 DEF TypeInv, Placed
<1>4. ASSUME Rename PROVE TypeInv'
  <2>1. UNCHANGED <<files, written, truncations>> /\ present' = FALSE
    BY <1>4 DEF Rename
  <2>2. Current \in 1..Len(files)
    BY <1>1, <1>4, EmptySeq DEF Current, Rename, TypeInv
  <2>3. Elements(files[Current]) \subseteq LineNo
    BY <1>1, <2>2, ElementOfSeq DEF Elements
  <2>4. lost' \subseteq LineNo
    BY <1>4, <2>3 DEF Rename, TypeInv, TypeOK, LineNo
  <2>5. Len(files) < MaxFiles
    BY <1>4 DEF Rename
  <2>6. present' \in BOOLEAN
    BY <2>1
  <2>7. TypeOK'
    BY <1>2, <2>1, <2>4, <2>6 DEF TypeInv, TypeOK, IsState, LineNo
  <2> QED BY <1>2, <2>1, <2>5, <2>7 DEF TypeInv, Placed
<1>5. ASSUME Create PROVE TypeInv'
  <2>1. UNCHANGED <<written, lost, truncations>> /\ present' = TRUE
    BY <1>5 DEF Create
  <2>2. /\ files' \in Seq(Seq(LineNo)) /\ Len(files') = Len(files) + 1
        /\ DOMAIN files' = 1..(Len(files) + 1) /\ files' # <<>>
    BY <1>1, <1>5, CreateFacts, EmptySeq
  <2>3. \A f \in DOMAIN files' : Len(files'[f]) <= written
    <3> TAKE f \in DOMAIN files'
    <3>1. CASE f \in 1..Len(files)
      BY <1>1, <1>5, <3>1, CreateFacts
    <3>2. CASE f = Len(files) + 1
      BY <1>1, <1>5, <3>2, CreateFacts
    <3> QED BY <1>1, <2>2, <3>1, <3>2
  <2>4. Len(files') <= MaxFiles
    BY <1>1, <1>5, <2>2 DEF Create, TypeInv
  <2>5. TypeOK'
    BY <1>2, <2>1, <2>2, <2>4 DEF TypeInv, TypeOK, IsState, LineNo
  <2> QED BY <1>1, <1>2, <2>1, <2>2, <2>3, <2>5 DEF TypeInv, Placed
<1>6. ASSUME Truncate PROVE TypeInv'
  <2>1. UNCHANGED <<written, present>> /\ truncations' = truncations + 1
    BY <1>6 DEF Truncate
  <2>2. /\ files' \in Seq(Seq(LineNo)) /\ Len(files') = Len(files) /\ DOMAIN files' = 1..Len(files)
        /\ files' # <<>>
    BY <1>1, <1>6, TruncateFacts
  <2>3. \A f \in DOMAIN files' : Len(files'[f]) <= written
    <3> TAKE f \in DOMAIN files'
    <3>1. CASE f = Current
      BY <1>1, <1>6, <3>1, TruncateFacts
    <3>2. CASE f # Current
      BY <1>1, <1>6, <2>2, <3>2, TruncateFacts
    <3> QED BY <3>1, <3>2
  <2>4. Elements(files[Current]) \subseteq LineNo
    BY <1>1, <1>6, TruncateFacts, ElementOfSeq DEF Elements
  <2>5. lost' \subseteq LineNo
    BY <1>6, <2>4 DEF Truncate, TypeInv, TypeOK, LineNo
  <2>6. TypeOK'
    BY <1>2, <2>1, <2>2, <2>5 DEF TypeInv, TypeOK, IsState, LineNo
  <2> QED BY <1>2, <2>1, <2>2, <2>3, <2>6 DEF TypeInv, Placed
<1>7. ASSUME Removal PROVE TypeInv'
  <2>1. PICK g \in DOMAIN files : Remove(g)
    BY <1>7 DEF Removal
  <2>2. /\ files' \in Seq(Seq(LineNo)) /\ Len(files') = Len(files) /\ g \in 1..Len(files)
        /\ \A f \in 1..Len(files) : f # g => files'[f] = files[f]
        /\ Len(files'[g]) = 0
    BY <2>1, RemoveFacts
  <2>3. DOMAIN files' = 1..Len(files) /\ files' # <<>>
    BY <1>1, <2>2, EmptySeq
  <2>4. \A f \in DOMAIN files' : Len(files'[f]) <= written
    <3> TAKE f \in DOMAIN files'
    <3>1. CASE f = g
      BY <1>1, <2>2, <3>1
    <3>2. CASE f # g
      BY <1>1, <2>2, <2>3, <3>2
    <3> QED BY <3>1, <3>2
  <2>5. UNCHANGED <<present, written>>
    BY <2>1 DEF Remove
  <2>6. Elements(files[g]) \subseteq LineNo
    BY <1>1, <2>2, ElementOfSeq DEF Elements
  <2>7. lost' \subseteq LineNo /\ truncations' \in Nat
    BY <2>1, <2>6 DEF Remove, TypeInv, TypeOK, LineNo
  <2>8. TypeOK'
    BY <1>2, <2>2, <2>5, <2>7 DEF TypeInv, TypeOK, IsState, LineNo
  <2> QED BY <1>2, <2>2, <2>3, <2>4, <2>5, <2>8 DEF TypeInv, Placed
<1> QED BY <1>3, <1>4, <1>5, <1>6, <1>7

\* A state whose source is set remains a state.
LEMMA SourceSet ==
  ASSUME NEW st, IsState(st), NEW s \in Source
  PROVE  LET new == [st EXCEPT !.source = s]
         IN /\ IsState(new) /\ new.source = s
            /\ new.seen = st.seen /\ new.absorbed = st.absorbed
BY DEF IsState

\* The last file exists when LOG_PATH does.
LEMMA LastFile ==
  ASSUME TypeInv, present
  PROVE  /\ Current \in 1..Len(files) /\ Current = Len(files) /\ Current \in 0..MaxFiles
         /\ Len(files) \in Nat
         /\ [file |-> Current, offset |-> 0] \in Source
<1>1. files \in Seq(Seq(LineNo)) /\ Len(files) \in Nat /\ files # <<>> /\ Len(files) <= MaxFiles
  BY DEF TypeInv, TypeOK, LineNo
<1>2. Current \in 1..Len(files)
  BY <1>1, EmptySeq DEF Current
<1> QED BY <1>1, <1>2, TailerAssumption DEF Current, Source

\* What the variables of the monitor must be after one of its steps.
LEMMA MonitorType ==
  ASSUME TypeInv, UNCHANGED fsVars,
         IsState(state'), disk' \in {state', disk},
         Placed(state)',
         pc' \in {"down", "idle", "open", "drain", "follow"},
         identity' \in 0..Len(files),
         handle' \in Source, handle'.file <= Len(files),
         crashes' \in Nat, faults' \in Nat,
         pc' \in {"open", "drain"} => identity' >= 1,
         pc' \in {"open", "drain", "follow"} => state'.source.file >= 1,
         pc' \in {"drain", "follow"} => handle'.file >= 1
  PROVE  TypeInv'
<1>1. files' = files /\ present' = present /\ written' = written /\ lost' = lost
      /\ truncations' = truncations
  BY DEF fsVars, vars
<1>2. IsState(disk') /\ Placed(disk)'
  BY <1>1 DEF TypeInv, TypeOK, Placed
<1>3. identity' \in 0..MaxFiles /\ identity' <= Len(files)
  BY TailerAssumption DEF TypeInv, TypeOK
<1>4. TypeOK'
  <2>1. /\ files \in Seq(Seq(1..MaxLines)) /\ Len(files) <= MaxFiles
        /\ present \in BOOLEAN /\ written \in 0..MaxLines /\ lost \subseteq 1..MaxLines
        /\ truncations \in Nat
    BY DEF TypeInv, TypeOK
  <2> QED BY <1>1, <1>2, <1>3, <2>1 DEF TypeOK
<1>5. /\ \A f \in DOMAIN files : Len(files[f]) <= written
      /\ present => files # <<>>
      /\ ~present => Len(files) < MaxFiles
  BY DEF TypeInv
<1> QED BY <1>1, <1>2, <1>3, <1>4, <1>5 DEF TypeInv

\* The line the monitor is about to read.
LEMMA NextLine ==
  ASSUME TypeInv, pc \in {"drain", "follow"}, handle.offset < Len(files[handle.file])
  PROVE  /\ handle.file \in 1..Len(files) /\ handle.offset \in Nat
         /\ handle.offset + 1 \in 1..Len(files[handle.file])
         /\ handle.offset + 1 <= MaxLines
         /\ files[handle.file] \in Seq(LineNo)
         /\ files[handle.file][handle.offset + 1] \in LineNo
<1>1. /\ files \in Seq(Seq(LineNo)) /\ Len(files) \in Nat
      /\ handle.file \in Nat /\ handle.offset \in Nat
      /\ handle.file <= Len(files) /\ handle.file >= 1
      /\ written \in Nat /\ written <= MaxLines
  BY DEF TypeInv, TypeOK, Source, LineNo
<1>2. handle.file \in 1..Len(files)
  BY <1>1
<1>3. files[handle.file] \in Seq(LineNo) /\ Len(files[handle.file]) \in Nat
  BY <1>1, <1>2, ElementOfSeq
<1>4. Len(files[handle.file]) <= written
  BY <1>1, <1>2 DEF TypeInv
<1>5. handle.offset + 1 \in 1..Len(files[handle.file])
  BY <1>1, <1>3
<1>6. files[handle.file][handle.offset + 1] \in LineNo
  BY <1>3, <1>5, ElementOfSeq
<1> QED BY <1>1, <1>2, <1>3, <1>4, <1>5, <1>6, TailerAssumption

\* What ReadLine leaves in memory.
LEMMA ReadLineState ==
  ASSUME TypeInv, ReadLine
  PROVE  LET line == files[handle.file][handle.offset + 1]
         IN /\ IsState(state')
            /\ state'.source = [file |-> state.source.file, offset |-> handle.offset + 1]
            /\ line \in Elements(state.seen) =>
                 state'.seen = state.seen /\ state'.absorbed = state.absorbed
            /\ line \notin Elements(state.seen) =>
                 /\ state'.absorbed = Append(state.absorbed, line)
                 /\ Elements(state'.seen) \subseteq Elements(state.seen) \cup {line}
<1> DEFINE line == files[handle.file][handle.offset + 1]
           queued == QueueLine(state, line)
<1>1. line \in LineNo /\ handle.offset + 1 <= MaxLines /\ handle.offset \in Nat
  BY NextLine DEF ReadLine
<1>2. state \in State /\ Len(state.seen) <= MaxSeen /\ state.source \in Source
  BY DEF TypeInv, TypeOK, IsState, State, LineNo
<1>3. /\ queued \in State /\ Len(queued.seen) <= MaxSeen /\ queued.source = state.source
      /\ line \in Elements(state.seen) => queued = state
      /\ line \notin Elements(state.seen) =>
           /\ queued.absorbed = Append(state.absorbed, line)
           /\ Elements(queued.seen) \subseteq Elements(state.seen) \cup {line}
  BY <1>1, <1>2, QueueLineFacts
<1>4. state' = [queued EXCEPT !.source.offset = handle.offset + 1]
  BY DEF ReadLine
<1> HIDE DEF queued, line
<1>5. state.source.file \in 0..MaxFiles /\ handle.offset + 1 \in 0..MaxLines
  BY <1>1, <1>2 DEF Source
<1> DEFINE s == [file |-> state.source.file, offset |-> handle.offset + 1]
<1>6. s \in Source
  BY <1>5 DEF Source
<1>7. [queued.source EXCEPT !.offset = handle.offset + 1] = s
  BY <1>2, <1>3 DEF Source
<1>8. state' = [queued EXCEPT !.source = s]
  BY <1>3, <1>4, <1>7 DEF State
<1>9. IsState(queued)
  BY <1>3 DEF IsState, State, LineNo
<1>10. /\ IsState(state') /\ state'.source = s
       /\ state'.seen = queued.seen /\ state'.absorbed = queued.absorbed
  BY <1>6, <1>8, <1>9, SourceSet
<1> QED BY <1>3, <1>10 DEF line

\* One step of poll_once or a crash.
LEMMA MonitorStepType ==
  ASSUME TypeInv, Monitor \/ Crash
  PROVE  TypeInv'
<1> USE TailerAssumption
<1>1. /\ IsState(state) /\ IsState(disk) /\ state.source \in Source /\ handle \in Source
      /\ pc \in {"down", "idle", "open", "drain", "follow"}
      /\ identity \in Nat /\ identity <= Len(files) /\ identity \in 0..MaxFiles
      /\ Len(files) \in Nat
      /\ handle.file <= Len(files)
      /\ crashes \in Nat /\ faults \in Nat
      /\ Placed(state) /\ Placed(disk)
  BY DEF TypeInv, TypeOK, IsState
<1>2. /\ state.source.file \in Nat /\ state.source.offset \in Nat
      /\ state.source.file \in 0..MaxFiles /\ state.source.offset \in 0..MaxLines
      /\ disk.source.file \in Nat /\ state.source.file <= Len(files)
      /\ state.source = [file |-> state.source.file, offset |-> state.source.offset]
  BY <1>1 DEF Source, Placed, IsState
<1>3. /\ pc \in {"open", "drain"} => identity >= 1
      /\ pc \in {"open", "drain", "follow"} => state.source.file >= 1
      /\ pc \in {"drain", "follow"} => handle.file >= 1
  BY DEF TypeInv
<1>4. CASE Start
  <2>1. /\ UNCHANGED <<fsVars, disk, identity, handle, crashes, faults>> /\ state' = disk
        /\ pc' = "idle" /\ files' = files
    BY <1>4 DEF Start, fsVars
  <2>2. Placed(state)'
    BY <1>1, <2>1 DEF Placed
  <2> QED BY <1>1, <1>2, <1>3, <2>1, <2>2, MonitorType
<1>5. CASE StatFirst
  <2> DEFINE s == [file |-> Current, offset |-> 0]
  <2>1. Current \in 1..Len(files) /\ s \in Source
    BY <1>5, LastFile DEF StatFirst
  <2>2. /\ UNCHANGED <<fsVars, handle, crashes>> /\ identity' = Current
        /\ state' = [state EXCEPT !.source = s] /\ files' = files
        /\ pc' \in {"open", "idle"} /\ faults' \in Nat /\ disk' \in {state', disk}
    BY <1>1, <1>5 DEF StatFirst, SaveState, SaveFails, fsVars
  <2> HIDE DEF s
  <2>3. IsState(state') /\ state'.source = s
    BY <1>1, <2>1, <2>2, SourceSet
  <2>4. state'.source.file = Current /\ state'.source.offset = 0 /\ Current \in Nat
    BY <1>1, <2>1, <2>3 DEF s
  <2>5. Placed(state)'
    BY <1>1, <2>1, <2>2, <2>4 DEF Placed
  <2>6. identity' \in 0..Len(files) /\ identity' >= 1 /\ state'.source.file >= 1
    BY <1>1, <2>1, <2>2, <2>4
  <2> QED BY <1>1, <2>2, <2>3, <2>5, <2>6, MonitorType
<1>6. CASE StatSame
  <2>1. Current \in 1..Len(files)
    BY <1>6, LastFile DEF StatSame
  <2>2. /\ UNCHANGED <<fsVars, state, disk, handle, crashes, faults>> /\ identity' = Current
        /\ pc' = "open" /\ files' = files /\ state.source.file = Current
    BY <1>6 DEF StatSame, fsVars
  <2>3. Placed(state)' /\ identity' \in 0..Len(files) /\ identity' >= 1 /\ state'.source.file >= 1
    BY <1>1, <1>2, <2>1, <2>2 DEF Placed
  <2> QED BY <1>1, <2>2, <2>3, MonitorType
<1>7. CASE StatTruncated
  <2> DEFINE s == [file |-> state.source.file, offset |-> 0]
  <2>1. Current \in 1..Len(files)
    BY <1>7, LastFile DEF StatTruncated
  <2>2. s \in Source /\ [state.source EXCEPT !.offset = 0] = s
    BY <1>2 DEF Source
  <2>3. /\ UNCHANGED <<fsVars, handle, crashes>> /\ identity' = Current
        /\ state' = [state EXCEPT !.source = s] /\ files' = files
        /\ pc' \in {"open", "idle"} /\ faults' \in Nat /\ disk' \in {state', disk}
        /\ state.source.file = Current
    <3>1. /\ UNCHANGED <<fsVars, handle, crashes>> /\ identity' = Current /\ files' = files
          /\ state' = [state EXCEPT !.source.offset = 0] /\ SaveState("open")
          /\ state.source.file = Current
      BY <1>7 DEF StatTruncated, fsVars
    <3>2. state' = [state EXCEPT !.source = s]
      BY <2>2, <3>1
    <3>3. pc' \in {"open", "idle"} /\ faults' \in Nat /\ disk' \in {state', disk}
      BY <1>1, <3>1 DEF SaveState, SaveFails
    <3> QED BY <3>1, <3>2, <3>3
  <2>4. IsState(state') /\ state'.source = s
    BY <1>1, <2>2, <2>3, SourceSet
  <2>5. Placed(state)' /\ identity' \in 0..Len(files) /\ identity' >= 1 /\ state'.source.file >= 1
    BY <1>1, <1>2, <2>1, <2>3, <2>4 DEF Placed
  <2> QED BY <1>1, <2>3, <2>4, <2>5, MonitorType
<1>8. CASE StatRotated
  <2>1. Current \in 1..Len(files)
    BY <1>8, LastFile DEF StatRotated
  <2>2. /\ UNCHANGED <<fsVars, state, disk, crashes, faults>> /\ identity' = Current
        /\ handle' = state.source /\ pc' = "drain" /\ files' = files
        /\ state.source # NoSource
    BY <1>8 DEF StatRotated, fsVars
  <2>3. state.source.file >= 1
    BY <1>1, <1>2, <2>2 DEF Placed, NoSource
  <2>4. Placed(state)' /\ identity' \in 0..Len(files) /\ identity' >= 1
        /\ handle'.file <= Len(files) /\ handle'.file >= 1 /\ state'.source.file >= 1
    BY <1>1, <1>2, <2>1, <2>2, <2>3 DEF Placed
  <2> QED BY <1>1, <2>2, <2>4, MonitorType
<1>9. CASE OpenLog
  <2>1. /\ UNCHANGED <<fsVars, state, disk, identity, crashes, faults>> /\ files' = files
        /\ pc = "open"
    BY <1>9 DEF OpenLog, fsVars
  <2>2. Placed(state)' /\ identity' \in 0..Len(files) /\ state'.source.file >= 1
    BY <1>1, <1>2, <1>3, <2>1 DEF Placed
  <2>3. CASE present
    <3> DEFINE h == [file |-> Current, offset |-> state.source.offset]
    <3>1. Current \in 1..Len(files) /\ Current \in 0..MaxFiles
      BY <2>3, LastFile
    <3>2. handle' = h /\ pc' = "follow"
      BY <1>9, <2>3 DEF OpenLog
    <3>3. handle' \in Source /\ handle'.file <= Len(files) /\ handle'.file >= 1
      BY <1>1, <1>2, <3>1, <3>2 DEF Source
    <3> QED BY <1>1, <2>1, <2>2, <3>2, <3>3, MonitorType
  <2>4. CASE ~present
    <3>1. pc' = "idle" /\ handle' = handle
      BY <1>9, <2>4 DEF OpenLog
    <3> QED BY <1>1, <2>1, <2>2, <3>1, MonitorType
  <2> QED BY <2>3, <2>4
<1>10. CASE ReadLine
  <2> DEFINE h == [handle EXCEPT !.offset = @ + 1]
  <2>1. /\ IsState(state')
        /\ state'.source = [file |-> state.source.file, offset |-> handle.offset + 1]
    BY <1>10, ReadLineState
  <2>2. handle.offset + 1 \in 0..MaxLines /\ handle.file >= 1
    BY <1>10, <1>3, NextLine DEF ReadLine
  <2>3. /\ UNCHANGED <<fsVars, identity, crashes>> /\ files' = files /\ handle' = h
        /\ pc \in {"drain", "follow"} /\ pc' \in {pc, "idle"} /\ faults' \in Nat
        /\ disk' \in {state', disk}
    <3>1. /\ UNCHANGED <<fsVars, identity, crashes>> /\ files' = files /\ handle' = h
          /\ pc \in {"drain", "follow"} /\ SaveState(pc)
      BY <1>10 DEF ReadLine, fsVars
    <3>2. pc' \in {pc, "idle"} /\ faults' \in Nat /\ disk' \in {state', disk}
      BY <1>1, <3>1 DEF SaveState, SaveFails
    <3> QED BY <3>1, <3>2
  <2>4. handle' \in Source /\ handle'.file = handle.file
    BY <1>1, <2>2, <2>3 DEF Source
  <2>5. state'.source.file >= 1 /\ state'.source.file <= Len(files)
    BY <1>2, <1>3, <2>1, <2>3
  <2>6. Placed(state)'
    BY <1>2, <2>1, <2>3, <2>5 DEF Placed
  <2>7. identity' \in 0..Len(files) /\ (pc' = "drain" => identity' >= 1)
    BY <1>1, <1>3, <2>3
  <2>8. pc' \in {"idle", "drain", "follow"}
    BY <2>3
  <2> QED BY <1>1, <2>1, <2>2, <2>3, <2>4, <2>5, <2>6, <2>7, <2>8, MonitorType
<1>11. CASE DrainEnds
  <2> DEFINE s == [file |-> identity, offset |-> 0]
  <2>1. identity >= 1 /\ s \in Source
    BY <1>1, <1>3, <1>11 DEF DrainEnds, Source
  <2>2. /\ UNCHANGED <<fsVars, identity, handle, crashes>>
        /\ state' = [state EXCEPT !.source = s] /\ files' = files
        /\ pc' \in {"open", "idle"} /\ faults' \in Nat /\ disk' \in {state', disk}
    BY <1>1, <1>11 DEF DrainEnds, SaveState, SaveFails, fsVars
  <2>3. IsState(state') /\ state'.source = s
    BY <1>1, <2>1, <2>2, SourceSet
  <2>4. Placed(state)' /\ identity' \in 0..Len(files) /\ identity' >= 1 /\ state'.source.file >= 1
    BY <1>1, <2>1, <2>2, <2>3 DEF Placed
  <2> QED BY <1>1, <2>2, <2>3, <2>4, MonitorType
<1>12. CASE FollowEnds
  <2>1. /\ UNCHANGED <<fsVars, state, disk, identity, handle, crashes, faults>>
        /\ pc' = "idle" /\ files' = files
    BY <1>12 DEF FollowEnds, fsVars
  <2>2. Placed(state)' /\ identity' \in 0..Len(files)
    BY <1>1, <2>1 DEF Placed
  <2> QED BY <1>1, <2>1, <2>2, MonitorType
<1>13. CASE Crash
  <2>1. /\ UNCHANGED <<fsVars, disk, identity, handle, faults>> /\ state' = disk
        /\ pc' = "down" /\ files' = files /\ crashes' \in Nat
    BY <1>1, <1>13 DEF Crash, fsVars
  <2>2. Placed(state)' /\ identity' \in 0..Len(files)
    BY <1>1, <2>1 DEF Placed
  <2> QED BY <1>1, <2>1, <2>2, MonitorType
<1> QED BY <1>4, <1>5, <1>6, <1>7, <1>8, <1>9, <1>10, <1>11, <1>12, <1>13 DEF Monitor

LEMMA StepType ==
  ASSUME TypeInv, [Next]_vars
  PROVE  TypeInv'
<1>1. CASE Next
  BY <1>1, EnvironmentType, MonitorStepType DEF Next
<1>2. CASE UNCHANGED vars
  BY <1>2 DEF vars, fsVars, TypeInv, TypeOK, IsState, Placed
<1> QED BY <1>1, <1>2

\* poll_once keeps its state well formed whatever happens to the log, and the
\* memory of digests within MAX_SEEN.
THEOREM TypeCorrect == Spec => []TypeOK
<1>1. Init => TypeInv
  BY InitType
<1>2. TypeInv /\ [Next]_vars => TypeInv'
  BY StepType
<1>3. TypeInv => TypeOK
  BY DEF TypeInv
<1> QED BY <1>1, <1>2, <1>3, PTL DEF Spec

-----------------------------------------------------------------------------
(* A calm log: what the file system does keeps every state sound.          *)

\* What TypeInv says of the log and of a state, in the form the lemmas need.
LEMMA LogTypes ==
  ASSUME TypeInv
  PROVE  /\ files \in Seq(Seq(LineNo)) /\ Len(files) \in Nat /\ DOMAIN files = 1..Len(files)
         /\ \A f \in 1..Len(files) : /\ files[f] \in Seq(LineNo) /\ Len(files[f]) \in Nat
                                     /\ DOMAIN files[f] = 1..Len(files[f])
         /\ written \in Nat
         /\ \A f \in 1..Len(files) : \A n \in 1..Len(files[f]) : files[f][n] \in Nat
<1>1. files \in Seq(Seq(LineNo)) /\ Len(files) \in Nat /\ written \in Nat
  BY DEF TypeInv, TypeOK, LineNo
<1>2. \A f \in 1..Len(files) : files[f] \in Seq(LineNo)
  BY <1>1, ElementOfSeq
<1>3. \A f \in 1..Len(files) : \A n \in 1..Len(files[f]) : files[f][n] \in LineNo
  BY <1>2, ElementOfSeq
<1> QED BY <1>1, <1>2, <1>3, TailerAssumption DEF LineNo

LEMMA StateTypes ==
  ASSUME NEW st, IsState(st)
  PROVE  /\ st.source \in Source /\ st.source.file \in Nat /\ st.source.offset \in Nat
         /\ st.source = [file |-> st.source.file, offset |-> st.source.offset]
         /\ st.seen \in Seq(LineNo) /\ st.absorbed \in Seq(LineNo)
         /\ Len(st.absorbed) \in Nat /\ DOMAIN st.absorbed = 1..Len(st.absorbed)
         /\ \A a \in DOMAIN st.absorbed : st.absorbed[a] \in Nat
<1>1. st.source \in Source /\ st.seen \in Seq(LineNo) /\ st.absorbed \in Seq(LineNo)
  BY DEF IsState, LineNo
<1>2. \A a \in 1..Len(st.absorbed) : st.absorbed[a] \in LineNo
  BY <1>1, ElementOfSeq
<1> QED BY <1>1, <1>2, TailerAssumption DEF Source, LineNo

\* A line after WriteLine was there before, or it is the last of the last file.
LEMMA WrittenLines ==
  ASSUME TypeInv, WriteLine
  PROVE  \A f \in DOMAIN files' : \A n \in DOMAIN files'[f] :
           \/ f \in DOMAIN files /\ n \in DOMAIN files[f] /\ files'[f][n] = files[f][n]
           \/ /\ f = Current /\ n = Len(files[Current]) + 1
              /\ n = Len(files'[f]) /\ files'[f][n] = written + 1
<1>1. /\ DOMAIN files = 1..Len(files) /\ Len(files) \in Nat
      /\ \A f \in 1..Len(files) : DOMAIN files[f] = 1..Len(files[f]) /\ Len(files[f]) \in Nat
  BY LogTypes
<1>2. /\ files' \in Seq(Seq(LineNo)) /\ DOMAIN files' = 1..Len(files) /\ Current \in 1..Len(files)
      /\ Current \in 1..Len(files')
  BY WriteFacts
<1>3. files'[Current] \in Seq(LineNo)
  BY <1>2, ElementOfSeq
<1>4. /\ DOMAIN files'[Current] = 1..(Len(files[Current]) + 1)
      /\ Len(files'[Current]) = Len(files[Current]) + 1
      /\ \A n \in 1..Len(files[Current]) : files'[Current][n] = files[Current][n]
      /\ files'[Current][Len(files[Current]) + 1] = written + 1
  BY <1>3, WriteFacts
<1>5. TAKE f \in DOMAIN files'
<1>6. CASE f = Current
  BY <1>1, <1>2, <1>4, <1>6
<1>7. CASE f # Current
  BY <1>1, <1>2, <1>7, WriteFacts
<1> QED BY <1>6, <1>7

\* Neither a new file nor a truncation or a removal adds a line.
LEMMA KeptLines ==
  ASSUME TypeInv, Create \/ Truncate \/ Removal
  PROVE  \A f \in DOMAIN files' : \A n \in DOMAIN files'[f] :
           f \in DOMAIN files /\ n \in DOMAIN files[f] /\ files'[f][n] = files[f][n]
<1>1. DOMAIN files = 1..Len(files) /\ Len(files) \in Nat
  BY LogTypes
<1>2. CASE Create
  <2>1. /\ DOMAIN files' = 1..(Len(files) + 1) /\ DOMAIN files'[Len(files) + 1] = {}
        /\ \A f \in 1..Len(files) : files'[f] = files[f]
    BY <1>2, CreateFacts, EmptySeq
  <2>2. TAKE f \in DOMAIN files'
  <2>3. CASE f \in 1..Len(files)
    BY <1>1, <2>1, <2>3
  <2>4. CASE f = Len(files) + 1
    BY <2>1, <2>4
  <2> QED BY <1>1, <2>1, <2>3, <2>4
<1>3. CASE Truncate
  <2>1. /\ DOMAIN files' = 1..Len(files) /\ DOMAIN files'[Current] = {}
        /\ \A f \in 1..Len(files) : f # Current => files'[f] = files[f]
    BY <1>3, TruncateFacts, EmptySeq
  <2> QED BY <1>1, <2>1
<1>4. CASE Removal
  <2>1. PICK g \in DOMAIN files : Remove(g)
    BY <1>4 DEF Removal
  <2>2. /\ DOMAIN files' = 1..Len(files) /\ DOMAIN files'[g] = {}
        /\ \A f \in 1..Len(files) : f # g => files'[f] = files[f]
    BY <2>1, RemoveFacts, EmptySeq
  <2> QED BY <1>1, <2>2
<1> QED BY <1>2, <1>3, <1>4

\* A line is written after every position: the state stays sound.
LEMMA SoundWhenWritten ==
  ASSUME TypeInv, WriteLine, NEW st, IsState(st), Placed(st), Sound(st),
         st.source.file = Current => st.source.offset <= Len(files[Current])
  PROVE  SoundIn(st, files', present', written', lost')
<1>0. Current = Len(files) /\ Len(files) \in Nat
  BY LogTypes DEF Current
<1>1. /\ DOMAIN files = 1..Len(files) /\ DOMAIN files' = 1..Len(files)
      /\ Current \in 1..Len(files) /\ Len(files') = Len(files)
      /\ \A f \in 1..Len(files) : f # Current => files'[f] = files[f]
  BY LogTypes, WriteFacts
<1>2. /\ DOMAIN files[Current] = 1..Len(files[Current]) /\ Len(files[Current]) \in Nat
      /\ files[Current] \in Seq(LineNo)
      /\ files'[Current] \in Seq(LineNo)
      /\ Len(files'[Current]) = Len(files[Current]) + 1
      /\ DOMAIN files'[Current] = 1..(Len(files[Current]) + 1)
      /\ \A n \in 1..Len(files[Current]) : files'[Current][n] = files[Current][n]
      /\ files'[Current][Len(files[Current]) + 1] = written + 1
  <2>1. files' \in Seq(Seq(LineNo)) /\ Current \in 1..Len(files') /\ Current \in 1..Len(files)
    BY WriteFacts
  <2>2. files'[Current] \in Seq(LineNo)
    BY <2>1, ElementOfSeq
  <2> QED BY <2>1, <2>2, LogTypes, WriteFacts
<1>3. written' = written + 1 /\ lost' = lost /\ present' = present /\ present /\ written \in Nat
  BY LogTypes DEF WriteLine
<1>4. /\ st.source.file \in Nat /\ st.source.offset \in Nat
      /\ \A a \in DOMAIN st.absorbed : st.absorbed[a] \in Nat
  BY StateTypes
<1>5. \A f \in DOMAIN files' : \A n \in DOMAIN files'[f] :
        \/ f \in DOMAIN files /\ n \in DOMAIN files[f] /\ files'[f][n] = files[f][n]
        \/ f = Current /\ n = Len(files[Current]) + 1 /\ files'[f][n] = written + 1
  BY WrittenLines
<1>6. Beyond(st, Current, Len(files[Current]) + 1)
  <2>1. st.source.file <= Current
    BY <1>0 DEF Placed
  <2>2. st.source.file = Current => st.source.offset < Len(files[Current]) + 1
    BY <1>2, <1>4
  <2>3. Current \in Nat
    BY <1>0
  <2> QED BY <1>4, <2>1, <2>2, <2>3 DEF Beyond
<1>7. PassedIsAbsorbed(st, files', lost')
  <2> SUFFICES ASSUME NEW f \in DOMAIN files', NEW n \in DOMAIN files'[f], ~Beyond(st, f, n)
               PROVE  files'[f][n] \in Elements(st.absorbed) \cup lost
    BY <1>3 DEF PassedIsAbsorbed
  <2>1. CASE f \in DOMAIN files /\ n \in DOMAIN files[f] /\ files'[f][n] = files[f][n]
    BY <2>1 DEF Sound, SoundIn, PassedIsAbsorbed
  <2>2. CASE f = Current /\ n = Len(files[Current]) + 1
    BY <1>6, <2>2
  <2> QED BY <1>5, <2>1, <2>2
<1>8. BetweenIsLost(st, files', present', lost')
  <2> SUFFICES ASSUME NEW f \in DOMAIN files', st.source.file < f, f < Len(files')
               PROVE  Elements(files'[f]) \subseteq lost
    BY <1>3 DEF BetweenIsLost
  <2>1. f \in DOMAIN files /\ f < Len(files) /\ f # Current /\ files'[f] = files[f]
    BY <1>0, <1>1
  <2> QED BY <2>1 DEF Sound, SoundIn, BetweenIsLost
<1>9. AbsorbedBehind(st, files', written')
  <2> SUFFICES ASSUME NEW a \in DOMAIN st.absorbed
               PROVE  /\ st.absorbed[a] <= written'
                      /\ \A f \in DOMAIN files' : \A n \in DOMAIN files'[f] :
                           Beyond(st, f, n) => st.absorbed[a] < files'[f][n]
    BY DEF AbsorbedBehind
  <2>1. /\ st.absorbed[a] <= written
        /\ \A f \in DOMAIN files : \A n \in DOMAIN files[f] :
             Beyond(st, f, n) => st.absorbed[a] < files[f][n]
    BY DEF Sound, SoundIn, AbsorbedBehind
  <2>2. st.absorbed[a] < written + 1
    BY <1>3, <1>4, <2>1
  <2>3. ASSUME NEW f \in DOMAIN files', NEW n \in DOMAIN files'[f], Beyond(st, f, n)
        PROVE  st.absorbed[a] < files'[f][n]
    <3>1. CASE f \in DOMAIN files /\ n \in DOMAIN files[f] /\ files'[f][n] = files[f][n]
      BY <2>1, <2>3, <3>1
    <3>2. CASE files'[f][n] = written + 1
      BY <2>2, <3>2
    <3> QED BY <1>5, <3>1, <3>2
  <2> QED BY <1>3, <1>4, <2>1, <2>3
<1> QED BY <1>7, <1>8, <1>9 DEF Sound, SoundIn

\* A renamed file is lost to a state that had not come to it.
LEMMA SoundWhenRenamed ==
  ASSUME TypeInv, Rename, NEW st, IsState(st), Placed(st), Sound(st),
         disk.source.file <= st.source.file
  PROVE  SoundIn(st, files', present', written', lost')
<1>1. /\ files' = files /\ written' = written /\ present' = FALSE /\ present
      /\ lost' = IF Reached THEN lost ELSE lost \cup Elements(files[Current])
      /\ DOMAIN files = 1..Len(files) /\ Len(files) \in Nat
  BY LogTypes DEF Rename
<1>2. st.source.file \in Nat /\ st.source.file <= Len(files)
  BY StateTypes DEF Placed
<1>3. Reached \/ Elements(files[Current]) \subseteq lost'
  BY <1>1
<1>4. Reached => st.source.file = Len(files)
  BY <1>1, <1>2 DEF Reached, Current
<1>5. lost \subseteq lost'
  BY <1>1
<1>6. PassedIsAbsorbed(st, files', lost')
  BY <1>1, <1>5 DEF Sound, SoundIn, PassedIsAbsorbed
<1>7. BetweenIsLost(st, files', present', lost')
  <2> SUFFICES ASSUME NEW f \in DOMAIN files, st.source.file < f
               PROVE  Elements(files[f]) \subseteq lost'
    BY <1>1 DEF BetweenIsLost
  <2>1. CASE f < Len(files)
    BY <1>1, <1>5, <2>1 DEF Sound, SoundIn, BetweenIsLost
  <2>2. CASE f = Len(files)
    BY <1>1, <1>2, <1>3, <1>4, <2>2 DEF Current
  <2> QED BY <1>1, <2>1, <2>2
<1> QED BY <1>1, <1>6, <1>7 DEF Sound, SoundIn

\* The new file has no lines, and the one before it is no longer the last.
LEMMA SoundWhenCreated ==
  ASSUME TypeInv, Create, NEW st, IsState(st), Placed(st), Sound(st)
  PROVE  SoundIn(st, files', present', written', lost')
<1>1. /\ DOMAIN files = 1..Len(files) /\ Len(files) \in Nat
      /\ files' \in Seq(Seq(LineNo)) /\ Len(files') = Len(files) + 1
      /\ DOMAIN files' = 1..(Len(files) + 1)
      /\ \A f \in 1..Len(files) : files'[f] = files[f]
      /\ files'[Len(files) + 1] = <<>> /\ DOMAIN files'[Len(files) + 1] = {}
  BY LogTypes, CreateFacts, EmptySeq
<1>2. written' = written /\ lost' = lost /\ present' = TRUE /\ ~present
  BY DEF Create
<1>3. \A f \in DOMAIN files' : \A n \in DOMAIN files'[f] :
        f \in DOMAIN files /\ n \in DOMAIN files[f] /\ files'[f][n] = files[f][n]
  BY KeptLines
<1>4. PassedIsAbsorbed(st, files', lost')
  BY <1>2, <1>3 DEF Sound, SoundIn, PassedIsAbsorbed
<1>5. BetweenIsLost(st, files', present', lost')
  <2> SUFFICES ASSUME NEW f \in DOMAIN files', st.source.file < f, f < Len(files')
               PROVE  Elements(files'[f]) \subseteq lost
    BY <1>2 DEF BetweenIsLost
  <2>1. f \in DOMAIN files /\ files'[f] = files[f]
    BY <1>1
  <2> QED BY <1>2, <2>1 DEF Sound, SoundIn, BetweenIsLost
<1>6. AbsorbedBehind(st, files', written')
  BY <1>2, <1>3 DEF Sound, SoundIn, AbsorbedBehind
<1> QED BY <1>4, <1>5, <1>6 DEF Sound, SoundIn

\* A truncation takes lines from the log.
LEMMA SoundWhenTruncated ==
  ASSUME TypeInv, Truncate, NEW st, IsState(st), Placed(st), Sound(st)
  PROVE  SoundIn(st, files', present', written', lost')
<1>1. /\ DOMAIN files = 1..Len(files) /\ Len(files) \in Nat
      /\ files' \in Seq(Seq(LineNo)) /\ Len(files') = Len(files)
      /\ DOMAIN files' = 1..Len(files) /\ Current \in 1..Len(files)
      /\ \A f \in 1..Len(files) : f # Current => files'[f] = files[f]
      /\ files'[Current] = <<>> /\ DOMAIN files'[Current] = {}
  BY LogTypes, TruncateFacts, EmptySeq
<1>2. written' = written /\ lost \subseteq lost' /\ present' = present
  BY DEF Truncate
<1>3. \A f \in DOMAIN files' : \A n \in DOMAIN files'[f] :
        f \in DOMAIN files /\ n \in DOMAIN files[f] /\ files'[f][n] = files[f][n]
  BY KeptLines
<1>4. PassedIsAbsorbed(st, files', lost')
  BY <1>2, <1>3 DEF Sound, SoundIn, PassedIsAbsorbed
<1>5. BetweenIsLost(st, files', present', lost')
  <2> SUFFICES ASSUME NEW f \in DOMAIN files', st.source.file < f, f < Len(files') \/ ~present'
               PROVE  Elements(files'[f]) \subseteq lost'
    BY DEF BetweenIsLost
  <2>1. CASE f = Current
    BY <1>1, <2>1 DEF Elements
  <2>2. CASE f # Current
    <3>1. f \in DOMAIN files /\ files'[f] = files[f] /\ (f < Len(files) \/ ~present)
      BY <1>1, <1>2, <2>2
    <3> QED BY <1>2, <3>1 DEF Sound, SoundIn, BetweenIsLost
  <2> QED BY <2>1, <2>2
<1>6. AbsorbedBehind(st, files', written')
  BY <1>2, <1>3 DEF Sound, SoundIn, AbsorbedBehind
<1> QED BY <1>4, <1>5, <1>6 DEF Sound, SoundIn

\* So does a removal.
LEMMA SoundWhenRemoved ==
  ASSUME TypeInv, NEW g \in DOMAIN files, Remove(g),
         NEW st, IsState(st), Placed(st), Sound(st)
  PROVE  SoundIn(st, files', present', written', lost')
<1>1. /\ DOMAIN files = 1..Len(files) /\ Len(files) \in Nat
      /\ files' \in Seq(Seq(LineNo)) /\ Len(files') = Len(files)
      /\ DOMAIN files' = 1..Len(files) /\ g \in 1..Len(files)
      /\ \A f \in 1..Len(files) : f # g => files'[f] = files[f]
      /\ files'[g] = <<>> /\ DOMAIN files'[g] = {}
  <2>1. /\ files' \in Seq(Seq(LineNo)) /\ Len(files') = Len(files) /\ g \in 1..Len(files)
        /\ \A f \in 1..Len(files) : f # g => files'[f] = files[f]
        /\ files'[g] = <<>>
    BY RemoveFacts
  <2>2. DOMAIN files = 1..Len(files) /\ Len(files) \in Nat
    BY LogTypes
  <2>3. DOMAIN files' = 1..Len(files)
    BY <2>1
  <2>4. DOMAIN files'[g] = {}
    BY <2>1, EmptySeq
  <2> QED BY <2>1, <2>2, <2>3, <2>4
<1>2. written' = written /\ lost \subseteq lost' /\ present' = present
  BY DEF Remove
<1>3. \A f \in DOMAIN files' : \A n \in DOMAIN files'[f] :
        f \in DOMAIN files /\ n \in DOMAIN files[f] /\ files'[f][n] = files[f][n]
  BY KeptLines DEF Removal
<1>4. PassedIsAbsorbed(st, files', lost')
  BY <1>2, <1>3 DEF Sound, SoundIn, PassedIsAbsorbed
<1>5. BetweenIsLost(st, files', present', lost')
  <2> SUFFICES ASSUME NEW f \in DOMAIN files', st.source.file < f, f < Len(files') \/ ~present'
               PROVE  Elements(files'[f]) \subseteq lost'
    BY DEF BetweenIsLost
  <2>1. CASE f = g
    BY <1>1, <2>1 DEF Elements
  <2>2. CASE f # g
    <3>1. f \in DOMAIN files /\ files'[f] = files[f] /\ (f < Len(files) \/ ~present)
      BY <1>1, <1>2, <2>2
    <3> QED BY <1>2, <3>1 DEF Sound, SoundIn, BetweenIsLost
  <2> QED BY <2>1, <2>2
<1>6. AbsorbedBehind(st, files', written')
  BY <1>2, <1>3 DEF Sound, SoundIn, AbsorbedBehind
<1> QED BY <1>4, <1>5, <1>6 DEF Sound, SoundIn

\* What the invariant says of both states, and of the positions.
LEMMA Positions ==
  ASSUME IInv
  PROVE  /\ IsState(state) /\ IsState(disk) /\ Placed(state) /\ Placed(disk)
         /\ state.source.file \in Nat /\ state.source.offset \in Nat
         /\ disk.source.file \in Nat /\ disk.source.offset \in Nat
         /\ state.source.file <= Len(files) /\ disk.source.file <= Len(files)
         /\ disk.source.file <= state.source.file
         /\ Current = Len(files) /\ Len(files) \in Nat
<1>1. IsState(state) /\ IsState(disk) /\ Placed(state) /\ Placed(disk)
  BY DEF IInv, TypeInv, TypeOK
<1>2. Current = Len(files) /\ Len(files) \in Nat
  BY LogTypes DEF Current, IInv
<1> QED BY <1>1, <1>2, StateTypes DEF IInv, Placed

\* A line is only written to the last file when no state is past its end.
LEMMA WriteFits ==
  ASSUME IInv, Calm, WriteLine
  PROVE  /\ disk.source.file = Current => disk.source.offset <= Len(files[Current])
         /\ state.source.file = Current => state.source.offset <= Len(files[Current])
<1>1. /\ Current \in 1..Len(files) /\ Current = Len(files) /\ Len(files) \in Nat
      /\ Len(files[Current]) \in Nat
  BY LastFile, LogTypes DEF IInv, WriteLine
<1>2. disk.source.file = Current => disk.source.offset <= Len(files[Current])
  BY DEF WriteLine, Reached
<1>3. SUFFICES ASSUME state.source.file = Current, state.source.offset > Len(files[Current])
               PROVE  FALSE
  BY <1>1, <1>2, Positions
<1>4. disk.source.file = Current /\ disk.source.offset >= state.source.offset
  BY <1>1, <1>3 DEF IInv, PastTheEnd
<1> QED BY <1>1, <1>2, <1>3, <1>4, Positions

LEMMA WriteLineInv ==
  ASSUME IInv, Calm, WriteLine
  PROVE  IInv'
<1>1. TypeInv /\ TypeInv' /\ present
  BY EnvironmentType DEF IInv, WriteLine
<1>2. UNCHANGED <<present, lost, state, disk, pc, identity, handle>> /\ written' = written + 1
  BY DEF WriteLine
<1>3. /\ Current \in 1..Len(files) /\ Current = Len(files) /\ Len(files) \in Nat
      /\ Len(files') = Len(files)
      /\ Len(files[Current]) \in Nat /\ Len(files'[Current]) = Len(files[Current]) + 1
  BY <1>1, LastFile, LogTypes, WriteFacts
<1>4. disk.source.file = Current => disk.source.offset <= Len(files[Current])
  BY WriteFits
<1>5. state.source.file = Current => state.source.offset <= Len(files[Current])
  BY WriteFits
<1>6. Sound(state)' /\ Sound(disk)'
  <2>1. SoundIn(state, files', present', written', lost')
    BY <1>1, <1>5, Positions, SoundWhenWritten DEF IInv
  <2>2. SoundIn(disk, files', present', written', lost')
    BY <1>1, <1>4, Positions, SoundWhenWritten DEF IInv
  <2> QED BY <1>2, <2>1, <2>2 DEF Sound
<1>7. \A f \in DOMAIN files' : \A n \in DOMAIN files'[f] :
        \/ f \in DOMAIN files /\ n \in DOMAIN files[f] /\ files'[f][n] = files[f][n]
        \/ f = Len(files) /\ n = Len(files'[f]) /\ files'[f][n] = written + 1
  BY <1>1, <1>3, WrittenLines
<1>8. written \in Nat /\ \A f \in DOMAIN files : \A n \in DOMAIN files[f] :
                           files[f][n] \in Nat /\ files[f][n] <= written
  BY <1>1, LogTypes DEF IInv, LinesWritten
<1>9. LinesWritten'
  <2> SUFFICES ASSUME NEW f \in DOMAIN files', NEW n \in DOMAIN files'[f]
               PROVE  files'[f][n] <= written + 1
    BY <1>2 DEF LinesWritten
  <2> QED BY <1>7, <1>8
<1>10. FilesOrdered'
  <2> SUFFICES ASSUME NEW f \in DOMAIN files', NEW g \in DOMAIN files',
                      NEW n \in DOMAIN files'[f], NEW m \in DOMAIN files'[g],
                      f < g \/ (f = g /\ n < m)
               PROVE  files'[f][n] < files'[g][m]
    BY DEF FilesOrdered
  <2>1. f \in 1..Len(files) /\ g \in 1..Len(files) /\ n \in Nat /\ m \in Nat
        /\ m <= Len(files'[g]) /\ n <= Len(files'[f])
        /\ Len(files'[f]) \in Nat /\ Len(files'[g]) \in Nat
    <3>1. files' \in Seq(Seq(LineNo)) /\ DOMAIN files' = 1..Len(files) /\ Len(files') = Len(files)
      BY <1>1, LogTypes, WriteFacts
    <3>2. files'[f] \in Seq(LineNo) /\ files'[g] \in Seq(LineNo)
      BY <3>1, ElementOfSeq
    <3> QED BY <3>1, <3>2
  <2>2. f \in DOMAIN files /\ n \in DOMAIN files[f] /\ files'[f][n] = files[f][n]
    BY <1>3, <1>7, <2>1
  <2>3. CASE g \in DOMAIN files /\ m \in DOMAIN files[g] /\ files'[g][m] = files[g][m]
    BY <2>2, <2>3 DEF IInv, FilesOrdered
  <2>4. CASE files'[g][m] = written + 1
    BY <1>8, <2>2, <2>4
  <2> QED BY <1>7, <2>3, <2>4
<1>11. PastTheEnd'
  BY <1>2, <1>3, <1>4, <1>5, Positions DEF PastTheEnd
<1>12. Poll'
  BY <1>2, <1>3 DEF IInv, Poll
<1> QED BY <1>1, <1>2, <1>6, <1>9, <1>10, <1>11, <1>12 DEF IInv

LEMMA RenameInv ==
  ASSUME IInv, Calm, Rename
  PROVE  IInv'
<1>1. TypeInv /\ TypeInv'
  BY EnvironmentType DEF IInv
<1>2. UNCHANGED <<files, written, state, disk, pc, identity, handle>> /\ NotOpening
  BY DEF Rename
<1>3. Sound(state)' /\ Sound(disk)'
  <2>1. SoundIn(state, files', present', written', lost')
    BY <1>1, Positions, SoundWhenRenamed DEF IInv
  <2>2. SoundIn(disk, files', present', written', lost')
    BY <1>1, Positions, SoundWhenRenamed DEF IInv
  <2> QED BY <1>2, <2>1, <2>2 DEF Sound
<1>4. FilesOrdered' /\ LinesWritten' /\ PastTheEnd'
  BY <1>2 DEF IInv, FilesOrdered, LinesWritten, PastTheEnd
<1>5. Poll'
  BY <1>2 DEF IInv, Poll, NotOpening
<1> QED BY <1>1, <1>2, <1>3, <1>4, <1>5 DEF IInv

LEMMA CreateInv ==
  ASSUME IInv, Create
  PROVE  IInv'
<1>1. TypeInv /\ TypeInv'
  BY EnvironmentType DEF IInv
<1>2. UNCHANGED <<written, lost, state, disk, pc, identity, handle>> /\ ~present
  BY DEF Create
<1>3. Sound(state)' /\ Sound(disk)'
  <2>1. SoundIn(state, files', present', written', lost')
    BY <1>1, Positions, SoundWhenCreated DEF IInv
  <2>2. SoundIn(disk, files', present', written', lost')
    BY <1>1, Positions, SoundWhenCreated DEF IInv
  <2> QED BY <1>2, <2>1, <2>2 DEF Sound
<1>4. /\ DOMAIN files = 1..Len(files) /\ DOMAIN files' = 1..(Len(files) + 1)
      /\ Len(files') = Len(files) + 1 /\ Len(files) \in Nat
      /\ \A f \in 1..Len(files) : files'[f] = files[f]
      /\ DOMAIN files'[Len(files) + 1] = {}
  BY <1>1, LogTypes, CreateFacts, EmptySeq
<1>5. \A f \in DOMAIN files' : \A n \in DOMAIN files'[f] :
        f \in DOMAIN files /\ n \in DOMAIN files[f] /\ files'[f][n] = files[f][n]
  BY <1>1, KeptLines
<1>6. FilesOrdered' /\ LinesWritten'
  BY <1>2, <1>5 DEF IInv, FilesOrdered, LinesWritten
<1>7. PastTheEnd'
  BY <1>2, <1>4, Positions DEF PastTheEnd
<1>8. Poll'
  BY <1>2 DEF IInv, Poll
<1> QED BY <1>1, <1>2, <1>3, <1>6, <1>7, <1>8 DEF IInv

LEMMA TruncateInv ==
  ASSUME IInv, Calm, Truncate
  PROVE  IInv'
<1>1. TypeInv /\ TypeInv'
  BY EnvironmentType DEF IInv
<1>2. /\ UNCHANGED <<present, written, state, disk, pc, identity, handle>>
      /\ disk.source.file = Current /\ disk.source.offset = Len(files[Current])
  BY DEF Truncate
<1>3. Sound(state)' /\ Sound(disk)'
  <2>1. SoundIn(state, files', present', written', lost')
    BY <1>1, Positions, SoundWhenTruncated DEF IInv
  <2>2. SoundIn(disk, files', present', written', lost')
    BY <1>1, Positions, SoundWhenTruncated DEF IInv
  <2> QED BY <1>2, <2>1, <2>2 DEF Sound
<1>4. /\ DOMAIN files = 1..Len(files) /\ DOMAIN files' = 1..Len(files)
      /\ Len(files') = Len(files) /\ Current \in 1..Len(files)
      /\ \A f \in 1..Len(files) : f # Current => files'[f] = files[f]
      /\ files'[Current] = <<>> /\ DOMAIN files'[Current] = {}
  BY <1>1, LogTypes, TruncateFacts, EmptySeq
<1>5. \A f \in DOMAIN files' : \A n \in DOMAIN files'[f] :
        f \in DOMAIN files /\ n \in DOMAIN files[f] /\ files'[f][n] = files[f][n]
  BY <1>1, KeptLines
<1>6. FilesOrdered' /\ LinesWritten'
  BY <1>2, <1>5 DEF IInv, FilesOrdered, LinesWritten
<1>7. PastTheEnd'
  <2>1. /\ files'[Len(files')] = <<>> /\ Len(files') = Current /\ Current = Len(files)
        /\ Len(files) \in Nat /\ Len(files) > 0
    <3>1. Current = Len(files) /\ Len(files) \in Nat
      BY Positions
    <3>2. Len(files') = Len(files) /\ files'[Current] = <<>> /\ Current \in 1..Len(files)
      BY <1>4
    <3>3. Len(files) > 0 /\ files'[Len(files')] = <<>>
      BY <3>1, <3>2
    <3> QED BY <3>1, <3>2, <3>3
  <2>2. ASSUME state.source.file = Current
        PROVE  disk.source.offset >= state.source.offset
    <3>1. CASE state.source.offset > Len(files[Current])
      <4>1. /\ state.source.file = Len(files) /\ Len(files) > 0
            /\ state.source.offset > Len(files[Len(files)])
        BY <1>4, <2>1, <2>2, <3>1
      <4> QED BY <4>1 DEF IInv, PastTheEnd
    <3>2. CASE ~(state.source.offset > Len(files[Current]))
      BY <1>2, <3>2, Positions
    <3> QED BY <3>1, <3>2
  <2> QED BY <1>2, <2>1, <2>2 DEF PastTheEnd
<1>8. Poll'
  BY <1>2, <1>4 DEF IInv, Poll
<1> QED BY <1>1, <1>2, <1>3, <1>6, <1>7, <1>8 DEF IInv

LEMMA RemoveInv ==
  ASSUME IInv, Removal
  PROVE  IInv'
<1>1. TypeInv /\ TypeInv'
  BY EnvironmentType DEF IInv
<1>2. PICK g \in DOMAIN files : Remove(g)
  BY DEF Removal
<1>3. UNCHANGED <<present, written, state, disk, pc, identity, handle>>
  BY <1>2 DEF Remove
<1>4. Sound(state)' /\ Sound(disk)'
  <2>1. SoundIn(state, files', present', written', lost')
    BY <1>1, <1>2, Positions, SoundWhenRemoved DEF IInv
  <2>2. SoundIn(disk, files', present', written', lost')
    BY <1>1, <1>2, Positions, SoundWhenRemoved DEF IInv
  <2> QED BY <1>3, <2>1, <2>2 DEF Sound
<1>5. /\ Len(files') = Len(files) /\ Len(files) \in Nat
      /\ g \in 1..Len(files) /\ g < Len(files)
      /\ \A f \in 1..Len(files) : f # g => files'[f] = files[f]
  BY <1>1, <1>2, LogTypes, RemoveFacts
<1>6. files'[Len(files)] = files[Len(files)]
  BY <1>5
<1>7. \A f \in DOMAIN files' : \A n \in DOMAIN files'[f] :
        f \in DOMAIN files /\ n \in DOMAIN files[f] /\ files'[f][n] = files[f][n]
  BY <1>1, KeptLines
<1>8. FilesOrdered' /\ LinesWritten'
  BY <1>3, <1>7 DEF IInv, FilesOrdered, LinesWritten
<1>9. PastTheEnd'
  BY <1>3, <1>5, <1>6 DEF IInv, PastTheEnd
<1>10. Poll'
  BY <1>3, <1>5 DEF IInv, Poll
<1> QED BY <1>1, <1>3, <1>4, <1>8, <1>9, <1>10 DEF IInv

-----------------------------------------------------------------------------
(* The monitor's steps.                                                    *)

\* state' is sound and saved, or the save fails and the disk keeps the old.
LEMMA SavedInv ==
  ASSUME IInv, TypeInv', UNCHANGED fsVars, Poll',
         disk' \in {state', disk}, disk.source.file <= state'.source.file,
         SoundIn(state', files, present, written, lost),
         state'.source.file = Current => state'.source.offset <= Len(files[Current])
  PROVE  IInv'
<1>1. /\ files' = files /\ present' = present /\ written' = written /\ lost' = lost
      /\ Current = Len(files) /\ Len(files) \in Nat
  BY Positions DEF fsVars
<1>2. /\ state'.source.file \in Nat /\ state'.source.offset \in Nat
      /\ disk'.source.file \in Nat /\ disk'.source.offset \in Nat
  BY StateTypes DEF TypeInv, TypeOK
<1>3. Sound(state)' /\ Sound(disk)'
  BY <1>1 DEF IInv, Sound
<1>4. FilesOrdered' /\ LinesWritten'
  BY <1>1 DEF IInv, FilesOrdered, LinesWritten
<1>5. disk'.source.file <= state'.source.file
  BY <1>2
<1>6. Current > 0 => Len(files[Current]) \in Nat
  BY <1>1, LogTypes DEF IInv
<1>7. PastTheEnd'
  <2>1. CASE disk' = state'
    <3>1. ~(/\ state'.source.file = Len(files) /\ Len(files) > 0
            /\ state'.source.offset > Len(files[Len(files)]))
      BY <1>1, <1>2, <1>6
    <3> QED BY <1>1, <2>1, <3>1 DEF PastTheEnd
  <2>2. CASE disk' = disk
    <3>1. ~(/\ state'.source.file = Len(files) /\ Len(files) > 0
            /\ state'.source.offset > Len(files[Len(files)]))
      BY <1>1, <1>2, <1>6
    <3>2. (/\ disk.source.file = Len(files) /\ Len(files) > 0
           /\ disk.source.offset > Len(files[Len(files)]))
             => files[Len(files)] = <<>>
      BY DEF IInv, PastTheEnd
    <3> QED BY <1>1, <2>2, <3>1, <3>2 DEF PastTheEnd
  <2> QED BY <2>1, <2>2
<1> QED BY <1>3, <1>4, <1>5, <1>7 DEF IInv

\* Neither the log nor a state changes.
LEMMA UnchangedInv ==
  ASSUME IInv, TypeInv', UNCHANGED <<fsVars, state, disk>>, Poll'
  PROVE  IInv'
<1>1. UNCHANGED <<files, present, written, lost, state, disk>>
  BY DEF fsVars
<1>2. FilesOrdered' /\ LinesWritten' /\ Sound(state)' /\ Sound(disk)' /\ PastTheEnd'
  BY <1>1 DEF IInv, FilesOrdered, LinesWritten, Sound, PastTheEnd
<1> QED BY <1>1, <1>2 DEF IInv

\* The process starts or dies: memory is what the disk holds.
LEMMA RestartInv ==
  ASSUME IInv, Start \/ Crash
  PROVE  IInv'
<1>1. UNCHANGED <<files, present, written, lost, disk>> /\ state' = disk /\ pc' \in {"idle", "down"}
  BY DEF Start, Crash, fsVars
<1>2. TypeInv'
  BY MonitorStepType DEF IInv, Monitor
<1>3. FilesOrdered' /\ LinesWritten' /\ Sound(state)' /\ Sound(disk)' /\ Poll'
  BY <1>1 DEF IInv, FilesOrdered, LinesWritten, Sound, Poll
<1>4. disk'.source.file <= state'.source.file
  BY <1>1, Positions
<1>5. PastTheEnd'
  BY <1>1, Positions DEF IInv, PastTheEnd
<1> QED BY <1>2, <1>3, <1>4, <1>5 DEF IInv

\* From a file read to its end the position goes to the start of the last one.
LEMMA SoundWhenAdvanced ==
  ASSUME TypeInv, present, NEW st, NEW new,
         IsState(st), Sound(st), st.source.file < Len(files),
         st.source.file >= 1 =>
           \A n \in DOMAIN files[st.source.file] : n <= st.source.offset,
         new.source = [file |-> Len(files), offset |-> 0],
         new.seen = st.seen, new.absorbed = st.absorbed
  PROVE  SoundIn(new, files, present, written, lost)
<1>1. /\ DOMAIN files = 1..Len(files) /\ Len(files) \in Nat
      /\ \A f \in 1..Len(files) : DOMAIN files[f] = 1..Len(files[f]) /\ Len(files[f]) \in Nat
      /\ st.source.file \in Nat /\ st.source.offset \in Nat
      /\ new.source.file = Len(files) /\ new.source.offset = 0
  <2>1. st.source.file \in Nat /\ st.source.offset \in Nat
    BY StateTypes
  <2> QED BY <2>1, LogTypes
<1>2. PassedIsAbsorbed(new, files, lost)
  <2> SUFFICES ASSUME NEW f \in DOMAIN files, NEW n \in DOMAIN files[f], ~Beyond(new, f, n)
               PROVE  files[f][n] \in Elements(st.absorbed) \cup lost
    BY DEF PassedIsAbsorbed
  <2>1. f \in 1..Len(files) /\ n \in Nat \ {0}
    BY <1>1
  <2>2. f < Len(files)
    BY <1>1, <2>1 DEF Beyond
  <2>3. CASE f <= st.source.file
    <3>1. ~Beyond(st, f, n)
      BY <1>1, <2>1, <2>3 DEF Beyond
    <3> QED BY <3>1 DEF Sound, SoundIn, PassedIsAbsorbed
  <2>4. CASE st.source.file < f
    <3>1. Elements(files[f]) \subseteq lost
      BY <2>2, <2>4 DEF Sound, SoundIn, BetweenIsLost
    <3> QED BY <3>1 DEF Elements
  <2> QED BY <1>1, <2>1, <2>3, <2>4
<1>3. BetweenIsLost(new, files, present, lost)
  BY <1>1 DEF BetweenIsLost
<1>4. AbsorbedBehind(new, files, written)
  <2>1. \A f \in DOMAIN files : \A n \in DOMAIN files[f] : Beyond(new, f, n) => Beyond(st, f, n)
    BY <1>1 DEF Beyond
  <2> QED BY <2>1 DEF Sound, SoundIn, AbsorbedBehind
<1> QED BY <1>2, <1>3, <1>4 DEF Sound, SoundIn, Ordered

LEMMA StatFirstInv ==
  ASSUME IInv, StatFirst
  PROVE  IInv'
<1> DEFINE s == [file |-> Current, offset |-> 0]
<1>1. TypeInv /\ TypeInv'
  BY MonitorStepType DEF IInv, Monitor
<1>2. /\ UNCHANGED fsVars /\ UNCHANGED <<files, present, handle>> /\ identity' = Current /\ present
      /\ state' = [state EXCEPT !.source = s] /\ SaveState("open")
      /\ state.source = NoSource
  BY DEF StatFirst, fsVars
<1>3. pc' \in {"open", "idle"} /\ disk' \in {state', disk}
  BY <1>2 DEF SaveState, SaveFails
<1>4. Current \in 1..Len(files) /\ s \in Source /\ Current = Len(files) /\ Len(files) \in Nat
  BY <1>1, <1>2, LastFile
<1>5. state'.source = s /\ state'.seen = state.seen /\ state'.absorbed = state.absorbed
  BY <1>2, <1>4, Positions, SourceSet
<1>6. state.source.file = 0
  BY <1>2 DEF NoSource
<1>7. SoundIn(state', files, present, written, lost)
  <2>1. IsState(state) /\ Sound(state)
    BY Positions DEF IInv
  <2>2. /\ state.source.file < Len(files) /\ ~(state.source.file >= 1)
        /\ state'.source = [file |-> Len(files), offset |-> 0]
    BY <1>4, <1>5, <1>6
  <2> QED BY <1>1, <1>2, <1>5, <2>1, <2>2, SoundWhenAdvanced
<1>8. Poll'
  BY <1>2, <1>3, <1>4, <1>5 DEF Poll
<1>9. disk.source.file <= state'.source.file
  BY <1>4, <1>5, Positions
<1>10. state'.source.offset <= Len(files[Current])
  BY <1>1, <1>4, <1>5, LogTypes
<1> QED BY <1>1, <1>2, <1>3, <1>7, <1>8, <1>9, <1>10, SavedInv

\* A file shorter than the position was truncated to nothing.
LEMMA StatTruncatedInv ==
  ASSUME IInv, StatTruncated
  PROVE  IInv'
<1> DEFINE s == [file |-> state.source.file, offset |-> 0]
<1>1. TypeInv /\ TypeInv'
  BY MonitorStepType DEF IInv, Monitor
<1>2. /\ UNCHANGED fsVars /\ UNCHANGED <<files, present, handle>> /\ identity' = Current /\ present
      /\ state' = [state EXCEPT !.source.offset = 0] /\ SaveState("open")
      /\ state.source.file = Current /\ state.source.offset > Len(files[Current])
  BY DEF StatTruncated, fsVars
<1>3. pc' \in {"open", "idle"} /\ disk' \in {state', disk}
  BY <1>2 DEF SaveState, SaveFails
<1>4. /\ Current \in 1..Len(files) /\ [file |-> Current, offset |-> 0] \in Source
      /\ Current = Len(files) /\ Len(files) \in Nat /\ Len(files) > 0
  BY <1>1, <1>2, LastFile
<1>5. state'.source = s /\ state'.seen = state.seen /\ state'.absorbed = state.absorbed
  <2>1. [state.source EXCEPT !.offset = 0] = s
    <3>1. state.source = [file |-> state.source.file, offset |-> state.source.offset]
      BY StateTypes, Positions
    <3> QED BY <3>1
  <2>2. state' = [state EXCEPT !.source = s]
    BY <1>2, <2>1
  <2>3. s \in Source /\ IsState(state)
    BY <1>2, <1>4, Positions
  <2> QED BY <2>2, <2>3, SourceSet
<1>6. files[Current] = <<>> /\ DOMAIN files[Current] = {}
  <2>1. disk.source.file = Len(files) /\ disk.source.offset >= state.source.offset
    BY <1>2, <1>4 DEF IInv, PastTheEnd
  <2>2. disk.source.offset > Len(files[Len(files)])
    BY <1>1, <1>2, <1>4, <2>1, LogTypes, Positions
  <2> QED BY <1>4, <2>1, <2>2, EmptySeq DEF IInv, PastTheEnd
<1>7. SoundIn(state', files, present, written, lost)
  <2>1. \A f \in DOMAIN files : \A n \in DOMAIN files[f] : Beyond(state', f, n) <=> Beyond(state, f, n)
    BY <1>2, <1>5, <1>6 DEF Beyond
  <2>2. PassedIsAbsorbed(state', files, lost)
    BY <1>5, <2>1 DEF IInv, Sound, SoundIn, PassedIsAbsorbed
  <2>3. BetweenIsLost(state', files, present, lost)
    BY <1>5 DEF IInv, Sound, SoundIn, BetweenIsLost
  <2>4. AbsorbedBehind(state', files, written)
    BY <1>5, <2>1 DEF IInv, Sound, SoundIn, AbsorbedBehind
  <2> QED BY <1>5, <2>2, <2>3, <2>4 DEF IInv, Sound, SoundIn, Ordered
<1>8. Poll'
  BY <1>2, <1>3, <1>4, <1>5 DEF Poll
<1>9. disk.source.file <= state'.source.file
  BY <1>5, Positions
<1>10. state'.source.offset <= Len(files[Current])
  BY <1>1, <1>4, <1>5, LogTypes
<1> QED BY <1>1, <1>2, <1>3, <1>7, <1>8, <1>9, <1>10, SavedInv

\* The steps that leave both states as they are.
LEMMA QuietInv ==
  ASSUME IInv, StatSame \/ StatRotated \/ OpenLog \/ FollowEnds
  PROVE  IInv'
<1>1. TypeInv /\ TypeInv'
  BY MonitorStepType DEF IInv, Monitor
<1>2. UNCHANGED <<fsVars, state, disk>> /\ UNCHANGED <<files, present>>
  BY DEF StatSame, StatRotated, OpenLog, FollowEnds, fsVars
<1>3. CASE StatSame
  <2>1. pc' = "open" /\ identity' = Current /\ present /\ state.source.file = Current
    BY <1>3 DEF StatSame
  <2>2. Poll'
    BY <1>2, <2>1, Positions DEF Poll
  <2> QED BY <1>1, <1>2, <2>2, UnchangedInv
<1>4. CASE StatRotated
  <2>1. /\ pc' = "drain" /\ identity' = Current /\ handle' = state.source /\ present
        /\ state.source.file # Current
    BY <1>4 DEF StatRotated
  <2>2. state.source.file < Current
    BY <2>1, Positions
  <2>3. Poll'
    BY <1>2, <2>1, <2>2, Positions DEF Poll
  <2> QED BY <1>1, <1>2, <2>3, UnchangedInv
<1>5. CASE OpenLog
  <2>1. pc = "open" /\ present /\ state.source.file = Current
    BY <1>5, Positions DEF OpenLog, IInv, Poll
  <2>2. handle' = [file |-> Current, offset |-> state.source.offset] /\ pc' = "follow"
    BY <1>5, <2>1 DEF OpenLog
  <2>3. handle' = state.source
    BY <2>1, <2>2, Positions, StateTypes
  <2>4. Poll'
    BY <1>2, <2>2, <2>3 DEF Poll
  <2> QED BY <1>1, <1>2, <2>4, UnchangedInv
<1>6. CASE FollowEnds
  <2>1. Poll'
    BY <1>6 DEF FollowEnds, Poll
  <2> QED BY <1>1, <1>2, <2>1, UnchangedInv
<1> QED BY <1>3, <1>4, <1>5, <1>6

\* The line was written after all that was absorbed, so it is not among the
\* remembered ones: it is absorbed, and last.
LEMMA ReadLineInv ==
  ASSUME IInv, ReadLine
  PROVE  IInv'
<1> DEFINE f0 == state.source.file
           n0 == state.source.offset + 1
           line == files[f0][n0]
<1>1. TypeInv /\ TypeInv'
  BY MonitorStepType DEF IInv, Monitor
<1>2. /\ UNCHANGED fsVars /\ UNCHANGED <<files, present, identity>>
      /\ pc \in {"drain", "follow"} /\ handle' = [handle EXCEPT !.offset = @ + 1] /\ SaveState(pc)
      /\ handle.offset < Len(files[handle.file])
  BY DEF ReadLine, fsVars
<1>3. pc' \in {pc, "idle"} /\ disk' \in {state', disk}
  BY <1>2 DEF SaveState, SaveFails
<1>4. handle = state.source
  BY <1>2 DEF IInv, Poll
<1>5. /\ f0 \in 1..Len(files) /\ n0 \in 1..Len(files[f0]) /\ n0 = state.source.offset + 1
      /\ f0 \in DOMAIN files /\ n0 \in DOMAIN files[f0] /\ line \in Nat
      /\ f0 \in Nat /\ n0 \in Nat /\ Len(files[f0]) \in Nat /\ written \in Nat
  <2>1. /\ handle.file \in 1..Len(files) /\ handle.offset + 1 \in 1..Len(files[handle.file])
    BY <1>1, <1>2, NextLine
  <2>2. f0 \in 1..Len(files) /\ n0 \in 1..Len(files[f0])
    BY <1>4, <2>1
  <2> QED BY <1>1, <2>2, LogTypes, Positions
<1>6. /\ state'.source = [file |-> f0, offset |-> n0]
      /\ line \notin Elements(state.seen) =>
           /\ state'.absorbed = Append(state.absorbed, line)
           /\ Elements(state'.seen) \subseteq Elements(state.seen) \cup {line}
  BY <1>1, <1>4, ReadLineState
<1> HIDE DEF f0, n0, line
<1>7. /\ state.absorbed \in Seq(LineNo) /\ Len(state.absorbed) \in Nat
      /\ DOMAIN state.absorbed = 1..Len(state.absorbed)
      /\ \A a \in DOMAIN state.absorbed : state.absorbed[a] \in Nat
  BY Positions, StateTypes
<1>8. \A a \in DOMAIN state.absorbed : state.absorbed[a] < line
  <2>1. Beyond(state, f0, n0)
    BY <1>5, Positions DEF Beyond, f0
  <2> QED BY <1>5, <2>1 DEF IInv, Sound, SoundIn, AbsorbedBehind, line
<1>9. line \notin Elements(state.seen)
  <2>1. line \notin Elements(state.absorbed)
    BY <1>5, <1>7, <1>8 DEF Elements
  <2> QED BY <2>1 DEF IInv, Sound, SoundIn
<1> DEFINE all == Append(state.absorbed, line)
<1>10. /\ state'.absorbed = all /\ Elements(state'.seen) \subseteq Elements(state.seen) \cup {line}
       /\ state'.source.file = f0 /\ state'.source.offset = n0
  BY <1>6, <1>9
<1>11. line \in LineNo
  <2>1. files[f0] \in Seq(LineNo)
    BY <1>1, <1>5, LogTypes
  <2> QED BY <1>5, <2>1, ElementOfSeq DEF line
<1>12. /\ DOMAIN all = 1..(Len(state.absorbed) + 1)
       /\ \A a \in 1..Len(state.absorbed) : all[a] = state.absorbed[a]
       /\ all[Len(state.absorbed) + 1] = line
  BY <1>7, <1>11, AppendProperties
<1>13. Elements(all) = Elements(state.absorbed) \cup {line}
  BY <1>7, <1>11, AppendElements
<1> HIDE DEF all
<1>14. \A a \in DOMAIN all : (a \in DOMAIN state.absorbed /\ all[a] = state.absorbed[a])
                              \/ (a = Len(state.absorbed) + 1 /\ all[a] = line)
  BY <1>7, <1>12
\* What lies beyond the new position lay beyond the old one, after the line.
<1>15. \A f \in DOMAIN files : \A n \in DOMAIN files[f] :
         /\ Beyond(state', f, n) => Beyond(state, f, n) /\ line < files[f][n]
         /\ ~Beyond(state', f, n) => ~Beyond(state, f, n) \/ (f = f0 /\ n = n0)
  <2> TAKE f \in DOMAIN files
  <2> TAKE n \in DOMAIN files[f]
  <2>1. f \in Nat /\ n \in Nat
    BY <1>1, LogTypes
  <2>2. Beyond(state', f, n) => (f > f0 \/ (f = f0 /\ n > n0))
    BY <1>10 DEF Beyond
  <2>3. ~Beyond(state', f, n) => ~Beyond(state, f, n) \/ (f = f0 /\ n = n0)
    BY <1>5, <1>10, <2>1, Positions DEF Beyond, f0
  <2>4. (f > f0 \/ (f = f0 /\ n > n0)) => Beyond(state, f, n)
    BY <1>5, <2>1, Positions DEF Beyond, f0
  <2>5. (f > f0 \/ (f = f0 /\ n > n0)) => line < files[f][n]
    BY <1>5, <2>1 DEF IInv, FilesOrdered, line
  <2> QED BY <2>2, <2>3, <2>4, <2>5
<1>16. SoundIn(state', files, present, written, lost)
  <2>1. Elements(state'.seen) \subseteq Elements(state'.absorbed)
    BY <1>10, <1>13 DEF IInv, Sound, SoundIn
  <2>2. PassedIsAbsorbed(state', files, lost)
    BY <1>10, <1>13, <1>15 DEF IInv, Sound, SoundIn, PassedIsAbsorbed, line
  <2>3. BetweenIsLost(state', files, present, lost)
    BY <1>10 DEF IInv, Sound, SoundIn, BetweenIsLost, f0
  <2>4. AbsorbedBehind(state', files, written)
    <3> SUFFICES ASSUME NEW a \in DOMAIN all
                 PROVE  /\ all[a] <= written
                        /\ \A f \in DOMAIN files : \A n \in DOMAIN files[f] :
                             Beyond(state', f, n) => all[a] < files[f][n]
      BY <1>10 DEF AbsorbedBehind
    <3>1. CASE a \in DOMAIN state.absorbed /\ all[a] = state.absorbed[a]
      BY <1>15, <3>1 DEF IInv, Sound, SoundIn, AbsorbedBehind
    <3>2. CASE all[a] = line
      <4>1. line <= written
        BY <1>5 DEF IInv, LinesWritten, line
      <4> QED BY <1>15, <3>2, <4>1
    <3> QED BY <1>14, <3>1, <3>2
  <2>5. Ordered(state')
    <3> SUFFICES ASSUME NEW a \in DOMAIN all, NEW b \in DOMAIN all, a < b
                 PROVE  all[a] < all[b]
      BY <1>10 DEF Ordered
    <3>1. a \in DOMAIN state.absorbed /\ all[a] = state.absorbed[a]
      BY <1>7, <1>12
    <3>2. CASE b \in DOMAIN state.absorbed /\ all[b] = state.absorbed[b]
      BY <3>1, <3>2 DEF IInv, Sound, SoundIn, Ordered
    <3>3. CASE all[b] = line
      BY <1>8, <3>1, <3>3
    <3> QED BY <1>14, <3>2, <3>3
  <2> QED BY <2>1, <2>2, <2>3, <2>4, <2>5 DEF SoundIn
<1>17. Poll'
  <2>1. handle' = state'.source
    <3>1. state.source = [file |-> state.source.file, offset |-> state.source.offset]
      BY Positions, StateTypes
    <3>2. handle' = [state.source EXCEPT !.offset = state.source.offset + 1]
      BY <1>2, <1>4
    <3>3. state'.source = [file |-> state.source.file, offset |-> state.source.offset + 1]
      BY <1>6 DEF f0, n0
    <3> QED BY <3>1, <3>2, <3>3
  <2> QED BY <1>2, <1>3, <1>10, <2>1 DEF IInv, Poll, f0
<1>18. disk.source.file <= state'.source.file
  BY <1>10, Positions DEF f0
<1>19. state'.source.file = Current => state'.source.offset <= Len(files[Current])
  BY <1>5, <1>10
<1> QED BY <1>1, <1>2, <1>3, <1>16, <1>17, <1>18, <1>19, SavedInv

LEMMA DrainEndsInv ==
  ASSUME IInv, DrainEnds
  PROVE  IInv'
<1> DEFINE s == [file |-> identity, offset |-> 0]
<1>1. TypeInv /\ TypeInv'
  BY MonitorStepType DEF IInv, Monitor
<1>2. /\ UNCHANGED fsVars /\ UNCHANGED <<files, present, handle, identity>> /\ pc = "drain"
      /\ state' = [state EXCEPT !.source = s] /\ SaveState("open")
      /\ handle.offset >= Len(files[handle.file])
  BY DEF DrainEnds, fsVars
<1>3. pc' \in {"open", "idle"} /\ disk' \in {state', disk}
  BY <1>2 DEF SaveState, SaveFails
<1>4. present /\ identity = Len(files) /\ handle = state.source /\ state.source.file < identity
  BY <1>2 DEF IInv, Poll
<1>5. /\ Current \in 1..Len(files) /\ s \in Source /\ Current = Len(files) /\ Len(files) \in Nat
  BY <1>1, <1>4, LastFile
<1>6. state'.source = s /\ state'.seen = state.seen /\ state'.absorbed = state.absorbed
  BY <1>2, <1>5, Positions, SourceSet
<1>7. SoundIn(state', files, present, written, lost)
  <2>1. IsState(state) /\ Sound(state) /\ state.source.file \in Nat /\ state.source.offset \in Nat
    BY Positions DEF IInv
  <2>2. state.source.file >= 1 =>
          \A n \in DOMAIN files[state.source.file] : n <= state.source.offset
    <3> SUFFICES ASSUME state.source.file >= 1, NEW n \in DOMAIN files[state.source.file]
                 PROVE  n <= state.source.offset
      OBVIOUS
    <3>1. state.source.file \in 1..Len(files)
      BY <1>4, <1>5, <2>1
    <3>2. /\ DOMAIN files[state.source.file] = 1..Len(files[state.source.file])
          /\ Len(files[state.source.file]) \in Nat
      BY <1>1, <3>1, LogTypes
    <3> QED BY <1>2, <1>4, <2>1, <3>2
  <2>3. state.source.file < Len(files) /\ state'.source = [file |-> Len(files), offset |-> 0]
    BY <1>4, <1>6
  <2> QED BY <1>1, <1>4, <1>6, <2>1, <2>2, <2>3, SoundWhenAdvanced
<1>8. Poll'
  BY <1>2, <1>3, <1>4, <1>6 DEF Poll
<1>9. disk.source.file <= state'.source.file
  BY <1>4, <1>6, Positions
<1>10. state'.source.offset <= Len(files[Current])
  BY <1>1, <1>5, <1>6, LogTypes
<1> QED BY <1>1, <1>2, <1>3, <1>7, <1>8, <1>9, <1>10, SavedInv

LEMMA InitInv == Init => IInv
<1> SUFFICES ASSUME Init PROVE IInv
  OBVIOUS
<1>1. TypeInv
  BY InitType
<1>2. /\ files = <<>> /\ DOMAIN files = {} /\ Len(files) = 0
      /\ state = DefaultState /\ disk = DefaultState /\ pc = "down"
  BY EmptySeq DEF Init
<1>3. /\ DefaultState.source.file = 0 /\ DefaultState.seen = <<>>
      /\ DefaultState.absorbed = <<>> /\ DOMAIN DefaultState.absorbed = {}
  BY EmptySeq DEF DefaultState, NoSource
<1>4. Sound(state) /\ Sound(disk)
  BY <1>2, <1>3 DEF Sound, SoundIn, PassedIsAbsorbed, BetweenIsLost, AbsorbedBehind, Ordered,
                    Elements
<1>5. FilesOrdered /\ LinesWritten /\ PastTheEnd /\ Poll /\ disk.source.file <= state.source.file
  BY <1>2, <1>3 DEF FilesOrdered, LinesWritten, PastTheEnd, Poll
<1> QED BY <1>1, <1>4, <1>5 DEF IInv

LEMMA StepInv ==
  ASSUME IInv, Calm, [Next]_vars
  PROVE  IInv'
<1>1. CASE Next
  BY <1>1, WriteLineInv, RenameInv, CreateInv, TruncateInv, RemoveInv, RestartInv, StatFirstInv,
     StatTruncatedInv, QuietInv, ReadLineInv, DrainEndsInv DEF Next, Monitor
<1>2. CASE UNCHANGED vars
  <2>1. TypeInv'
    BY <1>2, StepType DEF IInv
  <2>2. UNCHANGED <<fsVars, state, disk>> /\ UNCHANGED <<files, present, pc, identity, handle>>
    BY <1>2 DEF vars, fsVars
  <2>3. Poll'
    BY <2>2 DEF IInv, Poll
  <2> QED BY <2>1, <2>2, <2>3, UnchangedInv
<1> QED BY <1>1, <1>2

\* The invariant says more than the two properties.
LEMMA InvSkipsNothing == IInv => NothingSkipped
<1> SUFFICES ASSUME IInv, NEW f \in 1..disk.source.file, NEW n \in 1..Len(files[f]),
                    f < disk.source.file \/ n <= disk.source.offset
             PROVE  files[f][n] \in Elements(disk.absorbed) \cup lost
  BY DEF NothingSkipped
<1>1. /\ disk.source.file \in Nat /\ disk.source.offset \in Nat
      /\ disk.source.file <= Len(files) /\ Len(files) \in Nat
  BY Positions
<1>2. f \in 1..Len(files)
  BY <1>1
<1>3. f \in DOMAIN files /\ n \in DOMAIN files[f] /\ n \in Nat /\ f \in Nat /\ f <= disk.source.file
  BY <1>1, <1>2, LogTypes DEF IInv
<1>4. ~Beyond(disk, f, n)
  BY <1>1, <1>3 DEF Beyond
<1> QED BY <1>3, <1>4 DEF IInv, Sound, SoundIn, PassedIsAbsorbed

\* With a calm log no line before the saved position was skipped, for any
\* number of files, lines, rotations, truncations, crashes and failed saves.
THEOREM NothingIsSkipped == Calm => (Spec => []NothingSkipped)
<1> SUFFICES ASSUME Calm PROVE Spec => []NothingSkipped
  OBVIOUS
<1>1. Init => IInv
  BY InitInv
<1>2. IInv /\ [Next]_vars => IInv'
  BY StepInv
<1>3. IInv => NothingSkipped
  BY InvSkipsNothing
<1> QED BY <1>1, <1>2, <1>3, PTL DEF Spec

\* With a calm log lines are absorbed once each and in the order written, also
\* when a line's digest has long left the bounded memory.
THEOREM LinesKeepTheirOrder == Calm => (Spec => []AbsorbedInOrder)
<1> SUFFICES ASSUME Calm PROVE Spec => []AbsorbedInOrder
  OBVIOUS
<1>1. Init => IInv
  BY InitInv
<1>2. IInv /\ [Next]_vars => IInv'
  BY StepInv
<1>3. IInv => AbsorbedInOrder
  BY DEF IInv, Sound, SoundIn, Ordered, AbsorbedInOrder
<1> QED BY <1>1, <1>2, <1>3, PTL DEF Spec

-----------------------------------------------------------------------------
(* The old file is drained.  That a line was passed does not say that it   *)
(* was absorbed, as it may have been lost: the files a state has named it  *)
(* has absorbed.                                                           *)

\* The lines of its file before its position.
OwnAbsorbed(st, log) ==
  \A f \in DOMAIN log : f = st.source.file =>
    \A n \in DOMAIN log[f] : n <= st.source.offset => log[f][n] \in Elements(st.absorbed)

\* The file of the saved position, when memory has gone on to another.
Drained(saved, st, log) ==
  \A f \in DOMAIN log : f = saved.source.file /\ f < st.source.file =>
    \A n \in DOMAIN log[f] : log[f][n] \in Elements(st.absorbed)

DrainInv ==
  /\ OwnAbsorbed(state, files) /\ OwnAbsorbed(disk, files)
  /\ Drained(disk, state, files)

\* What Cowrie and the file system do to a file disturbs neither.
LEMMA EnvironmentDrain ==
  ASSUME IInv, Calm, DrainInv, WriteLine \/ Rename \/ Create \/ Truncate \/ Removal
  PROVE  DrainInv'
<1>1. UNCHANGED <<state, disk>> /\ TypeInv
  BY DEF WriteLine, Rename, Create, Truncate, Removal, Remove, IInv
<1>2. CASE Rename
  BY <1>1, <1>2 DEF Rename, DrainInv
<1>3. CASE Create \/ Truncate \/ Removal
  <2>1. \A f \in DOMAIN files' : \A n \in DOMAIN files'[f] :
          f \in DOMAIN files /\ n \in DOMAIN files[f] /\ files'[f][n] = files[f][n]
    BY <1>1, <1>3, KeptLines
  <2>2. OwnAbsorbed(state, files') /\ OwnAbsorbed(disk, files') /\ Drained(disk, state, files')
    BY <2>1 DEF DrainInv, OwnAbsorbed, Drained
  <2> QED BY <1>1, <2>2 DEF DrainInv
<1>4. CASE WriteLine
  <2>1. \A f \in DOMAIN files' : \A n \in DOMAIN files'[f] :
          \/ f \in DOMAIN files /\ n \in DOMAIN files[f] /\ files'[f][n] = files[f][n]
          \/ f = Current /\ n = Len(files[Current]) + 1
    BY <1>1, <1>4, WrittenLines
  <2>2. Current = Len(files) /\ Len(files) \in Nat /\ Len(files[Current]) \in Nat
    BY <1>1, <1>4, LastFile, LogTypes DEF WriteLine
  <2>3. /\ disk.source.file = Current => ~(Len(files[Current]) + 1 <= disk.source.offset)
        /\ state.source.file = Current => ~(Len(files[Current]) + 1 <= state.source.offset)
    BY <1>4, <2>2, WriteFits, Positions
  <2>4. ~(Current < state.source.file)
    BY <2>2, Positions
  <2>5. OwnAbsorbed(state, files')
    BY <2>1, <2>3 DEF DrainInv, OwnAbsorbed
  <2>6. OwnAbsorbed(disk, files')
    BY <2>1, <2>3 DEF DrainInv, OwnAbsorbed
  <2>7. Drained(disk, state, files')
    BY <2>1, <2>4 DEF DrainInv, Drained
  <2> QED BY <1>1, <2>5, <2>6, <2>7 DEF DrainInv
<1> QED BY <1>2, <1>3, <1>4

\* What poll_once leaves in memory, compared with what was saved before.
LEMMA PollDrains ==
  ASSUME IInv, DrainInv, Monitor, ~Start
  PROVE  /\ files' = files /\ disk' \in {state', disk}
         /\ OwnAbsorbed(state', files) /\ Drained(disk, state', files)
         /\ disk.source.file <= state'.source.file
<1>1. TypeInv
  BY DEF IInv
<1>2. CASE StatSame \/ StatRotated \/ OpenLog \/ FollowEnds
  <2>1. UNCHANGED <<fsVars, state, disk>> /\ files' = files
    BY <1>2 DEF StatSame, StatRotated, OpenLog, FollowEnds, fsVars
  <2> QED BY <2>1, Positions DEF DrainInv
<1>3. CASE StatFirst
  <2> DEFINE s == [file |-> Current, offset |-> 0]
  <2>1. /\ files' = files /\ state' = [state EXCEPT !.source = s] /\ disk' \in {state', disk}
        /\ present /\ state.source.file = 0
    BY <1>3 DEF StatFirst, SaveState, SaveFails, fsVars, NoSource
  <2>2. Current \in 1..Len(files) /\ s \in Source
    BY <1>1, <2>1, LastFile
  <2>3. state'.source = s
    BY <2>1, <2>2, Positions, SourceSet
  <2>4. OwnAbsorbed(state', files)
    BY <1>1, <2>3, LogTypes DEF OwnAbsorbed
  <2>5. disk.source.file = 0 /\ disk.source.file <= state'.source.file
    BY <2>1, <2>2, <2>3, Positions
  <2>6. Drained(disk, state', files)
    BY <1>1, <2>5, LogTypes DEF Drained
  <2> QED BY <2>1, <2>4, <2>5, <2>6
<1>4. CASE StatTruncated
  <2> DEFINE s == [file |-> state.source.file, offset |-> 0]
  <2>1. /\ files' = files /\ state' = [state EXCEPT !.source.offset = 0] /\ SaveState("open")
        /\ present /\ state.source.file = Current
    BY <1>4 DEF StatTruncated, fsVars
  <2>2. disk' \in {state', disk}
    BY <2>1 DEF SaveState, SaveFails
  <2>3. state'.source = s /\ state'.absorbed = state.absorbed
    <3>1. state.source = [file |-> state.source.file, offset |-> state.source.offset]
      BY StateTypes, Positions
    <3>2. state' = [state EXCEPT !.source = s]
      BY <2>1, <3>1
    <3>3. s \in Source /\ IsState(state)
      BY <1>1, <2>1, LastFile, Positions
    <3> QED BY <3>2, <3>3, SourceSet
  <2>4. OwnAbsorbed(state', files)
    BY <1>1, <2>3, LogTypes DEF OwnAbsorbed
  <2>5. Drained(disk, state', files)
    BY <2>3 DEF DrainInv, Drained
  <2>6. disk.source.file <= state'.source.file
    BY <2>3, Positions
  <2> QED BY <2>1, <2>2, <2>4, <2>5, <2>6
<1>5. CASE ReadLine
  <2> DEFINE line == files[handle.file][handle.offset + 1]
  <2>1. /\ files' = files /\ SaveState(pc) /\ pc \in {"drain", "follow"}
        /\ handle.offset < Len(files[handle.file])
    BY <1>5 DEF ReadLine, fsVars
  <2>2. disk' \in {state', disk}
    BY <2>1 DEF SaveState, SaveFails
  <2>3. handle = state.source
    BY <2>1 DEF IInv, Poll
  <2>4. line \in LineNo
    BY <1>1, <2>1, NextLine
  <2>5. /\ state'.source = [file |-> state.source.file, offset |-> handle.offset + 1]
        /\ line \in Elements(state.seen) => state'.absorbed = state.absorbed
        /\ line \notin Elements(state.seen) => state'.absorbed = Append(state.absorbed, line)
    BY <1>1, <1>5, ReadLineState
  <2> HIDE DEF line
  <2>6. Elements(state.absorbed) \subseteq Elements(state'.absorbed)
        /\ line \in Elements(state'.absorbed)
    <3>1. CASE line \in Elements(state.seen)
      BY <2>5, <3>1 DEF IInv, Sound, SoundIn
    <3>2. CASE line \notin Elements(state.seen)
      <4>1. state.absorbed \in Seq(LineNo)
        BY Positions, StateTypes
      <4> QED BY <2>4, <2>5, <3>2, <4>1, AppendElements
    <3> QED BY <3>1, <3>2
  <2>7. OwnAbsorbed(state', files)
    <3> SUFFICES ASSUME NEW f \in DOMAIN files, f = state.source.file,
                        NEW n \in DOMAIN files[f], n <= state.source.offset + 1
                 PROVE  files[f][n] \in Elements(state'.absorbed)
      BY <2>3, <2>5 DEF OwnAbsorbed
    <3>1. n \in Nat /\ state.source.offset \in Nat
      BY <1>1, LogTypes, Positions
    <3>2. CASE n = state.source.offset + 1
      BY <2>3, <2>6, <3>2 DEF line
    <3>3. CASE n <= state.source.offset
      BY <2>6, <3>3 DEF DrainInv, OwnAbsorbed
    <3> QED BY <3>1, <3>2, <3>3
  <2>8. Drained(disk, state', files)
    BY <2>5, <2>6 DEF DrainInv, Drained
  <2>9. disk.source.file <= state'.source.file
    BY <2>5, Positions
  <2> QED BY <2>1, <2>2, <2>7, <2>8, <2>9
<1>6. CASE DrainEnds
  <2> DEFINE s == [file |-> identity, offset |-> 0]
  <2>1. /\ files' = files /\ state' = [state EXCEPT !.source = s] /\ disk' \in {state', disk}
        /\ pc = "drain" /\ handle.offset >= Len(files[handle.file])
    BY <1>6 DEF DrainEnds, SaveState, SaveFails, fsVars
  <2>2. present /\ identity = Len(files) /\ handle = state.source /\ state.source.file < identity
    BY <2>1 DEF IInv, Poll
  <2>3. s \in Source /\ Len(files) \in Nat
    BY <1>1, <2>2, LastFile DEF Current
  <2>4. state'.source = s /\ state'.absorbed = state.absorbed
    BY <2>1, <2>3, Positions, SourceSet
  <2>5. OwnAbsorbed(state', files)
    BY <1>1, <2>4, LogTypes DEF OwnAbsorbed
  <2>6. Drained(disk, state', files)
    <3> SUFFICES ASSUME NEW f \in DOMAIN files, f = disk.source.file, NEW n \in DOMAIN files[f]
                 PROVE  files[f][n] \in Elements(state.absorbed)
      BY <2>4 DEF Drained
    <3>1. CASE f < state.source.file
      BY <3>1 DEF DrainInv, Drained
    <3>2. CASE f = state.source.file
      <4>1. n <= state.source.offset
        BY <1>1, <2>1, <2>2, <3>2, LogTypes, Positions
      <4> QED BY <3>2, <4>1 DEF DrainInv, OwnAbsorbed
    <3> QED BY <3>1, <3>2, Positions
  <2>7. disk.source.file <= state'.source.file
    BY <2>2, <2>3, <2>4, Positions
  <2> QED BY <2>1, <2>5, <2>6, <2>7
<1> QED BY <1>2, <1>3, <1>4, <1>5, <1>6 DEF Monitor

LEMMA StepDrain ==
  ASSUME IInv, Calm, DrainInv, [Next]_vars
  PROVE  DrainInv'
<1>1. CASE Monitor /\ ~Start
  <2>1. /\ files' = files /\ disk' \in {state', disk}
        /\ OwnAbsorbed(state', files) /\ Drained(disk, state', files)
    BY <1>1, PollDrains
  <2>2. state'.source.file \in Nat
    BY <1>1, StateTypes, MonitorStepType DEF IInv, TypeInv, TypeOK
  <2>3. OwnAbsorbed(disk', files)
    BY <2>1 DEF DrainInv
  <2>4. Drained(disk', state', files)
    <3>1. CASE disk' = disk
      BY <2>1, <3>1
    <3>2. CASE disk' = state'
      BY <2>2, <3>2 DEF Drained
    <3> QED BY <2>1, <3>1, <3>2
  <2> QED BY <2>1, <2>3, <2>4 DEF DrainInv
<1>2. CASE Start \/ Crash
  <2>1. files' = files /\ state' = disk /\ disk' = disk
    BY <1>2 DEF Start, Crash, fsVars
  <2>2. Drained(disk, disk, files)
    BY Positions DEF Drained
  <2> QED BY <2>1, <2>2 DEF DrainInv
<1>3. CASE UNCHANGED vars
  BY <1>3 DEF vars, fsVars, DrainInv
<1> QED BY <1>1, <1>2, <1>3, EnvironmentDrain DEF Next

\* When the saved source goes to another file, the one before was absorbed whole.
LEMMA StepDrains ==
  ASSUME IInv, Calm, DrainInv, [Next]_vars,
         disk.source # NoSource, disk'.source.file # disk.source.file
  PROVE  Elements(files[disk.source.file]) \subseteq Elements(disk'.absorbed)
<1>1. Monitor /\ ~Start
  BY DEF WriteLine, Rename, Create, Truncate, Removal, Remove, Crash, Start, Next, vars
<1>2. /\ disk' \in {state', disk} /\ Drained(disk, state', files)
      /\ disk.source.file <= state'.source.file
  BY <1>1, PollDrains
<1>3. disk' = state'
  BY <1>2
<1>4. disk.source.file \in DOMAIN files
  <2>1. disk.source.file # 0
    BY Positions, StateTypes DEF Placed, NoSource
  <2> QED BY <2>1, Positions, LogTypes DEF IInv
<1>5. state'.source.file \in Nat
  BY <1>1, StateTypes, MonitorStepType DEF IInv, TypeInv, TypeOK
<1>6. disk.source.file < state'.source.file
  BY <1>2, <1>3, <1>5, Positions
<1> QED BY <1>2, <1>3, <1>4, <1>6 DEF Drained, Elements

\* With a calm log the old inode is drained before the source goes to another
\* file, whatever crashes and however often the log is rotated in between.
THEOREM OldInodeIsDrained == Calm => (Spec => OldInodeDrained)
<1> SUFFICES ASSUME Calm PROVE Spec => OldInodeDrained
  OBVIOUS
<1>1. Init => IInv /\ DrainInv
  <2>1. Init => DrainInv
    BY EmptySeq DEF Init, DrainInv, OwnAbsorbed, Drained
  <2> QED BY <2>1, InitInv
<1>2. IInv /\ DrainInv /\ [Next]_vars => IInv' /\ DrainInv'
  BY StepInv, StepDrain
<1>3. IInv /\ DrainInv /\ [Next]_vars =>
        [disk.source # NoSource /\ disk'.source.file # disk.source.file
           => Elements(files[disk.source.file]) \subseteq Elements(disk'.absorbed)]_vars
  BY StepDrains
<1> QED BY <1>1, <1>2, <1>3, PTL DEF Spec, OldInodeDrained

=============================================================================
