-------------------------- MODULE S3EvidenceProofs --------------------------
(***************************************************************************)
(* Proofs of what the bytes of the evidence are, for every value of the    *)
(* constants: objects are whole records, an anchor that still matches      *)
(* vouches for all that lies before it, and a record is counted once.      *)
(* The archive sees the text of a window only.  Cowrie never writes a byte *)
(* of an event again, so what was read from a log agrees with it up to any *)
(* position at which it agrees at all: a window vouches for its prefix     *)
(* unless another incarnation repeats its text, and a generation in which  *)
(* that has happened is one these proofs say nothing of.                   *)
(***************************************************************************)
EXTENDS S3ArchiveProofs, FiniteSetTheorems

Reading == {"opened", "captured", "segment"} \cup Uploading

\* Cowrie is in the middle of a record.
Open(bytes) == bytes # <<>> /\ ~bytes[Len(bytes)].lf

\* The byte was written, and will not be written again.
Past(b) ==
  \/ b.event < logged
  \/ b.event = logged /\ (b.lf => ~Open(content[current]))

\* Records of a log: one LF byte, or a first byte and the LF byte after it.
Records(bytes) ==
  \A p \in DOMAIN bytes :
    /\ bytes[p].event # 0
    /\ bytes[p].lf /\ Width(bytes[p].event) = 2
         => p > 1 /\ bytes[p - 1] = [event |-> bytes[p].event, lf |-> FALSE]
    /\ ~bytes[p].lf
         => /\ Width(bytes[p].event) = 2
            /\ p < Len(bytes) => bytes[p + 1] = [event |-> bytes[p].event, lf |-> TRUE]

\* Where two readings of a log agree, they agree on everything before.
Agree(s, t) ==
  \A n \in DOMAIN s \cap DOMAIN t : s[n] = t[n] => \A m \in 1..n : s[m] = t[m]

\* No window of the generation was taken for another incarnation's.
Trusted(i, g) == <<i, g>> \notin repeats

\* Byte p of generation g of inode i is in the bucket, and it reads as b does.
HoldsByte(i, g, p, b) ==
  \E k \in objects : Holds(k, i, g, p) /\ k.data[p - k.start] = Seen(b)

\* The last byte of an anchor.
Mark(l) == l.anchor.window[Len(l.anchor.window)]

\* Lineage l of inode i was taken at the end of a record, and if the log still
\* has that record's LF there, the bucket has the log up to it.
Vouches(i, l) ==
  Trusted(i, l.generation) /\ l.offset > 0 =>
    /\ l.anchor.window # <<>>
    /\ Mark(l) \in Byte /\ Mark(l).lf /\ Past(Mark(l))
    /\ l.offset <= Len(content[i]) /\ content[i][l.offset] = Mark(l)
         => \A p \in 1..l.offset : HoldsByte(i, l.generation, p, content[i][p])

\* The logs: only the current one may end within a record, that of the last event.
LogsSound ==
  \A i \in Inodes :
    /\ Records(content[i])
    /\ \A p \in DOMAIN content[i] : Past(content[i][p])
    /\ Open(content[i]) => i = current /\ content[i][Len(content[i])].event = logged

\* An object of a generation to be trusted is one whole record.
Whole(k) ==
  /\ Len(k.data) = k.end - k.start
  /\ Trusted(k.inode, k.generation) => IsRecord(k.data)

\* What the run knows of the descriptor's bytes: they are a log's, and the
\* bucket has them up to the offset of the lineage, which ends a record.
Known(i, l, bytes) ==
  /\ Records(bytes)
  /\ \A p \in DOMAIN bytes : Past(bytes[p])
  /\ Agree(bytes, content[i])
  /\ l.offset <= Len(bytes)
  /\ l.offset > 0 => bytes[l.offset].lf
  /\ \A p \in 1..l.offset : HoldsByte(i, l.generation, p, bytes[p])

\* The generation of the source that is open.
TrustedSource == Trusted(src.inode, lineages[src.inode].generation)

SourceSound ==
  pc \in Reading /\ TrustedSource => Known(src.inode, lineages[src.inode], view)

\* A snapshot agrees with the first fstat's bytes, and is them once it is stable.
SnapshotSound ==
  /\ pc = "captured" /\ TrustedSource => Agree(view, snapshot)
  /\ pc \in {"segment"} \cup Uploading /\ TrustedSource => snapshot = view
  /\ pc \in Uploading =>
       /\ segment.data = Text(SubSeq(snapshot, segment.start + 1, segment.end))
       /\ snapshot[segment.end].lf
       /\ Whole(segment)

\* The records the saved state has passed.
Counted ==
  {k \in objects : \/ k.generation < saved[k.inode].generation
                   \/ /\ k.generation = saved[k.inode].generation
                      /\ k.end <= saved[k.inode].offset}

CountInv == IsFiniteSet(objects) /\ uploaded <= Cardinality(Counted)

\* The inductive invariant.
ByteInv ==
  /\ LogsSound
  /\ \A i \in Inodes : Vouches(i, saved[i]) /\ Vouches(i, lineages[i])
  /\ SourceSound
  /\ SnapshotSound
  /\ ObjectsAreWholeRecords

EInv == IInv /\ ByteInv /\ CountInv

-----------------------------------------------------------------------------
(* What the operators return.                                              *)

\* The last byte of an anchor is the byte before its offset.
LEMMA AnchorMark ==
  ASSUME NEW bytes \in Seq(Byte), NEW end \in Nat, 0 < end, end <= Len(bytes)
  PROVE  /\ DescriptorAnchor(bytes, end).offset = end
         /\ DescriptorAnchor(bytes, end).window # <<>>
         /\ Mark([anchor |-> DescriptorAnchor(bytes, end)]) = bytes[end]
<1> DEFINE first == (IF end > AnchorBytes THEN end - AnchorBytes ELSE 0) + 1
           w == SubSeq(bytes, first, end)
<1>1. first \in 1..end
  BY ArchiveAssumption
<1>2. Len(w) = end - first + 1 /\ w[Len(w)] = bytes[end]
  BY <1>1
<1> HIDE DEF first
<1>3. DescriptorAnchor(bytes, end) = [offset |-> end, window |-> w]
  BY DEF DescriptorAnchor, first
<1>4. w # <<>>
  BY <1>1, <1>2
<1> HIDE DEF w
<1> QED BY <1>2, <1>3, <1>4 DEF Mark

\* A lineage lineage_for accepts, and rightly, has the end of its anchor in the log.
LEMMA AcceptedMark ==
  ASSUME NEW l \in Lineage, NEW bytes \in Seq(Byte),
         LineageFor(l, bytes) = l, l.offset > 0, ~Mistaken(l, bytes)
  PROVE  l.offset <= Len(bytes) /\ bytes[l.offset] = Mark(l)
<1>1. l.offset \in Nat /\ l.generation \in Nat
  BY DEF Lineage
<1>2. ResetGeneration(l) # l
  BY <1>1 DEF ResetGeneration
<1>3. l.offset <= Len(bytes) /\ l.anchor = DescriptorAnchor(bytes, l.offset)
  BY <1>1, <1>2 DEF LineageFor, Mistaken, Repeats
<1> QED BY <1>1, <1>3, AnchorMark DEF Mark

\* Byte p of a log is byte p - m of what is cut off at m.
LEMMA SliceAt ==
  ASSUME NEW s \in Seq(Byte), NEW m \in Nat, NEW n \in Nat, n <= Len(s),
         NEW p \in (m + 1)..n
  PROVE  SubSeq(s, m + 1, n)[p - m] = s[p]
<1>1. p - m \in 1..(n - m) /\ (m + 1) + (p - m) - 1 = p
  OBVIOUS
<1> QED BY <1>1

-----------------------------------------------------------------------------
(* The logs.                                                               *)

\* How a log changes: not at all, to nothing, or by a byte it never had.
LogMoves(i) ==
  \/ content'[i] = content[i]
  \/ content'[i] = <<>>
  \/ \E b \in Byte : ~Past(b) /\ Past(b)' /\ content'[i] = Append(content[i], b)


\* The byte that may follow: the LF of a record under way, or the first byte of
\* the record of the next event.
Follows(b, log, n) ==
  \/ Open(log) /\ b = [event |-> log[Len(log)].event, lf |-> TRUE]
  \/ ~Open(log) /\ b = [event |-> n + 1, lf |-> Width(n + 1) = 1]

\* That byte leaves the log one of records, unfinished unless it is an LF.
LEMMA AppendRecords ==
  ASSUME NEW log \in Seq(Byte), NEW n \in Nat, NEW b \in Byte,
         Records(log), Follows(b, log, n)
  PROVE  /\ Records(Append(log, b))
         /\ Open(Append(log, b)) <=> ~b.lf
<1> DEFINE c == Append(log, b)
<1>1. /\ c \in Seq(Byte) /\ Len(c) = Len(log) + 1 /\ c[Len(c)] = b
      /\ DOMAIN log = 1..Len(log) /\ DOMAIN c = 1..(Len(log) + 1)
      /\ \A p \in 1..Len(log) : c[p] = log[p]
      /\ c # <<>> /\ Len(log) \in Nat
  <2>1. c \in Seq(Byte) /\ Len(c) = Len(log) + 1 /\ c[Len(c)] = b /\ Len(log) \in Nat
    OBVIOUS
  <2>2. \A p \in 1..Len(log) : c[p] = log[p]
    OBVIOUS
  <2> HIDE DEF c
  <2>3. DOMAIN log = 1..Len(log) /\ DOMAIN c = 1..(Len(log) + 1) /\ c # <<>>
    BY <2>1
  <2> QED BY <2>1, <2>2, <2>3
<1> HIDE DEF c
<1>2. Open(c) <=> ~b.lf
  BY <1>1 DEF Open
<1>3. Width(n + 1) \in {1, 2}
  BY DEF Width
<1>4. log # <<>> => Len(log) \in DOMAIN log /\ log[Len(log)] \in Byte
  OBVIOUS
<1>5. ASSUME ~Open(log)
      PROVE  b.event = n + 1 /\ (b.lf <=> Width(n + 1) = 1)
  <2>1. b = [event |-> n + 1, lf |-> Width(n + 1) = 1]
    BY <1>5 DEF Follows
  <2> QED BY <2>1, Zenon
<1>6. ASSUME Open(log)
      PROVE  /\ b.event = log[Len(log)].event /\ b.lf
             /\ b = [event |-> log[Len(log)].event, lf |-> TRUE]
  BY <1>6 DEF Follows
<1>7. ASSUME NEW p \in DOMAIN c, c[p].lf, Width(c[p].event) = 2
      PROVE  p > 1 /\ c[p - 1] = [event |-> c[p].event, lf |-> FALSE]
  <2>1. CASE p \in DOMAIN log
    <3>1. p > 1 /\ log[p - 1] = [event |-> log[p].event, lf |-> FALSE]
      BY <1>1, <1>7, <2>1 DEF Records
    <3>2. p - 1 \in 1..Len(log) /\ p \in 1..Len(log)
      BY <1>1, <2>1, <3>1
    <3>3. c[p - 1] = log[p - 1] /\ c[p] = log[p]
      BY <1>1, <3>2
    <3> QED BY <3>1, <3>3
  <2>2. CASE p = Len(log) + 1
    <3>1. Open(log) /\ b = [event |-> log[Len(log)].event, lf |-> TRUE]
      <4>1. b.lf /\ Width(b.event) = 2
        BY <1>1, <1>7, <2>2
      <4> QED BY <4>1, <1>5, <1>6
    <3>2. log # <<>> /\ ~log[Len(log)].lf
      BY <3>1 DEF Open
    <3>3. log[Len(log)] = [event |-> b.event, lf |-> FALSE]
      BY <1>4, <3>1, <3>2 DEF Byte
    <3>4. Len(log) >= 1 /\ p - 1 = Len(log) /\ c[p] = b
      BY <1>1, <2>2, <3>2
    <3>5. c[p - 1] = log[Len(log)]
      BY <1>1, <3>4
    <3> QED BY <1>1, <3>3, <3>4, <3>5
  <2> QED BY <1>1, <2>1, <2>2
<1>8. ASSUME NEW p \in DOMAIN c, ~c[p].lf
      PROVE  /\ Width(c[p].event) = 2
             /\ p < Len(c) => c[p + 1] = [event |-> c[p].event, lf |-> TRUE]
  <2>1. CASE p \in DOMAIN log
    <3>1. Width(log[p].event) = 2
          /\ (p < Len(log) => log[p + 1] = [event |-> log[p].event, lf |-> TRUE])
      BY <1>1, <1>8, <2>1 DEF Records
    <3>2. CASE p < Len(log)
      <4>1. c[p + 1] = log[p + 1] /\ c[p] = log[p]
        BY <1>1, <2>1, <3>2
      <4> QED BY <3>1, <3>2, <4>1
    <3>3. CASE p = Len(log)
      <4>1. Open(log)
        BY <1>1, <1>8, <2>1, <3>3 DEF Open
      <4>2. b = [event |-> log[p].event, lf |-> TRUE]
        BY <3>3, <4>1, <1>6
      <4>3. c[p + 1] = b /\ c[p] = log[p]
        BY <1>1, <2>1, <3>3
      <4> QED BY <3>1, <4>2, <4>3
    <3> QED BY <1>1, <2>1, <3>2, <3>3
  <2>2. CASE p = Len(log) + 1
    <3>1. ~b.lf
      BY <1>1, <1>8, <2>2
    <3>2. Width(b.event) = 2
      BY <1>3, <1>5, <1>6, <3>1
    <3> QED BY <1>1, <2>2, <3>2
  <2> QED BY <1>1, <2>1, <2>2
<1>10. ASSUME NEW p \in DOMAIN c PROVE c[p].event # 0
  <2>1. CASE p \in DOMAIN log
    BY <1>1, <2>1 DEF Records
  <2>2. CASE p = Len(log) + 1 /\ Open(log)
    <3>1. Len(log) \in DOMAIN log
      BY <1>4, <2>2 DEF Open
    <3>2. log[Len(log)].event # 0
      BY <3>1 DEF Records
    <3>3. c[p] = b /\ b.event = log[Len(log)].event
      BY <1>1, <1>6, <2>2
    <3> QED BY <3>2, <3>3
  <2>3. CASE p = Len(log) + 1 /\ ~Open(log)
    BY <1>1, <1>5, <2>3
  <2> QED BY <1>1, <2>1, <2>2, <2>3
<1>9. Records(c)
  BY <1>7, <1>8, <1>10 DEF Records
<1> QED BY <1>2, <1>9 DEF c

\* The byte Cowrie flushes is new, and completes or starts a record.
LEMMA WriteFacts ==
  ASSUME TypeOK, LogsSound, WriteByte
  PROVE  /\ LogsSound'
         /\ \A i \in Inodes : LogMoves(i)
         /\ \A x \in Byte : Past(x) => Past(x)'
<1>1. content[current] \in Seq(Byte) /\ current \in Inodes /\ logged \in Nat
      /\ content \in [Inodes -> Seq(Byte)]
  BY DEF TypeOK
<1>2. PICK b : /\ Follows(b, content[current], logged)
               /\ content' = [content EXCEPT ![current] = Append(@, b)]
               /\ logged' = b.event /\ current' = current
  <2> DEFINE log == content[current]
             e == IF Open(log) THEN log[Len(log)].event ELSE logged + 1
             b == [event |-> e, lf |-> Open(log) \/ Width(e) = 1]
  <2>1. /\ content' = [content EXCEPT ![current] = Append(@, b)]
        /\ logged' = e /\ current' = current
    BY DEF WriteByte, Open
  <2>2. CASE Open(log)
    <3>1. e = log[Len(log)].event /\ (Open(log) \/ Width(e) = 1) = TRUE
      BY <2>2
    <3>2. b = [event |-> log[Len(log)].event, lf |-> TRUE]
      BY <3>1
    <3> HIDE DEF b, e
    <3>3. Follows(b, log, logged) /\ b.event = e
      BY <2>2, <3>1, <3>2 DEF Follows
    <3> QED BY <2>1, <3>3 DEF b
  <2>3. CASE ~Open(log)
    <3>1. e = logged + 1 /\ (Open(log) \/ Width(e) = 1) = (Width(logged + 1) = 1)
      BY <2>3
    <3>2. b = [event |-> logged + 1, lf |-> Width(logged + 1) = 1]
      BY <3>1
    <3> HIDE DEF b, e
    <3>3. Follows(b, log, logged) /\ b.event = e
      BY <2>3, <3>1, <3>2 DEF Follows
    <3> QED BY <2>1, <3>3 DEF b
  <2> QED BY <2>2, <2>3
<1>3. Open(content[current]) => content[current][Len(content[current])].event = logged
  BY <1>1 DEF LogsSound
<1>4. b \in Byte /\ b.event = (IF Open(content[current]) THEN logged ELSE logged + 1)
      /\ (Open(content[current]) => b.lf)
  <2>1. CASE Open(content[current])
    <3>1. b = [event |-> logged, lf |-> TRUE]
      BY <1>2, <1>3, <2>1 DEF Follows
    <3> QED BY <1>1, <2>1, <3>1 DEF Byte
  <2>2. CASE ~Open(content[current])
    <3>1. b = [event |-> logged + 1, lf |-> Width(logged + 1) = 1]
      BY <1>2, <2>2 DEF Follows
    <3>2. logged + 1 \in Nat /\ (Width(logged + 1) = 1) \in BOOLEAN
      BY <1>1
    <3> QED BY <2>2, <3>1, <3>2 DEF Byte
  <2> QED BY <2>1, <2>2
<1>5. content'[current] = Append(content[current], b)
      /\ \A i \in Inodes : i # current => content'[i] = content[i]
  BY <1>1, <1>2
<1>6. Records(content[current])
  BY <1>1 DEF LogsSound
<1>7. Records(content'[current]) /\ (Open(content'[current]) <=> ~b.lf)
  BY <1>1, <1>2, <1>4, <1>5, <1>6, AppendRecords
<1>8. ~Past(b)
  BY <1>1, <1>4 DEF Past
<1>9. \A x \in Byte : Past(x) \/ x = b => Past(x)'
  BY <1>1, <1>2, <1>4, <1>7 DEF Past, Byte
<1>10. \A i \in Inodes : LogMoves(i)
  BY <1>1, <1>4, <1>5, <1>8, <1>9 DEF LogMoves
<1>11. ASSUME NEW i \in Inodes
       PROVE  /\ Records(content'[i])
              /\ \A p \in DOMAIN content'[i] : content'[i][p] \in Byte
                    /\ (Past(content'[i][p]) \/ content'[i][p] = b)
              /\ Open(content'[i])
                   => i = current' /\ content'[i][Len(content'[i])].event = logged'
  <2>1. CASE i # current
    <3>1. content'[i] = content[i] /\ content[i] \in Seq(Byte)
      BY <1>1, <1>5, <2>1
    <3> QED BY <2>1, <3>1 DEF LogsSound
  <2>2. CASE i = current
    <3>1. \A p \in DOMAIN content[i] : Past(content[i][p])
      BY DEF LogsSound
    <3> QED BY <1>1, <1>2, <1>4, <1>5, <1>7, <2>2, <3>1
  <2> QED BY <2>1, <2>2
<1>12. \A i \in Inodes : \A p \in DOMAIN content'[i] : Past(content[i][p])'
  <2>1. ASSUME NEW i \in Inodes, NEW p \in DOMAIN content'[i] PROVE Past(content[i][p])'
    <3>1. PICK x : x = content'[i][p]
      OBVIOUS
    <3>2. Past(x)'
      BY <1>9, <1>11, <3>1
    <3> QED BY <3>1, <3>2 DEF Past
  <2> QED BY <2>1
<1> QED BY <1>9, <1>10, <1>11, <1>12 DEF LogsSound

\* Every step leaves the logs sound, and what was written stays written.
LEMMA LogStep ==
  ASSUME TypeOK, LogsSound, [Next]_vars
  PROVE  /\ LogsSound'
         /\ \A i \in Inodes : LogMoves(i)
         /\ \A x \in Byte : Past(x) => Past(x)'
<1>1. CASE WriteByte
  BY <1>1, WriteFacts
<1>2. CASE Rotate
  <2>1. UNCHANGED <<content, logged>> /\ current' \in Inodes /\ current' # current
        /\ ~Open(content[current])
    BY <1>2 DEF Rotate, Open
  <2>2. \A i \in Inodes : ~Open(content[i])
    BY <2>1 DEF LogsSound
  <2>3. \A x : Past(x) => Past(x)'
    BY <2>1, <2>2 DEF Past
  <2> QED BY <2>1, <2>2, <2>3 DEF LogsSound, LogMoves
<1>3. CASE Truncate
  <2>1. UNCHANGED <<current, logged>> /\ current \in Inodes
        /\ content' = [content EXCEPT ![current] = <<>>]
        /\ content \in [Inodes -> Seq(Byte)]
    BY <1>3 DEF Truncate, TypeOK
  <2>2. ~Open(<<>>) /\ Records(<<>>)
    BY DEF Open, Records
  <2>3. \A x : Past(x) => Past(x)'
    BY <2>1, <2>2 DEF Past
  <2>4. \A i \in Inodes : content'[i] = IF i = current THEN <<>> ELSE content[i]
    BY <2>1
  <2> QED BY <2>1, <2>2, <2>3, <2>4 DEF LogsSound, LogMoves
<1>4. CASE UNCHANGED logVars
  BY <1>4 DEF logVars, LogsSound, LogMoves, Past
<1> QED
  BY <1>1, <1>2, <1>3, <1>4
  DEF Next, Environment, Step, BeginRun, OpenSource,
      ReadSnapshot, CheckStable, NextSegment, PutData, PutManifest,
      ManifestDiffers, PutAmbiguous, SaveSegment, EndRun, RunDies, vars

\* A generation once not to be trusted stays so.
LEMMA RepeatsGrow == [Next]_vars => repeats \subseteq repeats'
BY DEF Next, Environment, Step, WriteByte, Rotate, Truncate, BeginRun, OpenSource,
    ReadSnapshot, CheckStable, NextSegment, PutData, PutManifest,
    ManifestDiffers, PutAmbiguous, SaveSegment, EndRun, RunDies, vars,
    logVars, storeVars, diskVars, runVars

\* What was read from a log goes on agreeing with it.
LEMMA AgreeStep ==
  ASSUME TypeOK, LogsSound, [Next]_vars, NEW i \in Inodes,
         NEW s \in Seq(Byte), \A p \in DOMAIN s : Past(s[p]),
         Agree(s, content[i])
  PROVE  Agree(s, content'[i]) /\ \A p \in DOMAIN s : Past(s[p])'
<1>1. content[i] \in Seq(Byte)
  BY DEF TypeOK
<1>2. \A p \in DOMAIN s : Past(s[p])'
  BY LogStep
<1>3. CASE \E b \in Byte : ~Past(b) /\ content'[i] = Append(content[i], b)
  <2>1. PICK b \in Byte : ~Past(b) /\ content'[i] = Append(content[i], b)
    BY <1>3
  <2>2. ASSUME NEW n \in DOMAIN s \cap DOMAIN content'[i], s[n] = content'[i][n]
        PROVE  \A m \in 1..n : s[m] = content'[i][m]
    <3>1. n # Len(content[i]) + 1
      BY <1>1, <2>1, <2>2
    <3>2. n \in DOMAIN content[i] /\ \A m \in 1..n : content'[i][m] = content[i][m]
      BY <1>1, <2>1, <3>1
    <3> QED BY <2>2, <3>2 DEF Agree
  <2> QED BY <1>2, <2>2 DEF Agree
<1>4. CASE content'[i] = content[i] \/ content'[i] = <<>>
  BY <1>2, <1>4 DEF Agree
<1> QED BY <1>3, <1>4, LogStep DEF LogMoves

\* A lineage goes on vouching for its prefix: a log that has lost its mark never
\* has it again.
LEMMA VouchesStep ==
  ASSUME TypeOK, LogsSound, [Next]_vars, NEW i \in Inodes, NEW l \in Lineage,
         Vouches(i, l)
  PROVE  Vouches(i, l)'
<1> SUFFICES ASSUME Trusted(i, l.generation)', l.offset > 0 PROVE Vouches(i, l)'
  BY DEF Vouches
<1>0. Trusted(i, l.generation)
  BY RepeatsGrow DEF Trusted
<1>1. content[i] \in Seq(Byte) /\ l.offset \in Nat
  BY DEF TypeOK, Lineage
<1>2. Mark(l) \in Byte /\ Mark(l).lf /\ Past(Mark(l)) /\ l.anchor.window # <<>>
  BY <1>0 DEF Vouches
<1>3. Past(Mark(l))'
  BY <1>2, LogStep
<1>4. ASSUME l.offset <= Len(content'[i]), content'[i][l.offset] = Mark(l),
             NEW p \in 1..l.offset
      PROVE  HoldsByte(i, l.generation, p, content[i][p])'
  <2>1. content'[i] = content[i] \/ \E b \in Byte : ~Past(b) /\ content'[i] = Append(content[i], b)
    <3>1. content'[i] # <<>>
      BY <1>1, <1>4
    <3> QED BY <3>1, LogStep DEF LogMoves
  <2>2. l.offset <= Len(content[i]) /\ \A q \in 1..l.offset : content'[i][q] = content[i][q]
    BY <1>1, <1>2, <1>4, <2>1
  <2>3. HoldsByte(i, l.generation, p, content[i][p])
    BY <1>0, <1>1, <1>4, <2>2 DEF Vouches
  <2> QED BY <2>2, <2>3, StoreGrows DEF HoldsByte, Holds
<1> QED BY <1>2, <1>3, <1>4 DEF Vouches

-----------------------------------------------------------------------------
(* One source.                                                             *)

\* What is known of a descriptor's bytes stays known while it is read.
LEMMA KnownAfter ==
  ASSUME TypeOK, LogsSound, [Next]_vars, NEW i \in Inodes, NEW l \in Lineage,
         NEW s \in Seq(Byte), Known(i, l, s),
         src'.inode = i, lineages'[i] = l, view' = s
  PROVE  Known(src.inode, lineages[src.inode], view)'
<1>1. Agree(s, content'[i]) /\ \A p \in DOMAIN s : Past(s[p])'
  BY AgreeStep DEF Known
<1>2. \A p \in 1..l.offset : HoldsByte(i, l.generation, p, s[p])'
  BY StoreGrows DEF Known, HoldsByte, Holds
<1>3. \A p \in DOMAIN view' : Past(view[p])'
  BY <1>1 DEF Past
<1>4. \A p \in 1..l.offset : HoldsByte(src.inode, lineages[src.inode].generation, p, view[p])'
  BY <1>2 DEF HoldsByte, Holds
<1> QED BY <1>1, <1>3, <1>4 DEF Known

\* A snapshot that the anchors find stable, and rightly, is what the first fstat had seen.
LEMMA StableSame ==
  ASSUME NEW start, NEW before \in Seq(Byte), NEW captured \in Seq(Byte), NEW after,
         Agree(before, captured), Stable(start, before, captured, after),
         ~ReadRepeats(before, captured)
  PROVE  captured = before
<1> DEFINE end == Len(before)
<1>1. /\ Len(captured) = end
      /\ AnchorsMatch(DescriptorAnchor(before, end), DescriptorAnchor(captured, end))
  BY DEF Stable
<1>2. end \in Nat /\ end > 0
  BY <1>1 DEF AnchorsMatch, DescriptorAnchor
<1>3. Mark([anchor |-> DescriptorAnchor(before, end)])
        = Mark([anchor |-> DescriptorAnchor(captured, end)])
  BY <1>1 DEF ReadRepeats, Repeats
<1>4. before[end] = captured[end]
  BY <1>1, <1>2, <1>3, AnchorMark
<1>5. \A m \in 1..end : before[m] = captured[m]
  BY <1>1, <1>2, <1>4 DEF Agree
<1> QED BY <1>1, <1>5

\* complete_records cuts one whole record off at the end of another.
LEMMA SegmentWhole ==
  ASSUME NEW s \in Seq(Byte), Records(s), NEW start \in Nat,
         start > 0 => s[start].lf,
         NEW end \in RecordEnds(s, start),
         \A e \in RecordEnds(s, start) : end <= e,
         NEW d \in Seq(Byte), d = SubSeq(s, start + 1, end)
  PROVE  IsRecord(Text(d))
<1>1. end \in Nat /\ start < end /\ end <= Len(s) /\ s[end].lf
  BY DEF RecordEnds
<1>2. Len(d) = end - start /\ DOMAIN d = 1..(end - start)
      /\ \A n \in 1..(end - start) : d[n] = s[start + n]
  BY <1>1
<1>0. /\ Text(d) \in Seq(Byte) /\ Len(Text(d)) = Len(d)
      /\ \A n \in 1..Len(d) : Text(d)[n] = Seen(d[n])
  BY TextType
<1>5. DOMAIN Text(d) = 1..Len(d) /\ (Len(d) > 0 => Text(d) # <<>>)
  BY ONLY <1>0
<1>3. CASE s[start + 1].lf
  <2>1. start + 1 \in RecordEnds(s, start)
    BY <1>1, <1>3 DEF RecordEnds
  <2>2. end = start + 1
    BY <1>1, <2>1
  <2>3. Width(s[end].event) = 1
    <3>1. ASSUME Width(s[end].event) = 2 PROVE FALSE
      <4>1. end \in DOMAIN s
        BY <1>1
      <4>2. end > 1 /\ s[end - 1] = [event |-> s[end].event, lf |-> FALSE]
        BY <1>1, <3>1, <4>1 DEF Records
      <4>3. end - 1 = start /\ start > 0
        BY <2>2, <4>2
      <4>4. s[start].lf /\ ~s[end - 1].lf
        BY <4>2, <4>3
      <4> QED BY <4>3, <4>4
    <3> QED BY <3>1 DEF Width
  <2>4. Len(d) = 1 /\ DOMAIN d = {1} /\ d[1] = s[end]
    <3>1. end - start = 1 /\ 1..1 = {1} /\ 1 \in 1..1
      BY <1>1, <2>2
    <3>2. Len(d) = 1 /\ DOMAIN d = 1..1 /\ d[1] = s[start + 1]
      BY <1>2, <3>1
    <3> QED BY <2>2, <3>1, <3>2
  <2>5. s[end].event # 0 /\ end \in DOMAIN s
    <3>1. end \in DOMAIN s
      BY <1>1
    <3> QED BY <3>1 DEF Records
  <2>6. /\ Len(Text(d)) = 1 /\ DOMAIN Text(d) = {1} /\ Text(d) # <<>>
        /\ Text(d)[1] = Seen(s[end])
    <3>1. Text(d)[1] = Seen(d[1])
      BY ONLY <1>0, <2>4
    <3>2. Len(d) > 0 /\ 1..1 = {1}
      BY ONLY <2>4
    <3> QED BY ONLY <1>0, <1>5, <2>4, <3>1, <3>2
  <2>7. Seen(s[end]).event = s[end].event /\ Seen(s[end]).lf
    BY <1>1, <2>3 DEF Seen
  <2> QED BY <2>3, <2>5, <2>6, <2>7 DEF IsRecord
<1>4. CASE ~s[start + 1].lf
  <2>1. start + 1 \in DOMAIN s /\ end # start + 1 /\ start + 1 < Len(s)
    BY <1>1, <1>4
  <2>2. Width(s[start + 1].event) = 2
        /\ s[start + 2] = [event |-> s[start + 1].event, lf |-> TRUE]
    <3>1. Width(s[start + 1].event) = 2
          /\ s[(start + 1) + 1] = [event |-> s[start + 1].event, lf |-> TRUE]
      BY <1>4, <2>1 DEF Records
    <3> QED BY <3>1
  <2>3. start + 2 \in RecordEnds(s, start)
    BY <1>1, <2>1, <2>2 DEF RecordEnds
  <2>4. end = start + 2
    BY <1>1, <2>1, <2>3
  <2>5. Len(d) = 2 /\ DOMAIN d = {1, 2} /\ d[1] = s[start + 1] /\ d[2] = s[start + 2]
    BY <1>1, <1>2, <2>4
  <2>6. /\ Len(Text(d)) = 2 /\ DOMAIN Text(d) = {1, 2} /\ Text(d) # <<>>
        /\ Text(d)[1] = Seen(s[start + 1]) /\ Text(d)[2] = Seen(s[start + 2])
    <3>1. Text(d)[1] = Seen(d[1]) /\ Text(d)[2] = Seen(d[2])
      BY ONLY <1>0, <2>5
    <3>2. Len(d) > 0 /\ 1..2 = {1, 2}
      BY ONLY <2>5
    <3> QED BY ONLY <1>0, <1>5, <2>5, <3>1, <3>2
  <2>7. s[start + 1].event # 0
    BY <2>1 DEF Records
  <2>8. Seen(s[start + 1]).event = s[start + 1].event /\ ~Seen(s[start + 1]).lf
    BY <1>4 DEF Seen
  <2>9. Seen(s[start + 2]).lf
    BY <2>2 DEF Seen
  <2> QED BY <2>2, <2>6, <2>7, <2>8, <2>9 DEF IsRecord
<1> QED BY <1>3, <1>4

\* When the segment is saved, the bucket has the snapshot up to its end.
LEMMA SegmentHeld ==
  ASSUME IInv, ByteInv, pc = "save", TrustedSource
  PROVE  /\ segment \in SegmentKey /\ src.inode \in Inodes
         /\ segment.end \in 1..Len(view) /\ view[segment.end].lf
         /\ lineages[src.inode] \in Lineage /\ view \in Seq(Byte)
         /\ \A p \in 1..segment.end :
              HoldsByte(src.inode, lineages[src.inode].generation, p, view[p])
<1> DEFINE i == src.inode
           l == lineages[i]
<1>1. /\ segment \in SegmentKey /\ i \in Inodes /\ l \in Lineage /\ view \in Seq(Byte)
      /\ segment.inode = i /\ segment.generation = l.generation /\ segment.start = l.offset
      /\ segment.start < segment.end /\ segment.end <= Len(view)
      /\ segment \in objects /\ \E m \in manifests : m.key = segment
  BY DEF IInv, TypeOK, SegmentContinues, UploadOrder, Uploading
<1>2. /\ segment.data = Text(SubSeq(view, segment.start + 1, segment.end))
      /\ view[segment.end].lf /\ Known(i, l, view)
  BY DEF ByteInv, SnapshotSound, SourceSound, Reading, Uploading
<1>3. l.offset \in Nat /\ segment.end \in Nat
  BY <1>1 DEF Lineage, SegmentKey
<1> HIDE DEF i, l
<1>4. ASSUME NEW p \in 1..segment.end PROVE HoldsByte(i, l.generation, p, view[p])
  <2>1. CASE p <= l.offset
    BY <1>2, <1>3, <2>1 DEF Known
  <2>2. CASE p > l.offset
    <3>1. Holds(segment, i, l.generation, p)
      BY <1>1, <1>3, <2>2 DEF Holds
    <3>2. segment.data[p - segment.start] = Seen(view[p])
      <4>1. segment.start \in Nat /\ p \in (segment.start + 1)..segment.end
        BY <1>1, <1>3, <2>2
      <4>2. view \in Seq(Byte) /\ segment.end <= Len(view)
        BY <1>1
      <4>3. SubSeq(view, segment.start + 1, segment.end)[p - segment.start] = view[p]
        BY <1>3, <4>1, <4>2, SliceAt
      <4>4. /\ SubSeq(view, segment.start + 1, segment.end) \in Seq(Byte)
            /\ Len(SubSeq(view, segment.start + 1, segment.end)) = segment.end - segment.start
        <5>1. segment.start + 1 \in Nat \ {0} /\ segment.end >= segment.start + 1
          BY <1>1, <1>3, <4>1
        <5>2. SubSeq(view, segment.start + 1, segment.end) \in Seq(Byte)
          BY <1>1, <1>3, <5>1, SliceType
        <5>3. Len(SubSeq(view, segment.start + 1, segment.end)) = segment.end - segment.start
          BY <1>1, <1>3, <4>1, <5>1
        <5> QED BY <5>2, <5>3
      <4>5. p - segment.start \in 1..(segment.end - segment.start)
        BY <1>3, <4>1
      <4>6. Text(SubSeq(view, segment.start + 1, segment.end))[p - segment.start]
              = Seen(SubSeq(view, segment.start + 1, segment.end)[p - segment.start])
        BY <4>4, <4>5, TextType
      <4> QED BY <1>2, <4>3, <4>6
    <3> QED BY <1>1, <3>1, <3>2 DEF HoldsByte
  <2> QED BY <1>3, <2>1, <2>2
<1> QED BY <1>1, <1>2, <1>3, <1>4 DEF i, l

\* The lineage that is saved vouches for all up to its new offset.
LEMMA SavedVouches ==
  ASSUME IInv, ByteInv, SaveSegment
  PROVE  Vouches(src.inode, AdvanceLineage(lineages[src.inode], segment, snapshot))
<1> DEFINE i == src.inode
           w == AdvanceLineage(lineages[i], segment, snapshot)
<1> SUFFICES ASSUME TrustedSource PROVE Vouches(i, w)
  BY DEF Vouches, AdvanceLineage, TrustedSource
<1>1. pc = "save" /\ snapshot = view /\ Known(i, lineages[i], view)
  BY DEF SaveSegment, ByteInv, SnapshotSound, SourceSound, Reading, Uploading
<1>2. /\ w.offset = segment.end /\ w.generation = lineages[i].generation
      /\ w.anchor = DescriptorAnchor(view, segment.end)
  BY <1>1 DEF AdvanceLineage
<1>3. segment.end \in Nat /\ 0 < segment.end /\ segment.end <= Len(view) /\ view \in Seq(Byte)
      /\ view[segment.end].lf /\ view[segment.end] \in Byte
  BY <1>1, SegmentHeld
<1>4. w.anchor.window # <<>> /\ Mark(w) = view[segment.end]
  BY <1>2, <1>3, AnchorMark DEF Mark
<1> HIDE DEF w
<1>5. ASSUME segment.end <= Len(content[i]), content[i][segment.end] = view[segment.end],
             NEW p \in 1..segment.end
      PROVE  HoldsByte(i, lineages[i].generation, p, content[i][p])
  <2>0. content[i] \in Seq(Byte)
    BY <1>1, SegmentHeld DEF IInv, TypeOK
  <2>1. view[p] = content[i][p]
    BY <1>1, <1>3, <1>5, <2>0 DEF Known, Agree
  <2> QED BY <1>1, <2>1, SegmentHeld
<1>6. Past(view[segment.end])
  BY <1>1, <1>3 DEF Known
<1> QED BY <1>2, <1>3, <1>4, <1>5, <1>6 DEF Vouches, w

\* So the bytes of a source that lineage_for accepts are known as it is opened.
LEMMA OpenKnown ==
  ASSUME TypeOK, LogsSound, NEW i \in Inodes, Vouches(i, lineages[i]),
         Trusted(i, LineageFor(lineages[i], content[i]).generation),
         ~Mistaken(LineageFor(lineages[i], content[i]), content[i]),
         LineageFor(lineages[i], content[i]).offset < Len(content[i])
  PROVE  Known(i, LineageFor(lineages[i], content[i]), content[i])
<1> DEFINE l == LineageFor(lineages[i], content[i])
<1>1. /\ content[i] \in Seq(Byte) /\ lineages[i] \in Lineage
      /\ l \in Lineage /\ l \in {lineages[i], ResetGeneration(lineages[i])}
      /\ l.offset \in Nat
  <2>1. content[i] \in Seq(Byte) /\ lineages[i] \in Lineage
    BY DEF TypeOK
  <2> QED BY <2>1, LineageForType DEF Lineage
<1>2. Agree(content[i], content[i])
  BY DEF Agree
<1>3. l.offset > 0 =>
        content[i][l.offset].lf /\ \A p \in 1..l.offset : HoldsByte(i, l.generation, p, content[i][p])
  <2>1. CASE l = lineages[i]
    BY <1>1, <2>1, AcceptedMark DEF Vouches
  <2>2. CASE l = ResetGeneration(lineages[i])
    BY <2>2 DEF ResetGeneration
  <2> QED BY <1>1, <2>1, <2>2
<1> HIDE DEF l
<1>4. l.offset <= Len(content[i])
  BY <1>1 DEF l
<1> QED BY <1>1, <1>2, <1>3, <1>4 DEF Known, LogsSound, l

-----------------------------------------------------------------------------
(* Every step keeps the invariant.                                         *)

\* A lineage that vouches may become the one in memory, or the saved one.
LEMMA VouchesAfter ==
  ASSUME TypeOK, LogsSound, [Next]_vars, NEW i \in Inodes, NEW l \in Lineage,
         Vouches(i, l)
  PROVE  /\ lineages'[i] = l => Vouches(i, lineages[i])'
         /\ saved'[i] = l => Vouches(i, saved[i])'
<1>1. Vouches(i, l)'
  BY VouchesStep
<1> QED BY <1>1 DEF Vouches, Mark, Past, HoldsByte, Holds

\* Memory holds lineages that vouch, and so does STATE_PATH.
LEMMA LineagesStep ==
  ASSUME IInv, ByteInv, [Next]_vars
  PROVE  \A i \in Inodes : Vouches(i, saved[i])' /\ Vouches(i, lineages[i])'
<1>1. TypeOK /\ LogsSound /\ \A i \in Inodes : Vouches(i, saved[i]) /\ Vouches(i, lineages[i])
  BY DEF IInv, ByteInv
<1>2. \A i \in Inodes : lineages[i] \in Lineage /\ saved[i] \in Lineage
  BY <1>1 DEF TypeOK
<1>3. ASSUME NEW i \in Inodes
      PROVE  \E l \in Lineage : Vouches(i, l) /\ lineages'[i] = l
  <2>1. CASE lineages'[i] = ResetGeneration(lineages[i])
    <3>1. ResetGeneration(lineages[i]) \in Lineage /\ ResetGeneration(lineages[i]).offset = 0
      BY <1>1, <1>2, LineageForType DEF TypeOK
    <3>2. Vouches(i, ResetGeneration(lineages[i]))
      BY <3>1 DEF Vouches
    <3> QED BY <2>1, <3>1, <3>2
  <2>2. CASE SaveSegment /\ i = src.inode
             /\ lineages'[i] = AdvanceLineage(lineages[i], segment, snapshot)
    <3>1. segment \in SegmentKey /\ snapshot \in Seq(Byte)
      BY <1>1, <2>2 DEF SaveSegment, TypeOK
    <3>2. AdvanceLineage(lineages[i], segment, snapshot) \in Lineage
      BY <1>2, <3>1, AdvanceType
    <3>3. Vouches(i, AdvanceLineage(lineages[i], segment, snapshot))
      BY <2>2, SavedVouches
    <3> QED BY <2>2, <3>2, <3>3
  <2> QED BY <1>1, <1>2, <2>1, <2>2, LineageStep DEF LineageMoves
<1>4. ASSUME NEW i \in Inodes PROVE Vouches(i, lineages[i])'
  BY <1>1, <1>3, VouchesAfter
<1>5. ASSUME NEW i \in Inodes PROVE Vouches(i, saved[i])'
  <2>1. \E l \in Lineage : Vouches(i, l) /\ saved'[i] = l
    BY <1>1, <1>2, <1>3, SavedStep
  <2> QED BY <1>1, <2>1, VouchesAfter
<1> QED BY <1>4, <1>5

\* A source that is to be trusted was so before, in the same generation.
LEMMA TrustKept ==
  ASSUME [Next]_vars, src' = src, TrustedSource',
         lineages'[src.inode].generation = lineages[src.inode].generation
  PROVE  TrustedSource
BY RepeatsGrow DEF TrustedSource, Trusted

\* The run knows the bytes of its source from the open to the last save.
LEMMA SourceStep ==
  ASSUME IInv, ByteInv, [Next]_vars
  PROVE  SourceSound'
<1> USE DEF logVars, storeVars, diskVars, runVars
<1> SUFFICES ASSUME pc' \in Reading, TrustedSource'
             PROVE  Known(src.inode, lineages[src.inode], view)'
  BY DEF SourceSound
<1>0. repeats \subseteq repeats'
  BY RepeatsGrow
<1>1. TypeOK /\ LogsSound
  BY DEF IInv, ByteInv
<1>2. CASE OpenSource
  <2> DEFINE i == IF Head(work) = LogPath THEN current ELSE Head(work)
             l == LineageFor(lineages[i], content[i])
  <2>1. i \in Inodes
    BY <1>1, <1>2, HeadTailProperties DEF OpenSource, TypeOK
  <2>2. /\ lineages' = [lineages EXCEPT ![i] = l] /\ l.offset < Len(content[i])
        /\ src'.inode = i /\ view' = content[i]
    <3>1. ~CloseSource
      BY DEF CloseSource, Reading, Uploading
    <3>2. lineages \in [Inodes -> Lineage] /\ content[i] \in Seq(Byte) /\ lineages[i] \in Lineage
      BY <1>1, <2>1 DEF TypeOK
    <3>3. l.offset \in Nat
      BY <3>2, LineageForType DEF Lineage
    <3> QED BY <1>2, <3>1, <3>2, <3>3 DEF OpenSource
  <2>3. Known(i, l, content[i]) /\ content[i] \in Seq(Byte) /\ l \in Lineage /\ lineages'[i] = l
    <3>1. content[i] \in Seq(Byte) /\ lineages \in [Inodes -> Lineage] /\ lineages[i] \in Lineage
      BY <1>1, <2>1 DEF TypeOK
    <3>2. l \in Lineage
      BY <3>1, LineageForType
    <3>3. Known(i, l, content[i])
      <4>1. /\ repeats' = IF Mistaken(l, content[i])
                          THEN repeats \cup {<<i, l.generation>>} ELSE repeats
        BY <1>2 DEF OpenSource
      <4>2. lineages'[i] = l /\ <<i, l.generation>> \notin repeats'
        <5>1. lineages'[i] = l
          BY <2>1, <2>2, <3>1
        <5> QED BY <2>2, <5>1 DEF TrustedSource, Trusted
      <4>3. ~Mistaken(l, content[i]) /\ Trusted(i, l.generation)
        BY <1>0, <4>1, <4>2 DEF Trusted
      <4> QED BY <1>1, <2>1, <2>2, <4>3, OpenKnown DEF ByteInv
    <3> HIDE DEF i, l
    <3> QED BY <2>1, <2>2, <3>1, <3>2, <3>3
  <2> HIDE DEF i, l
  <2> QED BY <1>1, <2>1, <2>2, <2>3, KnownAfter
<1>3. CASE SaveSegment
  <2> DEFINE i == src.inode
             l == AdvanceLineage(lineages[i], segment, snapshot)
  <2>0. /\ pc = "save" /\ i \in Inodes /\ view \in Seq(Byte)
        /\ segment \in SegmentKey /\ lineages \in [Inodes -> Lineage] /\ lineages[i] \in Lineage
        /\ snapshot \in Seq(Byte) /\ src' = src /\ lineages' = [lineages EXCEPT ![i] = l]
    BY <1>1, <1>3 DEF SaveSegment, TypeOK
  <2>6. TrustedSource
    <3>1. lineages'[i].generation = lineages[i].generation
      BY <2>0, AdvanceType
    <3> QED BY <2>0, <3>1, TrustKept
  <2>1. /\ pc = "save" /\ Known(i, lineages[i], view) /\ i \in Inodes /\ view \in Seq(Byte)
        /\ segment \in SegmentKey /\ lineages \in [Inodes -> Lineage] /\ lineages[i] \in Lineage
        /\ snapshot \in Seq(Byte)
    <3>1. pc \in Reading
      BY <2>0 DEF Reading, Uploading
    <3> QED BY <2>0, <2>6, <3>1 DEF ByteInv, SourceSound
  <2>2. /\ l \in Lineage /\ l.generation = lineages[i].generation /\ l.offset = segment.end
    BY <2>1, AdvanceType
  <2>3. lineages' = [lineages EXCEPT ![i] = l] /\ UNCHANGED <<src, view>>
    BY <1>3 DEF SaveSegment
  <2> HIDE DEF l
  <2>4. Known(i, l, view)
    BY <2>1, <2>2, <2>6, SegmentHeld DEF Known
  <2>5. lineages'[i] = l
    BY <2>1, <2>3
  <2> QED BY <1>1, <2>1, <2>2, <2>3, <2>4, <2>5, KnownAfter
<1>4. CASE pc \in Reading /\ UNCHANGED <<src, view, lineages>>
  <2>1. /\ Known(src.inode, lineages[src.inode], view) /\ src.inode \in Inodes
        /\ view \in Seq(Byte) /\ lineages[src.inode] \in Lineage
    <3>1. TrustedSource
      BY <1>4, TrustKept
    <3> QED BY <1>1, <1>4, <3>1 DEF ByteInv, SourceSound, TypeOK, Reading, Uploading
  <2> QED BY <1>1, <1>4, <2>1, KnownAfter
<1>5. CASE BeginRun \/ ManifestDiffers \/ EndRun \/ RunDies
  BY <1>5 DEF BeginRun, ManifestDiffers, EndRun, RunDies, Unwind, Reading, Uploading
<1>6. CASE ReadSnapshot \/ PutData \/ PutManifest
  BY <1>4, <1>6 DEF ReadSnapshot, PutData, PutManifest, Reading, Uploading
<1>7. CASE CheckStable \/ NextSegment
  BY <1>4, <1>7 DEF CheckStable, NextSegment, CloseSource, Reading, Uploading
<1>8. CASE PutAmbiguous
  BY <1>4, <1>8 DEF PutAmbiguous, Unwind, Reading, Uploading
<1>9. CASE Environment \/ UNCHANGED vars
  BY <1>4, <1>9 DEF Environment, WriteByte, Rotate, Truncate, vars
<1> QED BY <1>2, <1>3, <1>5, <1>6, <1>7, <1>8, <1>9 DEF Next, Step

\* A stable snapshot is what the first fstat saw, and segments are its records.
LEMMA SnapshotStep ==
  ASSUME IInv, ByteInv, [Next]_vars
  PROVE  SnapshotSound'
<1> USE DEF logVars, storeVars, diskVars, runVars
<1>1. TypeOK /\ LogsSound /\ SnapshotSound /\ SourceSound
  BY DEF IInv, ByteInv
<1>0. repeats \subseteq repeats'
  BY RepeatsGrow
<1>2. CASE ReadSnapshot
  <2> DEFINE c == content[src.inode]
             n == IF Len(c) < Len(view) THEN Len(c) ELSE Len(view)
  <2>2. /\ snapshot' = SubSeq(c, 1, n) /\ pc = "opened" /\ pc' = "captured" /\ view' = view
        /\ src' = src /\ lineages' = lineages
    BY <1>2 DEF ReadSnapshot
  <2>1. ASSUME TrustedSource' PROVE Agree(view, snapshot')
    <3>1. TrustedSource
      BY <2>1, <2>2, TrustKept
    <3>2. c \in Seq(Byte) /\ n \in 0..Len(c) /\ Agree(view, c) /\ view \in Seq(Byte)
      BY <1>1, <2>2, <3>1 DEF TypeOK, SourceSound, Known, Reading
    <3> HIDE DEF c, n
    <3>3. DOMAIN snapshot' = 1..n /\ \A m \in 1..n : snapshot'[m] = c[m]
      BY <2>2, <3>2
    <3> QED BY <3>2, <3>3 DEF Agree
  <2> QED BY <2>1, <2>2 DEF SnapshotSound, Agree, Uploading
<1>3. CASE CheckStable
  <2>1. CASE CloseSource
    BY <2>1 DEF CloseSource, SnapshotSound, Uploading
  <2>2. CASE ~CloseSource
    <3>1. /\ pc = "captured" /\ pc' = "segment" /\ UNCHANGED <<view, snapshot, src, lineages>>
          /\ Stable(lineages[src.inode].offset, view, snapshot, content[src.inode])
          /\ repeats' = IF ReadRepeats(view, snapshot)
                        THEN repeats \cup {<<src.inode, lineages[src.inode].generation>>}
                        ELSE repeats
      BY <1>3, <2>2 DEF CheckStable
    <3>2. ASSUME TrustedSource' PROVE snapshot = view
      <4>1. TrustedSource
        BY <3>1, <3>2, TrustKept
      <4>2. ~ReadRepeats(view, snapshot)
        BY <3>1, <3>2 DEF TrustedSource, Trusted
      <4> QED BY <1>1, <3>1, <4>1, <4>2, StableSame DEF SnapshotSound, TypeOK
    <3> QED BY <3>1, <3>2 DEF SnapshotSound, Uploading
  <2> QED BY <2>1, <2>2
<1>4. CASE NextSegment
  <2>1. CASE CloseSource
    BY <2>1 DEF CloseSource, SnapshotSound, Uploading
  <2>2. CASE ~CloseSource
    <3> DEFINE i == src.inode
               start == lineages[i].offset
    <3>1. PICK end \in RecordEnds(snapshot, start) :
            /\ \A e \in RecordEnds(snapshot, start) : end <= e
            /\ segment' = [inode |-> i, generation |-> lineages[i].generation,
                           start |-> start, end |-> end,
                           data |-> Text(SubSeq(snapshot, start + 1, end))]
      BY <1>4, <2>2 DEF NextSegment
    <3>2. pc = "segment" /\ pc' = "data"
          /\ UNCHANGED <<lineages, src, view, snapshot, repeats>>
      BY <1>4, <2>2 DEF NextSegment
    <3>3. start \in Nat /\ snapshot \in Seq(Byte) /\ end \in Nat
          /\ start < end /\ end <= Len(snapshot) /\ snapshot[end].lf
      <4>1. start \in Nat /\ snapshot \in Seq(Byte)
        BY <1>1, <3>2 DEF TypeOK, Lineage
      <4> QED BY <4>1 DEF RecordEnds
    <3>4. /\ segment'.start = start /\ segment'.end = end
          /\ segment'.inode = i /\ segment'.generation = lineages[i].generation
          /\ segment'.data = Text(SubSeq(snapshot, start + 1, end))
      BY <3>1
    <3> DEFINE d == SubSeq(snapshot, start + 1, end)
    <3>5. d \in Seq(Byte) /\ Len(d) = end - start
      <4>1. start + 1 \in Nat \ {0}
        BY <3>3
      <4>2. d \in Seq(Byte)
        BY ONLY <3>3, <4>1, SliceType
      <4> QED BY <3>3, <4>2
    <3>6. ASSUME TrustedSource PROVE IsRecord(Text(d))
      <4>1. Records(snapshot) /\ (start > 0 => snapshot[start].lf)
        BY <1>1, <3>2, <3>6 DEF SnapshotSound, SourceSound, Known, Reading
      <4> HIDE DEF start
      <4> QED BY <3>1, <3>3, <3>5, <4>1, SegmentWhole
    <3>7. Trusted(i, lineages[i].generation)' => TrustedSource
      BY <3>2 DEF TrustedSource, Trusted
    <3>8. Len(Text(d)) = end - start
      BY <3>5, TextType
    <3> HIDE DEF start, d
    <3>9. segment'.data = Text(d) /\ d = SubSeq(snapshot, start + 1, end)
      BY <3>4 DEF d
    <3>10. Whole(segment)'
      BY <3>2, <3>4, <3>6, <3>7, <3>8, <3>9 DEF Whole, Trusted
    <3>11. segment'.data = Text(SubSeq(snapshot', segment'.start + 1, segment'.end))
      BY <3>2, <3>4, <3>9
    <3>12. pc' \in Uploading /\ pc' # "captured" /\ snapshot'[segment'.end].lf
      BY <3>2, <3>3, <3>4 DEF Uploading
    <3>13. TrustedSource' => snapshot' = view'
      <4>1. TrustedSource' => TrustedSource
        BY <3>2, TrustKept
      <4> QED BY <1>1, <3>2, <4>1 DEF SnapshotSound
    <3> QED BY <3>10, <3>11, <3>12, <3>13 DEF SnapshotSound
  <2> QED BY <2>1, <2>2
<1>5. CASE /\ UNCHANGED <<src, view, snapshot, segment>>
           /\ lineages'[src.inode].generation = lineages[src.inode].generation
           /\ \/ pc' = pc
              \/ pc' \in Uploading /\ pc \in Uploading
              \/ pc' = "segment" /\ pc \in Uploading
  <2>1. TrustedSource' => TrustedSource
    BY <1>5, TrustKept
  <2>2. Whole(segment) => Whole(segment)'
    BY <1>0, <1>5 DEF Whole, Trusted
  <2>3. Agree(view, snapshot) => Agree(view, snapshot)'
    BY <1>5 DEF Agree
  <2>4. /\ pc' = "captured" => pc = "captured"
        /\ pc' \in {"segment"} \cup Uploading => pc \in {"segment"} \cup Uploading
        /\ pc' \in Uploading => pc \in Uploading
    BY <1>5 DEF Uploading
  <2>5. /\ TrustedSource' /\ pc' = "captured" => Agree(view, snapshot)'
        /\ TrustedSource' /\ pc' \in {"segment"} \cup Uploading => (snapshot = view)'
    BY <1>1, <1>5, <2>1, <2>3, <2>4 DEF SnapshotSound
  <2>6. pc' \in Uploading =>
          /\ (segment.data = Text(SubSeq(snapshot, segment.start + 1, segment.end)))'
          /\ snapshot'[segment'.end].lf
          /\ Whole(segment)'
    <3> SUFFICES ASSUME pc' \in Uploading
                 PROVE  /\ (segment.data = Text(SubSeq(snapshot, segment.start + 1, segment.end)))'
                        /\ snapshot'[segment'.end].lf
                        /\ Whole(segment)'
      OBVIOUS
    <3>1. /\ segment.data = Text(SubSeq(snapshot, segment.start + 1, segment.end))
          /\ snapshot[segment.end].lf /\ Whole(segment)
      BY <1>1, <2>4 DEF SnapshotSound
    <3>2. (segment.data = Text(SubSeq(snapshot, segment.start + 1, segment.end)))'
      BY <1>5, <3>1
    <3> QED BY <1>5, <2>2, <3>1, <3>2
  <2> QED BY <2>5, <2>6 DEF SnapshotSound
<1>6. CASE SaveSegment
  <2>1. /\ pc = "save" /\ pc' = "segment" /\ UNCHANGED <<src, view, snapshot>>
        /\ lineages' = [lineages EXCEPT ![src.inode] =
                          AdvanceLineage(lineages[src.inode], segment, snapshot)]
    BY <1>6 DEF SaveSegment
  <2>2. lineages'[src.inode].generation = lineages[src.inode].generation
    BY <1>1, <2>1 DEF TypeOK, AdvanceLineage
  <2>3. TrustedSource' => TrustedSource
    BY <2>1, <2>2, TrustKept
  <2> QED BY <1>1, <2>1, <2>3 DEF SnapshotSound, Uploading
<1>7. CASE PutAmbiguous
  <2>1. CASE Unwind
    BY <2>1 DEF Unwind, SnapshotSound, Uploading
  <2>2. CASE UNCHANGED <<lineages, pc, work, src, view, snapshot, segment>>
    BY <1>5, <2>2
  <2> QED BY <1>7, <2>1, <2>2 DEF PutAmbiguous
<1>8. CASE BeginRun \/ OpenSource \/ EndRun \/ ManifestDiffers \/ RunDies
  BY <1>8 DEF BeginRun, OpenSource, CloseSource, EndRun, ManifestDiffers, RunDies, Unwind,
              SnapshotSound, Uploading
<1>9. CASE Environment \/ UNCHANGED vars
  BY <1>5, <1>9 DEF Environment, WriteByte, Rotate, Truncate, vars
<1>10. CASE PutData \/ PutManifest
  BY <1>5, <1>10 DEF PutData, PutManifest, Uploading
<1> QED BY <1>2, <1>3, <1>4, <1>6, <1>7, <1>8, <1>9, <1>10 DEF Next, Step

\* The bucket grows by the segment under way only.
LEMMA ObjectsGrow ==
  ASSUME [Next]_vars
  PROVE  \/ objects' = objects
         \/ pc = "data" /\ objects' = objects \cup {segment}
BY DEF Next, Environment, Step, WriteByte, Rotate, Truncate, BeginRun, OpenSource,
    ReadSnapshot, CheckStable, NextSegment, PutData, PutManifest,
    ManifestDiffers, PutAmbiguous, SaveSegment, EndRun, RunDies, vars,
    logVars, storeVars, diskVars, runVars

\* What it grows by is whole.
LEMMA ObjectsStep ==
  ASSUME ByteInv, [Next]_vars
  PROVE  ObjectsAreWholeRecords'
<1>0. repeats \subseteq repeats'
  BY RepeatsGrow
<1>1. \A k \in objects : Whole(k)
  BY DEF ByteInv, ObjectsAreWholeRecords, Whole, Trusted
<1>2. pc = "data" => Whole(segment)
  BY DEF ByteInv, SnapshotSound, Uploading
<1>3. \A k \in objects' : Whole(k)
  BY <1>1, <1>2, ObjectsGrow
<1> QED BY <1>0, <1>3 DEF ObjectsAreWholeRecords, Whole, Trusted

\* default_state, an empty bucket and empty logs satisfy the invariant.
LEMMA InitBytes == Init => ByteInv /\ CountInv
<1> SUFFICES ASSUME Init PROVE ByteInv /\ CountInv
  OBVIOUS
<1>1. LogsSound
  BY DEF Init, LogsSound, Records, Open
<1>2. \A i \in Inodes : Vouches(i, saved[i]) /\ Vouches(i, lineages[i])
  BY DEF Init, Vouches, NewLineage
<1>3. SourceSound /\ SnapshotSound /\ ObjectsAreWholeRecords
  BY DEF Init, SourceSound, SnapshotSound, Reading, Uploading, ObjectsAreWholeRecords
<1>4. IsFiniteSet(objects) /\ Counted = {} /\ Cardinality({}) = 0
  BY FS_EmptySet DEF Init, Counted
<1>5. CountInv
  BY <1>4 DEF CountInv, Init
<1> QED BY <1>1, <1>2, <1>3, <1>5 DEF ByteInv

\* A save_state counts one record more, and it is one it had not passed.
LEMMA CountStep ==
  ASSUME IInv, CountInv, [Next]_vars
  PROVE  CountInv'
<1>1. TypeOK /\ TypeOK'
  BY NextType DEF IInv
<1>2. IsFiniteSet(objects')
  BY ObjectsGrow, FS_AddElement DEF CountInv
<1>3. Counted' \subseteq objects' /\ IsFiniteSet(Counted') /\ IsFiniteSet(Counted)
  BY <1>2, FS_Subset DEF Counted, CountInv
<1>4. Counted \subseteq Counted'
  <2>1. ASSUME NEW k \in Counted PROVE k \in Counted'
    <3>1. k \in objects /\ k \in objects' /\ k \in SegmentKey
      BY <1>1, StoreGrows DEF Counted, TypeOK
    <3>2. /\ k.inode \in Inodes /\ k.generation \in Nat /\ k.end \in Nat
          /\ saved[k.inode] \in Lineage /\ saved'[k.inode] \in Lineage
      BY <1>1, <3>1 DEF TypeOK, SegmentKey
    <3>3. NotBehind(saved'[k.inode], saved[k.inode])
      BY <3>2, AheadStep
    <3> QED BY <3>1, <3>2, <3>3 DEF Counted, NotBehind, Lineage
  <2> QED BY <2>1
<1>5. CASE UNCHANGED uploaded
  <2>1. Cardinality(Counted) <= Cardinality(Counted')
    BY <1>3, <1>4, FS_Subset
  <2>2. Cardinality(Counted) \in Nat /\ Cardinality(Counted') \in Nat
    BY <1>3, FS_CardinalityType
  <2>3. uploaded' \in Nat /\ uploaded' <= Cardinality(Counted)
    BY <1>1, <1>5 DEF TypeOK, CountInv
  <2> QED BY <1>2, <2>1, <2>2, <2>3 DEF CountInv
<1>6. CASE SaveSegment
  <2> DEFINE i == src.inode
  <2>1. /\ segment \in SegmentKey /\ segment \in objects /\ objects' = objects
        /\ segment.inode = i /\ segment.generation = lineages[i].generation
        /\ segment.start = lineages[i].offset /\ segment.start < segment.end
        /\ i \in Inodes /\ lineages[i] \in Lineage /\ saved[i] \in Lineage
    BY <1>1, <1>6 DEF SaveSegment, IInv, SegmentContinues, UploadOrder, Uploading, TypeOK, storeVars
  <2>2. NotBehind(lineages[i], saved[i])
    BY <2>1 DEF IInv, MemoryAhead
  <2>3. segment \notin Counted
    BY <2>1, <2>2 DEF Counted, NotBehind, Lineage, SegmentKey
  <2>4. segment \in Counted'
    <3>1. saved'[i] = AdvanceLineage(lineages[i], segment, snapshot)
      BY <1>1, <1>6, <2>1 DEF SaveSegment, TypeOK
    <3> QED BY <2>1, <3>1 DEF Counted, AdvanceLineage, SegmentKey
  <2>5. Cardinality(Counted \cup {segment}) = Cardinality(Counted) + 1
    BY <1>3, <2>3, FS_AddElement
  <2>6. Cardinality(Counted \cup {segment}) <= Cardinality(Counted')
    BY <1>3, <1>4, <2>4, FS_Subset
  <2>7. uploaded' = uploaded + 1
    BY <1>6 DEF SaveSegment
  <2>8. /\ Cardinality(Counted) \in Nat /\ Cardinality(Counted') \in Nat
        /\ uploaded \in Nat /\ uploaded <= Cardinality(Counted)
    BY <1>1, <1>3, FS_CardinalityType DEF TypeOK, CountInv
  <2> QED BY <1>2, <2>5, <2>6, <2>7, <2>8 DEF CountInv
<1>7. SaveSegment \/ UNCHANGED uploaded
  BY DEF Next, Environment, Step, WriteByte, Rotate, Truncate, BeginRun, OpenSource,
      ReadSnapshot, CheckStable, NextSegment, PutData, PutManifest,
      ManifestDiffers, PutAmbiguous, EndRun, RunDies, vars,
      logVars, storeVars, diskVars, runVars
<1> QED BY <1>5, <1>6, <1>7

-----------------------------------------------------------------------------

\* The inductive invariant: what a run knows of the bytes it has read, what a
\* lineage in memory or in STATE_PATH vouches for, and which records it counted.
THEOREM EvidenceInvariance == Spec => []EInv
<1>1. Init => EInv
  BY InitInv, InitBytes DEF EInv
<1>2. IInv /\ [Next]_vars => IInv'
  BY NextType, CoveredStep, AheadStep, SegmentStep, ManifestStep DEF IInv
<1>3. ASSUME IInv, ByteInv, [Next]_vars PROVE ByteInv'
  <2>1. LogsSound'
    BY <1>3, LogStep DEF IInv, ByteInv
  <2>2. (\A i \in Inodes : Vouches(i, saved[i]) /\ Vouches(i, lineages[i]))'
    BY <1>3, LineagesStep
  <2> QED BY <1>3, <2>1, <2>2, SourceStep, SnapshotStep, ObjectsStep DEF ByteInv
<1>4. EInv /\ [Next]_vars => EInv'
  BY <1>2, <1>3, CountStep DEF EInv
<1> QED BY <1>1, <1>4, PTL DEF Spec

\* "Reuse of a pathname, copytruncate, or in-place replacement must not continue an
\* old byte range": where lineage_for accepts an anchor, the whole prefix it skips
\* is in the bucket byte for byte, for any number of truncations, replacements,
\* crashes and records and any length of window -- unless another incarnation
\* repeats the text of a window, now or earlier in that generation.
THEOREM NoSilentGapUnlessRepeated == Spec => []SkippedPrefixArchived
<1>1. ASSUME EInv PROVE SkippedPrefixArchived
  <2>1. ASSUME NEW i \in Inodes, LineageFor(saved[i], content[i]) = saved[i],
               ~Mistaken(saved[i], content[i]), Trusted(i, saved[i].generation),
               NEW p \in 1..saved[i].offset
        PROVE  \E k \in objects : /\ Holds(k, i, saved[i].generation, p)
                                  /\ k.data[p - k.start] = Text(content[i])[p]
    <3>1. saved[i] \in Lineage /\ content[i] \in Seq(Byte) /\ Vouches(i, saved[i])
      BY <1>1 DEF EInv, IInv, ByteInv, TypeOK
    <3>2. saved[i].offset \in Nat /\ saved[i].offset > 0
      BY <2>1, <3>1 DEF Lineage
    <3>3. saved[i].offset <= Len(content[i]) /\ content[i][saved[i].offset] = Mark(saved[i])
      BY <2>1, <3>1, <3>2, AcceptedMark
    <3>4. HoldsByte(i, saved[i].generation, p, content[i][p])
      BY <2>1, <3>1, <3>2, <3>3 DEF Vouches
    <3>5. Text(content[i])[p] = Seen(content[i][p])
      <4>1. p \in 1..Len(content[i])
        BY <3>1, <3>2, <3>3
      <4> QED BY <3>1, <4>1, TextType
    <3> QED BY <3>4, <3>5 DEF HoldsByte
  <2> QED BY <2>1 DEF SkippedPrefixArchived, Trusted
<1> QED BY <1>1, EvidenceInvariance, PTL

\* Every evidence object is one whole record: no fragment of a line that Cowrie
\* was writing, no cut at an offset of another incarnation, whenever the log is
\* written, renamed or truncated under the descriptor, unless a window was repeated.
THEOREM WholeRecordsOnly == Spec => []ObjectsAreWholeRecords
BY EvidenceInvariance, PTL DEF EInv, ByteInv

\* uploaded_objects counts a record once, however often a crash between PUT and
\* save_state makes a run repeat it.
THEOREM CountedOnce == Spec => []UploadedCountsOnce
<1>1. ASSUME EInv PROVE UploadedCountsOnce
  <2>1. Counted \subseteq objects /\ IsFiniteSet(objects) /\ uploaded <= Cardinality(Counted)
        /\ uploaded \in Nat
    BY <1>1 DEF Counted, EInv, CountInv, IInv, TypeOK
  <2> QED BY <2>1, FS_Subset, FS_CardinalityType DEF UploadedCountsOnce
<1> QED BY <1>1, EvidenceInvariance, PTL

=============================================================================
