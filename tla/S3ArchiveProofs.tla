-------------------------- MODULE S3ArchiveProofs --------------------------
(***************************************************************************)
(* Proofs about the evidence archive, for every value of the constants.    *)
(* The inductive invariant relates the lineages in memory to the bucket    *)
(* and to the saved ones: an offset is covered in memory as soon as it is  *)
(* reached, so it is covered whenever save_state makes it durable.         *)
(***************************************************************************)
EXTENDS S3Archive, SequenceTheorems, TLAPS

Uploading == {"data", "manifest", "save"}

\* Every byte below an offset of L is in the bucket, with its manifest.
Covered(L) ==
  \A i \in Inodes : \A p \in 1..L[i].offset :
    \E k \in objects : Holds(k, i, L[i].generation, p)

\* The segment under way starts where the lineage of its source ends, and ends
\* within the snapshot.
SegmentContinues ==
  /\ pc \in {"segment"} \cup Uploading => Len(snapshot) = Len(view)
  /\ pc \in Uploading =>
       /\ segment.inode = src.inode
       /\ segment.generation = lineages[src.inode].generation
       /\ segment.start = lineages[src.inode].offset
       /\ segment.start < segment.end
       /\ segment.end <= Len(view)

\* upload_with_manifest stores the object, then the manifest, then returns.
UploadOrder ==
  /\ pc \in {"manifest", "save"} => segment \in objects
  /\ pc = "save" => \E m \in manifests : m.key = segment

\* Lineage l is not behind lineage s.
NotBehind(l, s) ==
  \/ l.generation > s.generation
  \/ l.generation = s.generation /\ l.offset >= s.offset

\* The run's lineages are at or ahead of the saved ones.
MemoryAhead == \A i \in Inodes : NotBehind(lineages[i], saved[i])

\* The inductive invariant.
IInv ==
  /\ TypeOK
  /\ Covered(saved)
  /\ Covered(lineages)
  /\ SegmentContinues
  /\ UploadOrder
  /\ MemoryAhead
  /\ OneManifestBesideItsObject

-----------------------------------------------------------------------------
(* What the operators return.                                              *)

\* A part of a log that read_at or complete_records takes is one of bytes.
LEMMA SliceType ==
  ASSUME NEW s \in Seq(Byte), NEW m \in Nat \ {0}, NEW n \in Nat, n <= Len(s)
  PROVE  SubSeq(s, m, n) \in Seq(Byte)
<1>1. m \in Int /\ n \in Int
  OBVIOUS
<1>2. \A k \in m..n : s[k] \in Byte
  OBVIOUS
<1> QED BY ONLY <1>1, <1>2, SubSeqProperties

\* The text of bytes is one of as many bytes.
LEMMA TextType ==
  ASSUME NEW s \in Seq(Byte)
  PROVE  /\ Text(s) \in Seq(Byte) /\ Len(Text(s)) = Len(s)
         /\ \A n \in 1..Len(s) : Text(s)[n] = Seen(s[n])
<1>1. ASSUME NEW n \in 1..Len(s) PROVE Seen(s[n]) \in Byte
  <2>1. s[n] \in Byte
    OBVIOUS
  <2> DEFINE e == IF s[n].lf /\ Width(s[n].event) = 2 THEN 0 ELSE s[n].event
  <2>2. e \in Nat /\ Seen(s[n]) = [event |-> e, lf |-> s[n].lf]
    BY <2>1 DEF Byte, Seen
  <2> HIDE DEF e
  <2> QED BY <2>1, <2>2 DEF Byte
<1> QED BY <1>1 DEF Text

\* A window of a log is a sequence of bytes, so descriptor_anchor returns an
\* anchor.
LEMMA AnchorType ==
  ASSUME NEW bytes \in Seq(Byte), NEW end \in Nat
  PROVE  DescriptorAnchor(bytes, end) \in Anchor
<1> DEFINE first == (IF end > AnchorBytes THEN end - AnchorBytes ELSE 0) + 1
<1>1. NoAnchor \in Anchor
  BY DEF NoAnchor, Anchor
<1>2. CASE end > 0 /\ Len(bytes) >= end
  <2>1. first \in Nat /\ first >= 1
    BY ArchiveAssumption
  <2>2. \A n \in first..end : bytes[n] \in Byte
    BY <1>2, <2>1
  <2>3. SubSeq(bytes, first, end) \in Seq(Byte)
    BY <2>1, <2>2, SliceType
  <2> QED BY <1>2, <2>3 DEF DescriptorAnchor, Anchor
<1> QED BY <1>1, <1>2 DEF DescriptorAnchor

\* reset_generation and lineage_for return lineages; they keep a lineage or
\* restart it in the next generation.
LEMMA LineageForType ==
  ASSUME NEW l \in Lineage, NEW bytes \in Seq(Byte)
  PROVE  /\ ResetGeneration(l) \in Lineage
         /\ ResetGeneration(l).offset = 0
         /\ ResetGeneration(l).generation = l.generation + 1
         /\ LineageFor(l, bytes) \in Lineage
         /\ LineageFor(l, bytes) \in {l, ResetGeneration(l)}
<1>1. NoAnchor \in Anchor
  BY DEF NoAnchor, Anchor
<1>2. ResetGeneration(l) \in Lineage
  BY <1>1 DEF ResetGeneration, Lineage
<1> QED BY <1>2 DEF LineageFor, ResetGeneration, Lineage

\* The lineage after a segment ends at the segment's end, in its generation.
LEMMA AdvanceType ==
  ASSUME NEW l \in Lineage, NEW s \in SegmentKey, NEW bytes \in Seq(Byte)
  PROVE  /\ AdvanceLineage(l, s, bytes) \in Lineage
         /\ AdvanceLineage(l, s, bytes).generation = l.generation
         /\ AdvanceLineage(l, s, bytes).offset = s.end
BY AnchorType DEF AdvanceLineage, Lineage, SegmentKey

\* A conditional PUT keeps every body and adds at most the one it carries.
LEMMA CreateOnceProperties ==
  ASSUME NEW M, NEW m
  PROVE  /\ M \subseteq CreateOnce(M, m)
         /\ CreateOnce(M, m) \subseteq M \cup {m}
         /\ \E x \in CreateOnce(M, m) : x.key = m.key
         /\ m \in CreateOnce(M, m) /\ m \notin M
              => \A x \in M : x.key # m.key
BY DEF CreateOnce

-----------------------------------------------------------------------------
(* Type correctness.                                                       *)

\* default_state and an empty bucket have the types.
LEMMA InitType == Init => TypeOK
<1> SUFFICES ASSUME Init PROVE TypeOK
  OBVIOUS
<1>1. NewLineage \in Lineage
  BY DEF NewLineage, Lineage, NoAnchor, Anchor
<1> QED
  BY <1>1, ArchiveAssumption DEF Init, TypeOK

\* Whatever ends a run or a source leaves the types alone.
LEMMA UnwindType == TypeOK /\ Unwind =>
  /\ lineages' \in [Inodes -> Lineage]
  /\ pc' = "idle" /\ work' \in Seq(Inodes \cup {LogPath})
  /\ view' \in Seq(Byte) /\ snapshot' \in Seq(Byte)
  /\ attempt' \in 1..MaxPutAttempts
BY ArchiveAssumption DEF TypeOK, Unwind

\* Closing a source goes on with the rest of the work list.
LEMMA CloseSourceType == TypeOK /\ work # <<>> /\ CloseSource =>
  /\ pc' = "next" /\ work' \in Seq(Inodes \cup {LogPath})
  /\ view' \in Seq(Byte) /\ snapshot' \in Seq(Byte)
  /\ attempt' \in 1..MaxPutAttempts
BY HeadTailProperties DEF TypeOK, CloseSource

\* upload_with_manifest builds a manifest for the segment under way.
LEMMA ManifestType ==
  ASSUME TypeOK, pc = "manifest"
  PROVE  ManifestFor(segment) \in Manifest
BY DEF TypeOK, ManifestFor, Manifest

\* Every step of the archive and of its environment keeps the types.
LEMMA NextType == TypeOK /\ [Next]_vars => TypeOK'
<1> SUFFICES ASSUME TypeOK, [Next]_vars PROVE TypeOK'
  OBVIOUS
<1> USE DEF TypeOK, logVars, storeVars, diskVars, runVars
<1>1. CASE WriteByte
  <2>1. content[current] \in Seq(Byte)
    OBVIOUS
  <2> DEFINE log == content[current]
             open == log # <<>> /\ ~log[Len(log)].lf
             e == IF open THEN log[Len(log)].event ELSE logged + 1
             b == [event |-> e, lf |-> open \/ Width(e) = 1]
  <2>2. log # <<>> => log[Len(log)] \in Byte
    BY <2>1
  <2>3. e \in Nat
    BY <2>2 DEF Byte
  <2>4. b \in Byte
    BY <2>3 DEF Byte
  <2>5. Append(log, b) \in Seq(Byte)
    BY <2>1, <2>4
  <2> HIDE DEF log, open, e, b
  <2>6. content' = [content EXCEPT ![current] = Append(log, b)] /\ logged' = e
    BY <1>1 DEF WriteByte, log, open, e, b
  <2> QED BY <1>1, <2>3, <2>5, <2>6 DEF WriteByte
<1>2. CASE Rotate
  <2>1. Append(rotated, current) \in Seq(Inodes)
    OBVIOUS
  <2> QED BY <1>2, <2>1 DEF Rotate
<1>3. CASE Truncate
  BY <1>3 DEF Truncate
<1>4. CASE BeginRun
  <2>1. Append(rotated, LogPath) \in Seq(Inodes \cup {LogPath})
    OBVIOUS
  <2> QED BY <1>4, <2>1 DEF BeginRun
<1>5. CASE OpenSource
  <2> DEFINE i == IF Head(work) = LogPath THEN current ELSE Head(work)
             l == LineageFor(lineages[i], content[i])
  <2>1. i \in Inodes
    BY <1>5, HeadTailProperties DEF OpenSource
  <2>2. l \in Lineage
    BY <2>1, LineageForType
  <2>0. repeats' \subseteq Inodes \X Nat
    <3>1. repeats' \in {repeats, repeats \cup {<<i, l.generation>>}}
      BY <1>5 DEF OpenSource
    <3> HIDE DEF i, l
    <3> QED BY <2>1, <2>2, <3>1 DEF Lineage
  <2> HIDE DEF i, l
  <2>3. lineages' = [lineages EXCEPT ![i] = l]
    BY <1>5 DEF OpenSource, i, l
  <2>4. CASE CloseSource
    <3>1. /\ work # <<>>
          /\ UNCHANGED <<logVars, storeVars, diskVars, faults>>
          /\ repeats' \subseteq Inodes \X Nat
      BY <1>5, <2>0 DEF OpenSource
    <3>2. lineages' \in [Inodes -> Lineage]
      BY <2>2, <2>3
    <3> QED BY <2>4, <3>1, <3>2, CloseSourceType
  <2>5. CASE /\ pc' = "opened"
             /\ src' = [inode |-> i,
                        kind |-> IF Head(work) = LogPath
                                 THEN "current" ELSE "rotated-continuation"]
             /\ view' = content[i]
             /\ UNCHANGED <<work, snapshot, segment, attempt>>
    BY <1>5, <2>0, <2>1, <2>2, <2>3, <2>5 DEF OpenSource, Kind
  <2> QED BY <1>5, <2>4, <2>5 DEF OpenSource, i, l
<1>6. CASE ReadSnapshot
  <2> DEFINE c == content[src.inode]
             n == IF Len(c) < Len(view) THEN Len(c) ELSE Len(view)
  <2>1. c \in Seq(Byte)
    BY <1>6 DEF ReadSnapshot
  <2>2. n \in Nat /\ n <= Len(c)
    BY <2>1
  <2>3. SubSeq(c, 1, n) \in Seq(Byte)
    BY <2>1, <2>2, SliceType
  <2> QED BY <1>6, <2>3 DEF ReadSnapshot
<1>7. CASE CheckStable
  <2>1. src.inode \in Inodes
    BY <1>7 DEF CheckStable
  <2>2. ResetGeneration(lineages[src.inode]) \in Lineage
    BY <2>1, LineageForType
  <2>5. repeats' \subseteq Inodes \X Nat
    <3>1. repeats' \in {repeats, repeats \cup {<<src.inode, lineages[src.inode].generation>>}}
      BY <1>7 DEF CheckStable
    <3>2. lineages[src.inode].generation \in Nat
      BY <2>1 DEF Lineage
    <3> QED BY <2>1, <3>1, <3>2
  <2>3. CASE CloseSource
    BY <1>7, <2>2, <2>3, <2>5, CloseSourceType DEF CheckStable
  <2>4. CASE pc' = "segment"
    BY <1>7, <2>4, <2>5 DEF CheckStable, CloseSource
  <2> QED BY <1>7, <2>3, <2>4 DEF CheckStable
<1>8. CASE NextSegment
  <2> DEFINE i == src.inode
             start == lineages[i].offset
             ends == RecordEnds(snapshot, start)
             seg(end) == [inode |-> i, generation |-> lineages[i].generation,
                          start |-> start, end |-> end,
                          data |-> Text(SubSeq(snapshot, start + 1, end))]
  <2>1. i \in Inodes /\ lineages[i] \in Lineage
    BY <1>8 DEF NextSegment
  <2>2. start \in Nat /\ lineages[i].generation \in Nat
    BY <2>1 DEF Lineage
  <2>3. ASSUME NEW end \in ends
        PROVE  seg(end) \in SegmentKey
    <3>1. end \in Nat /\ end <= Len(snapshot) /\ start + 1 <= end
      BY <2>2, <2>3 DEF RecordEnds
    <3>2. snapshot \in Seq(Byte) /\ start + 1 \in Nat \ {0}
      BY <2>2
    <3>3. SubSeq(snapshot, start + 1, end) \in Seq(Byte)
      BY ONLY <3>1, <3>2, SliceType
    <3>4. Text(SubSeq(snapshot, start + 1, end)) \in Seq(Byte)
      BY <3>3, TextType
    <3> QED BY <2>1, <2>2, <3>1, <3>4 DEF SegmentKey
  <2>4. CASE CloseSource
    BY <1>8, <2>4, CloseSourceType DEF NextSegment
  <2>5. CASE pc' = "data"
    <3>1. PICK end \in ends : segment' = seg(end)
      BY <1>8, <2>5 DEF NextSegment, CloseSource
    <3>2. segment' \in SegmentKey
      BY <2>3, <3>1
    <3>3. /\ pc = "segment" /\ attempt' = 1
          /\ UNCHANGED <<lineages, work, src, view, snapshot>>
          /\ UNCHANGED <<logVars, storeVars, diskVars, faults, repeats>>
      BY <1>8, <2>5 DEF NextSegment, CloseSource
    <3> QED BY <2>5, <3>2, <3>3, ArchiveAssumption
  <2> QED BY <1>8, <2>4, <2>5 DEF NextSegment
<1>9. CASE PutData
  BY <1>9, ArchiveAssumption DEF PutData
<1>10. CASE PutManifest
  BY <1>10, ManifestType, CreateOnceProperties, ArchiveAssumption DEF PutManifest
<1>11. CASE ManifestDiffers
  BY <1>11, UnwindType DEF ManifestDiffers
<1>12. CASE PutAmbiguous
  <2>1. objects' \in SUBSET SegmentKey
    BY <1>12 DEF PutAmbiguous
  <2>2. manifests' \in SUBSET Manifest
    BY <1>12, ManifestType, CreateOnceProperties DEF PutAmbiguous
  <2>3. CASE Unwind
    <3>1. UNCHANGED <<logVars, diskVars, repeats>> /\ faults' \in Nat
      BY <1>12 DEF PutAmbiguous
    <3> QED BY <2>1, <2>2, <2>3, <3>1, UnwindType
  <2>4. CASE RetriesLeft(attempt) /\ attempt' = attempt + 1
             /\ UNCHANGED <<lineages, pc, work, src, view, snapshot, segment>>
    <3>1. attempt' \in 1..MaxPutAttempts
      BY <2>4, ArchiveAssumption DEF RetriesLeft
    <3>2. UNCHANGED <<logVars, diskVars, repeats>> /\ faults' \in Nat
      BY <1>12 DEF PutAmbiguous
    <3> QED BY <2>1, <2>2, <2>4, <3>1, <3>2
  <2> QED BY <1>12, <2>3, <2>4 DEF PutAmbiguous
<1>13. CASE SaveSegment
  <2>1. AdvanceLineage(lineages[src.inode], segment, snapshot) \in Lineage
    BY <1>13, AdvanceType DEF SaveSegment
  <2> QED BY <1>13, <2>1 DEF SaveSegment
<1>14. CASE EndRun
  BY <1>14 DEF EndRun
<1>15. CASE RunDies
  BY <1>15, UnwindType DEF RunDies
<1>16. CASE UNCHANGED vars
  BY <1>16 DEF vars
<1> QED
  BY <1>1, <1>2, <1>3, <1>4, <1>5, <1>6, <1>7, <1>8, <1>9, <1>10, <1>11,
     <1>12, <1>13, <1>14, <1>15, <1>16 DEF Next, Environment, Step

\* The archive's variables keep their types in every behaviour: a source is
\* open and a segment defined wherever archive_path and put_once use them, and
\* put_once never goes beyond MAX_PUT_ATTEMPTS.
THEOREM TypeCorrect == Spec => []TypeOK
BY InitType, NextType, PTL DEF Spec

-----------------------------------------------------------------------------
(* The inductive invariant.                                                *)

\* The strengthening holds of default_state and an empty bucket.
LEMMA InitInv == Init => IInv
<1> SUFFICES ASSUME Init PROVE IInv
  OBVIOUS
<1>1. \A i \in Inodes : saved[i].offset = 0 /\ lineages[i] = saved[i]
  BY DEF Init, NewLineage
<1>2. \A i \in Inodes : 1..saved[i].offset = {} /\ 1..lineages[i].offset = {}
  BY <1>1
<1>3. Covered(saved) /\ Covered(lineages)
  BY <1>2 DEF Covered
<1>4. MemoryAhead
  BY <1>1 DEF MemoryAhead, NotBehind, Init, NewLineage
<1> QED
  BY <1>3, <1>4, InitType
  DEF Init, IInv, SegmentContinues, UploadOrder, Uploading,
      OneManifestBesideItsObject

\* No step removes or replaces anything in the bucket.
LEMMA StoreGrows == [Next]_vars => objects \subseteq objects' /\ manifests \subseteq manifests'
BY CreateOnceProperties
DEF Next, Environment, Step, WriteByte, Rotate, Truncate, BeginRun, OpenSource,
    ReadSnapshot, CheckStable, NextSegment, PutData, PutManifest,
    ManifestDiffers, PutAmbiguous, SaveSegment, EndRun, RunDies, vars,
    logVars, storeVars, diskVars, runVars

\* How the lineage of one inode can change in a step.
LineageMoves(i) ==
  \/ lineages'[i] = lineages[i]
  \/ lineages'[i] = saved[i]
  \/ lineages'[i] = ResetGeneration(lineages[i])
  \/ /\ SaveSegment
     /\ i = src.inode
     /\ lineages'[i] = AdvanceLineage(lineages[i], segment, snapshot)

\* A step leaves a lineage in memory alone, restarts it, advances it by the
\* segment it just stored, or reloads it from STATE_PATH.
LEMMA LineageStep ==
  ASSUME TypeOK, [Next]_vars, NEW i \in Inodes
  PROVE  LineageMoves(i)
<1> USE DEF TypeOK, logVars, storeVars, diskVars, runVars, LineageMoves
<1>1. CASE OpenSource
  <2> DEFINE j == IF Head(work) = LogPath THEN current ELSE Head(work)
  <2>1. lineages' = [lineages EXCEPT ![j] = LineageFor(lineages[j], content[j])]
    BY <1>1 DEF OpenSource
  <2>2. j \in Inodes
    BY <1>1, HeadTailProperties DEF OpenSource
  <2>3. LineageFor(lineages[j], content[j])
          \in {lineages[j], ResetGeneration(lineages[j])}
    BY <2>2, LineageForType
  <2> HIDE DEF j
  <2> QED BY <2>1, <2>2, <2>3
<1>2. CASE CheckStable
  BY <1>2 DEF CheckStable
<1>3. CASE SaveSegment
  BY <1>3 DEF SaveSegment
<1>4. CASE BeginRun \/ ManifestDiffers \/ RunDies
  BY <1>4 DEF BeginRun, ManifestDiffers, RunDies, Unwind
<1>5. CASE PutAmbiguous
  BY <1>5 DEF PutAmbiguous, Unwind
<1>6. CASE Environment \/ ReadSnapshot \/ NextSegment \/ PutData \/ PutManifest
           \/ EndRun \/ UNCHANGED vars
  BY <1>6 DEF Environment, WriteByte, Rotate, Truncate, ReadSnapshot,
              NextSegment, PutData, PutManifest, EndRun, vars
<1> QED BY <1>1, <1>2, <1>3, <1>4, <1>5, <1>6 DEF Next, Step

\* STATE_PATH changes only to what memory holds after the step; it stays where
\* the memory of a run is discarded.
LEMMA SavedStep ==
  ASSUME TypeOK, [Next]_vars
  PROVE  \/ UNCHANGED saved
         \/ SaveSegment /\ saved' = lineages'
         \/ EndRun /\ saved' = lineages /\ lineages' = lineages
BY DEF Next, Environment, Step, WriteByte, Rotate, Truncate, BeginRun, OpenSource,
    ReadSnapshot, CheckStable, NextSegment, PutData, PutManifest,
    ManifestDiffers, PutAmbiguous, SaveSegment, EndRun, RunDies, vars,
    logVars, storeVars, diskVars, runVars

\* What holds a byte keeps holding it.
LEMMA HoldsGrows ==
  ASSUME [Next]_vars, NEW i \in Inodes, NEW g \in Nat, NEW p \in Nat,
         \E k \in objects : Holds(k, i, g, p)
  PROVE  (\E k \in objects : Holds(k, i, g, p))'
BY StoreGrows DEF Holds

\* No step, save_state included, brings an offset, in memory or saved, ahead of
\* the bucket.
LEMMA CoveredStep ==
  ASSUME IInv, [Next]_vars
  PROVE  Covered(lineages)' /\ Covered(saved)'
<1> USE DEF IInv
<1>1. ASSUME NEW i \in Inodes, NEW p \in 1..lineages'[i].offset
      PROVE  (\E k \in objects : Holds(k, i, lineages[i].generation, p))'
  <2>0. TypeOK' /\ lineages[i] \in Lineage /\ saved[i] \in Lineage
    BY NextType DEF TypeOK
  <2>1. lineages'[i] \in Lineage /\ p \in Nat
    BY <2>0 DEF TypeOK, Lineage
  <2>2. CASE lineages'[i] = lineages[i]
    <3>1. \E k \in objects : Holds(k, i, lineages[i].generation, p)
      BY <2>2 DEF Covered
    <3> QED BY <2>0, <2>1, <2>2, <3>1, HoldsGrows DEF Lineage
  <2>3. CASE lineages'[i] = saved[i]
    <3>1. \E k \in objects : Holds(k, i, saved[i].generation, p)
      BY <2>3 DEF Covered
    <3> QED BY <2>0, <2>1, <2>3, <3>1, HoldsGrows DEF Lineage
  <2>4. CASE lineages'[i] = ResetGeneration(lineages[i])
    BY <2>4 DEF ResetGeneration
  <2>5. CASE /\ SaveSegment
             /\ i = src.inode
             /\ lineages'[i] = AdvanceLineage(lineages[i], segment, snapshot)
    <3>1. /\ segment \in SegmentKey
          /\ segment \in objects
          /\ \E m \in manifests : m.key = segment
          /\ segment.inode = i
          /\ segment.generation = lineages[i].generation
          /\ segment.start = lineages[i].offset
      BY <2>5 DEF SaveSegment, UploadOrder, SegmentContinues, Uploading, TypeOK
    <3>2. /\ lineages'[i].generation = lineages[i].generation
          /\ lineages'[i].offset = segment.end
      BY <2>5 DEF AdvanceLineage
    <3>3. \E k \in objects : Holds(k, i, lineages[i].generation, p)
      <4>1. CASE p <= lineages[i].offset
        <5>1. p \in 1..lineages[i].offset
          BY <2>0, <2>1, <4>1 DEF Lineage
        <5> QED BY <5>1 DEF Covered
      <4>2. CASE p > lineages[i].offset
        <5>1. Holds(segment, i, lineages[i].generation, p)
          BY <2>0, <2>1, <3>1, <3>2, <4>2 DEF Holds, Lineage, SegmentKey
        <5> QED BY <3>1, <5>1
      <4> QED BY <2>0, <2>1, <4>1, <4>2 DEF Lineage
    <3> QED BY <2>0, <2>1, <3>2, <3>3, HoldsGrows DEF Lineage
  <2> QED BY LineageStep, <2>2, <2>3, <2>4, <2>5 DEF LineageMoves
<1>2. Covered(lineages)'
  BY <1>1 DEF Covered
<1>3. CASE UNCHANGED saved
  <2>1. ASSUME NEW i \in Inodes, NEW p \in 1..saved[i].offset
        PROVE  (\E k \in objects : Holds(k, i, saved[i].generation, p))'
    <3>1. saved[i] \in Lineage
      BY DEF TypeOK
    <3>2. \E k \in objects : Holds(k, i, saved[i].generation, p)
      BY DEF Covered
    <3>3. saved[i].generation \in Nat /\ p \in Nat
      BY <3>1 DEF Lineage
    <3> QED BY <1>3, <3>2, <3>3, HoldsGrows
  <2> QED BY <1>2, <1>3, <2>1 DEF Covered
<1>4. CASE saved' = lineages'
  BY <1>2, <1>4 DEF Covered
<1> QED BY <1>2, <1>3, <1>4, SavedStep

\* No step brings memory behind STATE_PATH, or STATE_PATH behind itself.
LEMMA AheadStep ==
  ASSUME IInv, [Next]_vars
  PROVE  MemoryAhead' /\ \A i \in Inodes : NotBehind(saved'[i], saved[i])
<1> USE DEF IInv
<1>1. ASSUME NEW i \in Inodes
      PROVE  /\ lineages'[i] \in Lineage /\ saved[i] \in Lineage
             /\ NotBehind(lineages'[i], saved[i])
  <2>0. TypeOK' /\ lineages[i] \in Lineage /\ saved[i] \in Lineage
    BY NextType DEF TypeOK
  <2>1. lineages'[i] \in Lineage
    BY <2>0 DEF TypeOK
  <2>2. NotBehind(lineages[i], saved[i])
    BY DEF MemoryAhead
  <2>3. CASE lineages'[i] = lineages[i]
    BY <2>0, <2>1, <2>2, <2>3
  <2>4. CASE lineages'[i] = saved[i]
    BY <2>0, <2>1, <2>4 DEF NotBehind, Lineage
  <2>5. CASE lineages'[i] = ResetGeneration(lineages[i])
    BY <2>0, <2>1, <2>2, <2>5 DEF NotBehind, Lineage, ResetGeneration
  <2>6. CASE /\ SaveSegment
             /\ i = src.inode
             /\ lineages'[i] = AdvanceLineage(lineages[i], segment, snapshot)
    <3>1. /\ segment \in SegmentKey
          /\ segment.start = lineages[i].offset
          /\ segment.start < segment.end
      BY <2>6 DEF SaveSegment, SegmentContinues, Uploading, TypeOK
    <3>2. /\ lineages'[i].generation = lineages[i].generation
          /\ lineages'[i].offset = segment.end
      BY <2>6 DEF AdvanceLineage
    <3> QED BY <2>0, <2>1, <2>2, <3>1, <3>2 DEF NotBehind, Lineage, SegmentKey
  <2> QED BY <2>0, <2>1, LineageStep, <2>3, <2>4, <2>5, <2>6 DEF LineageMoves
<1>2. CASE UNCHANGED saved
  BY <1>1, <1>2 DEF MemoryAhead, NotBehind, Lineage
<1>3. CASE saved' = lineages'
  BY <1>1, <1>3 DEF MemoryAhead, NotBehind, Lineage
<1> QED BY <1>2, <1>3, SavedStep

\* The stability test rejects a short read.
LEMMA StableLength ==
  ASSUME NEW start, NEW before \in Seq(Byte), NEW captured, NEW after,
         Stable(start, before, captured, after)
  PROVE  Len(captured) = Len(before)
BY DEF Stable

\* archive_path keeps the segment at the end of its lineage and the order of
\* object, manifest and save.
LEMMA SegmentStep ==
  ASSUME IInv, [Next]_vars
  PROVE  SegmentContinues' /\ UploadOrder'
<1> USE DEF IInv, SegmentContinues, UploadOrder, Uploading, logVars, storeVars,
            diskVars, runVars
<1>1. CASE Environment
  BY <1>1 DEF Environment, WriteByte, Rotate, Truncate
<1>2. CASE BeginRun \/ ReadSnapshot \/ EndRun
  BY <1>2 DEF BeginRun, ReadSnapshot, EndRun
<1>3. CASE OpenSource
  BY <1>3 DEF OpenSource, CloseSource
<1>4. CASE CheckStable
  BY <1>4, StableLength DEF CheckStable, CloseSource, TypeOK
<1>5. CASE NextSegment
  <2>1. CASE CloseSource
    BY <1>5, <2>1 DEF CloseSource
  <2>2. CASE ~CloseSource
    <3> DEFINE i == src.inode
               start == lineages[i].offset
    <3>1. PICK end \in RecordEnds(snapshot, start) :
            segment' = [inode |-> i, generation |-> lineages[i].generation,
                        start |-> start, end |-> end,
                        data |-> Text(SubSeq(snapshot, start + 1, end))]
      BY <1>5, <2>2 DEF NextSegment
    <3>2. start \in Nat
      BY <1>5 DEF NextSegment, TypeOK, Lineage
    <3>3. start < end /\ end <= Len(snapshot)
      BY <3>2 DEF RecordEnds, TypeOK
    <3>4. /\ pc = "segment" /\ pc' = "data"
          /\ UNCHANGED <<lineages, src, view, snapshot>>
      BY <1>5, <2>2 DEF NextSegment
    <3>5. /\ segment'.inode = i /\ segment'.generation = lineages[i].generation
          /\ segment'.start = start /\ segment'.end = end
      BY <3>1
    <3> QED BY <3>3, <3>4, <3>5
  <2> QED BY <2>1, <2>2
<1>6. CASE PutData
  BY <1>6 DEF PutData
<1>7. CASE PutManifest
  <2>1. \E m \in manifests' : m.key = segment
    BY <1>7, CreateOnceProperties DEF PutManifest, ManifestFor
  <2> QED BY <1>7, <2>1 DEF PutManifest
<1>8. CASE ManifestDiffers \/ RunDies
  BY <1>8 DEF ManifestDiffers, RunDies, Unwind
<1>9. CASE PutAmbiguous
  <2>1. CASE Unwind
    BY <2>1 DEF Unwind
  <2>2. CASE UNCHANGED <<lineages, pc, work, src, view, snapshot, segment>>
    BY <1>9, <2>2, StoreGrows
  <2> QED BY <1>9, <2>1, <2>2 DEF PutAmbiguous
<1>10. CASE SaveSegment
  BY <1>10 DEF SaveSegment
<1>11. CASE UNCHANGED vars
  BY <1>11 DEF vars
<1> QED
  BY <1>1, <1>2, <1>3, <1>4, <1>5, <1>6, <1>7, <1>8, <1>9, <1>10, <1>11
  DEF Next, Step

\* put_once with If-None-Match keeps one body for a key, beside its object.
LEMMA ManifestStep ==
  ASSUME IInv, [Next]_vars
  PROVE  OneManifestBesideItsObject'
<1> USE DEF IInv
<1>1. CASE manifests' = manifests
  BY <1>1, StoreGrows DEF OneManifestBesideItsObject
<1>2. CASE /\ pc = "manifest"
           /\ manifests' = CreateOnce(manifests, ManifestFor(segment))
  <2> DEFINE m == ManifestFor(segment)
  <2>1. m.key = segment /\ m.size = Len(view)
    BY DEF ManifestFor
  <2>2. segment \in objects' /\ m.size >= m.key.end
    BY <1>2, <2>1, StoreGrows
    DEF UploadOrder, SegmentContinues, Uploading, TypeOK, SegmentKey
  <2>3. CASE \E x \in manifests : x.key = m.key
    BY <1>1, <1>2, <2>3 DEF CreateOnce
  <2>4. CASE \A x \in manifests : x.key # m.key
    <3>1. manifests' = manifests \cup {m}
      BY <1>2, <2>4 DEF CreateOnce
    <3> HIDE DEF m
    <3> QED BY <2>1, <2>2, <2>4, <3>1, StoreGrows DEF OneManifestBesideItsObject
  <2> QED BY <2>3, <2>4
<1> QED
  BY <1>1, <1>2
  DEF Next, Environment, Step, WriteByte, Rotate, Truncate, BeginRun, OpenSource,
      ReadSnapshot, CheckStable, NextSegment, PutData, PutManifest,
      ManifestDiffers, PutAmbiguous, SaveSegment, EndRun, RunDies, vars,
      logVars, storeVars, diskVars, runVars

\* The strengthening holds in every reachable state.
THEOREM Invariance == Spec => []IInv
<1>1. IInv /\ [Next]_vars => IInv'
  BY NextType, CoveredStep, AheadStep, SegmentStep, ManifestStep DEF IInv
<1> QED BY <1>1, InitInv, PTL DEF Spec

\* save_state is never ahead of the bucket: a saved offset is covered by
\* evidence objects with manifests, for any number of inodes, events, faults,
\* truncations and attempts.
THEOREM EvidenceBeforeOffset == Spec => []SavedOffsetCovered
<1>1. IInv => SavedOffsetCovered
  BY DEF IInv, Covered, SavedOffsetCovered
<1> QED BY <1>1, Invariance, PTL

\* upload_with_manifest never leaves a manifest without its object, and no
\* retry, lost answer or crash gives a key a second body.
THEOREM ManifestUnique == Spec => []OneManifestBesideItsObject
<1>1. IInv => OneManifestBesideItsObject
  BY DEF IInv
<1> QED BY <1>1, Invariance, PTL

\* No step of the archive or of its environment moves a saved lineage back.
THEOREM SavedForward == Spec => SavedNeverRegresses
<1>1. IInv /\ [Next]_vars =>
        [\A i \in Inodes :
           \/ saved'[i].generation > saved[i].generation
           \/ /\ saved'[i].generation = saved[i].generation
              /\ saved'[i].offset >= saved[i].offset]_saved
  BY AheadStep DEF NotBehind
<1> QED BY <1>1, Invariance, PTL DEF Spec, SavedNeverRegresses

-----------------------------------------------------------------------------
(* The archive implements the ledger.                                      *)

\* How far the saved lineages have got, as the ledger sees it.
Passed == [i \in Inodes |-> [generation |-> saved[i].generation,
                             offset     |-> saved[i].offset]]

\* A put_once of a manifest whose object is stored attests it, or changes
\* nothing when the key has its manifest.
LEMMA ManifestAttests ==
  ASSUME IInv, pc = "manifest", UNCHANGED objects, UNCHANGED saved,
         manifests' = CreateOnce(manifests, ManifestFor(segment))
  PROVE  Ledger!Attest \/ UNCHANGED manifests
<1> DEFINE m == ManifestFor(segment)
<1>1. m.key = segment /\ segment \in objects
  BY DEF ManifestFor, IInv, UploadOrder
<1>2. CASE \E x \in manifests : x.key = m.key
  BY <1>2 DEF CreateOnce
<1>3. CASE ~\E x \in manifests : x.key = m.key
  <2>1. manifests' = manifests \cup {m}
    BY <1>3 DEF CreateOnce
  <2> HIDE DEF m
  <2> QED BY <1>1, <1>3, <2>1 DEF Ledger!Attest, Ledger!Attested
<1> QED BY <1>2, <1>3

\* A save_state passes logs forward, over attested evidence only.
LEMMA SavePasses ==
  ASSUME IInv, [Next]_vars, UNCHANGED <<objects, manifests>>
  PROVE  Ledger!Pass
<1>1. TypeOK' /\ Covered(saved)'
  BY NextType, CoveredStep DEF IInv
<1>2. Passed' \in [Inodes -> [generation : Nat, offset : Nat]]
  BY <1>1 DEF Passed, TypeOK, Lineage
<1>3. ASSUME NEW i \in Inodes
      PROVE  /\ Ledger!Forward(Passed[i], Passed'[i])
             /\ \A p \in 1..Passed'[i].offset :
                  \E k \in objects :
                    /\ Ledger!Has(k, i, Passed'[i].generation, p)
                    /\ Ledger!Attested(k)
  <2>1. /\ Passed[i].generation = saved[i].generation
        /\ Passed[i].offset = saved[i].offset
        /\ Passed'[i].generation = saved'[i].generation
        /\ Passed'[i].offset = saved'[i].offset
    BY DEF Passed
  <2>2. Ledger!Forward(Passed[i], Passed'[i])
    BY <2>1, AheadStep DEF NotBehind, Ledger!Forward
  <2>3. \A p \in 1..saved'[i].offset :
          \E k \in objects : Holds(k, i, saved'[i].generation, p)
    BY <1>1 DEF Covered, Holds
  <2>4. \A k, p : Holds(k, i, saved'[i].generation, p)
                  => /\ Ledger!Has(k, i, Passed'[i].generation, p)
                     /\ Ledger!Attested(k)
    BY <2>1 DEF Holds, Ledger!Has, Ledger!Attested
  <2> QED BY <2>1, <2>2, <2>3, <2>4
<1> QED BY <1>2, <1>3 DEF Ledger!Pass, Passed

\* Every step of the archive is a step of the ledger or leaves it alone.
LEMMA LedgerStep ==
  ASSUME IInv, [Next]_vars
  PROVE  [Ledger!Next]_<<objects, manifests, Passed>>
<1> USE DEF logVars, storeVars, diskVars, runVars
<1>1. CASE PutData
  <2>1. objects' = objects \cup {segment} /\ UNCHANGED <<manifests, saved>>
    BY <1>1 DEF PutData
  <2> QED BY <2>1 DEF Ledger!Next, Ledger!Store, Passed
<1>2. CASE PutManifest
  <2>1. UNCHANGED <<objects, saved>>
    BY <1>2 DEF PutManifest
  <2>2. Ledger!Attest \/ UNCHANGED manifests
    BY <1>2, <2>1, ManifestAttests DEF PutManifest
  <2> QED BY <2>1, <2>2 DEF Ledger!Next, Passed
<1>3. CASE PutAmbiguous
  <2>1. UNCHANGED saved
    BY <1>3 DEF PutAmbiguous
  <2>2. CASE UNCHANGED <<objects, manifests>>
    BY <2>1, <2>2 DEF Passed
  <2>3. CASE objects' = objects \cup {segment} /\ UNCHANGED manifests
    BY <2>1, <2>3 DEF Ledger!Next, Ledger!Store, Passed
  <2>4. CASE /\ pc = "manifest"
             /\ manifests' = CreateOnce(manifests, ManifestFor(segment))
             /\ UNCHANGED objects
    <3>1. Ledger!Attest \/ UNCHANGED manifests
      BY <2>1, <2>4, ManifestAttests
    <3> QED BY <2>1, <2>4, <3>1 DEF Ledger!Next, Passed
  <2> QED BY <1>3, <2>2, <2>3, <2>4 DEF PutAmbiguous
<1>4. CASE UNCHANGED <<objects, manifests>>
  BY <1>4, SavePasses DEF Ledger!Next
<1>5. UNCHANGED <<objects, manifests>> \/ PutData \/ PutManifest \/ PutAmbiguous
  BY DEF Next, Environment, Step, WriteByte, Rotate, Truncate, BeginRun,
         OpenSource, ReadSnapshot, CheckStable, NextSegment, ManifestDiffers,
         SaveSegment, EndRun, RunDies, vars
<1> QED BY <1>1, <1>2, <1>3, <1>4, <1>5

\* s3-archive.py implements the ledger, for any number of inodes, events,
\* faults, truncations and attempts: the bucket only grows, each object is
\* attested once and only when stored, and every save_state passes only bytes
\* that attested evidence of that generation covers.
THEOREM ArchiveImplementsLedger == Spec => ImplementsLedger
<1>1. Init => Ledger!Init
  BY DEF Init, NewLineage, Ledger!Init, Ledger!Origin
<1>2. IInv /\ [Next]_vars => [Ledger!Next]_<<objects, manifests, Passed>>
  BY LedgerStep
<1> QED
  BY <1>1, <1>2, Invariance, PTL DEF Spec, ImplementsLedger, Ledger!Spec, Passed

=============================================================================
