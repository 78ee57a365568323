----------------------------- MODULE S3Archive -----------------------------
(***************************************************************************)
(* The independent evidence archive, native/s3-archive.py: a oneshot       *)
(* process started by a timer under an exclusive flock.  Each run loads    *)
(* the saved lineages, walks the rotated logs and then the current log,    *)
(* and for every complete record creates a content-addressed S3 object and *)
(* a manifest beside it before it saves the new offset.                    *)
(*                                                                         *)
(* A log is a sequence of bytes.  Records begin with what tells them apart *)
(* and may end alike: the archive reads the text of a byte, and only the   *)
(* model knows the event of every byte.  So the last bytes before an       *)
(* offset can be the same in two incarnations of a log.  SHA-256 is taken  *)
(* to be injective, and a digest is the text it digests.  Cowrie, the file *)
(* system and S3 are modelled from how s3-archive.py uses them.            *)
(***************************************************************************)
EXTENDS Integers, Sequences, FiniteSets

CONSTANTS
  Inodes,          \* the inodes the log directory can use
  LogPath,         \* the pathname cowrie.json in a work list
  AnchorBytes,     \* ANCHOR_BYTES, 64 in the code
  MaxPutAttempts,  \* MAX_PUT_ATTEMPTS, 4 in the code
  MaxEvents,       \* bound: events Cowrie logs in a behaviour
  MaxTruncations,  \* bound: in-place truncations of the current log
  MaxFaults        \* bound: crashes, lost responses and refused requests

ASSUME ArchiveAssumption ==
  /\ Inodes # {}
  /\ LogPath \notin Inodes
  /\ AnchorBytes \in Nat \ {0}
  /\ MaxPutAttempts \in Nat \ {0}
  /\ MaxEvents \in Nat
  /\ MaxTruncations \in Nat
  /\ MaxFaults \in Nat

VARIABLES
  content,      \* bytes of every inode
  rotated,      \* inodes of the rotated logs, in the order of their names
  current,      \* inode that cowrie.json names
  logged,       \* events logged so far
  truncations,  \* truncations so far
  objects,      \* evidence objects in the bucket: the keys, data included
  manifests,    \* manifests in the bucket, at their object's key
  saved,        \* lineages in STATE_PATH
  uploaded,     \* uploaded_objects in STATE_PATH
  lineages,     \* lineages in the memory of the run
  pc,           \* what the run does next; "idle" when no run is active
  work,         \* paths the run has still to archive
  src,          \* the opened source: its inode and its kind
  view,         \* bytes the descriptor had at the first fstat
  snapshot,     \* bytes read from the descriptor
  segment,      \* the segment being uploaded
  attempt,      \* attempt of the put_once under way
  faults,       \* faults so far
  repeats       \* history: the generations in which a window of another
                \* incarnation was taken for the one expected

logVars   == <<content, rotated, current, logged, truncations>>
storeVars == <<objects, manifests>>
diskVars  == <<saved, uploaded>>
runVars   == <<lineages, pc, work, src, view, snapshot, segment, attempt>>
vars      == <<logVars, storeVars, diskVars, runVars, faults, repeats>>

-----------------------------------------------------------------------------
(* Data.                                                                   *)

\* Records have different lengths, so that offsets of one log need not be
\* record boundaries of another.
Width(e) == IF e % 2 = 1 THEN 2 ELSE 1

Byte == [event : Nat, lf : BOOLEAN]

\* What a program reads of a byte: the LF behind a record's first byte is the LF
\* of any record.
Seen(b) ==
  [event |-> IF b.lf /\ Width(b.event) = 2 THEN 0 ELSE b.event, lf |-> b.lf]

Text(bytes) == [n \in 1..Len(bytes) |-> Seen(bytes[n])]

\* A descriptor anchor; NoAnchor is None.
NoAnchor == [offset |-> 0, window |-> <<>>]

Anchor == [offset : Nat, window : Seq(Byte)]

\* A lineage that lineage_for has just created, and one it has not met yet.
NewLineage == [generation |-> 0, offset |-> 0, anchor |-> NoAnchor]

Lineage == [generation : Nat, offset : Nat, anchor : Anchor]

\* The key of an evidence object: it names the inode, the generation, the
\* byte range and the digest, here the text itself.
SegmentKey == [inode : Inodes, generation : Nat, start : Nat, end : Nat,
               data : Seq(Byte)]

Kind == {"rotated-continuation", "current"}

\* What of a manifest the key does not determine (source_name follows from
\* kind and inode; object_version_id is the one version of the key).
Manifest == [key : SegmentKey, kind : Kind, size : Nat]

NoSource  == [inode |-> LogPath, kind |-> "current"]
NoSegment == [start |-> 0, end |-> 0, data |-> <<>>]

\* snapshot_anchor and descriptor_anchor: the window of at most AnchorBytes
\* bytes that ends at an offset.  NoAnchor when the bytes are not there.
DescriptorAnchor(bytes, end) ==
  IF end <= 0 \/ Len(bytes) < end
  THEN NoAnchor
  ELSE [offset |-> end,
        window |-> SubSeq(bytes,
                          (IF end > AnchorBytes THEN end - AnchorBytes ELSE 0) + 1,
                          end)]

\* None matches nothing; otherwise the offset and the digest of the window do.
AnchorsMatch(expected, actual) ==
  /\ expected # NoAnchor
  /\ actual # NoAnchor
  /\ expected.offset = actual.offset
  /\ Text(expected.window) = Text(actual.window)

\* They match, and the windows are of two incarnations of the log.
Repeats(expected, actual) == AnchorsMatch(expected, actual) /\ expected # actual

\* Mutant: the reset forgets the new generation.
ResetSameGeneration(l) ==
  [generation |-> l.generation, offset |-> 0, anchor |-> NoAnchor]

ResetGeneration(l) ==
  [generation |-> l.generation + 1, offset |-> 0, anchor |-> NoAnchor]

\* Mutant: only a shorter file is recognised as another one.
LineageForSizeOnly(l, bytes) ==
  IF Len(bytes) < l.offset THEN ResetGeneration(l) ELSE l

LineageFor(l, bytes) ==
  IF \/ Len(bytes) < l.offset
     \/ /\ l.offset > 0
        /\ ~AnchorsMatch(l.anchor, DescriptorAnchor(bytes, l.offset))
  THEN ResetGeneration(l)
  ELSE l

\* The anchor of a lineage matches another incarnation of the log.
Mistaken(l, bytes) == Repeats(l.anchor, DescriptorAnchor(bytes, l.offset))

\* The pre/post test of archive_path around the descriptor read.
Stable(start, before, captured, after) ==
  LET end == Len(before)
      endAnchor == DescriptorAnchor(captured, end)
  IN /\ Len(captured) = end
     /\ Len(after) >= end
     /\ AnchorsMatch(DescriptorAnchor(before, end), endAnchor)
     /\ AnchorsMatch(endAnchor, DescriptorAnchor(after, end))
     /\ start > 0 => AnchorsMatch(DescriptorAnchor(before, start),
                                  DescriptorAnchor(after, start))

\* What was read ends like the file that was opened, and is another incarnation.
ReadRepeats(before, captured) ==
  Repeats(DescriptorAnchor(before, Len(before)), DescriptorAnchor(captured, Len(before)))

\* Mutant: an unterminated tail counts as a record.
RecordEndsWithTail(bytes, start) ==
  {e \in (start + 1)..Len(bytes) : bytes[e].lf \/ e = Len(bytes)}

\* Mutant: the search for LF starts one byte late.
RecordEndsLate(bytes, start) ==
  {e \in (start + 2)..Len(bytes) : bytes[e].lf}

\* Where the complete records of a snapshot end, beyond an offset.
RecordEnds(bytes, start) ==
  {e \in (start + 1)..Len(bytes) : bytes[e].lf}

\* Mutant: the PUT is not conditional.
CreateAgain(stored, m) == stored \cup {m}

\* PUT with If-None-Match "*": an existing key keeps its body.
CreateOnce(stored, m) ==
  IF \E x \in stored : x.key = m.key THEN stored ELSE stored \cup {m}

-----------------------------------------------------------------------------
(* The log directory (external).                                           *)

\* Cowrie flushes the next byte of its log.
WriteByte ==
  LET log  == content[current]
      open == log # <<>> /\ ~log[Len(log)].lf
      e    == IF open THEN log[Len(log)].event ELSE logged + 1
  IN /\ open \/ logged < MaxEvents
     /\ content' = [content EXCEPT ![current] =
                      Append(@, [event |-> e,
                                 lf |-> open \/ Width(e) = 1])]
     /\ logged' = e
     /\ UNCHANGED <<rotated, current, truncations>>
     /\ UNCHANGED <<storeVars, diskVars, runVars, faults, repeats>>

\* Cowrie renames the log and continues in a new file.
Rotate ==
  /\ content[current] # <<>>
  /\ content[current][Len(content[current])].lf
  /\ \E i \in Inodes :
       /\ i # current
       /\ \A n \in DOMAIN rotated : rotated[n] # i
       /\ current' = i
  /\ rotated' = Append(rotated, current)
  /\ UNCHANGED <<content, logged, truncations>>
  /\ UNCHANGED <<storeVars, diskVars, runVars, faults, repeats>>

\* A copytruncate or an in-place replacement of the current log.
Truncate ==
  /\ truncations < MaxTruncations
  /\ content[current] # <<>>
  /\ truncations' = truncations + 1
  /\ content' = [content EXCEPT ![current] = <<>>]
  /\ UNCHANGED <<rotated, current, logged>>
  /\ UNCHANGED <<storeVars, diskVars, runVars, faults, repeats>>

-----------------------------------------------------------------------------
(* A run of the archive.                                                   *)

\* The process is gone: the flock is released, memory is lost.
Unwind ==
  /\ pc' = "idle"
  /\ lineages' = saved
  /\ work' = <<>>
  /\ src' = NoSource
  /\ view' = <<>>
  /\ snapshot' = <<>>
  /\ segment' = NoSegment
  /\ attempt' = 1

\* The source under way is finished and its descriptor closed.
CloseSource ==
  /\ pc' = "next"
  /\ work' = Tail(work)
  /\ src' = NoSource
  /\ view' = <<>>
  /\ snapshot' = <<>>
  /\ UNCHANGED <<segment, attempt>>

\* locked_run up to archive_rotated: load_state, and the paths to visit.
BeginRun ==
  /\ pc = "idle"
  /\ pc' = "next"
  /\ lineages' = saved
  /\ work' = Append(rotated, LogPath)
  /\ UNCHANGED <<src, view, snapshot, segment, attempt>>
  /\ UNCHANGED <<logVars, storeVars, diskVars, faults, repeats>>

\* archive_path opens the path once and settles the lineage of what it opened.
OpenSource ==
  /\ pc = "next"
  /\ work # <<>>
  /\ LET i == IF Head(work) = LogPath THEN current ELSE Head(work)
         l == LineageFor(lineages[i], content[i])
     IN /\ lineages' = [lineages EXCEPT ![i] = l]
        /\ repeats' = IF Mistaken(l, content[i])
                      THEN repeats \cup {<<i, l.generation>>} ELSE repeats
        /\ \/ /\ Len(content[i]) <= l.offset
              /\ CloseSource
           \/ /\ Len(content[i]) > l.offset
              /\ pc' = "opened"
              /\ src' = [inode |-> i,
                         kind |-> IF Head(work) = LogPath
                                  THEN "current" ELSE "rotated-continuation"]
              /\ view' = content[i]
              /\ UNCHANGED <<work, snapshot, segment, attempt>>
  /\ UNCHANGED <<logVars, storeVars, diskVars, faults>>

\* read_at up to the size the first fstat reported; short if truncated.
ReadSnapshot ==
  /\ pc = "opened"
  /\ snapshot' = SubSeq(content[src.inode], 1,
                        IF Len(content[src.inode]) < Len(view)
                        THEN Len(content[src.inode]) ELSE Len(view))
  /\ pc' = "captured"
  /\ UNCHANGED <<lineages, work, src, view, segment, attempt>>
  /\ UNCHANGED <<logVars, storeVars, diskVars, faults, repeats>>

\* The second fstat and the anchors after the read.
CheckStable ==
  LET i == src.inode
      stable == Stable(lineages[i].offset, view, snapshot, content[i])
  IN /\ pc = "captured"
     /\ \/ /\ stable
           /\ pc' = "segment"
           /\ repeats' = IF ReadRepeats(view, snapshot)
                         THEN repeats \cup {<<i, lineages[i].generation>>} ELSE repeats
           /\ UNCHANGED <<lineages, work, src, view, snapshot, segment, attempt>>
        \/ /\ ~stable
           /\ lineages' = [lineages EXCEPT ![i] = ResetGeneration(@)]
           /\ CloseSource
           /\ UNCHANGED repeats
     /\ UNCHANGED <<logVars, storeVars, diskVars, faults>>

\* The next complete record of the snapshot becomes a segment with its key.
NextSegment ==
  LET i     == src.inode
      start == lineages[i].offset
      ends  == RecordEnds(snapshot, start)
  IN /\ pc = "segment"
     /\ \/ /\ ends = {}
           /\ CloseSource
           /\ UNCHANGED lineages
        \/ \E end \in ends :
             /\ \A e \in ends : end <= e
             /\ segment' = [inode |-> i,
                            generation |-> lineages[i].generation,
                            start |-> start, end |-> end,
                            data |-> Text(SubSeq(snapshot, start + 1, end))]
             /\ pc' = "data"
             /\ attempt' = 1
             /\ UNCHANGED <<lineages, work, src, view, snapshot>>
     /\ UNCHANGED <<logVars, storeVars, diskVars, faults, repeats>>

\* Mutant: any answer to the PUT counts as success.
PutDataUnverified ==
  /\ pc = "data"
  /\ objects' \in {objects, objects \cup {segment}}
  /\ pc' = "manifest"
  /\ attempt' = 1
  /\ UNCHANGED <<manifests, lineages, work, src, view, snapshot, segment>>
  /\ UNCHANGED <<logVars, diskVars, faults, repeats>>

\* put_once of the evidence object: the PUT succeeded, or was refused with
\* 412, and the GET found the expected bytes.
PutData ==
  /\ pc = "data"
  /\ objects' = objects \cup {segment}
  /\ pc' = "manifest"
  /\ attempt' = 1
  /\ UNCHANGED <<manifests, lineages, work, src, view, snapshot, segment>>
  /\ UNCHANGED <<logVars, diskVars, faults, repeats>>

\* The manifest upload_with_manifest builds for the segment under way.
ManifestFor(s) == [key |-> s, kind |-> src.kind, size |-> Len(view)]

\* put_once of the manifest, verified: what the bucket holds is what was sent.
PutManifest ==
  /\ pc = "manifest"
  /\ ManifestFor(segment) \in CreateOnce(manifests, ManifestFor(segment))
  /\ manifests' = CreateOnce(manifests, ManifestFor(segment))
  /\ pc' = "save"
  /\ attempt' = 1
  /\ UNCHANGED <<objects, lineages, work, src, view, snapshot, segment>>
  /\ UNCHANGED <<logVars, diskVars, faults, repeats>>

\* put_once of the manifest: 412, and verify_object raises because the body
\* stored there is another one.  The exception ends the whole run.
ManifestDiffers ==
  /\ pc = "manifest"
  /\ ManifestFor(segment) \notin CreateOnce(manifests, ManifestFor(segment))
  /\ Unwind
  /\ UNCHANGED <<logVars, storeVars, diskVars, faults, repeats>>

\* Mutant: one attempt too many.
RetriesLeftTooMany(a) == a <= MaxPutAttempts

\* The loop of put_once has another attempt after attempt a.
RetriesLeft(a) == a < MaxPutAttempts

\* A PUT whose answer is a timeout, a 5xx or a 409: it may have taken effect.
\* The same request is sent again until the attempts are exhausted.
PutAmbiguous ==
  /\ pc \in {"data", "manifest"}
  /\ faults < MaxFaults
  /\ faults' = faults + 1
  /\ \/ UNCHANGED storeVars
     \/ /\ pc = "data"
        /\ objects' = objects \cup {segment}
        /\ UNCHANGED manifests
     \/ /\ pc = "manifest"
        /\ manifests' = CreateOnce(manifests, ManifestFor(segment))
        /\ UNCHANGED objects
  /\ \/ /\ RetriesLeft(attempt)
        /\ attempt' = attempt + 1
        /\ UNCHANGED <<lineages, pc, work, src, view, snapshot, segment>>
     \/ /\ ~RetriesLeft(attempt)
        /\ Unwind
  /\ UNCHANGED <<logVars, diskVars, repeats>>

\* Mutant: the offset jumps to the end of the snapshot.
AdvanceToSnapshot(l, s, bytes) ==
  [generation |-> l.generation, offset |-> Len(bytes),
   anchor |-> DescriptorAnchor(bytes, Len(bytes))]

\* Mutant: the offset stays where it was.
AdvanceNowhere(l, s, bytes) ==
  [generation |-> l.generation, offset |-> l.offset, anchor |-> l.anchor]

\* What archive_path records of a segment once object and manifest are there.
AdvanceLineage(l, s, bytes) ==
  [generation |-> l.generation, offset |-> s.end,
   anchor |-> DescriptorAnchor(bytes, s.end)]

\* The lineage advances and save_state replaces STATE_PATH atomically.
SaveSegment ==
  /\ pc = "save"
  /\ lineages' = [lineages EXCEPT
                    ![src.inode] = AdvanceLineage(@, segment, snapshot)]
  /\ saved' = lineages'
  /\ uploaded' = uploaded + 1
  /\ pc' = "segment"
  /\ segment' = NoSegment
  /\ UNCHANGED <<work, src, view, snapshot, attempt>>
  /\ UNCHANGED <<logVars, storeVars, faults, repeats>>

\* locked_run's last save_state; the lock is released.
EndRun ==
  /\ pc = "next"
  /\ work = <<>>
  /\ saved' = lineages
  /\ pc' = "idle"
  /\ UNCHANGED <<uploaded, lineages, work, src, view, snapshot, segment, attempt>>
  /\ UNCHANGED <<logVars, storeVars, faults, repeats>>

\* The run dies: it is killed, S3 denies access, a GET or a save_state fails.
RunDies ==
  /\ pc # "idle"
  /\ faults < MaxFaults
  /\ faults' = faults + 1
  /\ Unwind
  /\ UNCHANGED <<logVars, storeVars, diskVars, repeats>>

-----------------------------------------------------------------------------

Init ==
  /\ content = [i \in Inodes |-> <<>>]
  /\ rotated = <<>>
  /\ current \in Inodes
  /\ logged = 0
  /\ truncations = 0
  /\ objects = {}
  /\ manifests = {}
  /\ saved = [i \in Inodes |-> NewLineage]
  /\ uploaded = 0
  /\ lineages = saved
  /\ pc = "idle"
  /\ work = <<>>
  /\ src = NoSource
  /\ view = <<>>
  /\ snapshot = <<>>
  /\ segment = NoSegment
  /\ attempt = 1
  /\ faults = 0
  /\ repeats = {}

Step ==
  \/ BeginRun \/ OpenSource \/ ReadSnapshot \/ CheckStable \/ NextSegment
  \/ PutData \/ PutManifest \/ ManifestDiffers \/ SaveSegment \/ EndRun

Environment == WriteByte \/ Rotate \/ Truncate

Next == Environment \/ Step \/ PutAmbiguous \/ RunDies

Spec == Init /\ [][Next]_vars

\* patriotpot-archive.timer starts a run every five minutes and a run takes its
\* next step.  New bytes, rotations and faults need not happen; faults stop.
FairSpec == Spec /\ WF_vars(Step)

-----------------------------------------------------------------------------
(* Properties.                                                             *)

\* The variables hold values of the kinds the code keeps; a source is open and
\* a segment is defined wherever the run uses them.
TypeOK ==
  /\ content \in [Inodes -> Seq(Byte)]
  /\ rotated \in Seq(Inodes)
  /\ current \in Inodes
  /\ logged \in Nat
  /\ truncations \in Nat
  /\ objects \in SUBSET SegmentKey
  /\ manifests \in SUBSET Manifest
  /\ saved \in [Inodes -> Lineage]
  /\ uploaded \in Nat
  /\ lineages \in [Inodes -> Lineage]
  /\ pc \in {"idle", "next", "opened", "captured", "segment", "data",
             "manifest", "save"}
  /\ work \in Seq(Inodes \cup {LogPath})
  /\ pc \in {"opened", "captured", "segment", "data", "manifest", "save"}
       => src \in [inode : Inodes, kind : Kind] /\ work # <<>>
  /\ view \in Seq(Byte)
  /\ snapshot \in Seq(Byte)
  /\ pc \in {"data", "manifest", "save"} => segment \in SegmentKey
  /\ attempt \in 1..MaxPutAttempts
  /\ faults \in Nat
  /\ repeats \subseteq Inodes \X Nat

\* Object k holds byte p of generation g of inode i, and its manifest is stored.
Holds(k, i, g, p) ==
  /\ k.inode = i /\ k.generation = g
  /\ k.start < p /\ p <= k.end
  /\ \E m \in manifests : m.key = k

\* save_state is never ahead of the bucket: every byte below a saved offset is
\* in an evidence object of that inode and generation, with its manifest,
\* whatever crashed, was lost or was refused on the way.
SavedOffsetCovered ==
  \A i \in Inodes :
    \A p \in 1..saved[i].offset :
      \E k \in objects : Holds(k, i, saved[i].generation, p)

\* "Reuse of a pathname, copytruncate, or in-place replacement must not continue
\* an old byte range under the same generation": where lineage_for accepts a
\* saved anchor, the whole prefix it skips is in the bucket byte for byte, across
\* truncations, replacements and generations -- unless the few bytes of a window
\* were repeated by another incarnation, now or earlier in that generation.
SkippedPrefixArchived ==
  \A i \in Inodes :
    /\ LineageFor(saved[i], content[i]) = saved[i]
    /\ ~Mistaken(saved[i], content[i])
    /\ <<i, saved[i].generation>> \notin repeats
    => \A p \in 1..saved[i].offset :
         \E k \in objects : /\ Holds(k, i, saved[i].generation, p)
                            /\ k.data[p - k.start] = Text(content[i])[p]

\* The text is one whole record: the first byte of an event, and one LF that ends
\* it at the record's length.
IsRecord(text) ==
  /\ text # <<>> /\ text[1].event # 0
  /\ Len(text) = Width(text[1].event)
  /\ \A n \in DOMAIN text : text[n].lf <=> n = Len(text)

\* Every evidence object is one whole record: never a fragment of a line Cowrie
\* was writing, never cut at an offset of another incarnation, whatever happens
\* to the log between the fstats and the read, unless a window was repeated.
ObjectsAreWholeRecords ==
  \A k \in objects :
    /\ Len(k.data) = k.end - k.start
    /\ <<k.inode, k.generation>> \notin repeats => IsRecord(k.data)

\* upload_with_manifest: a manifest is stored only beside its object, and a
\* key has one body; a lost answer followed by a retry adds no second one.
OneManifestBesideItsObject ==
  \A m \in manifests :
    /\ m.key \in objects
    /\ m.size >= m.key.end
    /\ \A n \in manifests : n.key = m.key => n = m

\* uploaded_objects never counts a record twice: a segment repeated after a
\* crash between PUT and save_state is counted by the one save that succeeds.
UploadedCountsOnce == uploaded <= Cardinality(objects)

\* A step of the archive moves a saved lineage forward only: the offset grows
\* within a generation, and a reset goes to a later generation.
SavedNeverRegresses ==
  [][\A i \in Inodes :
       \/ saved'[i].generation > saved[i].generation
       \/ /\ saved'[i].generation = saved[i].generation
          /\ saved'[i].offset >= saved[i].offset]_saved

\* The record of event e is complete in some log.
Logged(e) ==
  \E i \in Inodes : \E p \in DOMAIN content[i] :
    content[i][p] = [event |-> e, lf |-> TRUE]

\* The record of event e is in the bucket and the saved state has passed it.
Archived(e) ==
  \E k \in objects : /\ k.data[1].event = e
                     /\ \E m \in manifests : m.key = k
                     /\ \/ saved[k.inode].generation > k.generation
                        \/ /\ saved[k.inode].generation = k.generation
                           /\ saved[k.inode].offset >= k.end

\* A manifest was created for a record that the next run starts at or before,
\* with a snapshot size or a kind that no later run can send again.
Orphaned ==
  \E m \in manifests :
    LET i == m.key.inode
        l == LineageFor(saved[i], content[i])
    IN /\ l.generation = m.key.generation
       /\ l.offset <= m.key.start
       /\ m.key.end <= Len(content[i])
       /\ Text(SubSeq(content[i], m.key.start + 1, m.key.end)) = m.key.data
       /\ \/ m.size < Len(content[i])
          \/ m.kind = "current" /\ i # current

\* The record of event e lies below an offset that a repeated window vouches for.
Overlooked(e) ==
  \E i \in Inodes : \E p \in 1..saved[i].offset :
    /\ p \in DOMAIN content[i] /\ content[i][p].event = e
    /\ \/ <<i, saved[i].generation>> \in repeats
       \/ Mistaken(saved[i], content[i])

\* Once faults are over, every complete record gets archived unless its log is
\* truncated first, an orphaned manifest blocks the runs, or a window that
\* repeats makes the archive take it for one that it has.
RecordsEventuallyArchived ==
  \A e \in 1..MaxEvents :
    Logged(e) ~> (Archived(e) \/ ~Logged(e) \/ Orphaned \/ Overlooked(e))

\* archive_path on a crash between PUT and save_state: "retries its exact key".
\* The manifest a run is about to create is the one already stored there.
RetrySendsSameManifest ==
  pc = "manifest" =>
    \A m \in manifests : m.key = segment => m = ManifestFor(segment)

\* What the ledger sees: the bucket, and how far each saved lineage has got.
Ledger == INSTANCE EvidenceLedger WITH
  Logs         <- Inodes,
  evidence     <- objects,
  attestations <- manifests,
  passed       <- [i \in Inodes |-> [generation |-> saved[i].generation,
                                     offset     |-> saved[i].offset]]

\* The archive implements the ledger: whatever interleaving of runs, crashes,
\* truncations, lost answers and retries, the bucket only grows, an object is
\* attested once and after it is stored, and each save_state passes bytes that
\* attested evidence of that generation covers.
ImplementsLedger == Ledger!Spec

=============================================================================
