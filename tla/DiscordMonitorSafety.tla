------------------------ MODULE DiscordMonitorSafety ------------------------
(***************************************************************************)
(* Proofs about the Discord monitor, for every value of the constants: no  *)
(* line is reported twice, what was settled does not come back, no line of *)
(* a session is lost, and the monitor implements the summary ledger.       *)
(***************************************************************************)
EXTENDS DiscordMonitorProofs

-----------------------------------------------------------------------------
(* Where the lines are.                                                    *)

Apart(a, b) == \A n \in a : n \notin b

\* What safety depends on: a state, the lines taken in, and the clusters, which
\* are those of the manager or those that the state itself keeps.
View(o, st, cl) ==
  [offset |-> o, known |-> Known(st), awaiting |-> st.awaiting,
   pending |-> st.pending, lines |-> [k \in DOMAIN cl |-> cl[k].lines]]

\* Line n has still to be queued; an item with line n is queued; the summary of
\* line n is still to be sent.
Waits(n, v) ==
  \/ \E k \in DOMAIN v.lines : n \in v.lines[k]
  \/ \E i \in v.awaiting : n \in i.lines

Queued(n, c, v) == \E a \in DOMAIN v.pending[c] : n \in v.pending[c][a].lines

Held(n, v) == Waits(n, v) \/ Queued(n, "intel", v)

Kind(c) == IF c = "intel" THEN "summary" ELSE "alert"

Kinds(v) ==
  /\ \A i \in v.awaiting : i.type = "summary" /\ i.lines # {}
  /\ \A k \in DOMAIN v.lines : v.lines[k] # {}
  /\ \A c \in Channels : \A a \in DOMAIN v.pending[c] : v.pending[c][a].type = Kind(c)

\* No line is in two places that will be summarised, or twice in a queue.
Single(v) ==
  /\ \A j, k \in DOMAIN v.lines : j # k => Apart(v.lines[j], v.lines[k])
  /\ \A i, j \in v.awaiting : i # j => Apart(i.lines, j.lines)
  /\ \A i \in v.awaiting : \A k \in DOMAIN v.lines : Apart(i.lines, v.lines[k])
  /\ \A c \in Channels : \A a, b \in DOMAIN v.pending[c] :
       a # b => Apart(v.pending[c][a].lines, v.pending[c][b].lines)

\* A line that waits is in no summary that is queued or settled.
Unsettled(v) ==
  \A n : Waits(n, v) =>
    /\ ~Queued(n, "intel", v)
    /\ \A i \in v.known : i.type = "summary" => n \notin i.lines

\* Nothing is beyond the offset.
Behind(v) ==
  \A n : Held(n, v) \/ Queued(n, "legacy", v) \/ (\E i \in v.known : n \in i.lines)
           => n \in 0..v.offset

\* What is held is in the log, and what is in a cluster has its key.
Genuine(v, lg) ==
  /\ v.offset <= Len(lg)
  /\ \A n : Held(n, v) => n \in DOMAIN lg
  /\ \A k \in DOMAIN v.lines : \A n \in v.lines[k] : lg[n].key = k

Sound(v, lg) == Kinds(v) /\ Single(v) /\ Unsettled(v) /\ Behind(v) /\ Genuine(v, lg)

-----------------------------------------------------------------------------
(* The inductive invariant.                                                *)

Mem  == View(state.offset, state, active)
Disk == View(disk.offset, disk, disk.clusters)

\* Discord accepted an item of the type with line n.
Delivered(n, type, acc) ==
  \E b \in DOMAIN acc : acc[b].type = type /\ n \in acc[b].lines

\* A line that waits was not delivered.
Unposted(v, acc) == \A n : Waits(n, v) => ~Delivered(n, "summary", acc)

Posted == request.answer \in {"ok", "lost"}

\* What is queued was not delivered, but for the item whose POST is under way.
Novel ==
  \A c \in Channels : \A a \in DOMAIN state.pending[c] :
    \A n \in state.pending[c][a].lines :
      Delivered(n, Kind(c), accepted) => Posted /\ c = Channel /\ a = 1

DiskInv ==
  /\ Sound(Disk, log) /\ Unposted(Disk, accepted)
  /\ \A b \in DOMAIN accepted : \A n \in accepted[b].lines : n \in 0..disk.offset
  /\ ReportedOnce

\* The state keeps the clusters that the manager has.
Copied == View(state.offset, state, state.clusters) = Mem

\* Memory is ahead of the disk, but what it still holds from before the saved
\* offset is on the disk as well.
MemInv ==
  pc # "down" =>
    /\ Sound(Mem, log) /\ Unposted(Mem, accepted) /\ Novel
    /\ disk.offset <= state.offset
    /\ \A n : Held(n, Mem) /\ n \in 0..disk.offset => Held(n, Disk)
    /\ (pc = "flush" /\ dirty) \/ Copied

PostInv == Posted => request.item \in Elements(accepted)

SafeInv == TypeInv /\ DiskInv /\ MemInv /\ PostInv

\* Every line of a session below the offset is held or settled.
Kept(v, lg, settled) ==
  \A n \in 1..v.offset : lg[n].key \in Sessions => Held(n, v) \/ n \in settled

KeptInv == Kept(Disk, log, Settled) /\ (pc # "down" => Kept(Mem, log, Settled))

-----------------------------------------------------------------------------
(* How a view changes.                                                     *)

Viewed(v) == v.offset \in Nat /\ v.pending \in [Channels -> Seq(Item)]

\* The lines that w has taken in since v.
New(v, w) == (v.offset + 1)..w.offset

\* Nothing moves backwards: what waits in w, waited or is new; what is queued in w,
\* was queued, waited, or is new.
Evolves(v, w) ==
  /\ v.offset <= w.offset
  /\ \A n : Waits(n, w) => Waits(n, v) \/ n \in New(v, w)
  /\ \A c \in Channels : \A n : Queued(n, c, w) =>
       \/ Queued(n, c, v)
       \/ c = "intel" /\ Waits(n, v)
       \/ n \in New(v, w)

OfSession(n) == log[n].key \in Sessions
Keyed(n, k)  == log[n].key = k

\* Of the lines of sessions, only those of summaries that are gone are no longer
\* held.
Loses(v, w, gone) ==
  \A n : Held(n, v) /\ OfSession(n) => Held(n, w) \/ n \in Summarised(gone)

\* The queues lose their first items, which are settled.
Dropped(v, w, gone) ==
  /\ w.offset = v.offset /\ w.awaiting = v.awaiting /\ w.lines = v.lines
  /\ \A c \in Channels :
       \E m \in Nat : /\ m <= Len(v.pending[c])
                      /\ w.pending[c] = After(v.pending[c], m)
                      /\ FirstOf(v.pending[c], m) \subseteq gone
  /\ \A i \in gone : \E c \in Channels : i \in Elements(v.pending[c])
  /\ w.known \subseteq v.known \cup gone

LEMMA ViewFields ==
  ASSUME NEW o \in Nat, NEW st \in State, NEW cl \in Clusters
  PROVE  LET v == View(o, st, cl)
         IN  /\ Viewed(v)
             /\ v.offset = o /\ v.known = Known(st) /\ v.awaiting = st.awaiting
             /\ v.pending = st.pending /\ DOMAIN v.lines = DOMAIN cl
             /\ \A k \in DOMAIN cl : v.lines[k] = cl[k].lines
BY StateFields DEF View, Viewed

LEMMA SummarisedBy ==
  ASSUME NEW items, NEW n
  PROVE  n \in Summarised(items) <=> \E i \in items : i.type = "summary" /\ n \in i.lines
BY DEF Summarised

LEMMA ViewDropped ==
  ASSUME NEW o \in Nat, NEW st \in State, NEW st2 \in State, NEW cl \in Clusters, NEW gone,
         Drops(st, st2, gone)
  PROVE  Dropped(View(o, st, cl), View(o, st2, cl), gone)
<1> DEFINE v == View(o, st, cl)
           w == View(o, st2, cl)
<1>1. st.pending \in [Channels -> Seq(Item)] /\ "legacy" \in Channels /\ "intel" \in Channels
  BY StateFields DEF Channels
<1>2. PICK m \in [Channels -> Nat] :
        /\ \A c \in Channels : /\ m[c] <= Len(st.pending[c])
                               /\ st2.pending[c] = After(st.pending[c], m[c])
        /\ gone = FirstOf(st.pending["legacy"], m["legacy"])
                    \cup FirstOf(st.pending["intel"], m["intel"])
  BY DEF Drops
<1>3. \A c \in Channels : m[c] \in Nat /\ FirstOf(st.pending[c], m[c]) \subseteq gone
  BY <1>2 DEF Channels
<1>4. ASSUME NEW i \in gone
      PROVE  \E c \in Channels : i \in Elements(st.pending[c])
  <2>1. PICK c \in Channels : i \in FirstOf(st.pending[c], m[c])
    BY <1>1, <1>2
  <2>2. st.pending[c] \in Seq(Item) /\ m[c] \in Nat /\ m[c] <= Len(st.pending[c])
    BY <1>1, <1>2
  <2>3. i \in Elements(st.pending[c])
    BY <2>1, <2>2 DEF FirstOf, Elements
  <2> QED BY <2>3
<1>5. /\ v.offset = o /\ v.known = Known(st) /\ v.awaiting = st.awaiting
      /\ v.pending = st.pending
      /\ w.offset = o /\ w.known = Known(st2) /\ w.awaiting = st2.awaiting
      /\ w.pending = st2.pending /\ w.lines = v.lines
  BY DEF View
<1> HIDE DEF v, w
<1>6. /\ st2.offset = st.offset /\ st2.awaiting = st.awaiting
      /\ Known(st2) \subseteq Known(st) \cup gone
  BY DEF Drops
<1>7. \A c \in Channels :
        \E k \in Nat : /\ k <= Len(v.pending[c])
                       /\ w.pending[c] = After(v.pending[c], k)
                       /\ FirstOf(v.pending[c], k) \subseteq gone
  BY <1>2, <1>3, <1>5
<1> QED BY <1>4, <1>5, <1>6, <1>7 DEF Dropped, v, w

\* A queue after a drop, place by place.
LEMMA DroppedQueue ==
  ASSUME NEW v, NEW w, NEW gone, Viewed(v), Dropped(v, w, gone), NEW c \in Channels
  PROVE  \E m \in Nat :
           /\ w.pending[c] \in Seq(Item) /\ m <= Len(v.pending[c])
           /\ Len(w.pending[c]) = Len(v.pending[c]) - m
           /\ \A a \in 1..Len(w.pending[c]) :
                a + m \in 1..Len(v.pending[c]) /\ w.pending[c][a] = v.pending[c][a + m]
           /\ \A a \in 1..m : v.pending[c][a] \in gone
<1>1. v.pending[c] \in Seq(Item) /\ Len(v.pending[c]) \in Nat
  BY DEF Viewed
<1>2. PICK m \in Nat : /\ m <= Len(v.pending[c])
                       /\ w.pending[c] = After(v.pending[c], m)
                       /\ FirstOf(v.pending[c], m) \subseteq gone
  BY DEF Dropped
<1>3. /\ w.pending[c] \in Seq(Item)
      /\ Len(w.pending[c]) = Len(v.pending[c]) - m
      /\ \A i \in 1..(Len(v.pending[c]) - m) : w.pending[c][i] = v.pending[c][i + m]
  <2> DEFINE q == v.pending[c]
  <2>1. q \in Seq(Item) /\ m <= Len(q) /\ w.pending[c] = After(q, m)
    BY <1>1, <1>2
  <2> HIDE DEF q
  <2>2. /\ After(q, m) \in Seq(Item) /\ Len(After(q, m)) = Len(q) - m
        /\ \A i \in 1..(Len(q) - m) : After(q, m)[i] = q[i + m]
    BY <2>1, AfterFacts
  <2> QED BY <2>1, <2>2 DEF q
<1>4. \A a \in 1..Len(w.pending[c]) : a + m \in 1..Len(v.pending[c])
  BY <1>1, <1>2, <1>3
<1>5. \A a \in 1..m : v.pending[c][a] \in gone
  BY <1>2 DEF FirstOf
<1> QED BY <1>2, <1>3, <1>4, <1>5

LEMMA DroppedLines ==
  ASSUME NEW v, NEW w, NEW gone, Viewed(v), Dropped(v, w, gone)
  PROVE  /\ \A n : Waits(n, w) <=> Waits(n, v)
         /\ \A c \in Channels : \A n : Queued(n, c, w) => Queued(n, c, v)
         /\ \A c \in Channels : \A n : Queued(n, c, v) =>
              Queued(n, c, w) \/ \E i \in gone :
                                   n \in i.lines /\ i \in Elements(v.pending[c])
<1>1. \A n : Waits(n, w) <=> Waits(n, v)
  BY DEF Dropped, Waits
<1>2. ASSUME NEW c \in Channels, NEW n
      PROVE  /\ Queued(n, c, w) => Queued(n, c, v)
             /\ Queued(n, c, v) => Queued(n, c, w) \/ \E i \in gone :
                                     n \in i.lines /\ i \in Elements(v.pending[c])
  <2>1. PICK m \in Nat :
           /\ w.pending[c] \in Seq(Item) /\ m <= Len(v.pending[c])
           /\ Len(w.pending[c]) = Len(v.pending[c]) - m
           /\ \A a \in 1..Len(w.pending[c]) :
                a + m \in 1..Len(v.pending[c]) /\ w.pending[c][a] = v.pending[c][a + m]
           /\ \A a \in 1..m : v.pending[c][a] \in gone
    BY DroppedQueue
  <2>2. v.pending[c] \in Seq(Item) /\ Len(v.pending[c]) \in Nat
        /\ DOMAIN v.pending[c] = 1..Len(v.pending[c])
        /\ DOMAIN w.pending[c] = 1..Len(w.pending[c])
    BY <2>1 DEF Viewed
  <2>3. Queued(n, c, w) => Queued(n, c, v)
    BY <2>1, <2>2 DEF Queued
  <2>4. ASSUME NEW a \in 1..Len(v.pending[c]), n \in v.pending[c][a].lines
        PROVE  Queued(n, c, w) \/ \E i \in gone :
                 n \in i.lines /\ i \in Elements(v.pending[c])
    <3>1. CASE a <= m
      <4>1. v.pending[c][a] \in gone /\ v.pending[c][a] \in Elements(v.pending[c])
        BY <2>1, <2>2, <3>1 DEF Elements
      <4> QED BY <2>4, <4>1
    <3>2. CASE ~(a <= m)
      <4>1. a - m \in 1..Len(w.pending[c]) /\ (a - m) + m = a
        BY <2>1, <2>2, <3>2
      <4>2. w.pending[c][a - m] = v.pending[c][a]
        BY <2>1, <4>1
      <4> QED BY <2>2, <2>4, <4>1, <4>2 DEF Queued
    <3> QED BY <3>1, <3>2
  <2>5. Queued(n, c, v) => Queued(n, c, w) \/ \E i \in gone :
                             n \in i.lines /\ i \in Elements(v.pending[c])
    BY <2>2, <2>4 DEF Queued
  <2> QED BY <2>3, <2>5
<1> QED BY <1>1, <1>2

LEMMA KindOfElements ==
  ASSUME NEW v, Kinds(v), NEW c \in Channels, NEW i \in Elements(v.pending[c])
  PROVE  i.type = Kind(c)
BY DEF Kinds, Elements

LEMMA LineOfElement ==
  ASSUME NEW v, NEW c \in Channels, NEW i \in Elements(v.pending[c]), NEW n \in i.lines
  PROVE  Queued(n, c, v)
BY DEF Queued, Elements

\* Dropping the heads of the queues is sound and loses only what is gone.
LEMMA DropSound ==
  ASSUME NEW v, NEW w, NEW gone, Viewed(v), Dropped(v, w, gone), Sound(v, log)
  PROVE  Sound(w, log) /\ Evolves(v, w) /\ Loses(v, w, gone)
<1>1. /\ \A n : Waits(n, w) <=> Waits(n, v)
      /\ \A c \in Channels : \A n : Queued(n, c, w) => Queued(n, c, v)
      /\ \A c \in Channels : \A n : Queued(n, c, v) =>
           Queued(n, c, w) \/ \E i \in gone : n \in i.lines /\ i \in Elements(v.pending[c])
  BY DroppedLines
<1>2. /\ w.offset = v.offset /\ w.awaiting = v.awaiting /\ w.lines = v.lines
      /\ w.known \subseteq v.known \cup gone
      /\ \A i \in gone : \E c \in Channels : i \in Elements(v.pending[c])
  BY DEF Dropped
<1>3. "intel" \in Channels /\ "legacy" \in Channels /\ Channels = {"legacy", "intel"}
  BY DEF Channels
<1>4. \A n : Held(n, w) => Held(n, v)
  BY <1>1, <1>3 DEF Held
<1>5. ASSUME NEW c \in Channels, NEW a \in DOMAIN w.pending[c], NEW b \in DOMAIN w.pending[c]
      PROVE  /\ w.pending[c][a].type = Kind(c)
             /\ a # b => Apart(w.pending[c][a].lines, w.pending[c][b].lines)
  <2>1. PICK m \in Nat :
           /\ w.pending[c] \in Seq(Item) /\ m <= Len(v.pending[c])
           /\ Len(w.pending[c]) = Len(v.pending[c]) - m
           /\ \A x \in 1..Len(w.pending[c]) :
                x + m \in 1..Len(v.pending[c]) /\ w.pending[c][x] = v.pending[c][x + m]
           /\ \A x \in 1..m : v.pending[c][x] \in gone
    BY DroppedQueue
  <2>2. DOMAIN v.pending[c] = 1..Len(v.pending[c]) /\ DOMAIN w.pending[c] = 1..Len(w.pending[c])
    BY <2>1 DEF Viewed
  <2>3. a \in Int /\ b \in Int /\ (a # b => a + m # b + m)
    BY <2>1, <2>2
  <2>4. /\ a + m \in DOMAIN v.pending[c] /\ w.pending[c][a] = v.pending[c][a + m]
        /\ b + m \in DOMAIN v.pending[c] /\ w.pending[c][b] = v.pending[c][b + m]
    BY <2>1, <2>2
  <2>5. v.pending[c][a + m].type = Kind(c)
    BY <2>4 DEF Sound, Kinds
  <2>6. a # b => Apart(v.pending[c][a + m].lines, v.pending[c][b + m].lines)
    BY <2>3, <2>4 DEF Sound, Single
  <2> QED BY <2>4, <2>5, <2>6
<1>6. Kinds(w)
  BY <1>2, <1>5 DEF Sound, Kinds
<1>7. Single(w)
  BY <1>2, <1>5 DEF Sound, Single
<1>8. ASSUME NEW i \in w.known, i \notin v.known
      PROVE  \E c \in Channels : /\ i.type = Kind(c)
                                 /\ \A n \in i.lines : Queued(n, c, v)
  <2>1. PICK c \in Channels : i \in Elements(v.pending[c])
    BY <1>2, <1>8
  <2> QED BY <2>1, KindOfElements, LineOfElement DEF Sound
<1>9. Unsettled(w)
  <2> SUFFICES ASSUME NEW n, Waits(n, w)
               PROVE  /\ ~Queued(n, "intel", w)
                      /\ \A i \in w.known : i.type = "summary" => n \notin i.lines
    BY DEF Unsettled
  <2>1. Waits(n, v) /\ ~Queued(n, "intel", v)
        /\ \A i \in v.known : i.type = "summary" => n \notin i.lines
    BY <1>1 DEF Sound, Unsettled
  <2>2. \A c \in Channels : Kind(c) = "summary" => c = "intel"
    BY DEF Kind
  <2> QED BY <1>1, <1>3, <1>8, <2>1, <2>2
<1>10. Behind(w)
  <2> SUFFICES ASSUME NEW n,
                      Held(n, w) \/ Queued(n, "legacy", w) \/ (\E i \in w.known : n \in i.lines)
               PROVE  n \in 0..w.offset
    BY DEF Behind
  <2>1. Held(n, v) \/ Queued(n, "legacy", v) \/ (\E i \in v.known : n \in i.lines)
    BY <1>1, <1>3, <1>4, <1>8 DEF Held
  <2> QED BY <1>2, <2>1 DEF Sound, Behind
<1>11. Genuine(w, log)
  BY <1>2, <1>4 DEF Sound, Genuine
<1>12. Evolves(v, w)
  BY <1>1, <1>2 DEF Evolves, Viewed
<1>13. Loses(v, w, gone)
  <2> SUFFICES ASSUME NEW n, Held(n, v), ~Held(n, w)
               PROVE  n \in Summarised(gone)
    BY DEF Loses
  <2>1. PICK i \in gone : n \in i.lines /\ i \in Elements(v.pending["intel"])
    BY <1>1, <1>3 DEF Held
  <2>2. i.type = "summary"
    BY <1>3, <2>1, KindOfElements DEF Sound, Kind
  <2> QED BY <2>1, <2>2, SummarisedBy
<1> QED BY <1>6, <1>7, <1>9, <1>10, <1>11, <1>12, <1>13 DEF Sound

\* A queue with an item more, place by place and line by line.
LEMMA PushedQueue ==
  ASSUME NEW v, NEW w, NEW item \in Item, NEW ch \in Channels, Viewed(v),
         w.pending = [v.pending EXCEPT ![ch] = Append(v.pending[ch], item)]
  PROVE  /\ w.pending \in [Channels -> Seq(Item)]
         /\ \A c \in Channels \ {ch} : w.pending[c] = v.pending[c]
         /\ DOMAIN v.pending[ch] = 1..Len(v.pending[ch]) /\ Len(v.pending[ch]) \in Nat
         /\ DOMAIN w.pending[ch] = 1..(Len(v.pending[ch]) + 1)
         /\ \A a \in 1..Len(v.pending[ch]) : w.pending[ch][a] = v.pending[ch][a]
         /\ w.pending[ch][Len(v.pending[ch]) + 1] = item
         /\ \A c \in Channels : \A n :
              Queued(n, c, w) <=> Queued(n, c, v) \/ (c = ch /\ n \in item.lines)
<1> DEFINE q == v.pending[ch]
           r == Append(q, item)
<1>1. q \in Seq(Item) /\ v.pending \in [Channels -> Seq(Item)]
  BY DEF Viewed
<1>2. w.pending[ch] = r /\ \A c \in Channels \ {ch} : w.pending[c] = v.pending[c]
  BY <1>1
<1> HIDE DEF q
<1>3. /\ r \in Seq(Item) /\ DOMAIN q = 1..Len(q) /\ Len(q) \in Nat
      /\ DOMAIN r = 1..(Len(q) + 1)
      /\ \A a \in 1..Len(q) : r[a] = q[a]
      /\ r[Len(q) + 1] = item
  BY <1>1, AppendProperties
<1> HIDE DEF r
<1>4. w.pending \in [Channels -> Seq(Item)]
  BY <1>1, <1>3 DEF r, q
<1>5. \A n : (\E a \in DOMAIN r : n \in r[a].lines)
               <=> (\E a \in DOMAIN q : n \in q[a].lines) \/ n \in item.lines
  BY <1>3
<1>6. \A c \in Channels : \A n :
        Queued(n, c, w) <=> Queued(n, c, v) \/ (c = ch /\ n \in item.lines)
  <2> SUFFICES ASSUME NEW c \in Channels, NEW n
               PROVE  Queued(n, c, w) <=> Queued(n, c, v) \/ (c = ch /\ n \in item.lines)
    OBVIOUS
  <2>1. CASE c = ch
    <3>1. Queued(n, ch, w) <=> \E a \in DOMAIN r : n \in r[a].lines
      BY <1>2 DEF Queued
    <3>2. Queued(n, ch, v) <=> \E a \in DOMAIN q : n \in q[a].lines
      BY DEF Queued, q
    <3> QED BY <1>5, <2>1, <3>1, <3>2
  <2>2. CASE c # ch
    BY <1>2, <2>2 DEF Queued
  <2> QED BY <2>1, <2>2
<1> QED BY <1>2, <1>3, <1>4, <1>6 DEF q

\* A queue stays sound with an item of its kind more whose lines are not in it.
LEMMA PushedSingle ==
  ASSUME NEW v, NEW w, NEW item \in Item, NEW ch \in Channels, Viewed(v), Sound(v, log),
         w.pending = [v.pending EXCEPT ![ch] = Append(v.pending[ch], item)],
         item.type = Kind(ch), \A n \in item.lines : ~Queued(n, ch, v)
  PROVE  \A c \in Channels : \A a, b \in DOMAIN w.pending[c] :
           /\ w.pending[c][a].type = Kind(c)
           /\ a # b => Apart(w.pending[c][a].lines, w.pending[c][b].lines)
<1> DEFINE len == Len(v.pending[ch])
<1>1. /\ \A c \in Channels \ {ch} : w.pending[c] = v.pending[c]
      /\ DOMAIN v.pending[ch] = 1..len /\ len \in Nat
      /\ DOMAIN w.pending[ch] = 1..(len + 1)
      /\ \A a \in 1..len : w.pending[ch][a] = v.pending[ch][a]
      /\ w.pending[ch][len + 1] = item
  BY PushedQueue
<1> HIDE DEF len
<1>2. \A c \in Channels : \A a, b \in DOMAIN v.pending[c] :
           /\ v.pending[c][a].type = Kind(c)
           /\ a # b => Apart(v.pending[c][a].lines, v.pending[c][b].lines)
  BY DEF Sound, Kinds, Single
<1>3. \A a \in 1..len : Apart(item.lines, v.pending[ch][a].lines)
                        /\ Apart(v.pending[ch][a].lines, item.lines)
  BY <1>1 DEF Queued, Apart
<1> SUFFICES ASSUME NEW c \in Channels, NEW a \in DOMAIN w.pending[c],
                    NEW b \in DOMAIN w.pending[c]
             PROVE  /\ w.pending[c][a].type = Kind(c)
                    /\ a # b => Apart(w.pending[c][a].lines, w.pending[c][b].lines)
  OBVIOUS
<1>4. CASE c # ch
  BY <1>1, <1>2, <1>4
<1>5. CASE c = ch
  <2>1. /\ a \in 1..len \/ a = len + 1
        /\ b \in 1..len \/ b = len + 1
    BY <1>1, <1>5
  <2>2. CASE a \in 1..len /\ b \in 1..len
    BY <1>1, <1>2, <1>5, <2>2
  <2>3. CASE a \in 1..len /\ b = len + 1
    BY <1>1, <1>2, <1>3, <1>5, <2>3
  <2>4. CASE a = len + 1 /\ b \in 1..len
    BY <1>1, <1>2, <1>3, <1>5, <2>4
  <2>5. CASE a = len + 1 /\ b = len + 1
    BY <1>1, <1>5, <2>5
  <2> QED BY <2>1, <2>2, <2>3, <2>4, <2>5
<1> QED BY <1>4, <1>5

\* A summary moves from awaiting enrichment to the queue.
LEMMA SummarySound ==
  ASSUME NEW v, NEW w, NEW item \in Item, Viewed(v), Sound(v, log), item \in v.awaiting,
         w.offset = v.offset, w.known = v.known, w.lines = v.lines,
         w.awaiting = v.awaiting \ {item},
         w.pending = [v.pending EXCEPT !["intel"] = Append(v.pending["intel"], item)]
  PROVE  Sound(w, log) /\ Evolves(v, w) /\ Loses(v, w, {})
<1>1. "intel" \in Channels /\ "legacy" \in Channels /\ Kind("intel") = "summary"
      /\ "legacy" # "intel"
  BY DEF Channels, Kind
<1>2. item.type = "summary" /\ item.lines # {}
  BY DEF Sound, Kinds
<1>3. \A n \in item.lines : Waits(n, v)
  BY DEF Waits
<1>4. \A n \in item.lines : ~Queued(n, "intel", v)
  BY <1>3 DEF Sound, Unsettled
<1>5. \A c \in Channels : \A n :
        Queued(n, c, w) <=> Queued(n, c, v) \/ (c = "intel" /\ n \in item.lines)
  BY <1>1, PushedQueue
<1>6. \A c \in Channels : \A a, b \in DOMAIN w.pending[c] :
           /\ w.pending[c][a].type = Kind(c)
           /\ a # b => Apart(w.pending[c][a].lines, w.pending[c][b].lines)
  BY <1>1, <1>2, <1>4, PushedSingle
<1>7. \A n : Waits(n, w) <=> Waits(n, v) /\ n \notin item.lines
  <2>1. /\ \A k \in DOMAIN v.lines : Apart(item.lines, v.lines[k])
        /\ \A i \in v.awaiting : i # item => Apart(i.lines, item.lines)
    BY DEF Sound, Single
  <2> QED BY <2>1 DEF Waits, Apart
<1>8. \A n : Held(n, w) <=> Held(n, v)
  BY <1>1, <1>3, <1>5, <1>7 DEF Held
<1>9. Kinds(w)
  BY <1>6 DEF Sound, Kinds
<1>10. Single(w)
  BY <1>6 DEF Sound, Single
<1>11. Unsettled(w)
  BY <1>1, <1>5, <1>7 DEF Sound, Unsettled
<1>12. Behind(w)
  BY <1>1, <1>5, <1>8 DEF Sound, Behind
<1>13. Genuine(w, log)
  BY <1>8 DEF Sound, Genuine
<1>14. Evolves(v, w)
  BY <1>3, <1>5, <1>7 DEF Evolves, Viewed
<1>15. Loses(v, w, {})
  BY <1>8 DEF Loses
<1> QED BY <1>9, <1>10, <1>11, <1>12, <1>13, <1>14, <1>15 DEF Sound

\* A summary that awaits enrichment is neither settled nor queued: enqueue_pending
\* does not take it for a duplicate.
LEMMA AwaitedIsFresh ==
  ASSUME NEW v, Sound(v, log), NEW item \in v.awaiting
  PROVE  item \notin v.known /\ item \notin Elements(v.pending["intel"])
<1>1. item.type = "summary" /\ item.lines # {}
  BY DEF Sound, Kinds
<1>2. PICK n : n \in item.lines
  BY <1>1
<1>3. Waits(n, v)
  BY <1>2 DEF Waits
<1>4. ~Queued(n, "intel", v) /\ \A i \in v.known : i.type = "summary" => n \notin i.lines
  BY <1>3 DEF Sound, Unsettled
<1> QED BY <1>1, <1>2, <1>4, LineOfElement DEF Channels

\* A cluster becomes a summary that awaits enrichment.
LEMMA FlushSound ==
  ASSUME NEW v, NEW w, NEW item, NEW k \in DOMAIN v.lines, Viewed(v), Sound(v, log),
         item.type = "summary", item.lines = v.lines[k],
         w.offset = v.offset, w.known = v.known, w.pending = v.pending,
         w.awaiting = v.awaiting \cup {item},
         DOMAIN w.lines = DOMAIN v.lines \ {k},
         \A j \in DOMAIN w.lines : w.lines[j] = v.lines[j]
  PROVE  Sound(w, log) /\ Evolves(v, w) /\ Loses(v, w, {})
<1>1. \A n : Waits(n, w) <=> Waits(n, v)
  BY DEF Waits
<1>2. \A c \in Channels : \A n : Queued(n, c, w) <=> Queued(n, c, v)
  BY DEF Queued
<1>3. "intel" \in Channels /\ "legacy" \in Channels
  BY DEF Channels
<1>4. \A n : Held(n, w) <=> Held(n, v)
  BY <1>1, <1>2, <1>3 DEF Held
<1>5. Kinds(w)
  BY DEF Sound, Kinds
<1>6. Single(w)
  <2>1. \A i \in w.awaiting, j \in DOMAIN w.lines : Apart(i.lines, w.lines[j])
    BY DEF Sound, Single, Apart
  <2>2. \A i, j \in w.awaiting : i # j => Apart(i.lines, j.lines)
    BY DEF Sound, Single, Apart
  <2>3. \A i, j \in DOMAIN w.lines : i # j => Apart(w.lines[i], w.lines[j])
    BY DEF Sound, Single
  <2> QED BY <2>1, <2>2, <2>3 DEF Sound, Single
<1>7. Unsettled(w)
  BY <1>1, <1>2, <1>3 DEF Sound, Unsettled
<1>8. Behind(w)
  BY <1>2, <1>3, <1>4 DEF Sound, Behind
<1>9. Genuine(w, log)
  BY <1>4 DEF Sound, Genuine
<1>10. Evolves(v, w)
  BY <1>1, <1>2 DEF Evolves, Viewed
<1>11. Loses(v, w, {})
  BY <1>4 DEF Loses
<1> QED BY <1>5, <1>6, <1>7, <1>8, <1>9, <1>10, <1>11 DEF Sound

\* A line is taken in: one that is known already or no event leaves the clusters,
\* another joins its cluster or starts a new one.
LEMMA SkipSound ==
  ASSUME NEW v, NEW w, NEW id, Viewed(v), Sound(v, log), log \in Seq(Line),
         v.offset < Len(log), id.type = "line", id.lines = {w.offset},
         w.offset = v.offset + 1, w.pending = v.pending, w.awaiting = v.awaiting,
         w.lines = v.lines, w.known \subseteq v.known \cup {id}
  PROVE  Sound(w, log) /\ Evolves(v, w) /\ Loses(v, w, {})
<1>1. \A n : Waits(n, w) <=> Waits(n, v)
  BY DEF Waits
<1>2. \A c \in Channels : \A n : Queued(n, c, w) <=> Queued(n, c, v)
  BY DEF Queued
<1>3. "intel" \in Channels /\ "legacy" \in Channels
  BY DEF Channels
<1>4. \A n : Held(n, w) <=> Held(n, v)
  BY <1>1, <1>2, <1>3 DEF Held
<1>5. v.offset \in Nat /\ Len(log) \in Nat
  BY DEF Viewed
<1>6. Kinds(w) /\ Single(w)
  BY DEF Sound, Kinds, Single
<1>7. Unsettled(w)
  BY <1>1, <1>2, <1>3 DEF Sound, Unsettled
<1>8. Behind(w)
  <2> SUFFICES ASSUME NEW n,
                      Held(n, w) \/ Queued(n, "legacy", w) \/ (\E i \in w.known : n \in i.lines)
               PROVE  n \in 0..w.offset
    BY DEF Behind
  <2>1. CASE n = w.offset
    BY <1>5, <2>1
  <2>2. CASE n # w.offset
    <3>1. Held(n, v) \/ Queued(n, "legacy", v) \/ (\E i \in v.known : n \in i.lines)
      BY <1>2, <1>3, <1>4, <2>2
    <3>2. n \in 0..v.offset
      BY <3>1 DEF Sound, Behind
    <3> QED BY <1>5, <3>2
  <2> QED BY <2>1, <2>2
<1>9. Genuine(w, log)
  BY <1>4, <1>5 DEF Sound, Genuine
<1>10. Evolves(v, w)
  BY <1>1, <1>2, <1>5 DEF Evolves
<1>11. Loses(v, w, {})
  BY <1>4 DEF Loses
<1> QED BY <1>6, <1>7, <1>8, <1>9, <1>10, <1>11 DEF Sound

LEMMA AbsorbSound ==
  ASSUME NEW v, NEW w, NEW id, NEW k, NEW old, Viewed(v), Sound(v, log), log \in Seq(Line),
         v.offset < Len(log), id.type = "line", id.lines = {w.offset},
         w.offset = v.offset + 1, w.pending = v.pending, w.awaiting = v.awaiting,
         w.known \subseteq v.known \cup {id}, Keyed(w.offset, k),
         DOMAIN w.lines = DOMAIN v.lines \cup {k},
         \A j \in DOMAIN v.lines \ {k} : w.lines[j] = v.lines[j],
         w.lines[k] = old \cup {w.offset},
         old = {} \/ (k \in DOMAIN v.lines /\ old = v.lines[k]),
         k \in Sessions /\ k \in DOMAIN v.lines => old = v.lines[k]
  PROVE  Sound(w, log) /\ Evolves(v, w) /\ Loses(v, w, {})
<1>1. v.offset \in Nat /\ Len(log) \in Nat /\ w.offset \in 1..Len(log)
      /\ DOMAIN log = 1..Len(log) /\ w.offset \notin 0..v.offset
  BY DEF Viewed
<1>2. "intel" \in Channels /\ "legacy" \in Channels
  BY DEF Channels
<1>3. \A c \in Channels : \A n : Queued(n, c, w) <=> Queued(n, c, v)
  BY DEF Queued
<1>4. \A n : Waits(n, w) => Waits(n, v) \/ n = w.offset
  BY DEF Waits
<1>5. \A n : Held(n, w) => Held(n, v) \/ n = w.offset
  BY <1>2, <1>3, <1>4 DEF Held
<1>6. /\ ~Held(w.offset, v) /\ ~Queued(w.offset, "legacy", v)
      /\ \A i \in v.known : w.offset \notin i.lines
  BY <1>1 DEF Sound, Behind
<1>7. /\ \A j \in DOMAIN v.lines : w.offset \notin v.lines[j]
      /\ \A i \in v.awaiting : w.offset \notin i.lines
  BY <1>6 DEF Held, Waits
<1>8. Kinds(w)
  BY DEF Sound, Kinds
<1>9. Single(w)
  <2>1. \A i, j \in DOMAIN w.lines : i # j => Apart(w.lines[i], w.lines[j])
    <3> SUFFICES ASSUME NEW i \in DOMAIN w.lines, NEW j \in DOMAIN w.lines, i # j
                 PROVE  Apart(w.lines[i], w.lines[j])
      OBVIOUS
    <3>1. CASE i # k /\ j # k
      BY <3>1 DEF Sound, Single
    <3>2. CASE i = k
      BY <1>7, <3>2 DEF Sound, Single, Apart
    <3>3. CASE j = k
      BY <1>7, <3>3 DEF Sound, Single, Apart
    <3> QED BY <3>1, <3>2, <3>3
  <2>2. \A i \in w.awaiting : \A j \in DOMAIN w.lines : Apart(i.lines, w.lines[j])
    BY <1>7 DEF Sound, Single, Apart
  <2> QED BY <2>1, <2>2 DEF Sound, Single
<1>10. Unsettled(w)
  <2> SUFFICES ASSUME NEW n, Waits(n, w)
               PROVE  /\ ~Queued(n, "intel", w)
                      /\ \A i \in w.known : i.type = "summary" => n \notin i.lines
    BY DEF Unsettled
  <2>1. CASE Waits(n, v)
    BY <1>2, <1>3, <2>1 DEF Sound, Unsettled
  <2>2. CASE n = w.offset
    BY <1>2, <1>3, <1>6, <2>2 DEF Held
  <2> QED BY <1>4, <2>1, <2>2
<1>11. Behind(w)
  <2> SUFFICES ASSUME NEW n,
                      Held(n, w) \/ Queued(n, "legacy", w) \/ (\E i \in w.known : n \in i.lines)
               PROVE  n \in 0..w.offset
    BY DEF Behind
  <2>1. CASE n = w.offset
    BY <1>1, <2>1
  <2>2. CASE n # w.offset
    <3>1. Held(n, v) \/ Queued(n, "legacy", v) \/ (\E i \in v.known : n \in i.lines)
      BY <1>2, <1>3, <1>5, <2>2
    <3>2. n \in 0..v.offset
      BY <3>1 DEF Sound, Behind
    <3> QED BY <1>1, <3>2
  <2> QED BY <2>1, <2>2
<1>12. Genuine(w, log)
  <2>1. w.offset <= Len(log) /\ \A n : Held(n, w) => n \in DOMAIN log
    BY <1>1, <1>5 DEF Sound, Genuine
  <2>2. \A j \in DOMAIN w.lines : \A n \in w.lines[j] : log[n].key = j
    <3> SUFFICES ASSUME NEW j \in DOMAIN w.lines, NEW n \in w.lines[j]
                 PROVE  log[n].key = j
      OBVIOUS
    <3>1. CASE n = w.offset
      <4>1. j = k
        BY <1>7, <3>1
      <4> QED BY <3>1, <4>1 DEF Keyed
    <3>2. CASE n # w.offset
      <4>1. j \in DOMAIN v.lines /\ n \in v.lines[j]
        BY <3>2
      <4> QED BY <4>1 DEF Sound, Genuine
    <3> QED BY <3>1, <3>2
  <2> QED BY <2>1, <2>2 DEF Genuine
<1>13. Evolves(v, w)
  <2>1. w.offset \in New(v, w) /\ v.offset <= w.offset
    BY <1>1 DEF New
  <2> QED BY <1>3, <1>4, <2>1 DEF Evolves
<1>14. Loses(v, w, {})
  <2>1. ASSUME NEW n, Waits(n, v), OfSession(n)
        PROVE  Waits(n, w)
    <3>1. CASE \E i \in v.awaiting : n \in i.lines
      BY <3>1 DEF Waits
    <3>2. ASSUME NEW j \in DOMAIN v.lines, n \in v.lines[j]
          PROVE  Waits(n, w)
      <4>1. j \in Sessions
        BY <2>1, <3>2 DEF Sound, Genuine, OfSession
      <4>2. j \in DOMAIN w.lines /\ n \in w.lines[j]
        BY <3>2, <4>1
      <4> QED BY <4>2 DEF Waits
    <3> QED BY <2>1, <3>1, <3>2 DEF Waits
  <2> QED BY <1>2, <1>3, <2>1 DEF Loses, Held
<1> QED BY <1>8, <1>9, <1>10, <1>11, <1>12, <1>13, <1>14 DEF Sound

\* An alert for a line taken in, which is in no other, is queued.
LEMMA AlertSound ==
  ASSUME NEW u, NEW v, NEW w, NEW item \in Item, NEW n, Viewed(v), Sound(v, log), Evolves(u, v),
         item.type = "alert", item.lines = {n}, n \in New(u, v), n \in 0..v.offset,
         ~Queued(n, "legacy", v),
         w.offset = v.offset, w.known = v.known, w.lines = v.lines,
         w.awaiting = v.awaiting,
         w.pending = [v.pending EXCEPT !["legacy"] = Append(v.pending["legacy"], item)]
  PROVE  Sound(w, log) /\ Evolves(u, w) /\ Loses(v, w, {})
<1>1. "intel" \in Channels /\ "legacy" \in Channels /\ Kind("legacy") = "alert"
      /\ "legacy" # "intel"
  BY DEF Channels, Kind
<1>2. \A c \in Channels : \A m :
        Queued(m, c, w) <=> Queued(m, c, v) \/ (c = "legacy" /\ m = n)
  BY <1>1, PushedQueue
<1>3. \A c \in Channels : \A a, b \in DOMAIN w.pending[c] :
           /\ w.pending[c][a].type = Kind(c)
           /\ a # b => Apart(w.pending[c][a].lines, w.pending[c][b].lines)
  <2>1. \A m \in item.lines : ~Queued(m, "legacy", v)
    OBVIOUS
  <2> QED BY <1>1, <2>1, PushedSingle
<1>4. \A m : Waits(m, w) <=> Waits(m, v)
  BY DEF Waits
<1>5. \A m : Held(m, w) <=> Held(m, v)
  BY <1>1, <1>2, <1>4 DEF Held
<1>6. Kinds(w)
  BY <1>3 DEF Sound, Kinds
<1>7. Single(w)
  BY <1>3 DEF Sound, Single
<1>8. Unsettled(w)
  BY <1>1, <1>2, <1>4 DEF Sound, Unsettled
<1>9. Behind(w)
  BY <1>1, <1>2, <1>5 DEF Sound, Behind
<1>10. Genuine(w, log)
  BY <1>5 DEF Sound, Genuine
<1>11. Evolves(u, w)
  BY <1>2, <1>4 DEF Evolves, New
<1>12. Loses(v, w, {})
  BY <1>5 DEF Loses
<1> QED BY <1>6, <1>7, <1>8, <1>9, <1>10, <1>11, <1>12 DEF Sound

LEMMA EvolvesTwice ==
  ASSUME NEW u, NEW v, NEW w, Viewed(u), Viewed(v), Viewed(w), Evolves(u, v), Evolves(v, w)
  PROVE  Evolves(u, w)
<1>1. \A n : n \in New(u, v) \/ n \in New(v, w) => n \in New(u, w)
  BY DEF Evolves, Viewed, New
<1>2. u.offset <= w.offset
  BY DEF Evolves, Viewed
<1> QED BY <1>1, <1>2 DEF Evolves

LEMMA LosesTwice ==
  ASSUME NEW u, NEW v, NEW w, NEW g1, NEW g2, Loses(u, v, g1), Loses(v, w, g2)
  PROVE  Loses(u, w, g1 \cup g2)
<1>1. \A n : n \in Summarised(g1) \/ n \in Summarised(g2) => n \in Summarised(g1 \cup g2)
  BY SummarisedBy
<1> QED BY <1>1 DEF Loses

-----------------------------------------------------------------------------
(* The operations on the state.                                            *)

LEMMA SameLinesSameView ==
  ASSUME NEW o, NEW st, NEW cl \in Clusters, NEW c2 \in Clusters, SameLines(c2, cl)
  PROVE  View(o, st, c2) = View(o, st, cl)
<1>1. [k \in DOMAIN c2 |-> c2[k].lines] = [k \in DOMAIN cl |-> cl[k].lines]
  BY DEF SameLines
<1> QED BY <1>1 DEF View

\* _enqueue_summary of a summary that awaits enrichment: it is queued, and only
\* what it displaces is lost.
LEMMA EnqueueSummarySound ==
  ASSUME NEW o \in Nat, NEW st \in State, NEW cl \in Clusters, Within(st),
         NEW item \in st.awaiting, Sound(View(o, st, cl), log)
  PROVE  LET v == View(o, st, cl)
             w == View(o, EnqueueSummary(st, item), cl)
         IN  /\ Sound(w, log) /\ Evolves(v, w)
             /\ Loses(v, w, Elements(Displaced(st, item, "intel")))
<1> DEFINE v == View(o, st, cl)
           e == EnqueuePending(st, item, "intel")
           st2 == EnqueueSummary(st, item)
           w == View(o, st2, cl)
           gone == Elements(Displaced(st, item, "intel"))
<1>1. item \in Item /\ "intel" \in Channels
  BY StateFields DEF Channels
<1>2. /\ v.known = Known(st) /\ v.awaiting = st.awaiting /\ v.pending = st.pending /\ Viewed(v)
  BY ViewFields
<1>3. item \notin Elements(st.seen) \cup Elements(st.pending["intel"])
  <2> HIDE DEF v
  <2>1. item \notin v.known /\ item \notin Elements(v.pending["intel"])
    BY <1>2, AwaitedIsFresh DEF v
  <2> QED BY <1>2, <2>1 DEF Known
<1>4. PICK mid \in State : Within(mid) /\ Drops(st, mid, gone) /\ Pushes(mid, e, item, "intel")
  BY <1>1, <1>3, EnqueueFacts
<1>5. /\ st2 \in State /\ Within(st2) /\ st2.pending = e.pending
      /\ Known(st2) = Known(e) /\ st2.awaiting = e.awaiting \ {item}
  BY <1>1, SummaryFacts
<1> DEFINE m == View(o, mid, cl)
<1>6. /\ m.known = Known(mid) /\ m.awaiting = mid.awaiting /\ m.pending = mid.pending
      /\ m.offset = o /\ Viewed(m)
  BY ViewFields
<1>7. /\ w.known = Known(st2) /\ w.awaiting = st2.awaiting /\ w.pending = st2.pending
      /\ w.offset = o /\ Viewed(w) /\ w.lines = m.lines
  BY <1>5, ViewFields DEF View
<1>8. Dropped(v, m, gone)
  BY <1>4, ViewDropped
<1> HIDE DEF v, w, m, e, st2, gone
<1>9. Sound(m, log) /\ Evolves(v, m) /\ Loses(v, m, gone)
  BY <1>2, <1>8, DropSound DEF v
<1>10. mid.awaiting = st.awaiting
  BY <1>4 DEF Drops
<1>11. /\ w.pending = [m.pending EXCEPT !["intel"] = Append(m.pending["intel"], item)]
       /\ w.known = m.known /\ w.awaiting = m.awaiting \ {item} /\ item \in m.awaiting
  BY <1>4, <1>5, <1>6, <1>7, <1>10 DEF Pushes
<1>12. Sound(w, log) /\ Evolves(m, w) /\ Loses(m, w, {})
  BY <1>1, <1>6, <1>7, <1>9, <1>11, SummarySound
<1>13. Evolves(v, w)
  BY <1>2, <1>6, <1>7, <1>9, <1>12, EvolvesTwice
<1>14. Loses(v, w, gone \cup {})
  BY <1>9, <1>12, LosesTwice
<1> QED BY <1>12, <1>13, <1>14 DEF v, w, st2, gone

\* enqueue_pending of the alert for a line just taken in.
LEMMA EnqueueAlertSound ==
  ASSUME NEW u, NEW n \in Nat, NEW st \in State, NEW cl \in Clusters, Within(st), Viewed(u),
         Sound(View(n, st, cl), log), Evolves(u, View(n, st, cl)), n = u.offset + 1,
         ~Queued(n, "legacy", View(n, st, cl)),
         NEW item \in Item, item.type = "alert", item.lines = {n}
  PROVE  LET v == View(n, st, cl)
             w == View(n, EnqueuePending(st, item, "legacy"), cl)
         IN  /\ Sound(w, log) /\ Evolves(u, w)
             /\ Loses(v, w, Elements(Displaced(st, item, "legacy")))
<1> DEFINE v == View(n, st, cl)
           e == EnqueuePending(st, item, "legacy")
           w == View(n, e, cl)
           gone == Elements(Displaced(st, item, "legacy"))
<1>1. "legacy" \in Channels
  BY DEF Channels
<1>2. Viewed(v) /\ v.offset = n
  BY ViewFields
<1>3. CASE e = st
  BY <1>3 DEF Loses
<1>4. CASE \E mid \in State : Within(mid) /\ Drops(st, mid, gone) /\ Pushes(mid, e, item, "legacy")
  <2>1. PICK mid \in State : Within(mid) /\ Drops(st, mid, gone) /\ Pushes(mid, e, item, "legacy")
    BY <1>4
  <2> DEFINE m == View(n, mid, cl)
  <2>2. /\ m.known = Known(mid) /\ m.awaiting = mid.awaiting /\ m.pending = mid.pending
        /\ m.offset = n /\ Viewed(m)
    BY ViewFields
  <2>3. e \in State
    BY <1>1, EnqueueFacts
  <2>4. /\ w.known = Known(e) /\ w.awaiting = e.awaiting /\ w.pending = e.pending
        /\ w.offset = n /\ Viewed(w) /\ w.lines = m.lines
    BY <2>3, ViewFields DEF View
  <2>5. Dropped(v, m, gone)
    BY <2>1, ViewDropped
  <2>6. Sound(v, log) /\ Evolves(u, v) /\ ~Queued(n, "legacy", v)
    OBVIOUS
  <2> HIDE DEF v, w, m, e, gone
  <2>7. Sound(m, log) /\ Evolves(v, m) /\ Loses(v, m, gone)
    BY <1>2, <2>5, <2>6, DropSound
  <2>8. Evolves(u, m)
    BY <1>2, <2>2, <2>6, <2>7, EvolvesTwice
  <2>9. ~Queued(n, "legacy", m)
    BY <1>1, <1>2, <2>5, <2>6, DroppedLines
  <2>10. /\ w.pending = [m.pending EXCEPT !["legacy"] = Append(m.pending["legacy"], item)]
         /\ w.known = m.known /\ w.awaiting = m.awaiting
    BY <2>1, <2>2, <2>4 DEF Pushes
  <2>11. n \in New(u, m) /\ n \in 0..m.offset
    BY <2>2 DEF New, Viewed
  <2>12. Sound(w, log) /\ Evolves(u, w) /\ Loses(m, w, {})
    BY <2>2, <2>4, <2>7, <2>8, <2>9, <2>10, <2>11, AlertSound
  <2>13. Loses(v, w, gone \cup {})
    BY <2>7, <2>12, LosesTwice
  <2> QED BY <2>12, <2>13 DEF v, w, e, gone
<1> QED BY <1>1, <1>3, <1>4, EnqueueFacts

-----------------------------------------------------------------------------
(* A step of the running monitor, from what it does to memory.             *)

Inv == SafeInv /\ KeptInv

\* Lines that leave, or are taken in and not held, are in what is gone.
Carries(v, w, gone) ==
  /\ Loses(v, w, gone)
  /\ \A n \in New(v, w) : OfSession(n) => Held(n, w) \/ n \in Summarised(gone)

\* What STATE_PATH comes to lead to, it led to before, or it is a new line.
DiskMoves ==
  /\ disk.offset <= disk'.offset
  /\ \A n : Held(n, Disk') => Held(n, Disk) \/ n \in New(Disk, Disk')

LEMMA OffsetsTyped ==
  ASSUME TypeInv
  PROVE  /\ Viewed(Mem) /\ Viewed(Disk)
         /\ Mem.offset = state.offset /\ Disk.offset = disk.offset
         /\ Mem.pending = state.pending /\ Disk.pending = disk.pending
         /\ Mem.awaiting = state.awaiting /\ Disk.awaiting = disk.awaiting
         /\ state.offset \in Nat /\ disk.offset \in Nat
BY StateFields DEF TypeInv, Mem, Disk, View, Viewed

LEMMA HeldEvolves ==
  ASSUME NEW v, NEW w, Evolves(v, w), NEW n, Held(n, w)
  PROVE  Held(n, v) \/ n \in New(v, w)
BY DEF Evolves, Held, Channels

\* Discord accepted only lines up to the saved offset.
LEMMA DeliveredBehind ==
  ASSUME DiskInv, NEW n, NEW type, Delivered(n, type, accepted)
  PROVE  n \in 0..disk.offset
BY DEF DiskInv, Delivered

LEMMA SettledGrows ==
  ASSUME NEW gone, accepted' = accepted, abandoned' = abandoned \cup gone
  PROVE  Settled \subseteq Settled' /\ Summarised(gone) \subseteq Settled'
BY SummarisedBy DEF Settled, Summarised

\* With no POST under way nothing that is queued was delivered.
LEMMA NovelKept ==
  ASSUME TypeInv, TypeInv', DiskInv, pc # "down", MemInv, request = NoRequest,
         request' = NoRequest, accepted' = accepted, Evolves(Mem, Mem')
  PROVE  Novel' /\ PostInv'
<1>1. ~Posted /\ ~Posted'
  BY RequestTyped DEF Posted
<1>2. PostInv'
  BY <1>1 DEF PostInv
<1>3. Mem'.pending = state'.pending
  BY DEF Mem, View
<1>4. state.offset \in Nat /\ disk.offset \in Nat /\ Mem.offset = state.offset
      /\ Mem.pending = state.pending
  BY OffsetsTyped
<1>5. disk.offset <= state.offset /\ Novel /\ Unposted(Mem, accepted)
  BY DEF MemInv
<1> SUFFICES ASSUME NEW c \in Channels, NEW a \in DOMAIN state'.pending[c],
                    NEW n \in state'.pending[c][a].lines,
                    Delivered(n, Kind(c), accepted)
             PROVE  FALSE
  BY <1>2 DEF Novel
<1>6. Queued(n, c, Mem')
  BY <1>3 DEF Queued
<1>7. n \in 0..disk.offset
  BY DeliveredBehind
<1>8. n \notin New(Mem, Mem')
  BY <1>4, <1>5, <1>7 DEF New
<1>9. Queued(n, c, Mem) \/ (c = "intel" /\ Waits(n, Mem))
  BY <1>6, <1>8 DEF Evolves
<1>10. ~Queued(n, c, Mem)
  BY <1>1, <1>4, <1>5 DEF Novel, Queued
<1>11. ~(c = "intel" /\ Waits(n, Mem))
  BY <1>5 DEF Unposted, Kind
<1> QED BY <1>9, <1>10, <1>11

\* What is below the offset stays held or settled.
LEMMA KeptGoesOn ==
  ASSUME NEW v, NEW w, NEW s1, NEW s2, NEW gone, Viewed(v), Viewed(w),
         Kept(v, log, s1), s1 \subseteq s2, Summarised(gone) \subseteq s2,
         Carries(v, w, gone)
  PROVE  Kept(w, log, s2)
<1> SUFFICES ASSUME NEW n \in 1..w.offset, OfSession(n)
             PROVE  Held(n, w) \/ n \in s2
  BY DEF Kept, OfSession
<1>1. CASE n \in New(v, w)
  BY <1>1 DEF Carries
<1>2. CASE n \notin New(v, w)
  <2>1. n \in 1..v.offset
    BY <1>2 DEF New, Viewed
  <2>2. Held(n, v) \/ n \in s1
    BY <2>1 DEF Kept, OfSession
  <2> QED BY <2>2 DEF Carries, Loses
<1> QED BY <1>1, <1>2

LEMMA RunningKept ==
  ASSUME KeptInv, TypeInv, TypeInv', pc # "down", log' = log,
         NEW gone, Settled \subseteq Settled', Summarised(gone) \subseteq Settled',
         Carries(Mem, Mem', gone),
         disk' = disk \/ (disk' = state' /\ Copied')
  PROVE  KeptInv'
<1>1. Kept(Disk, log, Settled) /\ Kept(Mem, log, Settled) /\ Carries(Mem, Mem', gone)
  BY DEF KeptInv
<1>2. Viewed(Mem) /\ Viewed(Mem)'
  BY OffsetsTyped, StateFields DEF TypeInv, Mem, View, Viewed
<1>3. Kept(Mem', log, Settled')
  BY <1>1, <1>2, KeptGoesOn DEF Viewed
<1>4. CASE disk' = disk
  <2>1. Disk' = Disk
    BY <1>4 DEF Disk
  <2>2. Kept(Disk', log, Settled')
    BY <1>1, <2>1 DEF Kept
  <2> QED BY <1>3, <2>2 DEF KeptInv
<1>5. CASE disk' = state' /\ Copied'
  <2>1. Disk' = Mem'
    BY <1>5 DEF Disk, Copied
  <2> QED BY <1>3, <2>1 DEF KeptInv
<1> QED BY <1>4, <1>5

LEMMA RunningStep ==
  ASSUME Inv, TypeInv', pc # "down", log' = log, accepted' = accepted,
         Novel', PostInv', Sound(Mem', log), Evolves(Mem, Mem'),
         NEW gone, Settled \subseteq Settled', Summarised(gone) \subseteq Settled',
         Carries(Mem, Mem', gone),
         disk' = disk \/ (disk' = state' /\ Copied'),
         pc' = "down" \/ (pc' = "flush" /\ dirty') \/ Copied'
  PROVE  Inv' /\ DiskMoves
<1>1. TypeInv /\ DiskInv /\ Sound(Mem, log) /\ Unposted(Mem, accepted)
      /\ disk.offset <= state.offset
      /\ \A n : Held(n, Mem) /\ n \in 0..disk.offset => Held(n, Disk)
  BY DEF Inv, SafeInv, MemInv
<1>2. /\ Mem.offset = state.offset /\ Disk.offset = disk.offset
      /\ state.offset \in Nat /\ disk.offset \in Nat
      /\ Mem'.offset = state'.offset /\ Disk'.offset = disk'.offset
      /\ state'.offset \in Nat /\ disk'.offset \in Nat
  <2>1. state'.offset \in Nat /\ disk'.offset \in Nat
    BY StateFields DEF TypeInv
  <2>2. Mem'.offset = state'.offset /\ Disk'.offset = disk'.offset
    BY DEF Mem, Disk, View
  <2> QED BY <1>1, <2>1, <2>2, OffsetsTyped
<1>3. state.offset <= state'.offset
  BY <1>2 DEF Evolves
<1>4. \A n : Held(n, Mem') => Held(n, Mem) \/ n \in (state.offset + 1)..state'.offset
  BY <1>2, HeldEvolves DEF New
<1>5. \A n, type : Delivered(n, type, accepted) => n \in 0..disk.offset
  BY <1>1, DeliveredBehind
<1>6. Unposted(Mem', accepted)
  <2> SUFFICES ASSUME NEW n, Waits(n, Mem'), Delivered(n, "summary", accepted)
               PROVE  FALSE
    BY DEF Unposted
  <2>1. n \in 0..disk.offset
    BY <1>5
  <2>2. n \notin New(Mem, Mem')
    BY <1>1, <1>2, <2>1 DEF New
  <2>3. Waits(n, Mem)
    BY <2>2 DEF Evolves
  <2> QED BY <1>1, <2>3 DEF Unposted
<1>7. CASE disk' = disk
  <2>1. Disk' = Disk
    BY <1>7 DEF Disk
  <2>2. DiskInv'
    BY <1>1, <1>7, <2>1 DEF DiskInv, ReportedOnce
  <2>3. \A n : Held(n, Mem') /\ n \in 0..disk'.offset => Held(n, Disk')
    <3>1. \A n \in 0..disk.offset : n \notin (state.offset + 1)..state'.offset
      BY <1>1, <1>2
    <3> QED BY <1>1, <1>4, <1>7, <2>1, <3>1
  <2>4. disk'.offset <= state'.offset
    BY <1>1, <1>2, <1>3, <1>7
  <2>5. MemInv'
    BY <1>6, <2>3, <2>4 DEF MemInv
  <2>6. DiskMoves
    BY <1>2, <1>7, <2>1 DEF DiskMoves
  <2> QED BY <2>2, <2>5, <2>6, RunningKept DEF Inv, SafeInv
<1>8. CASE disk' = state' /\ Copied'
  <2>1. Disk' = Mem'
    BY <1>8 DEF Disk, Copied
  <2>2. DiskInv'
    <3>1. \A b \in DOMAIN accepted : \A n \in accepted[b].lines : n \in 0..disk'.offset
      <4>1. \A n \in 0..disk.offset : n \in 0..state'.offset
        BY <1>1, <1>2, <1>3
      <4> QED BY <1>1, <1>8, <4>1 DEF DiskInv
    <3> QED BY <1>1, <1>6, <2>1, <3>1 DEF DiskInv, ReportedOnce
  <2>3. MemInv'
    BY <1>2, <1>6, <1>8, <2>1 DEF MemInv
  <2>4. DiskMoves
    <3>1. ASSUME NEW n, Held(n, Disk'), n \notin New(Disk, Disk')
          PROVE  Held(n, Disk)
      <4>1. Held(n, Mem) \/ n \in (state.offset + 1)..state'.offset
        BY <1>4, <2>1, <3>1
      <4>2. Behind(Mem)
        BY <1>1 DEF Sound
      <4>3. Held(n, Mem) => n \in 0..state.offset
        BY <1>2, <4>2 DEF Behind
      <4>4. n \in 0..disk.offset
        BY <1>1, <1>2, <1>8, <3>1, <4>1, <4>3, <1>3 DEF New
      <4>5. Held(n, Mem)
        BY <1>1, <1>2, <4>1, <4>4
      <4> QED BY <1>1, <4>4, <4>5
    <3>2. disk.offset <= disk'.offset
      BY <1>1, <1>2, <1>3, <1>8
    <3> QED BY <3>1, <3>2 DEF DiskMoves
  <2> QED BY <2>2, <2>3, <2>4, RunningKept DEF Inv, SafeInv
<1> QED BY <1>7, <1>8

LEMMA NoPostOutside ==
  ASSUME TypeInv, pc \notin Draining
  PROVE  request = NoRequest
BY DEF TypeInv, RequestSound

LEMMA ViewSame ==
  ASSUME NEW o, NEW st, NEW cl, NEW c2
  PROVE  View(o, st, cl) = View(o, st, c2)
           <=> [k \in DOMAIN cl |-> cl[k].lines] = [k \in DOMAIN c2 |-> c2[k].lines]
<1>1. View(o, st, cl).lines = [k \in DOMAIN cl |-> cl[k].lines]
  BY DEF View
<1>2. View(o, st, c2).lines = [k \in DOMAIN c2 |-> c2[k].lines]
  BY DEF View
<1>3. ASSUME [k \in DOMAIN cl |-> cl[k].lines] = [k \in DOMAIN c2 |-> c2[k].lines]
      PROVE  View(o, st, cl) = View(o, st, c2)
  BY <1>3 DEF View
<1> QED BY <1>1, <1>2, <1>3

\* The state keeps the clusters of the manager, if it did and neither changes.
LEMMA CopiedKept ==
  ASSUME Copied, active' = active, state'.clusters = state.clusters
  PROVE  Copied'
<1>1. [k \in DOMAIN state.clusters |-> state.clusters[k].lines]
        = [k \in DOMAIN active |-> active[k].lines]
  BY ViewSame DEF Copied, Mem
<1>2. View(state'.offset, state', state.clusters) = View(state'.offset, state', active)
  BY <1>1, ViewSame
<1> QED BY <1>2 DEF Copied, Mem

LEMMA CarriesLoss ==
  ASSUME NEW v, NEW w, NEW gone, Viewed(v), w.offset = v.offset, Loses(v, w, gone)
  PROVE  Carries(v, w, gone)
<1>1. New(v, w) = {}
  BY DEF New, Viewed
<1> QED BY <1>1 DEF Carries

LEMMA Still ==
  ASSUME NEW v, NEW gone, Viewed(v)
  PROVE  Evolves(v, v) /\ Loses(v, v, gone)
BY DEF Evolves, Loses, Viewed

LEMMA SummarisedNone == Summarised({}) = {}
BY DEF Summarised

\* A step that leaves memory as it is, and may save it.
LEMMA StillStep ==
  ASSUME Inv, TypeInv', pc # "down", Mem' = Mem,
         UNCHANGED <<log, accepted, abandoned>>, Novel', PostInv',
         disk' = disk \/ (disk' = state' /\ Copied'),
         pc' = "down" \/ (pc' = "flush" /\ dirty') \/ Copied'
  PROVE  Inv' /\ DiskMoves
<1>1. Viewed(Mem) /\ Sound(Mem, log)
  BY OffsetsTyped DEF Inv, SafeInv, MemInv
<1>2. Evolves(Mem, Mem') /\ Loses(Mem, Mem', {})
  BY <1>1, Still
<1>3. Carries(Mem, Mem', {})
  BY <1>1, <1>2, CarriesLoss
<1>4. Settled \subseteq Settled' /\ Summarised({}) \subseteq Settled'
  BY SettledGrows
<1> QED BY <1>1, <1>2, <1>3, <1>4, RunningStep

\* The same, with no POST before or after.
LEMMA StillStepNoPost ==
  ASSUME Inv, TypeInv', pc # "down", Mem' = Mem,
         UNCHANGED <<log, accepted, abandoned>>, request = NoRequest, request' = NoRequest,
         disk' = disk \/ (disk' = state' /\ Copied'),
         pc' = "down" \/ (pc' = "flush" /\ dirty') \/ Copied'
  PROVE  Inv' /\ DiskMoves
<1>1. Evolves(Mem, Mem')
  BY OffsetsTyped, Still DEF Inv, SafeInv
<1>2. Novel' /\ PostInv'
  BY <1>1, NovelKept DEF Inv, SafeInv
<1> QED BY <1>2, StillStep

\* A step that drops the heads of the queues, and may save.
LEMMA DropStep ==
  ASSUME Inv, TypeInv', pc # "down", UNCHANGED <<log, accepted, active>>, Copied,
         NEW gone, Drops(state, state', gone),
         Settled \subseteq Settled', Summarised(gone) \subseteq Settled',
         disk' \in {disk, state'},
         Evolves(Mem, Mem') => Novel' /\ PostInv'
  PROVE  Inv' /\ DiskMoves
<1>1. Viewed(Mem) /\ Sound(Mem, log) /\ state \in State /\ active \in Clusters
      /\ state.offset \in Nat /\ state' \in State
  BY OffsetsTyped DEF Inv, SafeInv, MemInv, TypeInv
<1>2. state'.offset = state.offset /\ state'.clusters = state.clusters
  BY DEF Drops
<1>3. Mem' = View(state.offset, state', active)
  BY <1>2 DEF Mem
<1>4. Dropped(Mem, Mem', gone)
  BY <1>1, <1>3, ViewDropped DEF Mem
<1>5. Sound(Mem', log) /\ Evolves(Mem, Mem') /\ Loses(Mem, Mem', gone)
  BY <1>1, <1>4, DropSound
<1>6. Carries(Mem, Mem', gone)
  BY <1>1, <1>4, <1>5, CarriesLoss DEF Dropped
<1>7. Copied'
  BY <1>2, CopiedKept
<1> QED BY <1>5, <1>6, <1>7, RunningStep

\* A summary that awaits enrichment is queued.
LEMMA SummaryStep ==
  ASSUME Inv, TypeInv', pc \notin Draining, pc # "down", Copied,
         UNCHANGED <<log, disk, active, request, accepted>>,
         NEW item \in state.awaiting,
         state' = EnqueueSummary(state, item),
         Abandon(Elements(Displaced(state, item, "intel")))
  PROVE  Inv' /\ DiskMoves
<1> DEFINE gone == Elements(Displaced(state, item, "intel"))
<1>1. Viewed(Mem) /\ Sound(Mem, log) /\ state \in State /\ active \in Clusters /\ Within(state)
      /\ state.offset \in Nat /\ state' \in State /\ Mem.offset = state.offset
  BY OffsetsTyped DEF Inv, SafeInv, MemInv, TypeInv
<1>2. item \in Item /\ "intel" \in Channels
  BY <1>1, StateFields DEF Channels
<1>3. state'.offset = state.offset /\ state'.clusters = state.clusters
  BY <1>1, <1>2, SummaryFacts, EnqueueSame
<1>4. Mem' = View(state.offset, EnqueueSummary(state, item), active)
  BY <1>3 DEF Mem
<1>5. Sound(Mem', log) /\ Evolves(Mem, Mem') /\ Loses(Mem, Mem', gone)
  BY <1>1, <1>4, EnqueueSummarySound DEF Mem
<1>6. Mem'.offset = Mem.offset
  BY <1>1, <1>4 DEF View
<1>7. Carries(Mem, Mem', gone)
  BY <1>1, <1>5, <1>6, CarriesLoss
<1>8. request = NoRequest
  BY NoPostOutside DEF Inv, SafeInv
<1>9. Novel' /\ PostInv'
  BY <1>5, <1>8, NovelKept DEF Inv, SafeInv
<1>10. Settled \subseteq Settled' /\ Summarised(gone) \subseteq Settled'
  BY SettledGrows DEF Abandon
<1>11. Copied'
  BY <1>3, CopiedKept
<1> HIDE DEF gone
<1> QED BY <1>5, <1>7, <1>9, <1>10, <1>11, RunningStep

-----------------------------------------------------------------------------
(* The actions.                                                            *)

LEMMA RecoverOneSafe ==
  ASSUME Inv, TypeInv', RecoverOne
  PROVE  Inv' /\ DiskMoves
<1>1. pc = "recover" /\ pc \notin Draining /\ pc # "down" /\ Copied
  BY DEF RecoverOne, Draining, Inv, SafeInv, MemInv
<1>2. PICK item \in state.awaiting :
        /\ state' = EnqueueSummary(state, item)
        /\ Abandon(Elements(Displaced(state, item, "intel")))
  BY DEF RecoverOne
<1> QED BY <1>1, <1>2, SummaryStep DEF RecoverOne

LEMMA CompleteOneSafe ==
  ASSUME Inv, TypeInv', CompleteOne
  PROVE  Inv' /\ DiskMoves
<1> DEFINE item == Head(results)
<1>1. pc = "complete" /\ pc \notin Draining /\ pc # "down" /\ Copied
  BY DEF CompleteOne, Draining, Inv, SafeInv, MemInv
<1>2. CASE /\ item \in state.awaiting
           /\ state' = EnqueueSummary(state, item)
           /\ Abandon(Elements(Displaced(state, item, "intel")))
  <2> HIDE DEF item
  <2> QED BY <1>1, <1>2, SummaryStep DEF CompleteOne
<1>3. CASE Abandon({}) /\ UNCHANGED state
  <2>1. Mem' = Mem /\ Copied' /\ abandoned' = abandoned
    BY <1>1, <1>3, CopiedKept DEF Mem, CompleteOne, Abandon
  <2>2. request = NoRequest
    BY <1>1, NoPostOutside DEF Inv, SafeInv
  <2> QED BY <1>1, <2>1, <2>2, StillStepNoPost DEF CompleteOne
<1> QED BY <1>2, <1>3 DEF CompleteOne

\* The end of a loop, with the save of an unchanged state.
LEMMA LoopEndSafe ==
  ASSUME Inv, TypeInv', pc \in {"recover", "complete", "idle", "consume"},
         UNCHANGED <<log, state, active, request, netVars>>, disk' \in {disk, state'}
  PROVE  Inv' /\ DiskMoves
<1>1. pc \notin Draining /\ pc # "down" /\ Copied
  BY DEF Draining, Inv, SafeInv, MemInv
<1>2. Mem' = Mem /\ Copied'
  BY <1>1, CopiedKept DEF Mem
<1>3. request = NoRequest
  BY <1>1, NoPostOutside DEF Inv, SafeInv
<1> QED BY <1>1, <1>2, <1>3, StillStepNoPost DEF netVars

LEMMA RecoverDoneSafe ==
  ASSUME Inv, TypeInv', RecoverDone
  PROVE  Inv' /\ DiskMoves
<1>1. disk' \in {disk, state'}
  BY DEF RecoverDone, SaveState, Raises
<1> QED BY <1>1, LoopEndSafe DEF RecoverDone

LEMMA CompleteDoneSafe ==
  ASSUME Inv, TypeInv', CompleteDone
  PROVE  Inv' /\ DiskMoves
<1>1. disk' \in {disk, state'}
  BY DEF CompleteDone, SaveState, Raises
<1> QED BY <1>1, LoopEndSafe DEF CompleteDone

LEMMA BeginPollSafe ==
  ASSUME Inv, TypeInv', BeginPoll
  PROVE  Inv' /\ DiskMoves
BY LoopEndSafe DEF BeginPoll, memVars

LEMMA ConsumeDoneSafe ==
  ASSUME Inv, TypeInv', ConsumeDone
  PROVE  Inv' /\ DiskMoves
BY LoopEndSafe DEF ConsumeDone, memVars

LEMMA FlushDoneSafe ==
  ASSUME Inv, TypeInv', FlushDone
  PROVE  Inv' /\ DiskMoves
<1>1. pc = "flush" /\ pc \notin Draining /\ pc # "down" /\ (dirty \/ Copied)
  BY DEF FlushDone, Draining, Inv, SafeInv, MemInv
<1>2. request = NoRequest
  BY <1>1, NoPostOutside DEF Inv, SafeInv
<1>3. disk' \in {disk, state'}
  BY DEF FlushDone, SaveState, Raises
<1>4. Mem' = Mem /\ Copied'
  <2>1. CASE dirty
    <3>1. state' = [state EXCEPT !.clusters = active] /\ active' = active /\ state \in State
      BY <2>1 DEF FlushDone, Inv, SafeInv, TypeInv
    <3>2. /\ state'.clusters = active /\ state'.offset = state.offset /\ state'.seen = state.seen
          /\ state'.dead = state.dead /\ state'.awaiting = state.awaiting
          /\ state'.pending = state.pending
      BY <3>1, FieldsOf
    <3>3. Known(state') = Known(state)
      BY <3>2 DEF Known
    <3> QED BY <3>1, <3>2, <3>3 DEF Copied, Mem, View
  <2>2. CASE ~dirty
    <3>1. Copied /\ UNCHANGED <<state, active>>
      BY <1>1, <2>2 DEF FlushDone
    <3> QED BY <3>1, CopiedKept DEF Mem
  <2> QED BY <2>1, <2>2
<1> QED BY <1>1, <1>2, <1>3, <1>4, StillStepNoPost DEF FlushDone, netVars

LEMMA DrainingFacts ==
  ASSUME Inv, pc \in Draining
  PROVE  pc # "down" /\ Copied /\ Channel \in Channels
BY DEF Draining, Inv, SafeInv, MemInv, Channel, Channels

LEMMA DrainReturnsSafe ==
  ASSUME Inv, TypeInv', DrainReturns
  PROVE  Inv' /\ DiskMoves
<1>1. pc # "down" /\ Copied
  BY DrainingFacts DEF DrainReturns
<1>2. Mem' = Mem /\ Copied'
  BY <1>1, CopiedKept DEF Mem, DrainReturns
<1> QED BY <1>1, <1>2, StillStepNoPost DEF DrainReturns, netVars

LEMMA CredentialTimesOutSafe ==
  ASSUME Inv, TypeInv', CredentialTimesOut
  PROVE  Inv' /\ DiskMoves
<1>1. pc # "down" /\ Copied
  BY DrainingFacts DEF CredentialTimesOut
<1>2. Mem' = Mem /\ Copied'
  BY <1>1, CopiedKept DEF Mem, CredentialTimesOut, memVars
<1> QED BY <1>1, <1>2, StillStepNoPost DEF CredentialTimesOut, memVars, netVars, Raises

LEMMA DrainWithoutCredentialSafe ==
  ASSUME Inv, TypeInv', DrainWithoutCredential
  PROVE  Inv' /\ DiskMoves
<1> DEFINE ch == Channel
           gone == Elements(state.pending[ch])
<1>1. pc # "down" /\ Copied /\ ch \in Channels
  BY DrainingFacts DEF DrainWithoutCredential
<1>2. /\ state' = [DeadLetter(state, state.pending[ch], "credential_unavailable") EXCEPT
                     !.pending[ch] = <<>>]
      /\ abandoned' = abandoned \cup gone
      /\ request = NoRequest /\ request' = NoRequest
      /\ UNCHANGED <<log, active, accepted>>
  BY DEF DrainWithoutCredential, Abandon
<1>3. disk' \in {disk, state'}
  BY DEF DrainWithoutCredential, SaveState, Raises
<1>4. state \in State /\ Within(state)
  BY DEF Inv, SafeInv, TypeInv
<1> HIDE DEF ch
<1>5. Drops(state, state', gone)
  BY <1>1, <1>2, <1>4, DrainedFacts
<1>6. Settled \subseteq Settled' /\ Summarised(gone) \subseteq Settled'
  BY <1>2, SettledGrows
<1>7. Evolves(Mem, Mem') => Novel' /\ PostInv'
  BY <1>1, <1>2, NovelKept DEF Inv, SafeInv
<1> HIDE DEF gone
<1> QED BY <1>1, <1>2, <1>3, <1>5, <1>6, <1>7, DropStep

\* After the answer the head has left its queue: the rest was not delivered.
LEMMA PopNovel ==
  ASSUME TypeInv, Novel, Channel \in Channels, state.pending[Channel] # <<>>,
         state'.pending = [state.pending EXCEPT ![Channel] = Tail(state.pending[Channel])],
         accepted' = accepted
  PROVE  Novel'
<1> DEFINE q == state.pending[Channel]
<1>1. q \in Seq(Item) /\ q # <<>> /\ state.pending \in [Channels -> Seq(Item)]
  BY StateFields DEF TypeInv
<1> SUFFICES ASSUME NEW c \in Channels, NEW a \in DOMAIN state'.pending[c],
                    NEW n \in state'.pending[c][a].lines, Delivered(n, Kind(c), accepted)
             PROVE  FALSE
  BY DEF Novel
<1>2. CASE c # Channel
  <2>1. state'.pending[c] = state.pending[c]
    BY <1>1, <1>2
  <2> QED BY <1>2, <2>1 DEF Novel
<1>3. CASE c = Channel
  <2>1. state'.pending[c] = Tail(q)
    BY <1>1, <1>3
  <2> HIDE DEF q
  <2>2. /\ Tail(q) \in Seq(Item) /\ Len(Tail(q)) = Len(q) - 1 /\ Len(q) \in Nat
        /\ \A i \in 1..Len(Tail(q)) : Tail(q)[i] = q[i + 1]
        /\ DOMAIN q = 1..Len(q) /\ DOMAIN Tail(q) = 1..Len(Tail(q))
    BY <1>1, HeadTailProperties
  <2>3. a \in 1..Len(Tail(q))
    BY <2>1, <2>2
  <2>4. a + 1 \in DOMAIN q /\ a + 1 # 1
    BY <2>2, <2>3
  <2>5. n \in q[a + 1].lines
    BY <2>1, <2>2, <2>3
  <2> QED BY <1>3, <2>4, <2>5 DEF Novel, q
<1> QED BY <1>2, <1>3

\* An answer, other than 429: the head is settled.
LEMMA AnswerStep ==
  ASSUME Inv, TypeInv', request.answer \in {"ok", "lost", "refused"},
         state' \in {PopSeen(state, Channel), PopAbandoned(state, Channel)},
         SaveState(pc, "idle"), request' = NoRequest,
         UNCHANGED <<log, active, accepted>>,
         Settled \subseteq Settled', Summarised({request.item}) \subseteq Settled'
  PROVE  Inv' /\ DiskMoves
<1> DEFINE ch == Channel
           gone == {Head(state.pending[ch])}
<1>1. request # NoRequest
  BY RequestTyped
<1>2. pc \in Draining /\ state.pending[ch] # <<>> /\ request.item = Head(state.pending[ch])
  BY <1>1 DEF Inv, SafeInv, TypeInv, RequestSound
<1>3. pc # "down" /\ Copied /\ ch \in Channels /\ Novel
  BY <1>2, DrainingFacts DEF Inv, SafeInv, MemInv
<1>4. disk' \in {disk, state'}
  BY DEF SaveState, Raises
<1>5. state \in State /\ Within(state) /\ state' \in {PopSeen(state, ch), PopAbandoned(state, ch)}
  BY DEF Inv, SafeInv, TypeInv
<1> HIDE DEF ch
<1>6. \A st2 \in {PopSeen(state, ch), PopAbandoned(state, ch)} :
        /\ st2.pending = [state.pending EXCEPT ![ch] = Tail(state.pending[ch])]
        /\ Drops(state, st2, {Head(state.pending[ch])})
  BY <1>2, <1>3, <1>5, PopFacts
<1>7. /\ state'.pending = [state.pending EXCEPT ![ch] = Tail(state.pending[ch])]
      /\ Drops(state, state', gone)
  BY <1>5, <1>6
<1>8. Novel'
  BY <1>2, <1>3, <1>7, PopNovel DEF ch, Inv, SafeInv
<1>9. PostInv'
  BY RequestTyped DEF PostInv, Posted
<1>10. Summarised(gone) \subseteq Settled'
  BY <1>2
<1> HIDE DEF gone
<1> QED BY <1>3, <1>4, <1>7, <1>8, <1>9, <1>10, DropStep

LEMMA SendSucceededSafe ==
  ASSUME Inv, TypeInv', SendSucceeded
  PROVE  Inv' /\ DiskMoves
<1>1. request.item \in Elements(accepted)
  BY DEF SendSucceeded, Inv, SafeInv, PostInv, Posted
<1>2. Settled' = Settled
  BY DEF SendSucceeded, Settled
<1>3. Summarised({request.item}) \subseteq Settled
  BY <1>1, SummarisedBy DEF Settled
<1> QED BY <1>2, <1>3, AnswerStep DEF SendSucceeded

LEMMA SendAbandonedSafe ==
  ASSUME Inv, TypeInv', SendAbandoned
  PROVE  Inv' /\ DiskMoves
<1>1. Settled \subseteq Settled' /\ Summarised({request.item}) \subseteq Settled'
  BY SettledGrows DEF SendAbandoned, Abandon
<1> QED BY <1>1, AnswerStep DEF SendAbandoned

LEMMA SendRateLimitedSafe ==
  ASSUME Inv, TypeInv', SendRateLimited
  PROVE  Inv' /\ DiskMoves
<1>1. request # NoRequest /\ ~Posted
  BY RequestTyped DEF SendRateLimited, Posted
<1>2. pc # "down" /\ Copied /\ Novel
  BY <1>1, DrainingFacts DEF Inv, SafeInv, MemInv, TypeInv, RequestSound
<1>3. Mem' = Mem /\ Copied'
  BY <1>2, CopiedKept DEF Mem, SendRateLimited
<1>4. PostInv'
  BY RequestTyped DEF SendRateLimited, PostInv, Posted
<1>5. Novel'
  BY <1>1, <1>2 DEF Novel, SendRateLimited, netVars
<1> QED BY <1>2, <1>3, <1>4, <1>5, StillStep DEF SendRateLimited, netVars

\* What is queued was delivered by nobody when the POST of the head begins.
LEMMA HeadFacts ==
  ASSUME Inv, pc \in Draining, request = NoRequest, state.pending[Channel] # <<>>
  PROVE  LET item == Head(state.pending[Channel])
         IN  /\ item \in Item /\ item.type = Kind(Channel)
             /\ item = state.pending[Channel][1] /\ 1 \in DOMAIN state.pending[Channel]
             /\ \A n \in item.lines : /\ Queued(n, Channel, Mem) /\ n \in 0..state.offset
                                      /\ ~Delivered(n, item.type, accepted)
<1> DEFINE q == state.pending[Channel]
           item == Head(q)
<1>1. Channel \in Channels /\ Novel /\ Sound(Mem, log)
  BY DrainingFacts DEF Inv, SafeInv, MemInv
<1>2. q \in Seq(Item) /\ q # <<>> /\ Mem.pending = state.pending /\ Mem.offset = state.offset
  BY <1>1, StateFields DEF Inv, SafeInv, TypeInv, Mem, View
<1>3. item = q[1] /\ 1 \in DOMAIN q /\ item \in Item
  <2> HIDE DEF q
  <2> QED BY <1>2
<1>4. item.type = Kind(Channel)
  BY <1>1, <1>2, <1>3 DEF Sound, Kinds
<1>5. ASSUME NEW n \in item.lines
      PROVE  /\ Queued(n, Channel, Mem) /\ n \in 0..state.offset
             /\ ~Delivered(n, item.type, accepted)
  <2>1. Queued(n, Channel, Mem)
    BY <1>2, <1>3 DEF Queued
  <2>2. n \in 0..state.offset
    BY <1>1, <1>2, <2>1 DEF Sound, Behind, Held, Channels
  <2>3. ~Posted
    BY RequestTyped DEF Posted
  <2>4. ~Delivered(n, item.type, accepted)
    BY <1>1, <1>3, <1>4, <2>3 DEF Novel
  <2> QED BY <2>1, <2>2, <2>4
<1> QED BY <1>3, <1>4, <1>5

\* Discord accepts the head, or does not; before, it was saved as pending.
LEMMA PostSafe ==
  ASSUME Inv, TypeInv', pc \in Draining, request = NoRequest,
         state.pending[Channel] # <<>>, NEW answer \in Answers,
         disk' = state, pc' = pc,
         request' = [item |-> Head(state.pending[Channel]), answer |-> answer],
         accepted' = IF answer \in {"ok", "lost"}
                     THEN Append(accepted, Head(state.pending[Channel])) ELSE accepted,
         UNCHANGED <<log, state, active, abandoned>>
  PROVE  Inv' /\ DiskMoves
<1> DEFINE ch == Channel
           item == Head(state.pending[ch])
<1>1. /\ item \in Item /\ item.type = Kind(ch)
      /\ item = state.pending[ch][1] /\ 1 \in DOMAIN state.pending[ch]
      /\ \A n \in item.lines : /\ Queued(n, ch, Mem) /\ n \in 0..state.offset
                               /\ ~Delivered(n, item.type, accepted)
  BY HeadFacts
<1>2. /\ pc # "down" /\ Copied /\ ch \in Channels /\ Novel /\ DiskInv /\ Sound(Mem, log)
      /\ Unposted(Mem, accepted) /\ disk.offset <= state.offset /\ TypeInv
      /\ \A n : Held(n, Mem) /\ n \in 0..disk.offset => Held(n, Disk)
  BY DrainingFacts DEF Inv, SafeInv, MemInv
<1>3. /\ Mem.offset = state.offset /\ Mem.pending = state.pending
      /\ Disk.offset = disk.offset /\ state.offset \in Nat /\ disk.offset \in Nat
      /\ accepted \in Seq(Item)
  BY <1>2, OffsetsTyped DEF TypeInv
<1>4. Mem' = Mem /\ Disk' = Mem
  BY <1>2 DEF Mem, Disk, Copied
<1>5. \A n, t : Delivered(n, t, accepted') =>
        \/ Delivered(n, t, accepted)
        \/ /\ t = item.type /\ n \in item.lines /\ answer \in {"ok", "lost"}
  <2>1. CASE answer \in {"ok", "lost"}
    <3>1. accepted' = Append(accepted, item)
      BY <2>1
    <3> HIDE DEF item
    <3>2. /\ DOMAIN accepted' = 1..(Len(accepted) + 1) /\ DOMAIN accepted = 1..Len(accepted)
          /\ \A b \in 1..Len(accepted) : accepted'[b] = accepted[b]
          /\ accepted'[Len(accepted) + 1] = item
          /\ Len(accepted) \in Nat
      BY <1>1, <1>3, <3>1, AppendProperties
    <3> QED BY <2>1, <3>2 DEF Delivered
  <2>2. CASE answer \notin {"ok", "lost"}
    BY <2>2
  <2> QED BY <2>1, <2>2
<1>6. \A n, t : Delivered(n, t, accepted) => n \in 0..disk.offset
  BY <1>2, DeliveredBehind
<1> HIDE DEF item, ch
<1>7. Unposted(Mem, accepted')
  <2> SUFFICES ASSUME NEW n, Waits(n, Mem), Delivered(n, "summary", accepted')
               PROVE  FALSE
    BY DEF Unposted
  <2>1. item.type = "summary" /\ n \in item.lines
    BY <1>2, <1>5 DEF Unposted
  <2>2. ch = "intel"
    BY <1>1, <2>1 DEF Kind
  <2>3. Queued(n, "intel", Mem)
    BY <1>1, <2>1, <2>2
  <2> QED BY <1>2, <2>3 DEF Sound, Unsettled
<1>8. \A b \in DOMAIN accepted' : \A n \in accepted'[b].lines : n \in 0..state.offset
  <2> SUFFICES ASSUME NEW b \in DOMAIN accepted', NEW n \in accepted'[b].lines
               PROVE  n \in 0..state.offset
    OBVIOUS
  <2>1. Delivered(n, accepted'[b].type, accepted')
    BY DEF Delivered
  <2>2. CASE Delivered(n, accepted'[b].type, accepted)
    <3>1. n \in 0..disk.offset
      BY <1>6, <2>2
    <3> QED BY <1>2, <1>3, <3>1
  <2>3. CASE n \in item.lines
    BY <1>1, <2>3
  <2> QED BY <1>5, <2>1, <2>2, <2>3
<1>9. ReportedOnce'
  <2>1. CASE answer \in {"ok", "lost"}
    <3>1. accepted' = Append(accepted, item)
      BY <2>1 DEF item, ch
    <3>2. /\ DOMAIN accepted' = 1..(Len(accepted) + 1) /\ DOMAIN accepted = 1..Len(accepted)
          /\ \A b \in 1..Len(accepted) : accepted'[b] = accepted[b]
          /\ accepted'[Len(accepted) + 1] = item
          /\ Len(accepted) \in Nat
      BY <1>1, <1>3, <3>1, AppendProperties
    <3>3. \A b \in 1..Len(accepted) : accepted[b].type = item.type =>
            accepted[b].lines \cap item.lines = {} /\ item.lines \cap accepted[b].lines = {}
      BY <1>1, <3>2 DEF Delivered
    <3>4. ASSUME NEW a \in DOMAIN accepted', NEW b \in DOMAIN accepted', a # b,
                 accepted'[a].type = accepted'[b].type
          PROVE  accepted'[a].lines \cap accepted'[b].lines = {}
      <4>1. /\ a \in 1..Len(accepted) \/ a = Len(accepted) + 1
            /\ b \in 1..Len(accepted) \/ b = Len(accepted) + 1
        BY <3>2
      <4>2. CASE a \in 1..Len(accepted) /\ b \in 1..Len(accepted)
        BY <1>2, <3>2, <3>4, <4>2 DEF DiskInv, ReportedOnce
      <4>3. CASE a \in 1..Len(accepted) /\ b = Len(accepted) + 1
        BY <3>2, <3>3, <3>4, <4>3
      <4>4. CASE a = Len(accepted) + 1 /\ b \in 1..Len(accepted)
        BY <3>2, <3>3, <3>4, <4>4
      <4> QED BY <3>4, <4>1, <4>2, <4>3, <4>4
    <3> QED BY <3>4 DEF ReportedOnce
  <2>2. CASE answer \notin {"ok", "lost"}
    BY <1>2, <2>2 DEF DiskInv, ReportedOnce
  <2> QED BY <2>1, <2>2
<1>10. DiskInv'
  BY <1>2, <1>4, <1>7, <1>8, <1>9 DEF DiskInv
<1>11. Novel'
  <2>1. Channel' = ch /\ (Posted' <=> answer \in {"ok", "lost"})
    BY DEF Channel, Posted, ch
  <2> SUFFICES ASSUME NEW c \in Channels, NEW a \in DOMAIN state.pending[c],
                      NEW n \in state.pending[c][a].lines,
                      Delivered(n, Kind(c), accepted')
               PROVE  answer \in {"ok", "lost"} /\ c = ch /\ a = 1
    BY <2>1 DEF Novel
  <2>2. ~Posted
    BY RequestTyped DEF Posted
  <2>3. ~Delivered(n, Kind(c), accepted)
    BY <1>2, <2>2 DEF Novel
  <2>4. Kind(c) = item.type /\ n \in item.lines /\ answer \in {"ok", "lost"}
    BY <1>5, <2>3
  <2>5. c = ch
    BY <1>1, <1>2, <2>4 DEF Kind, Channels
  <2>6. a # 1 => Apart(state.pending[c][a].lines, state.pending[c][1].lines)
    BY <1>1, <1>2, <1>3, <2>5 DEF Sound, Single
  <2> QED BY <1>1, <2>4, <2>5, <2>6 DEF Apart
<1>12. MemInv'
  <2>1. Copied'
    BY <1>2, CopiedKept
  <2> QED BY <1>2, <1>3, <1>4, <1>7, <1>11, <2>1 DEF MemInv
<1>13. PostInv'
  <2>1. request'.item = item /\ request'.answer = answer
    BY DEF item, ch
  <2>2. CASE answer \in {"ok", "lost"}
    <3>1. accepted' = Append(accepted, item)
      BY <2>2 DEF item, ch
    <3>2. item \in Elements(accepted')
      BY <1>1, <1>3, <3>1, ElementsAppend
    <3> QED BY <2>1, <3>2 DEF PostInv
  <2>3. CASE answer \notin {"ok", "lost"}
    BY <2>1, <2>3 DEF PostInv, Posted
  <2> QED BY <2>2, <2>3
<1>14. Settled \subseteq Settled'
  <2>1. Elements(accepted) \subseteq Elements(accepted')
    <3>1. accepted' \in {accepted, Append(accepted, item)}
      BY DEF item, ch
    <3> QED BY <1>1, <1>3, <3>1, ElementsAppend
  <2> QED BY <2>1, SummarisedBy DEF Settled
<1>15. KeptInv'
  <2>1. Kept(Mem, log, Settled)
    BY <1>2 DEF Inv, KeptInv
  <2>2. Kept(Mem, log, Settled')
    BY <1>14, <2>1 DEF Kept
  <2> QED BY <1>4, <2>2 DEF KeptInv
<1>16. DiskMoves
  <2>1. ASSUME NEW n, Held(n, Mem), ~Held(n, Disk)
        PROVE  n \in (disk.offset + 1)..state.offset
    <3>1. n \notin 0..disk.offset
      BY <1>2, <2>1
    <3>2. n \in 0..state.offset
      BY <1>2, <1>3, <2>1 DEF Sound, Behind
    <3> QED BY <1>3, <3>1, <3>2
  <2> QED BY <1>2, <1>3, <1>4, <2>1 DEF DiskMoves, New
<1> QED BY <1>10, <1>12, <1>13, <1>15 , <1>16 DEF Inv, SafeInv

LEMMA SendHeadSafe ==
  ASSUME Inv, TypeInv', SendHead
  PROVE  Inv' /\ DiskMoves
<1>1. pc \in Draining /\ request = NoRequest /\ state.pending[Channel] # <<>>
      /\ UNCHANGED <<log, state, active, abandoned>>
  BY DEF SendHead
<1>2. CASE Raises("idle") /\ UNCHANGED <<request, accepted>>
  <2>1. pc # "down" /\ Copied
    BY <1>1, DrainingFacts
  <2>2. Mem' = Mem /\ Copied'
    BY <1>1, <2>1, CopiedKept DEF Mem
  <2> QED BY <1>1, <1>2, <2>1, <2>2, StillStepNoPost DEF Raises
<1>3. CASE \E answer \in Answers :
             /\ disk' = state
             /\ pc' = pc
             /\ request' = [item |-> Head(state.pending[Channel]), answer |-> answer]
             /\ accepted' = IF answer \in {"ok", "lost"}
                            THEN Append(accepted, Head(state.pending[Channel])) ELSE accepted
  BY <1>1, <1>3, PostSafe
<1> QED BY <1>2, <1>3 DEF SendHead

\* The process starts from what is on disk, without the queues.
LEMMA StartSafe ==
  ASSUME Inv, TypeInv', Start
  PROVE  Inv' /\ DiskMoves
<1> DEFINE gone == Elements(disk.pending["legacy"]) \cup Elements(disk.pending["intel"])
<1>1. /\ pc = "down" /\ pc' = "recover" /\ state' = LoadState(disk) /\ active' = disk.clusters
      /\ abandoned' = abandoned \cup UNION {Elements(disk.pending[c]) : c \in Channels}
      /\ UNCHANGED <<log, disk, dirty, request, accepted>>
  BY DEF Start, Abandon
<1>2. UNION {Elements(disk.pending[c]) : c \in Channels} = gone
  BY DEF Channels
<1>3. /\ TypeInv /\ DiskInv /\ Sound(Disk, log) /\ Unposted(Disk, accepted)
      /\ disk \in State /\ disk.clusters \in Clusters /\ disk.offset \in Nat
  BY StateFields DEF Inv, SafeInv, DiskInv, TypeInv
<1>4. /\ state' \in State /\ state'.pending = [c \in Channels |-> <<>>]
      /\ Drops(disk, state', gone)
  BY <1>1, <1>3, LoadFacts
<1>5. state'.offset = disk.offset /\ state'.clusters = disk.clusters
  BY <1>4 DEF Drops
<1>6. Mem' = View(disk.offset, state', disk.clusters) /\ Disk' = Disk /\ Copied'
  BY <1>1, <1>5 DEF Mem, Disk, Copied
<1> HIDE DEF gone
<1>7. Dropped(Disk, Mem', gone)
  BY <1>3, <1>4, <1>6, ViewDropped DEF Disk
<1>8. Viewed(Disk) /\ Disk.offset = disk.offset /\ Mem'.offset = disk.offset
      /\ Viewed(Mem)'
  <2>1. Mem'.offset = disk.offset /\ Mem'.pending = state'.pending
    BY <1>6 DEF View
  <2> QED BY <1>3, <1>4, <2>1, OffsetsTyped, StateFields DEF Viewed
<1>9. Sound(Mem', log) /\ Evolves(Disk, Mem') /\ Loses(Disk, Mem', gone)
  BY <1>3, <1>7, <1>8, DropSound
<1>10. New(Disk, Mem') = {}
  BY <1>3, <1>8 DEF New
<1>11. Unposted(Mem', accepted)
  BY <1>3, <1>9, <1>10 DEF Unposted, Evolves
<1>12. request = NoRequest
  BY <1>1, <1>3, NoPostOutside DEF Draining
<1>13. Novel' /\ PostInv'
  <2>1. Novel'
    BY <1>4 DEF Novel
  <2>2. PostInv'
    BY <1>1, <1>12, RequestTyped DEF PostInv, Posted
  <2> QED BY <2>1, <2>2
<1>14. DiskInv'
  BY <1>1, <1>3, <1>6 DEF DiskInv, ReportedOnce
<1>15. \A n : Held(n, Mem') => Held(n, Disk')
  BY <1>6, <1>9, <1>10, HeldEvolves
<1>16. MemInv'
  BY <1>1, <1>3, <1>5, <1>6, <1>9, <1>11, <1>13, <1>15 DEF MemInv
<1>17. KeptInv'
  <2>1. Settled \subseteq Settled' /\ Summarised(gone) \subseteq Settled'
    BY <1>1, <1>2, SettledGrows
  <2>2. Kept(Disk, log, Settled)
    BY DEF Inv, KeptInv
  <2>3. Kept(Disk, log, Settled')
    BY <2>1, <2>2 DEF Kept
  <2>4. Carries(Disk, Mem', gone)
    BY <1>8, <1>9, CarriesLoss
  <2>5. Kept(Mem', log, Settled')
    BY <1>8, <2>1, <2>2, <2>4, KeptGoesOn DEF Viewed
  <2> QED BY <1>1, <1>6, <2>3, <2>5 DEF KeptInv
<1>18. DiskMoves
  BY <1>1, <1>3, <1>6 DEF DiskMoves
<1> QED BY <1>13, <1>14, <1>16, <1>17, <1>18 DEF Inv, SafeInv

\* Nothing that safety depends on changes.
LEMMA QuietSafe ==
  ASSUME Inv, TypeInv',
         UNCHANGED <<log, state, disk, active, pc, dirty, request, accepted, abandoned>>
  PROVE  Inv' /\ DiskMoves
<1>1. Mem' = Mem /\ Disk' = Disk /\ (Copied' <=> Copied) /\ Settled' = Settled
  BY DEF Mem, Disk, Copied, Settled
<1>2. (Novel' <=> Novel) /\ (PostInv' <=> PostInv) /\ (ReportedOnce' <=> ReportedOnce)
  BY DEF Novel, Channel, Posted, PostInv, ReportedOnce
<1>3. DiskInv'
  BY <1>1, <1>2 DEF Inv, SafeInv, DiskInv
<1>4. MemInv'
  BY <1>1, <1>2 DEF Inv, SafeInv, MemInv
<1>5. KeptInv'
  BY <1>1 DEF Inv, KeptInv
<1>6. DiskMoves
  BY <1>1, OffsetsTyped DEF DiskMoves, Inv, SafeInv
<1> QED BY <1>2, <1>3, <1>4, <1>5, <1>6 DEF Inv, SafeInv

\* Time passes: the clusters age, their lines stay.
LEMMA TickSafe ==
  ASSUME Inv, TypeInv', Tick
  PROVE  Inv' /\ DiskMoves
<1>1. /\ state \in State /\ disk \in State /\ active \in Clusters
      /\ state.clusters \in Clusters /\ disk.clusters \in Clusters
  BY StateFields DEF Inv, SafeInv, TypeInv
<1>2. ASSUME NEW st \in State, NEW st2, NEW o, NEW cl,
             st2 = [st EXCEPT !.clusters = TickClusters(@)]
      PROVE  /\ st2.offset = st.offset /\ st2.pending = st.pending
             /\ st2.clusters = TickClusters(st.clusters)
             /\ View(o, st2, cl) = View(o, st, cl)
  <2> DEFINE c == TickClusters(st.clusters)
  <2>1. st2 = [st EXCEPT !.clusters = c]
    BY <1>2
  <2> HIDE DEF c
  <2>2. /\ st2.clusters = c /\ st2.offset = st.offset /\ st2.seen = st.seen
        /\ st2.awaiting = st.awaiting /\ st2.pending = st.pending /\ st2.dead = st.dead
    BY <2>1, FieldsOf
  <2>3. Known(st2) = Known(st)
    BY <2>2 DEF Known
  <2> QED BY <2>2, <2>3 DEF View, c
<1>3. /\ state' = [state EXCEPT !.clusters = TickClusters(@)]
      /\ disk' = [disk EXCEPT !.clusters = TickClusters(@)]
      /\ active' = TickClusters(active)
      /\ UNCHANGED <<log, pc, dirty, request, accepted, abandoned>>
  BY DEF Tick, netVars
<1>4. \A cl \in Clusters : TickClusters(cl) \in Clusters /\ SameLines(TickClusters(cl), cl)
  BY TickFacts
<1>5. Mem' = Mem
  <2>1. Mem' = View(state.offset, state, active')
    BY <1>1, <1>2, <1>3 DEF Mem
  <2> QED BY <1>1, <1>3, <1>4, <2>1, SameLinesSameView DEF Mem
<1>6. Disk' = Disk
  <2>1. Disk' = View(disk.offset, disk, TickClusters(disk.clusters))
    BY <1>1, <1>2, <1>3 DEF Disk
  <2> QED BY <1>1, <1>4, <2>1, SameLinesSameView DEF Disk
<1>7. View(state.offset, state, state.clusters)'
        = View(state.offset, state, state.clusters)
  <2>1. View(state.offset, state, state.clusters)'
          = View(state.offset, state, TickClusters(state.clusters))
    BY <1>1, <1>2, <1>3
  <2> QED BY <1>1, <1>4, <2>1, SameLinesSameView
<1>8. /\ state'.offset = state.offset /\ state'.pending = state.pending
      /\ disk'.offset = disk.offset
  BY <1>1, <1>2, <1>3
<1>9. Copied' <=> Copied
  BY <1>5, <1>7 DEF Copied
<1>10. Settled' = Settled
  BY <1>3 DEF Settled
<1>11. (Novel' <=> Novel) /\ (PostInv' <=> PostInv) /\ (ReportedOnce' <=> ReportedOnce)
  BY <1>3, <1>8 DEF Novel, Channel, Posted, PostInv, ReportedOnce
<1>12. DiskInv'
  BY <1>3, <1>6, <1>8, <1>11 DEF Inv, SafeInv, DiskInv
<1>13. MemInv'
  BY <1>3, <1>5, <1>6, <1>8, <1>9, <1>11 DEF Inv, SafeInv, MemInv
<1>14. KeptInv'
  BY <1>3, <1>5, <1>6, <1>10 DEF Inv, KeptInv
<1>15. DiskMoves
  BY <1>6, <1>8, OffsetsTyped DEF DiskMoves, Inv, SafeInv
<1> QED BY <1>11, <1>12, <1>13, <1>14, <1>15 DEF Inv, SafeInv

\* The log grows: what was taken in is there as before.
LEMMA LogLineSafe ==
  ASSUME Inv, TypeInv', LogLine
  PROVE  Inv' /\ DiskMoves
<1>1. UNCHANGED <<state, disk, active, pc, dirty, request, accepted, abandoned>>
  BY DEF LogLine, memVars, netVars
<1>2. log \in Seq(Line) /\ \E line \in Line : log' = Append(log, line)
  BY DEF Inv, SafeInv, TypeInv, LogLine
<1>3. /\ Len(log) \in Nat /\ DOMAIN log = 1..Len(log)
      /\ Len(log') = Len(log) + 1 /\ DOMAIN log' = 1..(Len(log) + 1)
      /\ \A n \in 1..Len(log) : log'[n] = log[n]
  BY <1>2, AppendProperties
<1>4. ASSUME NEW v, Viewed(v), Sound(v, log)
      PROVE  /\ Sound(v, log')
             /\ \A s : Kept(v, log, s) => Kept(v, log', s)
  <2>1. Genuine(v, log')
    <3>1. \A k \in DOMAIN v.lines : \A n \in v.lines[k] : n \in DOMAIN log /\ log[n].key = k
      BY <1>4 DEF Sound, Genuine, Held, Waits
    <3>2. v.offset <= Len(log') /\ \A n : Held(n, v) => n \in DOMAIN log'
      BY <1>3, <1>4 DEF Sound, Genuine, Viewed
    <3>3. \A k \in DOMAIN v.lines : \A n \in v.lines[k] : log'[n].key = k
      BY <1>3, <3>1
    <3> QED BY <3>2, <3>3 DEF Genuine
  <2>2. \A n \in 1..v.offset : n \in 1..Len(log)
    BY <1>3, <1>4 DEF Sound, Genuine, Viewed
  <2> QED BY <1>3, <1>4, <2>1, <2>2 DEF Sound, Kept
<1>5. Mem' = Mem /\ Disk' = Disk /\ (Copied' <=> Copied) /\ Settled' = Settled
  BY <1>1 DEF Mem, Disk, Copied, Settled
<1>6. (Novel' <=> Novel) /\ (PostInv' <=> PostInv) /\ (ReportedOnce' <=> ReportedOnce)
  BY <1>1 DEF Novel, Channel, Posted, PostInv, ReportedOnce
<1>7. Viewed(Mem) /\ Viewed(Disk)
  BY OffsetsTyped DEF Inv, SafeInv
<1>8. DiskInv'
  BY <1>1, <1>4, <1>5, <1>6, <1>7 DEF Inv, SafeInv, DiskInv
<1>9. MemInv'
  BY <1>1, <1>4, <1>5, <1>6, <1>7 DEF Inv, SafeInv, MemInv
<1>10. KeptInv'
  BY <1>1, <1>4, <1>5, <1>7 DEF Inv, SafeInv, DiskInv, MemInv, KeptInv
<1>11. DiskMoves
  BY <1>1, <1>5, OffsetsTyped DEF DiskMoves, Inv, SafeInv
<1> QED BY <1>6, <1>8, <1>9, <1>10, <1>11 DEF Inv, SafeInv

\* The process is killed: the disk stays.
LEMMA CrashSafe ==
  ASSUME Inv, TypeInv', Crash
  PROVE  Inv' /\ DiskMoves
<1>1. UNCHANGED <<log, disk, accepted, abandoned>> /\ pc' = "down" /\ request' = NoRequest
  BY DEF Crash, netVars
<1>2. Disk' = Disk /\ Settled' = Settled /\ (ReportedOnce' <=> ReportedOnce)
  BY <1>1 DEF Disk, Settled, ReportedOnce
<1>3. DiskInv'
  BY <1>1, <1>2 DEF Inv, SafeInv, DiskInv
<1>4. MemInv'
  BY <1>1 DEF MemInv
<1>5. PostInv'
  BY <1>1, RequestTyped DEF PostInv, Posted
<1>6. KeptInv'
  BY <1>1, <1>2 DEF Inv, KeptInv
<1>7. DiskMoves
  BY <1>1, <1>2, OffsetsTyped DEF DiskMoves, Inv, SafeInv
<1> QED BY <1>3, <1>4, <1>5, <1>6, <1>7 DEF Inv, SafeInv

\* A cluster leaves the manager; its summary awaits enrichment, or is queued.
LEMMA FlushOneSafe ==
  ASSUME Inv, TypeInv', FlushOne
  PROVE  Inv' /\ DiskMoves
<1>1. PICK k \in DOMAIN active :
        LET item == SummaryId(k, active[k])
            flushed == [state EXCEPT !.awaiting = @ \cup {item}]
        IN  /\ active' = Without(active, k)
            /\ \/ /\ state' = flushed
                  /\ Abandon({})
               \/ /\ state' = EnqueueSummary(flushed, item)
                  /\ Abandon(Elements(Displaced(flushed, item, "intel")))
  BY DEF FlushOne, ExpiredKeys, OverflowKeys
<1> DEFINE item == SummaryId(k, active[k])
           aw == state.awaiting \cup {item}
           flushed == [state EXCEPT !.awaiting = aw]
           o == state.offset
           m == View(o, flushed, active')
<1>2. /\ pc = "flush" /\ pc # "down" /\ pc \notin Draining /\ pc' = "flush" /\ dirty' = TRUE
      /\ UNCHANGED <<log, disk, request, accepted>>
  BY DEF FlushOne, Draining
<1>3. /\ TypeInv /\ DiskInv /\ MemInv /\ state \in State /\ Within(state) /\ active \in Clusters
      /\ Sound(Mem, log) /\ o \in Nat /\ Viewed(Mem) /\ Mem.offset = o
  BY <1>2, OffsetsTyped DEF Inv, SafeInv, MemInv, TypeInv
<1>4. item \in Item /\ item.type = "summary" /\ item.lines = active[k].lines
  BY <1>3, SummaryIdTyped DEF SummaryId
<1>5. /\ active' \in Clusters /\ DOMAIN active' = DOMAIN active \ {k}
      /\ \A j \in DOMAIN active' : active'[j] = active[j]
  BY <1>1, <1>3, WithoutFacts
<1> HIDE DEF item
<1>6. aw \in SUBSET Item /\ item \in aw
  BY <1>3, <1>4, StateFields
<1> HIDE DEF aw
<1>7. /\ flushed \in State /\ flushed.offset = o /\ flushed.seen = state.seen
      /\ flushed.dead = state.dead /\ flushed.pending = state.pending /\ flushed.awaiting = aw
  BY <1>3, <1>6, StateWith, FieldsOf
<1> HIDE DEF flushed
<1>8. Within(flushed) /\ Known(flushed) = Known(state)
  BY <1>3, <1>7 DEF Within, Known
<1>9. /\ m.offset = o /\ m.known = Known(state) /\ m.awaiting = aw /\ m.pending = state.pending
      /\ DOMAIN m.lines = DOMAIN active' /\ \A j \in DOMAIN active' : m.lines[j] = active'[j].lines
      /\ Viewed(m)
  BY <1>3, <1>5, <1>7, <1>8, ViewFields
<1>10. /\ Mem.offset = o /\ Mem.known = Known(state) /\ Mem.awaiting = state.awaiting
       /\ Mem.pending = state.pending
       /\ DOMAIN Mem.lines = DOMAIN active /\ \A j \in DOMAIN active : Mem.lines[j] = active[j].lines
  BY <1>3, ViewFields DEF Mem
<1> HIDE DEF m, o
<1>11. Sound(m, log) /\ Evolves(Mem, m) /\ Loses(Mem, m, {})
  <2>1. /\ m.offset = Mem.offset /\ m.known = Mem.known /\ m.pending = Mem.pending
        /\ m.awaiting = Mem.awaiting \cup {item}
        /\ DOMAIN m.lines = DOMAIN Mem.lines \ {k}
        /\ \A j \in DOMAIN m.lines : m.lines[j] = Mem.lines[j]
        /\ k \in DOMAIN Mem.lines /\ item.lines = Mem.lines[k]
    BY <1>4, <1>5, <1>9, <1>10 DEF aw
  <2> QED BY <1>3, <1>4, <2>1, FlushSound
<1>12. \E gone : /\ abandoned' = abandoned \cup gone /\ Mem'.offset = o
                 /\ Sound(Mem', log) /\ Evolves(Mem, Mem') /\ Loses(Mem, Mem', gone)
  <2>1. CASE state' = flushed /\ Abandon({})
    <3>1. Mem' = m
      BY <1>7, <2>1 DEF Mem, m
    <3> QED BY <1>9, <1>11, <2>1, <3>1 DEF Abandon
  <2>2. CASE /\ state' = EnqueueSummary(flushed, item)
             /\ Abandon(Elements(Displaced(flushed, item, "intel")))
    <3> DEFINE gone == Elements(Displaced(flushed, item, "intel"))
    <3>1. state'.offset = o
      BY <1>4, <1>7, <1>8, <2>2, SummaryFacts, EnqueueSame DEF Channels
    <3>2. Mem' = View(o, EnqueueSummary(flushed, item), active')
      BY <2>2, <3>1 DEF Mem
    <3>3. Sound(Mem', log) /\ Evolves(m, Mem') /\ Loses(m, Mem', gone)
      BY <1>3, <1>5, <1>6, <1>7, <1>8, <1>11, <3>2, EnqueueSummarySound DEF m, o
    <3>4. Mem'.offset = o /\ Viewed(Mem)'
      <4>1. Mem'.offset = o /\ Mem'.pending = state'.pending
        BY <3>2, <2>2 DEF View
      <4> QED BY <1>3, <4>1, StateFields DEF Viewed, TypeInv
    <3>5. Evolves(Mem, Mem')
      BY <1>3, <1>9, <1>11, <3>3, <3>4, EvolvesTwice DEF Viewed
    <3>6. Loses(Mem, Mem', {} \cup gone)
      BY <1>11, <3>3, LosesTwice
    <3>7. abandoned' = abandoned \cup gone
      BY <2>2 DEF Abandon
    <3> HIDE DEF gone
    <3> QED BY <3>3, <3>4, <3>5, <3>6, <3>7
  <2> QED BY <1>1, <2>1, <2>2 DEF flushed, item, aw
<1>13. PICK gone : /\ abandoned' = abandoned \cup gone /\ Mem'.offset = o
                   /\ Sound(Mem', log) /\ Evolves(Mem, Mem') /\ Loses(Mem, Mem', gone)
  BY <1>12
<1>14. Carries(Mem, Mem', gone)
  BY <1>3, <1>13, CarriesLoss
<1>15. Settled \subseteq Settled' /\ Summarised(gone) \subseteq Settled'
  BY <1>2, <1>13, SettledGrows
<1>16. Novel' /\ PostInv'
  BY <1>2, <1>3, <1>13, NoPostOutside, NovelKept
<1> QED BY <1>2, <1>13, <1>14, <1>15, <1>16, RunningStep

\* n is the line after the last that was taken in, and its key is k.
Following(n, k) == n = state.offset + 1 /\ Keyed(n, k)

\* Where the lines are when queue_line has absorbed line n.
LEMMA AbsorbedLine ==
  ASSUME Inv, pc # "down", state.offset < Len(log), NEW n, NEW k \in Keys, Following(n, k),
         NEW mid \in State, Absorbed(state, mid, k, n, active)
  PROVE  LET after == Observe(active, k, n)
             m == View(n, mid, after)
         IN  /\ Sound(m, log) /\ Evolves(Mem, m) /\ Held(n, m)
             /\ Loses(Mem, m, {})
             /\ ~Queued(n, "legacy", m)
<1> DEFINE after == Observe(active, k, n)
           m == View(n, mid, after)
           old == IF Continues(active, k) THEN active[k].lines ELSE {}
           id == LineId(n)
<1>1. /\ Viewed(Mem) /\ Sound(Mem, log) /\ state \in State /\ active \in Clusters
      /\ log \in Seq(Line) /\ state.offset \in Nat /\ n \in Nat
  BY OffsetsTyped DEF Following, Inv, SafeInv, MemInv, TypeInv
<1>2. /\ Mem.offset = state.offset /\ Mem.known = Known(state) /\ Mem.awaiting = state.awaiting
      /\ Mem.pending = state.pending /\ DOMAIN Mem.lines = DOMAIN active
      /\ \A j \in DOMAIN active : Mem.lines[j] = active[j].lines
  BY <1>1, ViewFields DEF Mem
<1>3. /\ after \in Clusters /\ DOMAIN after = DOMAIN active \cup {k}
      /\ \A j \in DOMAIN active \ {k} : after[j] = active[j]
      /\ after[k].lines = IF Continues(active, k) THEN active[k].lines \cup {n} ELSE {n}
  <2>1. active \in Clusters /\ k \in Keys /\ n \in Nat
    BY <1>1
  <2> HIDE DEF m, old, id
  <2>2. after \in Clusters /\ DOMAIN after = DOMAIN active \cup {k}
    BY <2>1, ObserveFacts
  <2>3. \A j \in DOMAIN active \ {k} : after[j] = active[j]
    BY <2>1, ObserveFacts
  <2>4. after[k].lines = IF Continues(active, k) THEN active[k].lines \cup {n} ELSE {n}
    BY <2>1, ObserveFacts
  <2> QED BY <2>2, <2>3, <2>4
<1> HIDE DEF after
<1>4. /\ m.offset = n /\ m.known = Known(mid) /\ m.awaiting = mid.awaiting
      /\ m.pending = mid.pending /\ DOMAIN m.lines = DOMAIN after
      /\ \A j \in DOMAIN after : m.lines[j] = after[j].lines
  BY <1>1, <1>3, ViewFields
<1> HIDE DEF m
<1>5. id.type = "line" /\ id.lines = {n}
  BY DEF LineId
<1> HIDE DEF id
<1>6. /\ m.offset = Mem.offset + 1 /\ m.pending = Mem.pending /\ m.awaiting = Mem.awaiting
      /\ m.known \subseteq Mem.known \cup {id}
  BY <1>2, <1>4 DEF Absorbed, Following, id
<1>7. k \in DOMAIN after
  BY <1>3
<1>8. /\ DOMAIN m.lines = DOMAIN Mem.lines \cup {k}
      /\ \A j \in DOMAIN Mem.lines \ {k} : m.lines[j] = Mem.lines[j]
  BY <1>2, <1>3, <1>4
<1>9. m.lines[k] = old \cup {n}
  BY <1>3, <1>4, <1>7
<1>10. old = {} \/ (k \in DOMAIN Mem.lines /\ old = Mem.lines[k])
  BY <1>2 DEF Continues
<1>11. k \in Sessions /\ k \in DOMAIN Mem.lines => old = Mem.lines[k]
  BY <1>2 DEF Continues
<1>12. Keyed(m.offset, k)
  BY <1>4 DEF Following
<1> HIDE DEF old
<1>13. Sound(m, log) /\ Evolves(Mem, m) /\ Loses(Mem, m, {})
  <2>1. /\ Mem.offset < Len(log) /\ id.type = "line" /\ id.lines = {m.offset}
        /\ m.lines[k] = old \cup {m.offset}
    BY <1>2, <1>4, <1>5, <1>9
  <2> HIDE DEF id
  <2>2. Viewed(Mem) /\ Sound(Mem, log) /\ log \in Seq(Line)
    BY <1>1
  <2>3. m.offset = Mem.offset + 1 /\ m.pending = Mem.pending /\ m.awaiting = Mem.awaiting
    BY <1>6
  <2>4. m.known \subseteq Mem.known \cup {id}
    BY <1>6
  <2> HIDE DEF Mem
  <2> QED BY <1>8, <1>10, <1>11, <1>12, <2>1, <2>2, <2>3, <2>4, AbsorbSound
<1>14. Held(n, m)
  BY <1>3, <1>4, <1>9 DEF Held, Waits
<1>15. ~Queued(n, "legacy", m)
  <2>1. ~Queued(n, "legacy", Mem)
    BY <1>1, <1>2 DEF Sound, Behind, Following
  <2> QED BY <1>6, <2>1 DEF Queued
<1> QED BY <1>13, <1>14, <1>15 DEF m, after

\* queue_line: what the clusters or a queue come to hold is line n, and only what
\* its alert displaces is lost.  The state keeps the clusters of the manager.
LEMMA LineTaken ==
  ASSUME Inv, pc # "down", Copied, state.offset < Len(log), NEW n, n = state.offset + 1
  PROVE  LET q == QueueLine(n)
             w == View(n, q.state, q.active)
         IN  /\ q.state \in State
             /\ Sound(w, log) /\ Evolves(Mem, w)
             /\ Carries(Mem, w, q.displaced)
             /\ View(n, q.state, q.state.clusters) = w
<1> DEFINE q == QueueLine(n)
           k == log[n].key
           w == View(n, q.state, q.active)
<1>1. /\ Viewed(Mem) /\ Sound(Mem, log) /\ state \in State /\ active \in Clusters /\ Within(state)
      /\ log \in Seq(Line) /\ state.offset \in Nat /\ n \in Nat
  BY OffsetsTyped DEF Inv, SafeInv, MemInv, TypeInv
<1>2. /\ Mem.offset = state.offset /\ Mem.known = Known(state) /\ Mem.awaiting = state.awaiting
      /\ Mem.pending = state.pending
  BY <1>1, ViewFields DEF Mem
<1>3. n \in 1..Len(log) /\ New(Mem, w) = {n}
  <2>1. n \in 1..Len(log)
    BY <1>1
  <2>2. w.offset = n
    BY DEF View
  <2> HIDE DEF w
  <2> QED BY <1>1, <1>2, <2>1, <2>2 DEF New
<1>4. CASE LineId(n) \in Elements(state.seen)
  <2>1. LineId(n) \in Mem.known /\ n \in LineId(n).lines
    BY <1>2, <1>4 DEF Known, LineId
  <2>2. n \in 0..state.offset
    BY <1>1, <1>2, <2>1 DEF Sound, Behind
  <2> QED BY <1>1, <2>2
<1>5. CASE /\ k = Garbage /\ q.active = active /\ q.displaced = {}
           /\ q.state \in State /\ Within(q.state)
           /\ q.state.offset = state.offset /\ q.state.awaiting = state.awaiting
           /\ q.state.pending = state.pending /\ q.state.clusters = state.clusters
           /\ Known(q.state) \subseteq Known(state) \cup {LineId(n)}
  <2>1. /\ w.offset = n /\ w.known = Known(q.state) /\ w.awaiting = state.awaiting
        /\ w.pending = state.pending /\ w.lines = Mem.lines
    BY <1>5 DEF View, Mem
  <2>2. LineId(n).type = "line" /\ LineId(n).lines = {n}
    BY DEF LineId
  <2>3. View(n, q.state, q.state.clusters) = w
    <3>1. [j \in DOMAIN state.clusters |-> state.clusters[j].lines]
            = [j \in DOMAIN active |-> active[j].lines]
      BY ViewSame DEF Copied, Mem
    <3> HIDE DEF q
    <3> QED BY <1>5, <3>1, ViewSame
  <2> HIDE DEF w
  <2>4. Sound(w, log) /\ Evolves(Mem, w) /\ Loses(Mem, w, {})
    BY <1>1, <1>2, <1>5, <2>1, <2>2, SkipSound
  <2>5. ~OfSession(n)
    BY <1>5, MonitorAssumption DEF OfSession, Keys
  <2>6. Carries(Mem, w, {})
    BY <1>3, <2>4, <2>5 DEF Carries
  <2> QED BY <1>5, <2>3, <2>4, <2>6 DEF w
<1>6. ASSUME k \in Keys, NEW mid \in State, Absorbed(state, mid, k, n, active),
             \/ /\ q.state = mid /\ q.active = Observe(active, k, n)
                /\ q.displaced = {}
             \/ /\ q.state = EnqueuePending(mid, AlertId(n), "legacy")
                /\ q.active = MarkAlerted(Observe(active, k, n), k)
                /\ q.displaced = Elements(Displaced(mid, AlertId(n), "legacy"))
      PROVE  /\ q.state \in State
             /\ Sound(w, log) /\ Evolves(Mem, w)
             /\ Carries(Mem, w, q.displaced)
             /\ View(n, q.state, q.state.clusters) = w
  <2> DEFINE after == Observe(active, k, n)
             m == View(n, mid, after)
  <2>1. /\ Sound(m, log) /\ Evolves(Mem, m) /\ Held(n, m)
        /\ Loses(Mem, m, {})
        /\ ~Queued(n, "legacy", m)
    BY <1>6, AbsorbedLine DEF Following, Keyed
  <2>2. after \in Clusters /\ k \in DOMAIN after
    <3> HIDE DEF k, after
    <3>1. Observe(active, k, n) \in Clusters /\ DOMAIN Observe(active, k, n) = DOMAIN active \cup {k}
      BY <1>1, <1>6, ObserveFacts, Zenon
    <3> QED BY <3>1 DEF after
  <2>3. mid.clusters = after /\ Within(mid)
    BY <1>6 DEF Absorbed
  <2> HIDE DEF after, k, q
  <2>4. CASE q.state = mid /\ q.active = after /\ q.displaced = {}
    <3>1. w = m
      BY <2>4
    <3>2. Carries(Mem, w, {})
      BY <1>3, <2>1, <3>1 DEF Carries
    <3> HIDE DEF w, m
    <3> QED BY <1>6, <2>1, <2>3, <2>4, <3>1, <3>2 DEF w
  <2>5. CASE /\ q.state = EnqueuePending(mid, AlertId(n), "legacy")
             /\ q.active = MarkAlerted(after, k)
             /\ q.displaced = Elements(Displaced(mid, AlertId(n), "legacy"))
    <3> DEFINE item == AlertId(n)
               e == EnqueuePending(mid, item, "legacy")
               v2 == View(n, e, after)
    <3>1. item \in Item /\ item.type = "alert" /\ item.lines = {n} /\ "legacy" \in Channels
      BY <1>1, <1>3, IdsTyped DEF AlertId, Channels
    <3> HIDE DEF item
    <3>2. e \in State /\ e.clusters = after
      BY <2>3, <3>1, EnqueueFacts, EnqueueSame
    <3>3. q.active \in Clusters /\ SameLines(q.active, after)
      BY <2>2, <2>5, MarkFacts
    <3>4. w = v2
      BY <2>2, <2>5, <3>3, SameLinesSameView DEF item
    <3>5. Sound(v2, log) /\ Evolves(Mem, v2) /\ Loses(m, v2, q.displaced)
      BY <1>1, <1>2, <2>1, <2>2, <2>3, <2>5, <3>1, EnqueueAlertSound DEF item
    <3>6. Carries(Mem, v2, q.displaced)
      <4> HIDE DEF v2, m, w
      <4>1. Loses(Mem, v2, {} \cup q.displaced)
        BY <2>1, <3>5, LosesTwice
      <4>2. {} \cup q.displaced = q.displaced
        OBVIOUS
      <4>3. OfSession(n) => Held(n, v2) \/ n \in Summarised(q.displaced)
        BY <2>1, <3>5 DEF Loses
      <4> QED BY <1>3, <3>4, <4>1, <4>2, <4>3 DEF Carries
    <3>7. View(n, q.state, q.state.clusters) = v2
      BY <2>5, <3>2 DEF item
    <3> QED BY <2>5, <3>2, <3>4, <3>5, <3>6, <3>7 DEF item
  <2> QED BY <1>6, <2>4, <2>5 DEF after
<1> HIDE DEF w, k, q
<1> QED BY <1>1, <1>3, <1>4, <1>5, <1>6, QueueLineFacts DEF w, k, q

\* A line is consumed, and the state with the new offset is saved or not.
LEMMA ConsumeLineSafe ==
  ASSUME Inv, TypeInv', ConsumeLine
  PROVE  Inv' /\ DiskMoves
<1> DEFINE n == state.offset + 1
           q == QueueLine(n)
           w == View(n, q.state, q.active)
<1>1. /\ pc = "consume" /\ pc # "down" /\ pc \notin Draining /\ Copied
      /\ state.offset < Len(log) /\ state \in State /\ TypeInv /\ DiskInv /\ MemInv
  BY DEF ConsumeLine, Draining, Inv, SafeInv, MemInv, TypeInv
<1>2. n \in Nat
  BY <1>1, StateFields
<1>3. /\ q.state \in State
      /\ Sound(w, log) /\ Evolves(Mem, w)
      /\ Carries(Mem, w, q.displaced)
      /\ View(n, q.state, q.state.clusters) = w
  BY <1>1, LineTaken
<1>4. /\ state' = [q.state EXCEPT !.offset = q.state.offset + 1] /\ active' = q.active
      /\ abandoned' = abandoned \cup q.displaced
      /\ UNCHANGED <<log, dirty, request, accepted>>
  BY DEF ConsumeLine, Abandon
<1>5. q.state.offset = state.offset
  <2>1. state' \in State
    BY DEF TypeInv
  <2> HIDE DEF q
  <2>2. n \in 1..Len(log) /\ log \in Seq(Line) /\ Within(state) /\ active \in Clusters
    <3>1. log \in Seq(Line) /\ Within(state) /\ active \in Clusters /\ state.offset \in Nat
      BY <1>1, OffsetsTyped DEF TypeInv
    <3> QED BY <1>1, <3>1
  <2>3. AlertId(n) \in Item /\ "legacy" \in Channels
    BY <2>2, IdsTyped DEF Channels
  <2>4. \A mid \in State : Within(mid) =>
          EnqueuePending(mid, AlertId(n), "legacy").offset = mid.offset
    BY <2>3, EnqueueSame
  <2> HIDE DEF n
  <2> QED BY <1>1, <2>2, <2>4, QueueLineFacts DEF q, Absorbed
<1> HIDE DEF q
<1>6. state' = [q.state EXCEPT !.offset = n]
  BY <1>4, <1>5
<1> HIDE DEF n
<1>7. /\ state'.offset = n /\ state'.seen = q.state.seen /\ state'.clusters = q.state.clusters
      /\ state'.awaiting = q.state.awaiting /\ state'.pending = q.state.pending
      /\ state'.dead = q.state.dead
  BY <1>3, <1>6, FieldsOf
<1>8. \A cl : View(n, state', cl) = View(n, q.state, cl)
  BY <1>7 DEF View, Known
<1>9. Mem' = w
  BY <1>4, <1>7, <1>8 DEF Mem
<1>10. Copied'
  <2>1. View(state.offset, state, state.clusters)' = w
    BY <1>3, <1>7, <1>8
  <2> QED BY <1>9, <2>1 DEF Copied
<1> HIDE DEF w
<1>11. disk' \in {disk, state'}
  BY DEF ConsumeLine, SaveState, Raises
<1>12. request = NoRequest
  BY <1>1, NoPostOutside
<1>13. Novel' /\ PostInv'
  BY <1>1, <1>3, <1>4, <1>9, <1>12, NovelKept
<1>14. Settled \subseteq Settled' /\ Summarised(q.displaced) \subseteq Settled'
  BY <1>4, SettledGrows
<1> QED BY <1>1, <1>3, <1>4, <1>9, <1>10, <1>11, <1>13, <1>14, RunningStep

-----------------------------------------------------------------------------
(* The invariant and what follows from it.                                 *)

LEMMA InitSafe == Init => Inv
<1> SUFFICES ASSUME Init PROVE Inv
  OBVIOUS
<1> DEFINE st == DefaultState
           c0 == [k \in {} |-> NewCluster]
<1>1. TypeInv
  BY InitTyped
<1>2. /\ disk = st /\ pc = "down" /\ accepted = <<>> /\ log = <<>> /\ request = NoRequest
  BY DEF Init
<1>3. /\ st.offset = 0 /\ st.awaiting = {} /\ st.pending = [c \in Channels |-> <<>>]
      /\ st.seen = <<>> /\ st.dead = <<>> /\ st.clusters = c0
  BY DEF DefaultState
<1> HIDE DEF st
<1>4. Known(st) = {}
  BY <1>3 DEF Known, Elements
<1>5. /\ Disk.offset = 0 /\ Disk.awaiting = {} /\ Disk.known = {}
      /\ DOMAIN Disk.lines = {} /\ \A c \in Channels : Disk.pending[c] = <<>>
  BY <1>2, <1>3, <1>4 DEF Disk, View
<1>6. \A n : ~Waits(n, Disk) /\ \A c \in Channels : ~Queued(n, c, Disk)
  BY <1>5 DEF Waits, Queued
<1>7. \A n : ~Held(n, Disk)
  BY <1>6 DEF Held, Channels
<1>8. Kinds(Disk) /\ Single(Disk) /\ Unsettled(Disk)
  BY <1>5, <1>6 DEF Kinds, Single, Unsettled
<1>9. Behind(Disk)
  BY <1>5, <1>6, <1>7 DEF Behind, Channels
<1>10. Genuine(Disk, log)
  BY <1>2, <1>5, <1>7 DEF Genuine
<1>11. DiskInv
  BY <1>2, <1>6, <1>8, <1>9, <1>10 DEF DiskInv, Sound, Unposted, ReportedOnce
<1>12. MemInv
  BY <1>2 DEF MemInv
<1>13. PostInv
  BY <1>2, RequestTyped DEF PostInv, Posted
<1>14. KeptInv
  BY <1>2, <1>5 DEF KeptInv, Kept
<1> QED BY <1>1, <1>11, <1>12, <1>13, <1>14 DEF Inv, SafeInv

LEMMA NextSafe ==
  ASSUME Inv, [Next]_vars
  PROVE  Inv' /\ DiskMoves
<1>1. TypeInv /\ TypeInv'
  BY NextTyped DEF Inv, SafeInv
<1>2. CASE Start
  BY <1>1, <1>2, StartSafe
<1>3. CASE RecoverOne \/ RecoverDone
  BY <1>1, <1>3, RecoverOneSafe, RecoverDoneSafe
<1>4. CASE BeginPoll \/ ConsumeLine \/ ConsumeDone
  BY <1>1, <1>4, BeginPollSafe, ConsumeLineSafe, ConsumeDoneSafe
<1>5. CASE FlushOne \/ FlushDone
  BY <1>1, <1>5, FlushOneSafe, FlushDoneSafe
<1>6. CASE CompleteOne \/ CompleteDone
  BY <1>1, <1>6, CompleteOneSafe, CompleteDoneSafe
<1>7. CASE DrainReturns \/ DrainWithoutCredential \/ CredentialTimesOut
  BY <1>1, <1>7, DrainReturnsSafe, DrainWithoutCredentialSafe, CredentialTimesOutSafe
<1>8. CASE SendHead \/ SendSucceeded \/ SendRateLimited \/ SendAbandoned
  BY <1>1, <1>8, SendHeadSafe, SendSucceededSafe, SendRateLimitedSafe, SendAbandonedSafe
<1>9. CASE WorkerFinishes
  BY <1>1, <1>9, QuietSafe DEF WorkerFinishes, netVars
<1>10. CASE Tick \/ LogLine \/ Crash
  BY <1>1, <1>10, TickSafe, LogLineSafe, CrashSafe
<1>11. CASE UNCHANGED vars
  BY <1>1, <1>11, QuietSafe DEF vars, memVars, netVars
<1> QED BY <1>2, <1>3, <1>4, <1>5, <1>6, <1>7, <1>8, <1>9, <1>10, <1>11 DEF Next, Monitor

\* The inductive invariant: where the lines are in what STATE_PATH holds and in
\* memory, which of them Discord has, and that no line of a session is nowhere.
THEOREM Invariance == Spec => []Inv
<1>1. Inv /\ [Next]_vars => Inv'
  BY NextSafe
<1> QED BY <1>1, InitSafe, PTL DEF Spec

\* HeldOnDisk, in terms of the view of the disk.
LEMMA HeldIsHeldOnDisk ==
  ASSUME Inv
  PROVE  \A n : n \in HeldOnDisk <=> Held(n, Disk)
<1>1. Kinds(Disk) /\ disk \in State /\ disk.clusters \in Clusters /\ disk.offset \in Nat
  BY StateFields DEF Inv, SafeInv, DiskInv, Sound, TypeInv
<1>2. /\ Disk.awaiting = disk.awaiting /\ Disk.pending = disk.pending
      /\ DOMAIN Disk.lines = DOMAIN disk.clusters
      /\ \A k \in DOMAIN disk.clusters : Disk.lines[k] = disk.clusters[k].lines
  BY <1>1, ViewFields DEF Disk
<1>3. "intel" \in Channels /\ Kind("intel") = "summary"
  BY DEF Channels, Kind
<1> SUFFICES ASSUME NEW n PROVE n \in HeldOnDisk <=> Held(n, Disk)
  OBVIOUS
<1>4. n \in LinesOf(disk.clusters) <=> \E k \in DOMAIN Disk.lines : n \in Disk.lines[k]
  BY <1>2 DEF LinesOf
<1>5. n \in Summarised(disk.awaiting) <=> \E i \in Disk.awaiting : n \in i.lines
  BY <1>1, <1>2, SummarisedBy DEF Kinds
<1>6. n \in Summarised(Elements(disk.pending["intel"])) <=> Queued(n, "intel", Disk)
  <2>1. \A a \in DOMAIN disk.pending["intel"] : disk.pending["intel"][a].type = "summary"
    BY <1>1, <1>2, <1>3 DEF Kinds
  <2> QED BY <1>2, <2>1, SummarisedBy DEF Queued, Elements
<1> QED BY <1>4, <1>5, <1>6 DEF HeldOnDisk, Held, Waits

\* A line is reported at most once in a summary and once in an alert: whatever is
\* lost, refused, retried, recovered after a kill or replayed, mark_seen and the
\* dead letters keep an item that Discord may have from being queued again, and a
\* cluster on disk never has a line of a summary that was posted.
THEOREM NoLineReportedTwice == Spec => []ReportedOnce
<1>1. Inv => ReportedOnce
  BY DEF Inv, SafeInv, DiskInv
<1> QED BY <1>1, Invariance, PTL

\* What was delivered, or dead-lettered, is in no cluster on disk and awaits no
\* enrichment there: load_state and _recover_flushed_awaiting_enrichment do not
\* bring it back.
THEOREM NothingSettledRevived == Spec => []SettledNotRevived
<1>1. Inv => SettledNotRevived
  <2> SUFFICES ASSUME Inv PROVE SettledNotRevived
    OBVIOUS
  <2> DEFINE gaveUp == {d.id : d \in Elements(disk.dead)}
  <2>1. /\ Unsettled(Disk) /\ Unposted(Disk, accepted) /\ Kinds(Disk)
        /\ disk \in State /\ disk.clusters \in Clusters /\ disk.offset \in Nat
    BY StateFields DEF Inv, SafeInv, DiskInv, Sound, TypeInv
  <2>2. /\ Disk.awaiting = disk.awaiting /\ Disk.known = Known(disk)
        /\ DOMAIN Disk.lines = DOMAIN disk.clusters
        /\ \A k \in DOMAIN disk.clusters : Disk.lines[k] = disk.clusters[k].lines
    BY <2>1, ViewFields DEF Disk
  <2>3. gaveUp \subseteq Disk.known
    BY <2>2 DEF Known
  <2> HIDE DEF gaveUp
  <2>4. ASSUME NEW n \in LinesOf(disk.clusters) \cup Summarised(disk.awaiting),
               n \in Summarised(Elements(accepted) \cup gaveUp)
        PROVE  FALSE
    <3>1. Waits(n, Disk)
      BY <2>2, SummarisedBy DEF Waits, LinesOf
    <3>2. PICK i \in Elements(accepted) \cup gaveUp : i.type = "summary" /\ n \in i.lines
      BY <2>4, SummarisedBy
    <3>3. i \notin Elements(accepted)
      BY <2>1, <3>1, <3>2 DEF Unposted, Delivered, Elements
    <3>4. i \notin gaveUp
      BY <2>1, <2>3, <3>1, <3>2 DEF Unsettled
    <3> QED BY <3>3, <3>4
  <2> QED BY <2>4 DEF SettledNotRevived, gaveUp
<1> QED BY <1>1, Invariance, PTL

\* No line of a session is lost: one below the saved offset is in a saved cluster,
\* awaits enrichment, is queued, or was delivered or dead-lettered.  It is not so of
\* a line keyed by its address, as observe can replace a cluster that was not
\* flushed; the run of DiscordMonitorIp shows it.
THEOREM NoSessionLost == Spec => []SessionNeverLost
<1>1. Inv => SessionNeverLost
  <2> SUFFICES ASSUME Inv, NEW n \in SessionLines, n <= disk.offset
               PROVE  n \in HeldOnDisk \cup Settled
    BY DEF SessionNeverLost
  <2>1. /\ Kept(Disk, log, Settled) /\ Disk.offset = disk.offset
        /\ log \in Seq(Line) /\ disk.offset \in Nat
    BY OffsetsTyped DEF Inv, SafeInv, KeptInv, TypeInv
  <2>2. n \in 1..disk.offset /\ log[n].key \in Sessions
    BY <2>1 DEF SessionLines
  <2> QED BY <2>1, <2>2, HeldIsHeldOnDisk DEF Kept
<1> QED BY <1>1, Invariance, PTL

-----------------------------------------------------------------------------
(* The refinement.                                                         *)

\* What is open in the ledger, and its reports.
Open    == HeldOnDisk \cap SessionLines
Reports == [r \in {a \in DOMAIN accepted : accepted[a].type = "summary"} |->
              accepted[r].lines \cap SessionLines]

LEMMA InitLedger == Init => Ledger!Init
<1> SUFFICES ASSUME Init PROVE Ledger!Init
  OBVIOUS
<1>1. SessionLines = {} /\ Reports = [r \in {} |-> {}]
  BY DEF Init, SessionLines, Reports
<1>2. disk.offset = 0
  BY DEF Init, DefaultState
<1>3. HeldOnDisk = {}
  BY DEF Init, DefaultState, HeldOnDisk, LinesOf, Summarised, Elements, Channels
<1>4. Summarised(abandoned) = {}
  BY DEF Init, Summarised
<1> QED BY <1>1, <1>2, <1>3, <1>4 DEF Ledger!Init, Reports

LEMMA AbandonedGrows ==
  ASSUME [Next]_vars
  PROVE  abandoned \subseteq abandoned'
<1>1. CASE Start \/ RecoverOne \/ ConsumeLine \/ FlushOne \/ CompleteOne
           \/ DrainWithoutCredential \/ SendAbandoned
  BY <1>1 DEF Start, RecoverOne, ConsumeLine, FlushOne, CompleteOne,
              DrainWithoutCredential, SendAbandoned, Abandon
<1>2. CASE RecoverDone \/ BeginPoll \/ ConsumeDone \/ FlushDone \/ CompleteDone
           \/ DrainReturns \/ CredentialTimesOut
  BY <1>2 DEF RecoverDone, BeginPoll, ConsumeDone, FlushDone, CompleteDone,
              DrainReturns, CredentialTimesOut, netVars
<1>3. CASE SendHead \/ SendSucceeded \/ SendRateLimited
  BY <1>3 DEF SendHead, SendSucceeded, SendRateLimited, netVars
<1>4. CASE WorkerFinishes \/ Tick \/ LogLine \/ Crash \/ UNCHANGED vars
  BY <1>4 DEF WorkerFinishes, Tick, LogLine, Crash, vars, netVars
<1> QED BY <1>1, <1>2, <1>3, <1>4 DEF Next, Monitor

\* Only Cowrie extends the log.
LEMMA LogKept ==
  ASSUME [Next]_vars
  PROVE  LogLine \/ log' = log
<1>1. CASE Start \/ RecoverOne \/ ConsumeLine \/ FlushOne \/ CompleteOne
           \/ DrainWithoutCredential \/ SendAbandoned
  BY <1>1 DEF Start, RecoverOne, ConsumeLine, FlushOne, CompleteOne,
              DrainWithoutCredential, SendAbandoned
<1>2. CASE RecoverDone \/ BeginPoll \/ ConsumeDone \/ FlushDone \/ CompleteDone
           \/ DrainReturns \/ CredentialTimesOut
  BY <1>2 DEF RecoverDone, BeginPoll, ConsumeDone, FlushDone, CompleteDone,
              DrainReturns, CredentialTimesOut
<1>3. CASE SendHead \/ SendSucceeded \/ SendRateLimited
  BY <1>3 DEF SendHead, SendSucceeded, SendRateLimited
<1>4. CASE WorkerFinishes \/ Tick \/ LogLine \/ Crash \/ UNCHANGED vars
  BY <1>4 DEF WorkerFinishes, Tick, Crash, vars
<1> QED BY <1>1, <1>2, <1>3, <1>4 DEF Next, Monitor

\* Only SendHead posts.
LEMMA AcceptedKept ==
  ASSUME [Next]_vars
  PROVE  SendHead \/ accepted' = accepted
<1>1. CASE Start \/ RecoverOne \/ ConsumeLine \/ FlushOne \/ CompleteOne
           \/ DrainWithoutCredential \/ SendAbandoned
  BY <1>1 DEF Start, RecoverOne, ConsumeLine, FlushOne, CompleteOne,
              DrainWithoutCredential, SendAbandoned
<1>2. CASE RecoverDone \/ BeginPoll \/ ConsumeDone \/ FlushDone \/ CompleteDone
           \/ DrainReturns \/ CredentialTimesOut
  BY <1>2 DEF RecoverDone, BeginPoll, ConsumeDone, FlushDone, CompleteDone,
              DrainReturns, CredentialTimesOut, netVars
<1>3. CASE SendHead \/ SendSucceeded \/ SendRateLimited
  BY <1>3 DEF SendSucceeded, SendRateLimited, netVars
<1>4. CASE WorkerFinishes \/ Tick \/ LogLine \/ Crash \/ UNCHANGED vars
  BY <1>4 DEF WorkerFinishes, Tick, LogLine, Crash, vars, netVars
<1> QED BY <1>1, <1>2, <1>3, <1>4 DEF Next, Monitor

\* A summary that is posted is on disk, and none of its lines was posted before.
LEMMA HeadPosted ==
  ASSUME Inv, SendHead
  PROVE  \/ accepted' = accepted
         \/ \E item \in Item :
              /\ accepted' = Append(accepted, item)
              /\ item.type = "summary" =>
                   \A n \in item.lines : Held(n, Disk') /\ ~Delivered(n, "summary", accepted)
<1> DEFINE item == Head(state.pending[Channel])
<1>1. /\ pc \in Draining /\ request = NoRequest /\ state.pending[Channel] # <<>>
      /\ UNCHANGED <<state, active>>
  BY DEF SendHead
<1>2. /\ item \in Item /\ item.type = Kind(Channel)
      /\ \A n \in item.lines : Queued(n, Channel, Mem) /\ ~Delivered(n, item.type, accepted)
  BY <1>1, HeadFacts
<1>3. \/ accepted' = accepted
      \/ disk' = state /\ accepted' = Append(accepted, item)
  BY DEF SendHead
<1>4. disk' = state => Disk' = Mem
  BY <1>1, DrainingFacts DEF Disk, Copied
<1> HIDE DEF item
<1>5. item.type = "summary" => Channel = "intel"
  BY <1>2 DEF Kind
<1>6. item.type = "summary" =>
        \A n \in item.lines : Held(n, Mem) /\ ~Delivered(n, "summary", accepted)
  BY <1>2, <1>5 DEF Held
<1> QED BY <1>2, <1>3, <1>4, <1>6

\* Line n was reported: the ledger's Reported.
LEMMA ReportedLines ==
  \A n : n \in UNION {Reports[r] : r \in DOMAIN Reports}
           <=> n \in SessionLines /\ Delivered(n, "summary", accepted)
<1> DEFINE D == {a \in DOMAIN accepted : accepted[a].type = "summary"}
<1>1. DOMAIN Reports = D /\ \A r \in D : Reports[r] = accepted[r].lines \cap SessionLines
  BY DEF Reports
<1> QED BY <1>1 DEF Delivered

\* The ledger sees a post of a summary as a report, and no other step as one.
LEMMA LedgerReports ==
  ASSUME Inv, Inv', [Next]_vars, log' = log
  PROVE  Ledger!Report \/ Reports' = Reports
<1>1. SessionLines' = SessionLines
  BY DEF SessionLines
<1>2. CASE accepted' = accepted
  BY <1>1, <1>2 DEF Reports
<1>3. ASSUME NEW item \in Item, accepted' = Append(accepted, item),
             item.type = "summary" =>
               \A n \in item.lines : Held(n, Disk') /\ ~Delivered(n, "summary", accepted)
      PROVE  Ledger!Report \/ Reports' = Reports
  <2> DEFINE r == Len(accepted) + 1
  <2>1. accepted \in Seq(Item)
    BY DEF Inv, SafeInv, TypeInv
  <2>2. /\ DOMAIN accepted' = 1..(Len(accepted) + 1) /\ DOMAIN accepted = 1..Len(accepted)
        /\ \A b \in 1..Len(accepted) : accepted'[b] = accepted[b]
        /\ accepted'[Len(accepted) + 1] = item
        /\ Len(accepted) \in Nat
    BY <1>3, <2>1, AppendProperties
  <2>3. DOMAIN accepted' = DOMAIN accepted \cup {r} /\ \A b \in DOMAIN accepted : b < r
        /\ r \notin DOMAIN accepted
    BY <2>2
  <2> HIDE DEF r
  <2>4. accepted'[r] = item /\ \A b \in DOMAIN accepted : accepted'[b] = accepted[b]
    BY <2>2 DEF r
  <2>5. CASE item.type = "summary"
    <3>1. DOMAIN Reports' = DOMAIN Reports \cup {r} /\ r \in DOMAIN Reports'
      BY <2>3, <2>4, <2>5 DEF Reports
    <3>2. \A s \in DOMAIN Reports : s < r /\ Reports'[s] = Reports[s]
      BY <1>1, <2>3, <2>4 DEF Reports
    <3>3. Reports'[r] = item.lines \cap SessionLines
      BY <1>1, <2>3, <2>4, <2>5 DEF Reports
    <3>4. \A n \in item.lines : n \in HeldOnDisk'
      <4>1. (\A n : n \in HeldOnDisk <=> Held(n, Disk))'
        BY HeldIsHeldOnDisk, PTL
      <4> QED BY <1>3, <2>5, <4>1
    <3>5. Reports'[r] \subseteq Open'
      BY <1>1, <3>3, <3>4 DEF Open
    <3>6. Reports'[r] \cap UNION {Reports[s] : s \in DOMAIN Reports} = {}
      BY <1>3, <2>5, <3>3, ReportedLines
    <3> QED BY <3>1, <3>2, <3>5, <3>6 DEF Ledger!Report, Ledger!Reported, Reports, Open
  <2>6. CASE item.type # "summary"
    BY <1>1, <2>3, <2>4, <2>6 DEF Reports
  <2> QED BY <2>5, <2>6
<1> QED BY <1>2, <1>3, AcceptedKept, HeadPosted

\* What STATE_PATH leads to changes as the ledger says.
LEMMA LedgerRecords ==
  ASSUME Inv, Inv', DiskMoves, [Next]_vars, log' = log
  PROVE  Ledger!Record
<1>1. /\ Sound(Disk, log) /\ Kept(Disk', log, Settled')
      /\ Disk.offset = disk.offset /\ Disk'.offset = disk'.offset
      /\ disk.offset \in Nat /\ disk'.offset \in Nat
      /\ log \in Seq(Line)
  <2>1. Kept(Disk', log, Settled')
    BY DEF Inv, KeptInv
  <2>2. disk' \in State /\ Disk'.offset = disk'.offset
    BY DEF Inv, SafeInv, TypeInv, Disk, View
  <2>3. disk'.offset \in Nat
    BY <2>2, StateFields
  <2> QED BY <2>1, <2>2, <2>3, OffsetsTyped DEF Inv, SafeInv, DiskInv, TypeInv
<1>2. /\ \A n : n \in HeldOnDisk <=> Held(n, Disk)
      /\ \A n : n \in HeldOnDisk' <=> Held(n, Disk')
  <2>1. (\A n : n \in HeldOnDisk <=> Held(n, Disk))'
    BY HeldIsHeldOnDisk, PTL
  <2> QED BY <2>1, HeldIsHeldOnDisk
<1>3. disk'.offset >= disk.offset
  BY <1>1 DEF DiskMoves
<1>4. Summarised(abandoned) \subseteq Summarised(abandoned)'
  BY AbandonedGrows DEF Summarised
<1> DEFINE new == {n \in SessionLines : disk.offset < n /\ n <= disk'.offset}
<1>5. DOMAIN log = 1..Len(log) /\ Len(log) \in Nat /\ SessionLines' = SessionLines
  BY <1>1 DEF SessionLines
<1>6. ASSUME NEW n \in Open'
      PROVE  n \in Open \cup new
  <2>1. Held(n, Disk') /\ n \in SessionLines
    BY <1>2, <1>5 DEF Open
  <2>2. Held(n, Disk) \/ n \in New(Disk, Disk')
    BY <2>1 DEF DiskMoves
  <2> QED BY <1>1, <1>2, <2>1, <2>2 DEF New, Open
<1>7. ASSUME NEW n \in Open \cup new, n \notin Open'
      PROVE  n \in (UNION {Reports[r] : r \in DOMAIN Reports}) \cup Summarised(abandoned)'
  <2>1. n \in 1..disk'.offset /\ log[n].key \in Sessions /\ n \in SessionLines
    <3>1. CASE n \in Open
      <4>1. Held(n, Disk) /\ n \in SessionLines
        BY <1>2, <3>1 DEF Open
      <4>2. n \in DOMAIN log /\ n \in 0..disk.offset
        BY <1>1, <4>1 DEF Sound, Genuine, Behind
      <4> QED BY <1>1, <1>3, <1>5, <4>1, <4>2 DEF SessionLines
    <3>2. CASE n \in new
      BY <1>1, <1>5, <3>2 DEF SessionLines
    <3> QED BY <3>1, <3>2
  <2>2. ~Held(n, Disk') /\ n \in Settled'
    BY <1>1, <1>2, <1>5, <1>7, <2>1 DEF Kept, Open
  <2>3. PICK i \in Elements(accepted') \cup abandoned' : i.type = "summary" /\ n \in i.lines
    BY <2>2 DEF Settled, Summarised
  <2>4. CASE i \in abandoned'
    BY <2>3, <2>4 DEF Summarised
  <2>5. CASE i \in Elements(accepted')
    <3>1. CASE accepted' = accepted
      <4>1. Delivered(n, "summary", accepted)
        BY <2>3, <2>5, <3>1 DEF Delivered, Elements
      <4> QED BY <2>1, <4>1, ReportedLines
    <3>2. ASSUME NEW item \in Item, accepted' = Append(accepted, item),
                 item.type = "summary" =>
                   \A l \in item.lines : Held(l, Disk') /\ ~Delivered(l, "summary", accepted)
          PROVE  n \in (UNION {Reports[r] : r \in DOMAIN Reports}) \cup Summarised(abandoned)'
      <4>1. accepted \in Seq(Item)
        BY DEF Inv, SafeInv, TypeInv
      <4>2. i \in Elements(accepted) \cup {item}
        BY <2>5, <3>2, <4>1, ElementsAppend
      <4>3. i # item
        BY <2>2, <2>3, <3>2
      <4>4. Delivered(n, "summary", accepted)
        BY <2>3, <4>2, <4>3 DEF Delivered, Elements
      <4> QED BY <2>1, <4>4, ReportedLines
    <3> QED BY <3>1, <3>2, AcceptedKept, HeadPosted
  <2> QED BY <2>3, <2>4, <2>5
<1> QED BY <1>3, <1>4, <1>6, <1>7 DEF Ledger!Record, Ledger!Reported, Reports, Open

\* A line that Cowrie logs lies beyond what is recorded, and in no report.
LEMMA LedgerLogs ==
  ASSUME Inv, LogLine
  PROVE  /\ UNCHANGED <<disk.offset, Open, Reports, Summarised(abandoned)>>
         /\ Ledger!LineLogged \/ SessionLines' = SessionLines
<1>1. /\ log \in Seq(Line) /\ Sound(Disk, log) /\ Disk.offset = disk.offset
      /\ disk.offset \in Nat
      /\ \A b \in DOMAIN accepted : \A n \in accepted[b].lines : n \in 0..disk.offset
  BY OffsetsTyped DEF Inv, SafeInv, DiskInv, TypeInv
<1>2. PICK line \in Line : log' = Append(log, line)
  BY DEF LogLine
<1>3. /\ Len(log) \in Nat /\ DOMAIN log = 1..Len(log)
      /\ DOMAIN log' = 1..(Len(log) + 1) /\ log'[Len(log) + 1] = line
      /\ \A n \in 1..Len(log) : log'[n] = log[n]
  BY <1>1, <1>2, AppendProperties
<1> DEFINE n == Len(log) + 1
<1>4. n > disk.offset /\ \A m \in 0..disk.offset : m # n
  BY <1>1, <1>3 DEF Sound, Genuine
<1>5. DOMAIN log' = DOMAIN log \cup {n} /\ \A m \in DOMAIN log : log'[m] = log[m]
  BY <1>3
<1>6. UNCHANGED <<disk, accepted, abandoned>> /\ HeldOnDisk' = HeldOnDisk
  BY DEF LogLine, memVars, netVars, HeldOnDisk
<1>7. n \notin DOMAIN log /\ log'[n] = line
  BY <1>3
<1> HIDE DEF n
<1>8. /\ SessionLines' = IF line.key \in Sessions THEN SessionLines \cup {n} ELSE SessionLines
      /\ n \notin SessionLines
  BY <1>5, <1>7 DEF SessionLines
<1>9. n \notin HeldOnDisk
  <2>1. ~Held(n, Disk)
    BY <1>1, <1>7 DEF Sound, Genuine
  <2> QED BY <2>1, HeldIsHeldOnDisk
<1>10. \A b \in DOMAIN accepted : accepted[b].lines \cap SessionLines'
                                    = accepted[b].lines \cap SessionLines
  BY <1>1, <1>4, <1>8
<1>11. UNCHANGED <<disk.offset, Open, Reports, Summarised(abandoned)>>
  <2>1. Open' = Open
    BY <1>6, <1>8, <1>9 DEF Open
  <2>2. Reports' = Reports
    BY <1>6, <1>10 DEF Reports
  <2> QED BY <1>6, <2>1, <2>2
<1>12. CASE line.key \in Sessions
  <2>1. n \in SessionLines' /\ SessionLines' = SessionLines \cup {n}
    BY <1>8, <1>12
  <2> QED BY <1>4, <1>11, <2>1 DEF Ledger!LineLogged, Open, Reports
<1>13. CASE line.key \notin Sessions
  <2>1. SessionLines' = SessionLines
    BY <1>8, <1>13
  <2> QED BY <1>11, <2>1
<1> QED BY <1>12, <1>13

LEMMA LedgerStep ==
  ASSUME Inv, Inv', DiskMoves, [Next]_vars
  PROVE  [Ledger!Next]_<<SessionLines, disk.offset, Open, Reports, Summarised(abandoned)>>
<1>1. CASE LogLine
  BY <1>1, LedgerLogs DEF Ledger!Next
<1>2. CASE log' = log
  <2>1. Ledger!Record
    BY <1>2, LedgerRecords
  <2>2. Ledger!Report \/ Reports' = Reports
    BY <1>2, LedgerReports
  <2>3. SessionLines' = SessionLines
    BY <1>2 DEF SessionLines
  <2> QED BY <2>1, <2>2, <2>3 DEF Ledger!Next, Reports
<1> QED BY <1>1, <1>2, LogKept

\* The monitor implements the ledger: under crashes, failed saves, lost answers and
\* retries, a summary is posted only while STATE_PATH leads to it, a session's line
\* leaves STATE_PATH only when its summary was posted or given up, and what has left
\* never comes back.
THEOREM MonitorImplementsLedger == Spec => ImplementsLedger
<1>1. Init => Ledger!Init
  BY InitLedger
<1>2. Inv /\ [Next]_vars =>
        [Ledger!Next]_<<SessionLines, disk.offset, Open, Reports, Summarised(abandoned)>>
  BY NextSafe, LedgerStep
<1> QED BY <1>1, <1>2, Invariance, PTL DEF Spec, ImplementsLedger, Ledger!Spec, Open, Reports

=============================================================================
