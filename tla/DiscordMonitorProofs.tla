------------------------ MODULE DiscordMonitorProofs ------------------------
(***************************************************************************)
(* Proofs about the Discord monitor, for every value of the constants: its *)
(* types and limits, and what the operations on its state do.              *)
(***************************************************************************)
EXTENDS DiscordMonitor, SequenceTheorems, FiniteSetTheorems, WellFoundedInduction, TLAPS

-----------------------------------------------------------------------------
(* The types, as sets.                                                     *)

Clusters == {c \in UNION {[D -> Cluster] : D \in SUBSET Keys} : IsFiniteSet(DOMAIN c)}

Letter == [id : Item, reason : Reasons]

State == [offset : Nat, seen : Seq(Item), clusters : Clusters, awaiting : SUBSET Item,
          pending : [Channels -> Seq(Item)], dead : Seq(Letter), replaySuppressed : Nat]

Within(st) ==
  /\ Len(st.seen) <= MaxSeen /\ Len(st.dead) <= MaxDead
  /\ \A c \in Channels : Len(st.pending[c]) <= MaxPending

\* Items that st records as settled.
Known(st) == Elements(st.seen) \cup {d.id : d \in Elements(st.dead)}

\* A sequence without its first m elements, and those.
After(q, m)   == SubSeq(q, m + 1, Len(q))
FirstOf(q, m) == {q[i] : i \in 1..m}

\* st2 is st after its queues have lost their first items, which are settled.
Drops(st, st2, gone) ==
  /\ st2.offset = st.offset /\ st2.awaiting = st.awaiting /\ st2.clusters = st.clusters
  /\ \E m \in [Channels -> Nat] :
       /\ \A c \in Channels : /\ m[c] <= Len(st.pending[c])
                              /\ st2.pending[c] = After(st.pending[c], m[c])
       /\ gone = FirstOf(st.pending["legacy"], m["legacy"])
                   \cup FirstOf(st.pending["intel"], m["intel"])
  /\ Known(st2) \subseteq Known(st) \cup gone

\* st2 is st with an item more at the end of a queue.
Pushes(st, st2, item, ch) ==
  /\ st2.offset = st.offset /\ st2.awaiting = st.awaiting /\ st2.clusters = st.clusters
  /\ st2.pending = [st.pending EXCEPT ![ch] = Append(@, item)]
  /\ Known(st2) = Known(st)

-----------------------------------------------------------------------------
(* Sequences.                                                              *)

LEMMA ElementsOf ==
  ASSUME NEW S, NEW q \in Seq(S)
  PROVE  /\ Elements(q) \subseteq S
         /\ \A x : x \in Elements(q) <=> \E n \in 1..Len(q) : x = q[n]
BY DEF Elements

LEMMA ElementsAppend ==
  ASSUME NEW S, NEW q \in Seq(S), NEW v \in S
  PROVE  Elements(Append(q, v)) = Elements(q) \cup {v}
<1> DEFINE all == Append(q, v)
<1>1. /\ DOMAIN all = 1..(Len(q) + 1) /\ DOMAIN q = 1..Len(q) /\ Len(q) \in Nat
      /\ \A n \in 1..Len(q) : all[n] = q[n]
      /\ all[Len(q) + 1] = v
  BY AppendProperties
<1> HIDE DEF all
<1>2. Elements(all) \subseteq Elements(q) \cup {v}
  BY <1>1 DEF Elements
<1>3. Elements(q) \subseteq Elements(all) /\ v \in Elements(all)
  BY <1>1 DEF Elements
<1> QED BY <1>2, <1>3 DEF all

LEMMA ElementsConcat ==
  ASSUME NEW S, NEW q \in Seq(S), NEW r \in Seq(S)
  PROVE  Elements(q \o r) \subseteq Elements(q) \cup Elements(r)
<1> DEFINE all == q \o r
<1>1. /\ all \in Seq(S) /\ Len(all) = Len(q) + Len(r) /\ Len(q) \in Nat /\ Len(r) \in Nat
      /\ \A i \in 1..(Len(q) + Len(r)) : all[i] = IF i <= Len(q) THEN q[i] ELSE r[i - Len(q)]
  BY ConcatProperties
<1> HIDE DEF all
<1> SUFFICES ASSUME NEW n \in 1..Len(all) PROVE all[n] \in Elements(q) \cup Elements(r)
  BY <1>1 DEF Elements, all
<1>2. CASE n <= Len(q)
  BY <1>1, <1>2 DEF Elements
<1>3. CASE ~(n <= Len(q))
  <2>1. n - Len(q) \in 1..Len(r) /\ all[n] = r[n - Len(q)]
    BY <1>1, <1>3
  <2> QED BY <2>1 DEF Elements
<1> QED BY <1>2, <1>3

LEMMA AfterFacts ==
  ASSUME NEW S, NEW q \in Seq(S), NEW m \in Nat, m <= Len(q)
  PROVE  /\ After(q, m) \in Seq(S)
         /\ Len(After(q, m)) = Len(q) - m
         /\ \A i \in 1..(Len(q) - m) : After(q, m)[i] = q[i + m]
<1>1. Len(q) \in Nat /\ \A i \in (m + 1)..Len(q) : q[i] \in S
  OBVIOUS
<1>2. m + 1 \in Int /\ Len(q) \in Int
  BY <1>1
<1>3. /\ SubSeq(q, m + 1, Len(q)) \in Seq(S)
      /\ Len(SubSeq(q, m + 1, Len(q))) = IF m + 1 <= Len(q) THEN Len(q) - (m + 1) + 1 ELSE 0
      /\ \A i \in 1..(Len(q) - (m + 1) + 1) : SubSeq(q, m + 1, Len(q))[i] = q[(m + 1) + i - 1]
  BY <1>1, <1>2, SubSeqProperties
<1> QED BY <1>1, <1>3 DEF After

LEMMA AfterNone ==
  ASSUME NEW S, NEW q \in Seq(S)
  PROVE  After(q, 0) = q /\ FirstOf(q, 0) = {}
BY SubSeqFull DEF After, FirstOf

LEMMA AfterOne ==
  ASSUME NEW S, NEW q \in Seq(S), q # <<>>
  PROVE  After(q, 1) = Tail(q) /\ FirstOf(q, 1) = {Head(q)} /\ 1 <= Len(q)
BY TailIsSubSeq DEF After, FirstOf

LEMMA AfterAll ==
  ASSUME NEW S, NEW q \in Seq(S)
  PROVE  After(q, Len(q)) = <<>> /\ FirstOf(q, Len(q)) = Elements(q)
BY SubSeqEmpty DEF After, FirstOf, Elements

\* append_bounded keeps the limit, and adds only what it is given.
LEMMA AppendBoundedFacts ==
  ASSUME NEW S, NEW items \in Seq(S), NEW q \in Seq(S), NEW limit \in Nat \ {0}
  PROVE  /\ AppendBounded(items, q, limit) \in Seq(S)
         /\ Len(AppendBounded(items, q, limit)) <= limit
         /\ Elements(AppendBounded(items, q, limit)) \subseteq Elements(items) \cup Elements(q)
<1> DEFINE all == items \o q
<1>1. all \in Seq(S) /\ Elements(all) \subseteq Elements(items) \cup Elements(q)
  BY ConcatProperties, ElementsConcat
<1> HIDE DEF all
<1>2. AppendBounded(items, q, limit) =
        IF Len(all) > limit THEN After(all, Len(all) - limit) ELSE all
  BY DEF AppendBounded, all, After
<1>3. Len(all) \in Nat
  BY <1>1
<1>4. CASE Len(all) > limit
  <2> DEFINE m == Len(all) - limit
             a == After(all, m)
  <2>1. m \in Nat /\ m <= Len(all) /\ Len(all) - m = limit
    BY <1>3, <1>4
  <2> HIDE DEF m
  <2>2. a \in Seq(S) /\ Len(a) = limit /\ \A i \in 1..limit : a[i] = all[i + m]
    BY <1>1, <2>1, AfterFacts
  <2> HIDE DEF a
  <2>3. \A i \in 1..limit : i + m \in 1..Len(all)
    BY <1>3, <2>1
  <2>4. Elements(a) \subseteq Elements(all)
    BY <1>1, <2>2, <2>3, ElementsOf
  <2>5. AppendBounded(items, q, limit) = a
    BY <1>2, <1>4 DEF a, m
  <2> QED BY <1>1, <2>2, <2>4, <2>5
<1>5. CASE ~(Len(all) > limit)
  BY <1>1, <1>2, <1>3, <1>5
<1> QED BY <1>4, <1>5

-----------------------------------------------------------------------------
(* The state dictionary.                                                   *)

LEMMA StateFields ==
  ASSUME NEW st \in State
  PROVE  /\ st.offset \in Nat /\ st.seen \in Seq(Item) /\ st.clusters \in Clusters
         /\ st.awaiting \subseteq Item /\ st.pending \in [Channels -> Seq(Item)]
         /\ st.dead \in Seq(Letter) /\ st.replaySuppressed \in Nat
         /\ st = [offset |-> st.offset, seen |-> st.seen, clusters |-> st.clusters,
                  awaiting |-> st.awaiting, pending |-> st.pending, dead |-> st.dead,
                  replaySuppressed |-> st.replaySuppressed]
BY DEF State

\* The dictionary with a new value under one key.
LEMMA StateWith ==
  ASSUME NEW st \in State
  PROVE  /\ \A v \in Nat : [st EXCEPT !.offset = v] \in State
         /\ \A v \in Seq(Item) : [st EXCEPT !.seen = v] \in State
         /\ \A v \in Clusters : [st EXCEPT !.clusters = v] \in State
         /\ \A v \in SUBSET Item : [st EXCEPT !.awaiting = v] \in State
         /\ \A v \in [Channels -> Seq(Item)] : [st EXCEPT !.pending = v] \in State
         /\ \A v \in Seq(Letter) : [st EXCEPT !.dead = v] \in State
         /\ \A v \in Nat : [st EXCEPT !.replaySuppressed = v] \in State
<1>1. \A v \in Nat : [st EXCEPT !.offset = v] \in State
  BY DEF State
<1>2. \A v \in Seq(Item) : [st EXCEPT !.seen = v] \in State
  BY DEF State
<1>3. \A v \in Clusters : [st EXCEPT !.clusters = v] \in State
  BY DEF State
<1>4. \A v \in SUBSET Item : [st EXCEPT !.awaiting = v] \in State
  BY DEF State
<1>5. \A v \in [Channels -> Seq(Item)] : [st EXCEPT !.pending = v] \in State
  BY DEF State
<1>6. \A v \in Seq(Letter) : [st EXCEPT !.dead = v] \in State
  BY DEF State
<1>7. \A v \in Nat : [st EXCEPT !.replaySuppressed = v] \in State
  BY DEF State
<1> QED BY <1>1, <1>2, <1>3, <1>4, <1>5, <1>6, <1>7

\* What the other keys hold then.
LEMMA FieldsOf ==
  ASSUME NEW st \in State, NEW v
  PROVE  /\ LET x == [st EXCEPT !.pending = v]
            IN  /\ x.pending = v /\ x.offset = st.offset /\ x.seen = st.seen
                /\ x.clusters = st.clusters /\ x.awaiting = st.awaiting /\ x.dead = st.dead
         /\ LET x == [st EXCEPT !.awaiting = v]
            IN  /\ x.awaiting = v /\ x.offset = st.offset /\ x.seen = st.seen
                /\ x.clusters = st.clusters /\ x.pending = st.pending /\ x.dead = st.dead
         /\ LET x == [st EXCEPT !.clusters = v]
            IN  /\ x.clusters = v /\ x.offset = st.offset /\ x.seen = st.seen
                /\ x.awaiting = st.awaiting /\ x.pending = st.pending /\ x.dead = st.dead
         /\ LET x == [st EXCEPT !.offset = v]
            IN  /\ x.offset = v /\ x.seen = st.seen /\ x.clusters = st.clusters
                /\ x.awaiting = st.awaiting /\ x.pending = st.pending /\ x.dead = st.dead
         /\ LET x == [st EXCEPT !.seen = v]
            IN  /\ x.seen = v /\ x.offset = st.offset /\ x.clusters = st.clusters
                /\ x.awaiting = st.awaiting /\ x.pending = st.pending /\ x.dead = st.dead
         /\ LET x == [st EXCEPT !.replaySuppressed = v]
            IN  /\ x.offset = st.offset /\ x.seen = st.seen /\ x.clusters = st.clusters
                /\ x.awaiting = st.awaiting /\ x.pending = st.pending /\ x.dead = st.dead
BY DEF State

\* add_dead_letter and mark_seen of each item of q.
LEMMA DeadLetterFacts ==
  ASSUME NEW st \in State, NEW q \in Seq(Item), NEW reason \in Reasons
  PROVE  LET st2 == DeadLetter(st, q, reason)
         IN  /\ st2 \in State
             /\ st2.offset = st.offset /\ st2.clusters = st.clusters
             /\ st2.awaiting = st.awaiting /\ st2.pending = st.pending
             /\ Known(st2) \subseteq Known(st) \cup Elements(q)
             /\ Len(st2.seen) <= MaxSeen /\ Len(st2.dead) <= MaxDead
<1> DEFINE letters == [n \in DOMAIN q |-> [id |-> q[n], reason |-> reason]]
           d == AppendBounded(st.dead, letters, MaxDead)
           s == AppendBounded(st.seen, q, MaxSeen)
           st2 == DeadLetter(st, q, reason)
<1>1. st2 = [st EXCEPT !.dead = d, !.seen = s]
  BY DEF DeadLetter
<1>2. MaxDead \in Nat \ {0} /\ MaxSeen \in Nat \ {0}
  BY MonitorAssumption
<1>3. letters \in Seq(Letter) /\ Len(letters) = Len(q)
      /\ \A n \in 1..Len(q) : letters[n].id = q[n]
  <2>1. DOMAIN letters = 1..Len(q) /\ Len(q) \in Nat
    OBVIOUS
  <2>2. \A n \in 1..Len(q) : q[n] \in Item /\ letters[n] = [id |-> q[n], reason |-> reason]
    OBVIOUS
  <2>3. \A n \in 1..Len(q) : letters[n] \in Letter /\ letters[n].id = q[n]
    BY <2>2 DEF Letter
  <2>4. letters = [n \in 1..Len(q) |-> letters[n]]
    BY <2>1
  <2> HIDE DEF letters
  <2>5. letters \in [1..Len(q) -> Letter]
    BY <2>3, <2>4
  <2> QED BY <2>1, <2>3, <2>5
<1> HIDE DEF letters
<1>4. /\ d \in Seq(Letter) /\ Len(d) <= MaxDead
      /\ Elements(d) \subseteq Elements(st.dead) \cup Elements(letters)
  BY <1>2, <1>3, StateFields, AppendBoundedFacts
<1>5. /\ s \in Seq(Item) /\ Len(s) <= MaxSeen
      /\ Elements(s) \subseteq Elements(st.seen) \cup Elements(q)
  BY <1>2, StateFields, AppendBoundedFacts
<1> HIDE DEF d, s, st2
<1>6. st2 = [[st EXCEPT !.dead = d] EXCEPT !.seen = s]
  BY <1>1
<1>7. st2 \in State
  BY <1>4, <1>5, <1>6, StateWith
<1>8. /\ st2.offset = st.offset /\ st2.seen = s /\ st2.clusters = st.clusters
      /\ st2.awaiting = st.awaiting /\ st2.pending = st.pending /\ st2.dead = d
  BY <1>1 DEF State
<1>9. \A e \in Elements(letters) : e.id \in Elements(q)
  BY <1>3, ElementsOf
<1>10. Known(st2) \subseteq Known(st) \cup Elements(q)
  BY <1>4, <1>5, <1>8, <1>9 DEF Known
<1> QED BY <1>4, <1>5, <1>7, <1>8, <1>10 DEF st2

LEMMA QueueDropped ==
  ASSUME NEW st \in State, NEW st2 \in State, NEW ch \in Channels,
         NEW m \in Nat, m <= Len(st.pending[ch]),
         st2.offset = st.offset, st2.awaiting = st.awaiting, st2.clusters = st.clusters,
         st2.pending = [st.pending EXCEPT ![ch] = After(st.pending[ch], m)],
         Known(st2) \subseteq Known(st) \cup FirstOf(st.pending[ch], m)
  PROVE  Drops(st, st2, FirstOf(st.pending[ch], m))
<1> DEFINE ms == [c \in Channels |-> IF c = ch THEN m ELSE 0]
<1>1. st.pending \in [Channels -> Seq(Item)]
  BY StateFields
<1>2. ASSUME NEW c \in Channels
      PROVE  /\ ms[c] \in Nat /\ ms[c] <= Len(st.pending[c])
             /\ st2.pending[c] = After(st.pending[c], ms[c])
             /\ FirstOf(st.pending[c], ms[c]) = IF c = ch THEN FirstOf(st.pending[ch], m) ELSE {}
  <2>1. st.pending[c] \in Seq(Item) /\ Len(st.pending[c]) \in Nat
    BY <1>1
  <2>2. After(st.pending[c], 0) = st.pending[c] /\ FirstOf(st.pending[c], 0) = {}
    BY <2>1, AfterNone
  <2>3. CASE c = ch
    <3>1. ms[c] = m
      BY <2>3
    <3>2. st2.pending[c] = After(st.pending[c], m)
      BY <1>1, <2>3
    <3> QED BY <2>3, <3>1, <3>2
  <2>4. CASE c # ch
    <3>1. ms[c] = 0
      BY <2>4
    <3>2. st2.pending[c] = st.pending[c]
      BY <1>1, <2>4
    <3> HIDE DEF ms
    <3> QED BY <2>1, <2>2, <2>4, <3>1, <3>2
  <2> QED BY <2>3, <2>4
<1>3. ms \in [Channels -> Nat]
  BY <1>2
<1>4. FirstOf(st.pending[ch], m) = FirstOf(st.pending["legacy"], ms["legacy"])
                                     \cup FirstOf(st.pending["intel"], ms["intel"])
  <2>1. "legacy" \in Channels /\ "intel" \in Channels /\ ch \in {"legacy", "intel"}
    BY DEF Channels
  <2> HIDE DEF ms
  <2> QED BY <1>2, <2>1
<1> HIDE DEF ms
<1> QED BY <1>2, <1>3, <1>4 DEF Drops

\* enqueue_pending ignores an item that is queued or settled; for another it
\* drops the oldest of a full queue, and appends it.
LEMMA EnqueueFacts ==
  ASSUME NEW st \in State, NEW item \in Item, NEW ch \in Channels, Within(st)
  PROVE  LET st2 == EnqueuePending(st, item, ch)
         IN  /\ st2 \in State /\ Within(st2)
             /\ \/ /\ item \in Elements(st.seen) \cup Elements(st.pending[ch])
                   /\ st2 = st
                \/ \E mid \in State :
                     /\ Within(mid)
                     /\ Drops(st, mid, Elements(Displaced(st, item, ch)))
                     /\ Pushes(mid, st2, item, ch)
<1> DEFINE q == st.pending[ch]
           dropped == Displaced(st, item, ch)
           st2 == EnqueuePending(st, item, ch)
<1>1. st.pending \in [Channels -> Seq(Item)] /\ q \in Seq(Item) /\ Len(q) \in Nat
  BY StateFields
<1>2. MaxPending \in Nat /\ MaxPending >= 1 /\ "queue_limit" \in Reasons
  BY MonitorAssumption DEF Reasons
<1>3. CASE item \in Elements(st.seen) \cup Elements(q)
  BY <1>3 DEF EnqueuePending
<1>4. CASE ~(item \in Elements(st.seen) \cup Elements(q))
  <2> DEFINE m == Len(dropped)
  <2>1. /\ m \in Nat /\ m <= Len(q) /\ dropped \in Seq(Item)
        /\ Elements(dropped) = FirstOf(q, m) /\ Len(q) - m < MaxPending
    <3>1. CASE Len(q) >= MaxPending
      <4>1. q # <<>>
        BY <1>1, <1>2, <3>1
      <4>2. dropped = <<Head(q)>> /\ Head(q) \in Item
        BY <1>1, <1>4, <3>1, <4>1 DEF Displaced
      <4>3. Len(q) <= MaxPending
        BY DEF Within
      <4> HIDE DEF q, dropped
      <4>4. m = 1 /\ Elements(dropped) = {Head(q)} /\ dropped \in Seq(Item)
        BY <4>2 DEF Elements
      <4> QED BY <1>1, <1>2, <3>1, <4>1, <4>3, <4>4, AfterOne
    <3>2. CASE ~(Len(q) >= MaxPending)
      <4>1. dropped = <<>>
        BY <3>2 DEF Displaced
      <4> HIDE DEF q, dropped
      <4>2. m = 0 /\ Elements(dropped) = {} /\ dropped \in Seq(Item)
        BY <4>1 DEF Elements
      <4> QED BY <1>1, <1>2, <3>2, <4>2, AfterNone
    <3> QED BY <3>1, <3>2
  <2> DEFINE dl == DeadLetter(st, dropped, "queue_limit")
             rest == After(q, m)
             p == [st.pending EXCEPT ![ch] = rest]
             mid == [dl EXCEPT !.pending = p]
  <2>2. st2 = [dl EXCEPT !.pending[ch] = Append(rest, item)]
    BY <1>4 DEF EnqueuePending, After
  <2> HIDE DEF dropped, m
  <2>3. /\ dl \in State /\ dl.offset = st.offset /\ dl.clusters = st.clusters
        /\ dl.awaiting = st.awaiting /\ dl.pending = st.pending
        /\ Known(dl) \subseteq Known(st) \cup Elements(dropped)
        /\ Len(dl.seen) <= MaxSeen /\ Len(dl.dead) <= MaxDead
    BY <1>2, <2>1, DeadLetterFacts
  <2> HIDE DEF dl
  <2>4. rest \in Seq(Item) /\ Len(rest) = Len(q) - m
    BY <1>1, <2>1, AfterFacts
  <2> HIDE DEF rest
  <2>5. /\ mid \in State /\ mid.offset = st.offset /\ mid.clusters = st.clusters
        /\ mid.awaiting = st.awaiting /\ mid.seen = dl.seen /\ mid.dead = dl.dead
        /\ mid.pending = [st.pending EXCEPT ![ch] = rest]
    <3>1. p \in [Channels -> Seq(Item)]
      BY <1>1, <2>4
    <3> HIDE DEF p
    <3>2. mid \in State
      BY <2>3, <3>1, StateWith
    <3>3. /\ mid.offset = dl.offset /\ mid.clusters = dl.clusters /\ mid.pending = p
          /\ mid.awaiting = dl.awaiting /\ mid.seen = dl.seen /\ mid.dead = dl.dead
      BY <2>3, FieldsOf
    <3> QED BY <2>3, <3>2, <3>3 DEF p
  <2> HIDE DEF mid
  <2>6. Known(mid) = Known(dl)
    BY <2>5 DEF Known
  <2>7. Drops(st, mid, Elements(dropped))
    <3>1. mid.pending = [st.pending EXCEPT ![ch] = After(q, m)]
      BY <2>5 DEF rest
    <3>2. Known(mid) \subseteq Known(st) \cup FirstOf(q, m)
      BY <2>1, <2>3, <2>6
    <3>3. Drops(st, mid, FirstOf(q, m))
      BY <2>1, <2>5, <3>1, <3>2, QueueDropped
    <3> QED BY <2>1, <3>3
  <2>8. Within(mid)
    BY <1>1, <1>2, <2>1, <2>3, <2>4, <2>5 DEF Within
  <2>9. st2 = [mid EXCEPT !.pending = [mid.pending EXCEPT ![ch] = Append(rest, item)]]
    <3>1. st2 = [dl EXCEPT !.pending = [dl.pending EXCEPT ![ch] = Append(rest, item)]]
      BY <2>2, <2>3 DEF State
    <3>2. [mid.pending EXCEPT ![ch] = Append(rest, item)]
            = [dl.pending EXCEPT ![ch] = Append(rest, item)]
      BY <1>1, <2>3, <2>5
    <3>3. \A v : [mid EXCEPT !.pending = v] = [dl EXCEPT !.pending = v]
      BY <2>3 DEF State, mid
    <3> QED BY <3>1, <3>2, <3>3
  <2> HIDE DEF st2
  <2>10. mid.pending[ch] = rest
    BY <1>1, <2>5
  <2>11. Append(rest, item) \in Seq(Item) /\ Len(Append(rest, item)) = Len(rest) + 1
    BY <2>4
  <2>12. [mid.pending EXCEPT ![ch] = Append(rest, item)] \in [Channels -> Seq(Item)]
    BY <2>5, <2>11, StateFields
  <2>13. /\ st2 \in State /\ st2.offset = mid.offset /\ st2.clusters = mid.clusters
         /\ st2.awaiting = mid.awaiting /\ st2.seen = mid.seen /\ st2.dead = mid.dead
         /\ st2.pending = [mid.pending EXCEPT ![ch] = Append(rest, item)]
    BY <2>5, <2>9, <2>12, StateWith, FieldsOf
  <2>14. Pushes(mid, st2, item, ch)
    BY <2>10, <2>13 DEF Pushes, Known
  <2>15. Within(st2)
    <3>1. Len(Append(rest, item)) <= MaxPending
      BY <1>1, <1>2, <2>1, <2>4, <2>11
    <3> QED BY <2>5, <2>8, <2>13, <3>1, StateFields DEF Within
  <2> QED BY <2>5, <2>7, <2>8, <2>13, <2>14, <2>15 DEF st2, dropped
<1> QED BY <1>3, <1>4

LEMMA EnqueueSame ==
  ASSUME NEW st \in State, NEW item \in Item, NEW ch \in Channels, Within(st)
  PROVE  LET st2 == EnqueuePending(st, item, ch)
         IN  /\ st2.offset = st.offset /\ st2.awaiting = st.awaiting
             /\ st2.clusters = st.clusters
<1> DEFINE st2 == EnqueuePending(st, item, ch)
<1>1. \/ st2 = st
      \/ \E mid \in State : /\ Drops(st, mid, Elements(Displaced(st, item, ch)))
                            /\ Pushes(mid, st2, item, ch)
  BY EnqueueFacts
<1> HIDE DEF st2
<1> QED BY <1>1 DEF Drops, Pushes, st2

\* A queue loses its first m elements, which dl, otherwise st, has settled.
LEMMA QueueSettled ==
  ASSUME NEW st \in State, NEW dl \in State, NEW ch \in Channels, Within(st),
         NEW m \in Nat, m <= Len(st.pending[ch]),
         dl.offset = st.offset, dl.awaiting = st.awaiting, dl.clusters = st.clusters,
         dl.pending = st.pending, Len(dl.seen) <= MaxSeen, Len(dl.dead) <= MaxDead,
         Known(dl) \subseteq Known(st) \cup FirstOf(st.pending[ch], m)
  PROVE  LET st2 == [dl EXCEPT !.pending[ch] = After(st.pending[ch], m)]
         IN  /\ st2 \in State /\ Within(st2)
             /\ st2.pending = [st.pending EXCEPT ![ch] = After(st.pending[ch], m)]
             /\ Drops(st, st2, FirstOf(st.pending[ch], m))
<1> DEFINE q == st.pending[ch]
           rest == After(q, m)
           p == [st.pending EXCEPT ![ch] = rest]
           st2 == [dl EXCEPT !.pending[ch] = rest]
<1>1. st.pending \in [Channels -> Seq(Item)] /\ q \in Seq(Item) /\ Len(q) \in Nat
  BY StateFields
<1>2. rest \in Seq(Item) /\ Len(rest) = Len(q) - m
  BY <1>1, AfterFacts
<1> HIDE DEF rest
<1>3. st2 = [dl EXCEPT !.pending = p]
  BY DEF State
<1>4. p \in [Channels -> Seq(Item)]
  BY <1>1, <1>2
<1> HIDE DEF p, st2
<1>5. /\ st2 \in State /\ st2.offset = st.offset /\ st2.clusters = st.clusters
      /\ st2.awaiting = st.awaiting /\ st2.pending = p
      /\ st2.seen = dl.seen /\ st2.dead = dl.dead
  BY <1>3, <1>4, StateWith, FieldsOf
<1>6. Known(st2) = Known(dl)
  BY <1>5 DEF Known
<1>7. p = [st.pending EXCEPT ![ch] = After(st.pending[ch], m)]
  BY DEF p, rest
<1>8. Drops(st, st2, FirstOf(st.pending[ch], m))
  BY <1>5, <1>6, <1>7, QueueDropped
<1>9. \A c \in Channels : Len(p[c]) <= MaxPending
  <2> SUFFICES ASSUME NEW c \in Channels PROVE Len(p[c]) <= MaxPending
    OBVIOUS
  <2>1. Len(st.pending[c]) <= MaxPending /\ Len(q) <= MaxPending
    BY DEF Within
  <2>2. MaxPending \in Nat
    BY MonitorAssumption
  <2>3. p[c] = IF c = ch THEN rest ELSE st.pending[c]
    BY <1>1 DEF p
  <2>4. Len(rest) <= MaxPending
    BY <1>1, <1>2, <2>1, <2>2
  <2> QED BY <2>1, <2>3, <2>4
<1> QED BY <1>5, <1>7, <1>8, <1>9 DEF Within, st2, rest

\* The head of a queue is marked seen, and dead-lettered when abandoned.
LEMMA PopFacts ==
  ASSUME NEW st \in State, NEW ch \in Channels, Within(st), st.pending[ch] # <<>>
  PROVE  \A st2 \in {PopSeen(st, ch), PopAbandoned(st, ch)} :
           /\ st2 \in State /\ Within(st2)
           /\ st2.pending = [st.pending EXCEPT ![ch] = Tail(st.pending[ch])]
           /\ Drops(st, st2, {Head(st.pending[ch])})
<1> DEFINE q == st.pending[ch]
           one == <<Head(q)>>
           s == AppendBounded(st.seen, one, MaxSeen)
           seen == [st EXCEPT !.seen = s]
           dl == DeadLetter(st, one, "delivery_uncertain_no_replay")
<1>1. q \in Seq(Item) /\ Head(q) \in Item
  BY StateFields
<1>2. After(q, 1) = Tail(q) /\ FirstOf(q, 1) = {Head(q)} /\ 1 <= Len(q) /\ 1 \in Nat
  BY <1>1, AfterOne
<1>3. one \in Seq(Item) /\ Elements(one) = {Head(q)}
  BY <1>1 DEF Elements
<1>4. "delivery_uncertain_no_replay" \in Reasons /\ MaxSeen \in Nat \ {0}
  BY MonitorAssumption DEF Reasons
<1>5. PopAbandoned(st, ch) = [dl EXCEPT !.pending[ch] = After(q, 1)]
  <2>1. /\ dl.pending = st.pending /\ dl \in State
    BY <1>3, <1>4, DeadLetterFacts
  <2> HIDE DEF dl
  <2>2. [dl EXCEPT !.pending[ch] = Tail(@)] = [dl EXCEPT !.pending[ch] = After(q, 1)]
    BY <1>2, <2>1
  <2> QED BY <2>2 DEF PopAbandoned, dl
<1>6. PopSeen(st, ch) = [seen EXCEPT !.pending[ch] = After(q, 1)]
  BY <1>2 DEF PopSeen, State
<1>7. /\ s \in Seq(Item) /\ Len(s) <= MaxSeen
      /\ Elements(s) \subseteq Elements(st.seen) \cup {Head(q)}
  <2> HIDE DEF one
  <2> QED BY <1>3, <1>4, StateFields, AppendBoundedFacts
<1> HIDE DEF s
<1>8. /\ seen \in State /\ seen.offset = st.offset /\ seen.clusters = st.clusters
      /\ seen.awaiting = st.awaiting /\ seen.pending = st.pending
      /\ seen.seen = s /\ seen.dead = st.dead
  BY <1>7, StateWith, FieldsOf
<1> HIDE DEF seen
<1>9. Known(seen) \subseteq Known(st) \cup FirstOf(q, 1) /\ Len(seen.dead) <= MaxDead
  BY <1>2, <1>7, <1>8 DEF Known, Within
<1>10. /\ dl \in State /\ dl.offset = st.offset /\ dl.clusters = st.clusters
       /\ dl.awaiting = st.awaiting /\ dl.pending = st.pending
       /\ Known(dl) \subseteq Known(st) \cup FirstOf(q, 1)
       /\ Len(dl.seen) <= MaxSeen /\ Len(dl.dead) <= MaxDead
  <2> HIDE DEF one
  <2> QED BY <1>2, <1>3, <1>4, DeadLetterFacts
<1> HIDE DEF dl
<1>11. /\ LET st2 == [seen EXCEPT !.pending[ch] = After(st.pending[ch], 1)]
          IN  /\ st2 \in State /\ Within(st2)
              /\ st2.pending = [st.pending EXCEPT ![ch] = After(st.pending[ch], 1)]
              /\ Drops(st, st2, FirstOf(st.pending[ch], 1))
  BY <1>2, <1>7, <1>8, <1>9, QueueSettled
<1>12. /\ LET st2 == [dl EXCEPT !.pending[ch] = After(st.pending[ch], 1)]
          IN  /\ st2 \in State /\ Within(st2)
              /\ st2.pending = [st.pending EXCEPT ![ch] = After(st.pending[ch], 1)]
              /\ Drops(st, st2, FirstOf(st.pending[ch], 1))
  BY <1>2, <1>10, QueueSettled
<1> QED BY <1>2, <1>5, <1>6, <1>11, <1>12

\* A whole queue is dead-lettered.
LEMMA DrainedFacts ==
  ASSUME NEW st \in State, NEW ch \in Channels, Within(st)
  PROVE  LET st2 == [DeadLetter(st, st.pending[ch], "credential_unavailable") EXCEPT
                       !.pending[ch] = <<>>]
         IN  /\ st2 \in State /\ Within(st2)
             /\ st2.pending = [st.pending EXCEPT ![ch] = <<>>]
             /\ Drops(st, st2, Elements(st.pending[ch]))
<1> DEFINE q == st.pending[ch]
           dl == DeadLetter(st, q, "credential_unavailable")
<1>1. q \in Seq(Item) /\ Len(q) \in Nat /\ Len(q) <= Len(q)
  BY StateFields
<1>2. After(q, Len(q)) = <<>> /\ FirstOf(q, Len(q)) = Elements(q)
  BY <1>1, AfterAll
<1>3. "credential_unavailable" \in Reasons
  BY DEF Reasons
<1>4. /\ dl \in State /\ dl.offset = st.offset /\ dl.clusters = st.clusters
      /\ dl.awaiting = st.awaiting /\ dl.pending = st.pending
      /\ Known(dl) \subseteq Known(st) \cup FirstOf(q, Len(q))
      /\ Len(dl.seen) <= MaxSeen /\ Len(dl.dead) <= MaxDead
  BY <1>1, <1>2, <1>3, DeadLetterFacts
<1> DEFINE st2 == [dl EXCEPT !.pending[ch] = After(st.pending[ch], Len(q))]
<1> HIDE DEF dl
<1>5. /\ st2 \in State /\ Within(st2)
      /\ st2.pending = [st.pending EXCEPT ![ch] = After(st.pending[ch], Len(q))]
      /\ Drops(st, st2, FirstOf(st.pending[ch], Len(q)))
  BY <1>1, <1>4, QueueSettled
<1> QED BY <1>2, <1>5 DEF dl

\* load_state: both queues are dead-lettered.
LEMMA LoadFacts ==
  ASSUME NEW d \in State
  PROVE  LET st2 == LoadState(d)
         IN  /\ st2 \in State /\ Within(st2)
             /\ st2.pending = [c \in Channels |-> <<>>]
             /\ Drops(d, st2, Elements(d.pending["legacy"]) \cup Elements(d.pending["intel"]))
<1> DEFINE p1 == d.pending["legacy"]
           p2 == d.pending["intel"]
           left == p1 \o p2
           dl == DeadLetter(d, left, "restart_replay_suppressed")
           p == [c \in Channels |-> <<>>]
           r == dl.replaySuppressed + Len(left)
           st2 == LoadState(d)
<1>1. "legacy" \in Channels /\ "intel" \in Channels
      /\ p1 \in Seq(Item) /\ p2 \in Seq(Item) /\ d.pending \in [Channels -> Seq(Item)]
  BY StateFields DEF Channels
<1>2. left \in Seq(Item) /\ Elements(left) \subseteq Elements(p1) \cup Elements(p2)
  BY <1>1, ConcatProperties, ElementsConcat
<1>3. "restart_replay_suppressed" \in Reasons /\ MaxPending \in Nat
  BY MonitorAssumption DEF Reasons
<1>4. st2 = [[dl EXCEPT !.pending = p] EXCEPT !.replaySuppressed = r]
  BY DEF LoadState
<1> HIDE DEF left
<1>5. /\ dl \in State /\ dl.offset = d.offset /\ dl.clusters = d.clusters
      /\ dl.awaiting = d.awaiting /\ dl.pending = d.pending
      /\ Known(dl) \subseteq Known(d) \cup Elements(left)
      /\ Len(dl.seen) <= MaxSeen /\ Len(dl.dead) <= MaxDead
  BY <1>2, <1>3, DeadLetterFacts
<1>6. Len(left) \in Nat
  BY <1>2
<1> HIDE DEF dl
<1>7. p \in [Channels -> Seq(Item)] /\ r \in Nat
  BY <1>5, <1>6, StateFields
<1>8. \A c \in Channels : p[c] = <<>> /\ Len(p[c]) <= MaxPending
  BY <1>3
<1> DEFINE mid == [dl EXCEPT !.pending = p]
<1> HIDE DEF p, r, st2
<1>9. /\ mid \in State /\ mid.offset = d.offset /\ mid.clusters = d.clusters
      /\ mid.awaiting = d.awaiting /\ mid.seen = dl.seen /\ mid.dead = dl.dead
      /\ mid.pending = p
  BY <1>5, <1>7, StateWith, FieldsOf
<1> HIDE DEF mid
<1>10. /\ st2 \in State /\ st2.offset = d.offset /\ st2.clusters = d.clusters
       /\ st2.awaiting = d.awaiting /\ st2.seen = dl.seen /\ st2.dead = dl.dead
       /\ st2.pending = p
  <2>1. st2 = [mid EXCEPT !.replaySuppressed = r]
    BY <1>4 DEF mid
  <2> QED BY <1>7, <1>9, <2>1, StateWith, FieldsOf
<1>11. Known(st2) \subseteq Known(d) \cup Elements(p1) \cup Elements(p2)
  BY <1>2, <1>5, <1>10 DEF Known
<1> DEFINE ms == [c \in Channels |-> Len(d.pending[c])]
<1>12. ms \in [Channels -> Nat]
  BY <1>1
<1>13. \A c \in Channels : /\ ms[c] <= Len(d.pending[c])
                           /\ st2.pending[c] = After(d.pending[c], ms[c])
                           /\ FirstOf(d.pending[c], ms[c]) = Elements(d.pending[c])
  <2> SUFFICES ASSUME NEW c \in Channels
               PROVE  /\ ms[c] <= Len(d.pending[c])
                      /\ st2.pending[c] = After(d.pending[c], ms[c])
                      /\ FirstOf(d.pending[c], ms[c]) = Elements(d.pending[c])
    OBVIOUS
  <2>1. d.pending[c] \in Seq(Item) /\ Len(d.pending[c]) \in Nat /\ ms[c] = Len(d.pending[c])
    BY <1>1
  <2>2. /\ After(d.pending[c], Len(d.pending[c])) = <<>>
        /\ FirstOf(d.pending[c], Len(d.pending[c])) = Elements(d.pending[c])
    BY <2>1, AfterAll
  <2> HIDE DEF ms
  <2> QED BY <1>8, <1>10, <2>1, <2>2
<1> HIDE DEF ms
<1>14. Drops(d, st2, Elements(p1) \cup Elements(p2))
  BY <1>1, <1>10, <1>11, <1>12, <1>13 DEF Drops
<1>15. Within(st2)
  BY <1>5, <1>8, <1>10 DEF Within
<1> QED BY <1>10, <1>14, <1>15 DEF st2, p

\* The summary is queued, or was known, and awaits enrichment no longer.
LEMMA SummaryFacts ==
  ASSUME NEW st \in State, NEW item \in Item, Within(st)
  PROVE  LET e == EnqueuePending(st, item, "intel")
             st2 == EnqueueSummary(st, item)
         IN  /\ st2 \in State /\ Within(st2)
             /\ st2.offset = e.offset /\ st2.clusters = e.clusters
             /\ st2.pending = e.pending /\ Known(st2) = Known(e)
             /\ st2.awaiting = e.awaiting \ {item}
<1> DEFINE e == EnqueuePending(st, item, "intel")
           st2 == EnqueueSummary(st, item)
           a == e.awaiting \ {item}
<1>1. e \in State /\ Within(e)
  BY EnqueueFacts DEF Channels
<1>2. st2 = [e EXCEPT !.awaiting = a]
  BY DEF EnqueueSummary
<1> HIDE DEF e, st2
<1>3. a \in SUBSET Item
  BY <1>1, StateFields
<1> HIDE DEF a
<1>4. /\ st2 \in State /\ st2.offset = e.offset /\ st2.clusters = e.clusters
      /\ st2.awaiting = a /\ st2.seen = e.seen /\ st2.dead = e.dead
      /\ st2.pending = e.pending
  BY <1>1, <1>2, <1>3, StateWith, FieldsOf
<1> QED BY <1>1, <1>4 DEF Within, Known, e, st2, a

-----------------------------------------------------------------------------
(* Clusters and governors.                                                 *)

LEMMA ClustersElim ==
  ASSUME NEW cl \in Clusters
  PROVE  /\ DOMAIN cl \subseteq Keys /\ IsFiniteSet(DOMAIN cl)
         /\ cl \in [DOMAIN cl -> Cluster]
         /\ IsClusters(cl)
BY DEF Clusters, IsClusters

LEMMA ClustersIntro ==
  ASSUME NEW D \in SUBSET Keys, IsFiniteSet(D), NEW cl \in [D -> Cluster]
  PROVE  cl \in Clusters
BY DEF Clusters

\* The same keys with the same lines.
SameLines(c1, c2) == DOMAIN c1 = DOMAIN c2 /\ \A k \in DOMAIN c1 : c1[k].lines = c2[k].lines

\* Only the cluster of the key changes: it has the line more, or only it.
LEMMA ObserveFacts ==
  ASSUME NEW cl \in Clusters, NEW k \in Keys, NEW n \in Nat
  PROVE  LET c2 == Observe(cl, k, n)
         IN  /\ c2 \in Clusters /\ DOMAIN c2 = DOMAIN cl \cup {k}
             /\ \A j \in DOMAIN cl \ {k} : c2[j] = cl[j]
             /\ c2[k].lines = IF Continues(cl, k) THEN cl[k].lines \cup {n} ELSE {n}
<1> DEFINE c2 == Observe(cl, k, n)
           old == IF Continues(cl, k) THEN cl[k] ELSE NewCluster
           new == RecordEvent(old, n)
<1>1. cl \in [DOMAIN cl -> Cluster] /\ DOMAIN cl \subseteq Keys /\ IsFiniteSet(DOMAIN cl)
  BY ClustersElim
<1>2. Window \in Nat /\ MaxAge \in Nat
  BY ClusterAssumption
<1>3. NewCluster \in Cluster
  BY <1>2 DEF NewCluster, Cluster
<1>4. old \in Cluster
  BY <1>1, <1>3 DEF Continues
<1>5. new \in Cluster /\ new.lines = old.lines \cup {n}
  <2> DEFINE ls == old.lines \cup {n}
  <2>1. new = [[old EXCEPT !.lines = ls] EXCEPT !.quiet = 0]
    BY DEF RecordEvent
  <2> HIDE DEF old, new, ls
  <2>2. ls \in SUBSET Nat /\ 0 \in 0..(Window + 1)
    BY <1>2, <1>4 DEF ls, Cluster
  <2>3. [old EXCEPT !.lines = ls] \in Cluster /\ [old EXCEPT !.lines = ls].lines = ls
    BY <1>4, <2>2 DEF Cluster
  <2>4. \A c \in Cluster : [c EXCEPT !.quiet = 0] \in Cluster
                          /\ [c EXCEPT !.quiet = 0].lines = c.lines
    BY <2>2 DEF Cluster
  <2> QED BY <2>1, <2>3, <2>4 DEF ls
<1>6. old.lines = IF Continues(cl, k) THEN cl[k].lines ELSE {}
  BY DEF NewCluster
<1>7. c2 = [j \in DOMAIN cl \cup {k} |-> IF j # k THEN cl[j] ELSE new]
  BY DEF Observe
<1> HIDE DEF old, new, c2
<1>8. c2 \in [DOMAIN cl \cup {k} -> Cluster]
  BY <1>1, <1>5, <1>7
<1>9. IsFiniteSet(DOMAIN cl \cup {k})
  BY <1>1, FS_AddElement
<1>10. c2 \in Clusters
  BY <1>1, <1>8, <1>9, ClustersIntro
<1>11. /\ DOMAIN c2 = DOMAIN cl \cup {k}
       /\ \A j \in DOMAIN cl \ {k} : c2[j] = cl[j]
       /\ c2[k] = new
  BY <1>7
<1> QED BY <1>5, <1>6, <1>10, <1>11 DEF c2

LEMMA WithoutFacts ==
  ASSUME NEW cl \in Clusters, NEW k
  PROVE  LET c2 == Without(cl, k)
         IN  /\ c2 \in Clusters /\ DOMAIN c2 = DOMAIN cl \ {k}
             /\ \A j \in DOMAIN c2 : c2[j] = cl[j]
<1>1. cl \in [DOMAIN cl -> Cluster] /\ DOMAIN cl \subseteq Keys /\ IsFiniteSet(DOMAIN cl)
  BY ClustersElim
<1>2. Without(cl, k) \in [DOMAIN cl \ {k} -> Cluster]
  BY <1>1 DEF Without
<1>3. IsFiniteSet(DOMAIN cl \ {k}) /\ DOMAIN cl \ {k} \in SUBSET Keys
  BY <1>1, FS_RemoveElement
<1>4. Without(cl, k) \in Clusters
  BY <1>2, <1>3, ClustersIntro
<1> QED BY <1>4 DEF Without

LEMMA MarkFacts ==
  ASSUME NEW cl \in Clusters, NEW k \in DOMAIN cl
  PROVE  MarkAlerted(cl, k) \in Clusters /\ SameLines(MarkAlerted(cl, k), cl)
<1>1. cl \in [DOMAIN cl -> Cluster] /\ DOMAIN cl \subseteq Keys /\ IsFiniteSet(DOMAIN cl)
  BY ClustersElim
<1> DEFINE c == [cl[k] EXCEPT !.alerted = TRUE]
<1>2. c \in Cluster /\ c.lines = cl[k].lines
  BY <1>1 DEF Cluster
<1>3. MarkAlerted(cl, k) = [cl EXCEPT ![k] = c]
  BY DEF MarkAlerted
<1> HIDE DEF c
<1>4. MarkAlerted(cl, k) \in [DOMAIN cl -> Cluster]
  BY <1>1, <1>2, <1>3
<1>5. MarkAlerted(cl, k) \in Clusters
  BY <1>1, <1>4, ClustersIntro
<1> QED BY <1>1, <1>2, <1>3, <1>5 DEF SameLines

LEMMA TickFacts ==
  ASSUME NEW cl \in Clusters
  PROVE  TickClusters(cl) \in Clusters /\ SameLines(TickClusters(cl), cl)
<1>1. cl \in [DOMAIN cl -> Cluster] /\ DOMAIN cl \subseteq Keys /\ IsFiniteSet(DOMAIN cl)
  BY ClustersElim
<1>2. Window \in Nat /\ MaxAge \in Nat
  BY ClusterAssumption
<1> DEFINE aged(c) == [c EXCEPT !.age = IF @ > MaxAge THEN @ ELSE @ + 1,
                                !.quiet = IF @ > Window THEN @ ELSE @ + 1]
<1>3. ASSUME NEW c \in Cluster
      PROVE  aged(c) \in Cluster /\ aged(c).lines = c.lines
  <2> DEFINE a == IF c.age > MaxAge THEN c.age ELSE c.age + 1
             t == IF c.quiet > Window THEN c.quiet ELSE c.quiet + 1
  <2>1. a \in 0..(MaxAge + 1) /\ t \in 0..(Window + 1)
    BY <1>2 DEF Cluster
  <2>2. aged(c) = [c EXCEPT !.age = a, !.quiet = t]
    BY DEF Cluster
  <2> HIDE DEF a, t, aged
  <2>3. aged(c) = [[c EXCEPT !.age = a] EXCEPT !.quiet = t]
    BY <2>2
  <2>4. [c EXCEPT !.age = a] \in Cluster /\ [c EXCEPT !.age = a].lines = c.lines
    BY <2>1 DEF Cluster
  <2>5. \A d \in Cluster : [d EXCEPT !.quiet = t] \in Cluster
                          /\ [d EXCEPT !.quiet = t].lines = d.lines
    BY <2>1 DEF Cluster
  <2> QED BY <2>3, <2>4, <2>5
<1>4. TickClusters(cl) = [k \in DOMAIN cl |-> aged(cl[k])]
  BY DEF TickClusters
<1> HIDE DEF aged
<1>5. TickClusters(cl) \in [DOMAIN cl -> Cluster]
  BY <1>1, <1>3, <1>4
<1>6. TickClusters(cl) \in Clusters
  BY <1>1, <1>5, ClustersIntro
<1> QED BY <1>1, <1>3, <1>4, <1>6 DEF SameLines

\* Every method of the governor leaves its deadlines within their limits.
LEMMA GovernorFacts ==
  /\ NewGovernor \in Governor
  /\ \A g \in Governor :
       /\ NoteSendAttempt(g) \in Governor /\ NoteSuccess(g) \in Governor
       /\ TickGovernor(g) \in Governor
       /\ \A depth \in Nat : NoteBlocked(g, depth) \in Governor
       /\ \A s \in Nat : NoteRateLimited(g, s) \in Governor
<1>1. MinInterval \in Nat /\ MaxCooldown \in Nat \ {0}
  BY GovernorAssumption
<1>2. NewGovernor \in Governor
  BY <1>1 DEF NewGovernor, Governor
<1>3. ASSUME NEW g \in Governor
      PROVE  /\ NoteSendAttempt(g) \in Governor /\ NoteSuccess(g) \in Governor
             /\ TickGovernor(g) \in Governor
             /\ \A depth \in Nat : NoteBlocked(g, depth) \in Governor
             /\ \A s \in Nat : NoteRateLimited(g, s) \in Governor
  <2>1. NoteSendAttempt(g) \in Governor
    BY <1>1 DEF NoteSendAttempt, Governor
  <2>2. NoteSuccess(g) \in Governor
    BY <1>1 DEF NoteSuccess, Governor
  <2>3. TickGovernor(g) \in Governor
    <3> DEFINE i == IF g.interval > 0 THEN g.interval - 1 ELSE 0
               c == IF g.cooldown > 0 THEN g.cooldown - 1 ELSE 0
    <3>1. i \in 0..MinInterval /\ c \in 0..MaxCooldown
      BY <1>1 DEF Governor
    <3>2. TickGovernor(g) = [[g EXCEPT !.interval = i] EXCEPT !.cooldown = c]
      BY DEF TickGovernor, Governor
    <3> HIDE DEF i, c
    <3>3. [g EXCEPT !.interval = i] \in Governor
      BY <3>1 DEF Governor
    <3>4. \A h \in Governor : [h EXCEPT !.cooldown = c] \in Governor
      BY <3>1 DEF Governor
    <3> QED BY <3>2, <3>3, <3>4
  <2>4. \A depth \in Nat : NoteBlocked(g, depth) \in Governor
    BY <1>1 DEF NoteBlocked, Governor
  <2>5. ASSUME NEW s \in Nat
        PROVE  NoteRateLimited(g, s) \in Governor
    <3> DEFINE c == IF s > MaxCooldown THEN MaxCooldown ELSE IF s < 1 THEN 1 ELSE s
    <3>1. c \in 0..MaxCooldown
      BY <1>1
    <3>2. NoteRateLimited(g, s) = [[g EXCEPT !.cooldown = c] EXCEPT !.degraded = TRUE]
      BY DEF NoteRateLimited
    <3> HIDE DEF c
    <3>3. [g EXCEPT !.cooldown = c] \in Governor
      BY <3>1 DEF Governor
    <3>4. \A h \in Governor : [h EXCEPT !.degraded = TRUE] \in Governor
      BY DEF Governor
    <3> QED BY <3>2, <3>3, <3>4
  <2> QED BY <2>1, <2>2, <2>3, <2>4, <2>5
<1> QED BY <1>2, <1>3

\* A set of numbers has a least one.
LEMMA Least ==
  ASSUME NEW T \in SUBSET Nat, T # {}
  PROVE  \E x \in T : \A y \in T : x <= y
<1> DEFINE R == OpToRel(<, Nat)
<1>1. IsWellFoundedOn(R, Nat)
  BY NatLessThanWellFounded
<1>2. \A m, n \in Nat : m < n => <<m, n>> \in R
  BY DEF OpToRel
<1> HIDE DEF R
<1>3. PICK x \in T : \A y \in T : ~(<<y, x>> \in R)
  BY <1>1, WFMin, Zenon
<1>4. \A y \in T : ~(y < x)
  BY <1>2, <1>3
<1> QED BY <1>4

\* When evict_overflow has nothing to evict, the bound holds: over it, the
\* cluster that has been quiet for longest is evicted.
LEMMA NoOverflow ==
  ASSUME NEW cl \in Clusters, OverflowKeys(cl) = {}
  PROVE  Cardinality(DOMAIN cl) <= MaxActive
<1>1. cl \in [DOMAIN cl -> Cluster] /\ IsFiniteSet(DOMAIN cl)
  BY ClustersElim
<1>2. Cardinality(DOMAIN cl) \in Nat /\ MaxActive \in Nat /\ MaxActive > 0 /\ Window \in Nat
  BY <1>1, FS_CardinalityType, ClusterAssumption
<1> SUFFICES ASSUME Cardinality(DOMAIN cl) > MaxActive PROVE FALSE
  BY <1>2
<1>3. DOMAIN cl # {}
  BY <1>1, <1>2, FS_EmptySet
<1> DEFINE T == {Window + 1 - cl[k].quiet : k \in DOMAIN cl}
<1>4. \A k \in DOMAIN cl : cl[k].quiet \in 0..(Window + 1)
  BY <1>1 DEF Cluster
<1>5. T \in SUBSET Nat /\ T # {}
  BY <1>2, <1>3, <1>4
<1>6. PICK x \in T : \A y \in T : x <= y
  <2> HIDE DEF T
  <2> QED BY <1>5, Least
<1>7. PICK k \in DOMAIN cl : x = Window + 1 - cl[k].quiet
  OBVIOUS
<1>8. \A j \in DOMAIN cl : cl[j].quiet <= cl[k].quiet
  <2> SUFFICES ASSUME NEW j \in DOMAIN cl PROVE cl[j].quiet <= cl[k].quiet
    OBVIOUS
  <2>1. Window + 1 - cl[k].quiet <= Window + 1 - cl[j].quiet
    BY <1>6, <1>7
  <2> QED BY <1>2, <1>4, <2>1
<1>9. k \in OverflowKeys(cl)
  BY <1>8 DEF OverflowKeys
<1> QED BY <1>9

-----------------------------------------------------------------------------
(* queue_line.                                                             *)

LEMMA IdsTyped ==
  ASSUME log \in Seq(Line), NEW n \in 1..Len(log)
  PROVE  /\ log[n] \in Line /\ n \in Nat
         /\ LineId(n) \in Item /\ AlertId(n) \in Item
<1>1. log[n] \in Line /\ n \in Nat /\ {n} \in SUBSET Nat
  OBVIOUS
<1>2. log[n].key \in Keys \cup {Garbage}
  BY <1>1 DEF Line
<1> QED BY <1>1, <1>2 DEF LineId, AlertId, Item

\* The state with the line in its clusters.
Absorbed(st, st2, k, n, cl) ==
  /\ st2 \in State /\ Within(st2)
  /\ st2.offset = st.offset /\ st2.awaiting = st.awaiting /\ st2.pending = st.pending
  /\ st2.clusters = Observe(cl, k, n)
  /\ Known(st2) \subseteq Known(st) \cup {LineId(n)}

LEMMA QueueLineFacts ==
  ASSUME state \in State, Within(state), active \in Clusters,
         log \in Seq(Line), NEW n \in 1..Len(log)
  PROVE  LET q == QueueLine(n)
             k == log[n].key
         IN  \/ /\ LineId(n) \in Elements(state.seen)
                /\ q.state = state /\ q.active = active /\ q.displaced = {}
             \/ /\ k = Garbage /\ q.active = active /\ q.displaced = {}
                /\ q.state \in State /\ Within(q.state)
                /\ q.state.offset = state.offset /\ q.state.awaiting = state.awaiting
                /\ q.state.pending = state.pending /\ q.state.clusters = state.clusters
                /\ Known(q.state) \subseteq Known(state) \cup {LineId(n)}
             \/ /\ k \in Keys
                /\ \E mid \in State :
                     /\ Absorbed(state, mid, k, n, active)
                     /\ \/ /\ q.state = mid /\ q.active = Observe(active, k, n)
                           /\ q.displaced = {}
                        \/ /\ q.state = EnqueuePending(mid, AlertId(n), "legacy")
                           /\ q.active = MarkAlerted(Observe(active, k, n), k)
                           /\ q.displaced = Elements(Displaced(mid, AlertId(n), "legacy"))
<1> DEFINE k == log[n].key
           s == AppendBounded(state.seen, <<LineId(n)>>, MaxSeen)
           seen == [state EXCEPT !.seen = s]
           after == Observe(active, k, n)
           absorbed == [seen EXCEPT !.clusters = after]
           alerts == AlertsEnabled /\ log[n].priority /\ ~after[k].alerted
           q == QueueLine(n)
<1>1. LineId(n) \in Item /\ n \in Nat /\ k \in Keys \cup {Garbage}
  BY IdsTyped DEF Line
<1>2. <<LineId(n)>> \in Seq(Item) /\ Elements(<<LineId(n)>>) = {LineId(n)}
  BY <1>1 DEF Elements
<1>3. /\ s \in Seq(Item) /\ Len(s) <= MaxSeen
      /\ Elements(s) \subseteq Elements(state.seen) \cup {LineId(n)}
  BY <1>2, MonitorAssumption, StateFields, AppendBoundedFacts
<1>4. q = IF LineId(n) \in Elements(state.seen)
          THEN [state |-> state, active |-> active, displaced |-> {}]
          ELSE IF k = Garbage
          THEN [state |-> seen, active |-> active, displaced |-> {}]
          ELSE [state |-> IF alerts THEN EnqueuePending(absorbed, AlertId(n), "legacy")
                          ELSE absorbed,
                active |-> IF alerts THEN MarkAlerted(after, k) ELSE after,
                displaced |-> IF alerts
                              THEN Elements(Displaced(absorbed, AlertId(n), "legacy"))
                              ELSE {}]
  BY DEF QueueLine
<1> HIDE DEF s, q
<1>5. /\ seen \in State /\ seen.offset = state.offset /\ seen.clusters = state.clusters
      /\ seen.awaiting = state.awaiting /\ seen.pending = state.pending
      /\ seen.seen = s /\ seen.dead = state.dead
  BY <1>3, StateWith, FieldsOf
<1> HIDE DEF seen
<1>6. Known(seen) \subseteq Known(state) \cup {LineId(n)} /\ Within(seen)
  BY <1>3, <1>5 DEF Known, Within
<1>7. CASE LineId(n) \in Elements(state.seen)
  BY <1>4, <1>7 DEF q
<1>8. CASE LineId(n) \notin Elements(state.seen) /\ k = Garbage
  <2>1. q.state = seen /\ q.active = active /\ q.displaced = {}
    BY <1>4, <1>8
  <2> QED BY <1>5, <1>6, <1>8, <2>1 DEF q
<1>9. CASE LineId(n) \notin Elements(state.seen) /\ k # Garbage
  <2>1. k \in Keys
    BY <1>1, <1>9
  <2> HIDE DEF k
  <2>2. after \in Clusters
    BY <1>1, <2>1, ObserveFacts
  <2> HIDE DEF after
  <2>3. /\ absorbed \in State /\ absorbed.offset = seen.offset /\ absorbed.clusters = after
        /\ absorbed.awaiting = seen.awaiting /\ absorbed.pending = seen.pending
        /\ absorbed.seen = seen.seen /\ absorbed.dead = seen.dead
    BY <1>5, <2>2, StateWith, FieldsOf
  <2> HIDE DEF absorbed
  <2>4. Known(absorbed) = Known(seen) /\ Within(absorbed)
    BY <1>6, <2>3 DEF Known, Within
  <2>5. Absorbed(state, absorbed, k, n, active)
    BY <1>5, <1>6, <2>3, <2>4 DEF Absorbed, after
  <2>6. CASE alerts
    <3>1. /\ q.state = EnqueuePending(absorbed, AlertId(n), "legacy")
          /\ q.active = MarkAlerted(after, k)
          /\ q.displaced = Elements(Displaced(absorbed, AlertId(n), "legacy"))
      BY <1>4, <1>9, <2>6
    <3> HIDE DEF alerts
    <3> QED BY <2>1, <2>3, <2>5, <3>1 DEF q, after, k
  <2>7. CASE ~alerts
    <3>1. q.state = absorbed /\ q.active = after /\ q.displaced = {}
      BY <1>4, <1>9, <2>7
    <3> HIDE DEF alerts
    <3> QED BY <2>1, <2>3, <2>5, <3>1 DEF q, after, k
  <2> QED BY <2>6, <2>7
<1> QED BY <1>7, <1>8, <1>9

-----------------------------------------------------------------------------
(* The types and the limits.                                               *)

Places == {"down", "recover", "idle", "consume", "flush", "complete"} \cup Draining

\* While a POST is under way its item is the head of the queue being drained.
RequestSound ==
  request # NoRequest =>
    /\ pc \in Draining
    /\ state.pending[Channel] # <<>>
    /\ request.item = Head(state.pending[Channel])
    /\ request.answer \in Answers

TypeInv ==
  /\ log \in Seq(Line)
  /\ state \in State /\ Within(state)
  /\ disk \in State /\ Within(disk)
  /\ active \in Clusters
  /\ jobs \subseteq Item /\ IsFiniteSet(jobs) /\ Cardinality(jobs) <= MaxInflight
  /\ results \in Seq(Item)
  /\ governor \in [Channels -> Governor]
  /\ pc \in Places
  /\ dirty \in BOOLEAN
  /\ request \in [item : Item, answer : Answers \cup {"none"}] /\ RequestSound
  /\ accepted \in Seq(Item)
  /\ abandoned \subseteq Item
  /\ faults \in Nat
  /\ pc = "complete" => Cardinality(DOMAIN active) <= MaxActive

LEMMA TypeInvImplies ==
  ASSUME TypeInv
  PROVE  TypeOK /\ Bounded
<1>1. \A st \in State : IsState(st)
  BY ClustersElim, StateFields DEF IsState, Letter
<1>2. IsClusters(active)
  BY ClustersElim DEF TypeInv
<1>3. TypeOK
  BY <1>1, <1>2 DEF TypeInv, TypeOK, Places
<1>4. Bounded
  BY DEF TypeInv, Bounded, Within
<1> QED BY <1>3, <1>4

LEMMA DefaultTyped == DefaultState \in State /\ Within(DefaultState)
<1> DEFINE cl == [k \in {} |-> NewCluster]
           p == [c \in Channels |-> <<>>]
<1>1. cl \in Clusters
  <2>1. cl \in [{} -> Cluster] /\ {} \in SUBSET Keys /\ IsFiniteSet({})
    BY FS_EmptySet
  <2> HIDE DEF cl
  <2> QED BY <2>1, ClustersIntro
<1>2. p \in [Channels -> Seq(Item)] /\ \A c \in Channels : Len(p[c]) = 0
  OBVIOUS
<1>3. MaxSeen \in Nat /\ MaxDead \in Nat /\ MaxPending \in Nat
  BY MonitorAssumption
<1>4. DefaultState = [offset |-> 0, seen |-> <<>>, clusters |-> cl, awaiting |-> {},
                      pending |-> p, dead |-> <<>>, replaySuppressed |-> 0]
  BY DEF DefaultState
<1> HIDE DEF cl, p
<1>5. DefaultState \in State
  BY <1>1, <1>2, <1>4 DEF State
<1>6. /\ DefaultState.seen = <<>> /\ DefaultState.dead = <<>> /\ DefaultState.pending = p
  BY <1>4
<1>7. Within(DefaultState)
  BY <1>2, <1>3, <1>6 DEF Within
<1> QED BY <1>5, <1>7

LEMMA RequestTyped ==
  NoRequest \in [item : Item, answer : Answers \cup {"none"}] /\ NoRequest.answer = "none"
<1>1. [type |-> "line", key |-> Garbage, lines |-> {}] \in Item
  BY DEF Item
<1> QED BY <1>1 DEF NoRequest

LEMMA InitTyped == Init => TypeInv
<1> SUFFICES ASSUME Init PROVE TypeInv
  OBVIOUS
<1>1. state \in State /\ Within(state) /\ disk \in State /\ Within(disk)
  BY DefaultTyped DEF Init
<1>2. active \in Clusters
  BY DefaultTyped, StateFields DEF Init
<1>3. jobs \subseteq Item /\ IsFiniteSet(jobs) /\ Cardinality(jobs) <= MaxInflight
  BY FS_EmptySet, MonitorAssumption DEF Init
<1>4. governor \in [Channels -> Governor]
  BY GovernorFacts DEF Init
<1>5. request \in [item : Item, answer : Answers \cup {"none"}] /\ RequestSound
  BY RequestTyped DEF Init, RequestSound
<1>6. pc = "down" /\ pc \in Places
  BY DEF Init, Places
<1>7. log \in Seq(Line) /\ results \in Seq(Item) /\ accepted \in Seq(Item)
  BY DEF Init
<1>8. dirty \in BOOLEAN /\ abandoned \subseteq Item /\ faults \in Nat
  BY DEF Init
<1> QED BY <1>1, <1>2, <1>3, <1>4, <1>5, <1>6, <1>7, <1>8 DEF TypeInv

-----------------------------------------------------------------------------
(* The types are kept, action by action.                                   *)

LEMMA LogLineTyped ==
  ASSUME TypeInv, LogLine
  PROVE  TypeInv'
<1>1. log' \in Seq(Line)
  BY DEF TypeInv, LogLine
<1>2. RequestSound'
  BY DEF TypeInv, LogLine, memVars, RequestSound, Channel
<1> QED BY <1>1, <1>2 DEF TypeInv, LogLine, memVars, netVars

LEMMA TickTyped ==
  ASSUME TypeInv, Tick
  PROVE  TypeInv'
<1>1. active' \in Clusters /\ DOMAIN active' = DOMAIN active
  BY TickFacts DEF TypeInv, Tick, SameLines
<1>2. ASSUME NEW st \in State, Within(st)
      PROVE  LET st2 == [st EXCEPT !.clusters = TickClusters(@)]
             IN  st2 \in State /\ Within(st2) /\ st2.pending = st.pending
  <2> DEFINE c == TickClusters(st.clusters)
  <2>1. c \in Clusters
    BY StateFields, TickFacts
  <2> HIDE DEF c
  <2>2. [st EXCEPT !.clusters = c] \in State /\ Within([st EXCEPT !.clusters = c])
        /\ [st EXCEPT !.clusters = c].pending = st.pending
    BY <1>2, <2>1, StateWith, FieldsOf DEF Within
  <2> QED BY <2>2 DEF c
<1>3. /\ state' \in State /\ Within(state)' /\ state'.pending = state.pending
      /\ disk' \in State /\ Within(disk)'
  BY <1>2 DEF TypeInv, Tick
<1>4. governor' \in [Channels -> Governor]
  BY GovernorFacts DEF TypeInv, Tick
<1>5. RequestSound'
  BY <1>3 DEF TypeInv, Tick, RequestSound, Channel
<1> QED BY <1>1, <1>3, <1>4, <1>5 DEF TypeInv, Tick, netVars

LEMMA StartTyped ==
  ASSUME TypeInv, Start
  PROVE  TypeInv'
<1>1. state' \in State /\ Within(state)'
  BY LoadFacts DEF TypeInv, Start
<1>2. active' \in Clusters
  BY StateFields DEF TypeInv, Start
<1>3. governor' \in [Channels -> Governor]
  BY GovernorFacts DEF Start
<1>4. abandoned' \subseteq Item
  <2>1. \A c \in Channels : Elements(disk.pending[c]) \subseteq Item
    BY StateFields, ElementsOf DEF TypeInv
  <2> QED BY <2>1 DEF TypeInv, Start, Abandon
<1>5. pc' = "recover" /\ pc' \in Places /\ pc \notin Draining
  BY DEF Start, Places, Draining
<1>6. RequestSound'
  BY <1>5 DEF TypeInv, Start, RequestSound
<1> QED BY <1>1, <1>2, <1>3, <1>4, <1>5, <1>6 DEF TypeInv, Start

\* A summary that is queued, and what it displaces.
LEMMA EnqueueSummaryTyped ==
  ASSUME NEW st \in State, Within(st), NEW item \in Item
  PROVE  /\ EnqueueSummary(st, item) \in State /\ Within(EnqueueSummary(st, item))
         /\ \A c \in Channels : Elements(Displaced(st, item, c)) \subseteq Item
<1>1. EnqueueSummary(st, item) \in State /\ Within(EnqueueSummary(st, item))
  BY SummaryFacts
<1>2. ASSUME NEW c \in Channels
      PROVE  Elements(Displaced(st, item, c)) \subseteq Item
  <2>1. st.pending[c] \in Seq(Item)
    BY StateFields
  <2>2. MaxPending \in Nat /\ MaxPending > 0
    BY MonitorAssumption
  <2>3. CASE Displaced(st, item, c) = <<>>
    BY <2>3 DEF Elements
  <2>4. CASE Displaced(st, item, c) # <<>>
    <3>1. Displaced(st, item, c) = <<Head(st.pending[c])>> /\ Len(st.pending[c]) >= MaxPending
      BY <2>4 DEF Displaced
    <3>2. Head(st.pending[c]) \in Item
      BY <2>1, <2>2, <3>1
    <3> QED BY <3>1, <3>2 DEF Elements
  <2> QED BY <2>3, <2>4
<1> QED BY <1>1, <1>2

LEMMA RecoverOneTyped ==
  ASSUME TypeInv, RecoverOne
  PROVE  TypeInv'
<1>1. PICK item \in state.awaiting :
        /\ state' = EnqueueSummary(state, item)
        /\ Abandon(Elements(Displaced(state, item, "intel")))
  BY DEF RecoverOne
<1>2. item \in Item /\ "intel" \in Channels
  BY StateFields DEF TypeInv, Channels
<1>3. state' \in State /\ Within(state)' /\ abandoned' \subseteq Item
  BY <1>1, <1>2, EnqueueSummaryTyped DEF TypeInv, Abandon
<1>4. pc = "recover" /\ pc \notin Draining
  BY DEF RecoverOne, Draining
<1>5. RequestSound'
  BY <1>4 DEF TypeInv, RecoverOne, RequestSound
<1> QED BY <1>3, <1>4, <1>5 DEF TypeInv, RecoverOne

\* A save, or not, of an unchanged state outside a drain.
LEMMA LoopEndTyped ==
  ASSUME TypeInv, state' \in State, Within(state)', pc \notin Draining,
         disk' \in {disk, state'}, pc' \in Places, faults' \in Nat, dirty' = FALSE,
         pc' = "complete" => Cardinality(DOMAIN active) <= MaxActive,
         UNCHANGED <<log, active, jobs, results, governor, request, netVars>>
  PROVE  TypeInv'
<1>1. request = NoRequest
  BY DEF TypeInv, RequestSound
<1>2. RequestSound'
  BY <1>1 DEF RequestSound
<1>3. disk' \in State /\ Within(disk)'
  BY DEF TypeInv, Within
<1> QED BY <1>2, <1>3 DEF TypeInv, netVars

LEMMA RecoverDoneTyped ==
  ASSUME TypeInv, RecoverDone
  PROVE  TypeInv'
<1>1. pc = "recover" /\ pc \notin Draining
  BY DEF RecoverDone, Draining
<1>2. pc' \in {"idle", "down"} /\ disk' \in {disk, state'} /\ faults' \in Nat
  BY DEF TypeInv, RecoverDone, SaveState, Raises
<1>3. pc' \in Places /\ pc' # "complete"
  BY <1>2 DEF Places
<1>4. state' = state
  BY DEF RecoverDone
<1> QED BY <1>1, <1>2, <1>3, <1>4, LoopEndTyped DEF TypeInv, RecoverDone

LEMMA BeginPollTyped ==
  ASSUME TypeInv, BeginPoll
  PROVE  TypeInv'
<1>1. pc' = "consume" /\ pc' \in Places /\ pc \notin Draining
  BY DEF BeginPoll, Places, Draining
<1>2. RequestSound'
  BY <1>1 DEF TypeInv, BeginPoll, memVars, RequestSound
<1> QED BY <1>1, <1>2 DEF TypeInv, BeginPoll, memVars, netVars

LEMMA ConsumeDoneTyped ==
  ASSUME TypeInv, ConsumeDone
  PROVE  TypeInv'
<1>1. pc' = "flush" /\ pc' \in Places /\ pc \notin Draining
  BY DEF ConsumeDone, Places, Draining
<1>2. RequestSound'
  BY <1>1 DEF TypeInv, ConsumeDone, memVars, RequestSound
<1> QED BY <1>1, <1>2 DEF TypeInv, ConsumeDone, memVars, netVars

LEMMA ConsumeLineTyped ==
  ASSUME TypeInv, ConsumeLine
  PROVE  TypeInv'
<1> DEFINE n == state.offset + 1
           k == log[n].key
           q == QueueLine(n)
<1>1. pc = "consume" /\ state.offset < Len(log) /\ log \in Seq(Line)
      /\ state \in State /\ Within(state) /\ active \in Clusters
  BY DEF TypeInv, ConsumeLine
<1>2. state.offset \in Nat /\ n \in 1..Len(log)
  BY <1>1, StateFields
<1>3. /\ state' = [q.state EXCEPT !.offset = n]
      /\ active' = q.active /\ abandoned' = abandoned \cup q.displaced
  <2>1. /\ state' = [q.state EXCEPT !.offset = @ + 1]
        /\ active' = q.active /\ abandoned' = abandoned \cup q.displaced
    BY DEF ConsumeLine, Abandon
  <2>2. q.state \in State /\ q.state.offset = state.offset
    <3> HIDE DEF q, n
    <3>1. q.state \in State /\ q.state.offset = state.offset
      <4>1. \A mid \in State : Within(mid) =>
              /\ EnqueuePending(mid, AlertId(n), "legacy") \in State
              /\ EnqueuePending(mid, AlertId(n), "legacy").offset = mid.offset
        BY <1>1, <1>2, IdsTyped, EnqueueFacts, EnqueueSame DEF Channels
      <4> QED BY <1>1, <1>2, <4>1, QueueLineFacts DEF q, Absorbed
    <3> QED BY <3>1
  <2> QED BY <2>1, <2>2
<1>4. q.state \in State /\ Within(q.state) /\ q.active \in Clusters /\ q.displaced \subseteq Item
  <2> HIDE DEF n
  <2>1. AlertId(n) \in Item /\ n \in Nat /\ "legacy" \in Channels
    BY <1>1, <1>2, IdsTyped DEF Channels
  <2>2. ASSUME NEW mid \in State, Within(mid)
        PROVE  /\ EnqueuePending(mid, AlertId(n), "legacy") \in State
               /\ Within(EnqueuePending(mid, AlertId(n), "legacy"))
               /\ Elements(Displaced(mid, AlertId(n), "legacy")) \subseteq Item
    BY <2>1, <2>2, EnqueueFacts, EnqueueSummaryTyped
  <2>3. ASSUME k \in Keys
        PROVE  /\ Observe(active, k, n) \in Clusters
               /\ MarkAlerted(Observe(active, k, n), k) \in Clusters
    <3> HIDE DEF k
    <3> DEFINE c2 == Observe(active, k, n)
    <3>1. /\ c2 \in Clusters /\ DOMAIN c2 = DOMAIN active \cup {k}
      BY <1>1, <2>1, <2>3, ObserveFacts, Zenon
    <3> HIDE DEF c2
    <3> QED BY <3>1, MarkFacts DEF c2
  <2> HIDE DEF q
  <2> QED BY <1>1, <1>2, <2>2, <2>3, QueueLineFacts DEF q, Absorbed
<1> HIDE DEF q, n
<1>5. state' \in State /\ Within(state)'
  <2>1. n \in Nat
    BY <1>2
  <2> QED BY <1>3, <1>4, <2>1, StateWith, FieldsOf DEF Within
<1>6. pc' \in {"drainLine", "idle"} /\ disk' \in {disk, state'} /\ faults' \in Nat
  BY DEF TypeInv, ConsumeLine, SaveState, Raises
<1>7. pc' \in Places /\ pc' # "complete" /\ pc \notin Draining
  BY <1>1, <1>6 DEF Places, Draining
<1>8. disk' \in State /\ Within(disk)'
  BY <1>5, <1>6 DEF TypeInv, Within
<1>9. RequestSound'
  BY <1>7 DEF TypeInv, ConsumeLine, RequestSound
<1> QED BY <1>3, <1>4, <1>5, <1>6, <1>7, <1>8, <1>9 DEF TypeInv, ConsumeLine

\* The summary of a cluster.
LEMMA SummaryIdTyped ==
  ASSUME NEW cl \in Clusters, NEW k \in DOMAIN cl
  PROVE  SummaryId(k, cl[k]) \in Item
<1>1. k \in Keys /\ cl[k].lines \in SUBSET Nat
  BY ClustersElim DEF Cluster
<1> QED BY <1>1 DEF SummaryId, Item

LEMMA FlushOneTyped ==
  ASSUME TypeInv, FlushOne
  PROVE  TypeInv'
<1>1. PICK k \in DOMAIN active :
        LET item == SummaryId(k, active[k])
            flushed == [state EXCEPT !.awaiting = @ \cup {item}]
        IN  /\ active' = Without(active, k)
            /\ \/ /\ Cardinality(jobs) < MaxInflight
                  /\ jobs' = jobs \cup {item}
                  /\ state' = flushed
                  /\ Abandon({})
               \/ /\ Cardinality(jobs) >= MaxInflight
                  /\ state' = EnqueueSummary(flushed, item)
                  /\ Abandon(Elements(Displaced(flushed, item, "intel")))
                  /\ UNCHANGED jobs
  BY DEF FlushOne, ExpiredKeys, OverflowKeys
<1> DEFINE item == SummaryId(k, active[k])
           aw == state.awaiting \cup {item}
           flushed == [state EXCEPT !.awaiting = aw]
<1>2. item \in Item
  BY SummaryIdTyped DEF TypeInv
<1>3. active' \in Clusters
  BY <1>1, WithoutFacts DEF TypeInv
<1>4. flushed \in State /\ Within(flushed)
  <2>1. aw \in SUBSET Item
    BY <1>2, StateFields DEF TypeInv
  <2> HIDE DEF aw
  <2>2. state \in State /\ Within(state)
    BY DEF TypeInv
  <2>3. flushed \in State /\ flushed.seen = state.seen /\ flushed.dead = state.dead
        /\ flushed.pending = state.pending
    BY <2>1, <2>2, StateWith, FieldsOf
  <2> QED BY <2>2, <2>3 DEF Within
<1>5. /\ EnqueueSummary(flushed, item) \in State /\ Within(EnqueueSummary(flushed, item))
      /\ Elements(Displaced(flushed, item, "intel")) \subseteq Item
  <2> HIDE DEF flushed, item
  <2> QED BY <1>2, <1>4, EnqueueSummaryTyped DEF Channels
<1>6. /\ state' \in State /\ Within(state)' /\ abandoned' \subseteq Item
      /\ jobs' \subseteq Item /\ IsFiniteSet(jobs') /\ Cardinality(jobs') <= MaxInflight
  <2>1. CASE /\ Cardinality(jobs) < MaxInflight
             /\ jobs' = jobs \cup {item}
             /\ state' = flushed
             /\ Abandon({})
    <3>1. IsFiniteSet(jobs') /\ Cardinality(jobs') <= Cardinality(jobs) + 1
          /\ Cardinality(jobs) \in Nat /\ Cardinality(jobs') \in Nat
      <4> HIDE DEF item
      <4>1. IsFiniteSet(jobs) /\ Cardinality(jobs) \in Nat /\ jobs' = jobs \cup {item}
        BY <2>1, FS_CardinalityType DEF TypeInv
      <4>2. /\ IsFiniteSet(jobs \cup {item})
            /\ \/ Cardinality(jobs \cup {item}) = Cardinality(jobs)
               \/ Cardinality(jobs \cup {item}) = Cardinality(jobs) + 1
        BY <4>1, FS_AddElement
      <4> QED BY <4>1, <4>2
    <3>2. Cardinality(jobs') <= MaxInflight
      BY <2>1, <3>1, MonitorAssumption
    <3>3. state' \in State /\ Within(state)'
      BY <1>4, <2>1 DEF Within
    <3> QED BY <1>2, <2>1, <3>1, <3>2, <3>3 DEF TypeInv, Abandon
  <2>2. CASE /\ state' = EnqueueSummary(flushed, item)
             /\ Abandon(Elements(Displaced(flushed, item, "intel")))
             /\ UNCHANGED jobs
    <3>1. state' \in State /\ Within(state)'
      BY <1>5, <2>2 DEF Within
    <3> QED BY <1>5, <2>2, <3>1 DEF TypeInv, Abandon
  <2> QED BY <1>1, <2>1, <2>2
<1>7. pc = "flush" /\ pc \notin Draining /\ pc' = pc
  BY DEF FlushOne, Draining
<1>8. RequestSound'
  BY <1>7 DEF TypeInv, FlushOne, RequestSound
<1> QED BY <1>3, <1>6, <1>7, <1>8 DEF TypeInv, FlushOne

LEMMA FlushDoneTyped ==
  ASSUME TypeInv, FlushDone
  PROVE  TypeInv'
<1>1. pc = "flush" /\ pc \notin Draining
  BY DEF FlushDone, Draining
<1>2. pc' \in {"complete", "idle"} /\ disk' \in {disk, state'} /\ faults' \in Nat
  BY DEF TypeInv, FlushDone, SaveState, Raises
<1>3. pc' \in Places
  BY <1>2 DEF Places
<1>4. Cardinality(DOMAIN active) <= MaxActive
  BY NoOverflow DEF TypeInv, FlushDone
<1>5. state' \in State /\ Within(state)'
  <2>1. state' \in {state, [state EXCEPT !.clusters = active]}
    BY DEF FlushDone
  <2>2. [state EXCEPT !.clusters = active] \in State
    BY StateWith DEF TypeInv
  <2>3. Within([state EXCEPT !.clusters = active])
    BY FieldsOf DEF TypeInv, Within
  <2> QED BY <2>1, <2>2, <2>3 DEF TypeInv, Within
<1> QED BY <1>1, <1>2, <1>3, <1>4, <1>5, LoopEndTyped DEF FlushDone

LEMMA CompleteOneTyped ==
  ASSUME TypeInv, CompleteOne
  PROVE  TypeInv'
<1> DEFINE item == Head(results)
<1>1. item \in Item /\ results' \in Seq(Item)
  BY DEF TypeInv, CompleteOne
<1>2. state' \in State /\ Within(state)' /\ abandoned' \subseteq Item
  <2>1. CASE /\ state' = EnqueueSummary(state, item)
             /\ Abandon(Elements(Displaced(state, item, "intel")))
    <3> HIDE DEF item
    <3> QED BY <1>1, <2>1, EnqueueSummaryTyped DEF TypeInv, Abandon, Channels
  <2>2. CASE Abandon({}) /\ UNCHANGED state
    BY <2>2 DEF TypeInv, Abandon
  <2> QED BY <2>1, <2>2 DEF CompleteOne
<1>3. pc = "complete" /\ pc \notin Draining
  BY DEF CompleteOne, Draining
<1>4. RequestSound'
  BY <1>3 DEF TypeInv, CompleteOne, RequestSound
<1> QED BY <1>1, <1>2, <1>3, <1>4 DEF TypeInv, CompleteOne

LEMMA CompleteDoneTyped ==
  ASSUME TypeInv, CompleteDone
  PROVE  TypeInv'
<1>1. pc = "complete" /\ pc \notin Draining
  BY DEF CompleteDone, Draining
<1>2. pc' \in {"drainLegacy", "idle"} /\ disk' \in {disk, state'} /\ faults' \in Nat
  BY DEF TypeInv, CompleteDone, SaveState, Raises
<1>3. pc' \in Places /\ pc' # "complete"
  BY <1>2 DEF Places, Draining
<1>4. state' = state
  BY DEF CompleteDone
<1> QED BY <1>1, <1>2, <1>3, <1>4, LoopEndTyped DEF TypeInv, CompleteDone

LEMMA WorkerFinishesTyped ==
  ASSUME TypeInv, WorkerFinishes
  PROVE  TypeInv'
<1>1. PICK item \in jobs : jobs' = jobs \ {item} /\ results' = Append(results, item)
  BY DEF WorkerFinishes
<1>2. item \in Item /\ results' \in Seq(Item)
  BY <1>1 DEF TypeInv
<1>3. jobs' \subseteq Item /\ IsFiniteSet(jobs') /\ Cardinality(jobs') <= MaxInflight
  <2>1. IsFiniteSet(jobs') /\ Cardinality(jobs') = Cardinality(jobs) - 1
        /\ Cardinality(jobs) \in Nat
    BY <1>1, FS_RemoveElement, FS_CardinalityType DEF TypeInv
  <2> QED BY <1>1, <2>1, MonitorAssumption DEF TypeInv
<1>4. RequestSound'
  BY DEF TypeInv, WorkerFinishes, RequestSound, Channel
<1> QED BY <1>2, <1>3, <1>4 DEF TypeInv, WorkerFinishes, netVars

\* Where a drain returns to.
LEMMA AfterDrainPlace ==
  ASSUME pc \in Draining
  PROVE  AfterDrain \in Places /\ AfterDrain # "complete" /\ AfterDrain # "down"
         /\ Channel \in Channels
BY DEF AfterDrain, Places, Draining, Channel, Channels

LEMMA DrainReturnsTyped ==
  ASSUME TypeInv, DrainReturns
  PROVE  TypeInv'
<1>1. pc' \in Places /\ pc' # "complete" /\ Channel \in Channels
  BY AfterDrainPlace DEF DrainReturns
<1>2. governor' \in [Channels -> Governor]
  <2>1. governor' \in {governor,
          [governor EXCEPT ![Channel] = NoteBlocked(@, Len(state.pending[Channel]))]}
    BY DEF DrainReturns
  <2>2. Len(state.pending[Channel]) \in Nat
    BY <1>1, StateFields DEF TypeInv
  <2>3. governor[Channel] \in Governor
    BY <1>1 DEF TypeInv
  <2>4. NoteBlocked(governor[Channel], Len(state.pending[Channel])) \in Governor
    BY <2>2, <2>3, GovernorFacts
  <2> QED BY <1>1, <2>1, <2>4 DEF TypeInv
<1>3. RequestSound'
  BY DEF DrainReturns, RequestSound
<1> QED BY <1>1, <1>2, <1>3 DEF TypeInv, DrainReturns, netVars

LEMMA DrainWithoutCredentialTyped ==
  ASSUME TypeInv, DrainWithoutCredential
  PROVE  TypeInv'
<1>1. AfterDrain \in Places /\ AfterDrain # "complete" /\ Channel \in Channels
  BY AfterDrainPlace DEF DrainWithoutCredential
<1>2. state' \in State /\ Within(state)'
  <2> DEFINE ch == Channel
  <2>1. state' = [DeadLetter(state, state.pending[ch], "credential_unavailable") EXCEPT
                    !.pending[ch] = <<>>]
    BY DEF DrainWithoutCredential
  <2> HIDE DEF ch
  <2>2. ch \in Channels
    BY <1>1 DEF ch
  <2> QED BY <2>1, <2>2, DrainedFacts DEF TypeInv
<1>3. abandoned' \subseteq Item
  <2>1. state.pending[Channel] \in Seq(Item)
    BY <1>1, StateFields DEF TypeInv
  <2> QED BY <2>1, ElementsOf DEF TypeInv, DrainWithoutCredential, Abandon
<1>4. pc' \in {AfterDrain, "idle"} /\ disk' \in {disk, state'} /\ faults' \in Nat
  BY DEF TypeInv, DrainWithoutCredential, SaveState, Raises
<1>5. pc' \in Places /\ pc' # "complete"
  BY <1>1, <1>4 DEF Places
<1>6. disk' \in State /\ Within(disk)'
  BY <1>2, <1>4 DEF TypeInv, Within
<1>7. RequestSound'
  BY DEF DrainWithoutCredential, RequestSound
<1> QED BY <1>2, <1>3, <1>4, <1>5, <1>6, <1>7 DEF TypeInv, DrainWithoutCredential

LEMMA CredentialTimesOutTyped ==
  ASSUME TypeInv, CredentialTimesOut
  PROVE  TypeInv'
<1>1. pc' = "idle" /\ pc' \in Places /\ disk' = disk /\ faults' \in Nat
  BY DEF TypeInv, CredentialTimesOut, Raises, Places
<1>2. RequestSound'
  BY DEF CredentialTimesOut, RequestSound, memVars
<1> QED BY <1>1, <1>2 DEF TypeInv, CredentialTimesOut, memVars, netVars

LEMMA SendHeadTyped ==
  ASSUME TypeInv, SendHead
  PROVE  TypeInv'
<1> DEFINE item == Head(state.pending[Channel])
<1>1. Channel \in Channels /\ state.pending[Channel] # <<>>
  BY AfterDrainPlace DEF SendHead
<1>2. item \in Item
  <2>1. state.pending[Channel] \in Seq(Item)
    BY <1>1, StateFields DEF TypeInv
  <2> QED BY <1>1, <2>1
<1>3. governor' \in [Channels -> Governor]
  BY <1>1, GovernorFacts DEF TypeInv, SendHead
<1>4. CASE Raises("idle") /\ UNCHANGED <<request, accepted>>
  <2>1. pc' = "idle" /\ pc' \in Places /\ disk' = disk /\ faults' \in Nat
    BY <1>4 DEF TypeInv, Raises, Places
  <2>2. RequestSound'
    BY <1>4 DEF SendHead, RequestSound
  <2> QED BY <1>3, <1>4, <2>1, <2>2 DEF TypeInv, SendHead
<1>5. CASE \E answer \in Answers :
             /\ disk' = state
             /\ pc' = pc
             /\ request' = [item |-> item, answer |-> answer]
             /\ accepted' = IF answer \in {"ok", "lost"}
                            THEN Append(accepted, item) ELSE accepted
             /\ faults' \in {faults, faults + 1}
  <2>1. PICK answer \in Answers :
             /\ disk' = state
             /\ pc' = pc
             /\ request' = [item |-> item, answer |-> answer]
             /\ accepted' = IF answer \in {"ok", "lost"}
                            THEN Append(accepted, item) ELSE accepted
             /\ faults' \in {faults, faults + 1}
    BY <1>5
  <2>2. disk' \in State /\ Within(disk)' /\ faults' \in Nat
    BY <2>1 DEF TypeInv, Within
  <2>3. request' \in [item : Item, answer : Answers \cup {"none"}]
    BY <1>2, <2>1
  <2>4. accepted' \in Seq(Item)
    BY <1>2, <2>1 DEF TypeInv
  <2>5. RequestSound'
    BY <1>1, <2>1 DEF SendHead, RequestSound, Channel
  <2> HIDE DEF item
  <2>6. /\ UNCHANGED <<log, state, active, jobs, results, dirty, abandoned>>
        /\ pc \in Draining
    BY DEF SendHead
  <2>7. pc' # "complete" /\ pc' \in Places
    BY <2>1, <2>6 DEF Draining, Places
  <2> QED BY <1>3, <2>1, <2>2, <2>3, <2>4, <2>5, <2>6, <2>7 DEF TypeInv, Within
<1> QED BY <1>4, <1>5 DEF SendHead

\* After an answer the head is gone and no POST is under way.
LEMMA AnswerTyped ==
  ASSUME TypeInv, request.answer \in {"ok", "lost", "refused"},
         \/ state' = PopSeen(state, Channel)
         \/ state' = PopAbandoned(state, Channel),
         SaveState(pc, "idle"), governor' \in [Channels -> Governor], request' = NoRequest,
         abandoned' \subseteq Item, UNCHANGED <<log, active, jobs, results, dirty, accepted>>
  PROVE  TypeInv'
<1>1. request # NoRequest
  BY RequestTyped
<1>2. pc \in Draining /\ state.pending[Channel] # <<>> /\ Channel \in Channels
  BY <1>1, AfterDrainPlace DEF TypeInv, RequestSound
<1>3. state' \in State /\ Within(state)'
  <2> DEFINE ch == Channel
  <2>1. ch \in Channels /\ state.pending[ch] # <<>>
        /\ state' \in {PopSeen(state, ch), PopAbandoned(state, ch)}
    BY <1>2
  <2> HIDE DEF ch
  <2>2. state \in State /\ Within(state)
    BY DEF TypeInv
  <2>3. \A st2 \in {PopSeen(state, ch), PopAbandoned(state, ch)} : st2 \in State /\ Within(st2)
    BY <2>1, <2>2, PopFacts
  <2> QED BY <2>1, <2>3 DEF Within
<1>4. pc' \in {pc, "idle"} /\ disk' \in {disk, state'} /\ faults' \in Nat
  BY DEF TypeInv, SaveState, Raises
<1>5. pc' \in Places /\ pc' # "complete"
  BY <1>2, <1>4 DEF Places, Draining
<1>6. disk' \in State /\ Within(disk)'
  BY <1>3, <1>4 DEF TypeInv, Within
<1>7. RequestSound'
  BY DEF RequestSound
<1> QED BY <1>3, <1>4, <1>5, <1>6, <1>7, RequestTyped DEF TypeInv

LEMMA SendSucceededTyped ==
  ASSUME TypeInv, SendSucceeded
  PROVE  TypeInv'
<1>1. governor' \in [Channels -> Governor]
  <2>1. Channel \in Channels
    BY DEF Channel, Channels
  <2> QED BY <2>1, GovernorFacts DEF TypeInv, SendSucceeded
<1> QED BY <1>1, AnswerTyped DEF TypeInv, SendSucceeded

LEMMA SendAbandonedTyped ==
  ASSUME TypeInv, SendAbandoned
  PROVE  TypeInv'
<1>1. abandoned' \subseteq Item
  BY DEF TypeInv, SendAbandoned, Abandon
<1> QED BY <1>1, AnswerTyped DEF TypeInv, SendAbandoned

LEMMA SendRateLimitedTyped ==
  ASSUME TypeInv, SendRateLimited
  PROVE  TypeInv'
<1>1. pc \in Draining /\ Channel \in Channels
  BY RequestTyped, AfterDrainPlace DEF TypeInv, SendRateLimited, RequestSound
<1>2. pc' \in Places /\ pc' # "complete"
  BY <1>1, AfterDrainPlace DEF SendRateLimited
<1>3. governor' \in [Channels -> Governor]
  <2>1. PICK s \in RetryAfters :
          governor' = [governor EXCEPT ![Channel] = NoteRateLimited(governor[Channel], s)]
    BY <1>1 DEF TypeInv, SendRateLimited
  <2>2. s \in Nat /\ governor[Channel] \in Governor
    BY <1>1, MonitorAssumption DEF TypeInv
  <2>3. NoteRateLimited(governor[Channel], s) \in Governor
    BY <2>2, GovernorFacts
  <2> QED BY <1>1, <2>1, <2>3 DEF TypeInv
<1>4. RequestSound'
  BY DEF SendRateLimited, RequestSound
<1> QED BY <1>2, <1>3, <1>4, RequestTyped DEF TypeInv, SendRateLimited, netVars

LEMMA CrashTyped ==
  ASSUME TypeInv, Crash
  PROVE  TypeInv'
<1>1. state' \in State /\ Within(state)' /\ disk' \in State /\ Within(disk)'
  BY DEF TypeInv, Crash, Within
<1>2. active' \in Clusters
  BY StateFields DEF TypeInv, Crash
<1>3. governor' \in [Channels -> Governor]
  BY GovernorFacts DEF Crash
<1>4. jobs' \subseteq Item /\ IsFiniteSet(jobs') /\ Cardinality(jobs') <= MaxInflight
  BY FS_EmptySet, MonitorAssumption DEF Crash
<1>5. pc' = "down" /\ pc' \in Places /\ faults' \in Nat
  BY DEF TypeInv, Crash, Places
<1>6. RequestSound'
  BY DEF Crash, RequestSound
<1>7. results' \in Seq(Item) /\ dirty' \in BOOLEAN
  <2>1. results' = <<>> /\ dirty' = FALSE
    BY DEF Crash
  <2> QED BY <2>1, EmptySeq
<1> QED BY <1>1, <1>2, <1>3, <1>4, <1>5, <1>6, <1>7, RequestTyped
        DEF TypeInv, Crash, netVars

LEMMA NextTyped == TypeInv /\ [Next]_vars => TypeInv'
<1> SUFFICES ASSUME TypeInv, [Next]_vars PROVE TypeInv'
  OBVIOUS
<1>1. CASE Monitor
  BY <1>1, StartTyped, RecoverOneTyped, RecoverDoneTyped, BeginPollTyped, ConsumeLineTyped,
     ConsumeDoneTyped, FlushOneTyped, FlushDoneTyped, CompleteOneTyped, CompleteDoneTyped,
     DrainReturnsTyped, DrainWithoutCredentialTyped, CredentialTimesOutTyped, SendHeadTyped,
     SendSucceededTyped, SendRateLimitedTyped, SendAbandonedTyped
     DEF Monitor
<1>2. CASE WorkerFinishes
  BY <1>2, WorkerFinishesTyped
<1>3. CASE Tick
  BY <1>3, TickTyped
<1>4. CASE LogLine
  BY <1>4, LogLineTyped
<1>5. CASE Crash
  BY <1>5, CrashTyped
<1>6. CASE UNCHANGED vars
  BY <1>6 DEF TypeInv, vars, memVars, netVars, Within, RequestSound, Channel
<1> QED BY <1>1, <1>2, <1>3, <1>4, <1>5, <1>6 DEF Next

LEMMA Typed == Spec => []TypeInv
BY InitTyped, NextTyped, PTL DEF Spec

\* The variables hold what the code keeps in them, whatever the bounds.
THEOREM TypeCorrect == Spec => []TypeOK
BY Typed, TypeInvImplies, PTL

\* append_bounded, the full queue of enqueue_pending, the worker's max_inflight
\* and evict_overflow keep every list of the state within its limit, in memory
\* and on disk, for every limit.
THEOREM LimitsKept == Spec => []Bounded
BY Typed, TypeInvImplies, PTL

=============================================================================
