-------------------------- MODULE SessionClusters --------------------------
(***************************************************************************)
(* SessionClusterManager of native/session_cluster.py as operators on the  *)
(* active clusters, a function from keys to clusters.  A cluster keeps the *)
(* log lines it has absorbed; its two timestamps are kept as ages, which   *)
(* stop growing just beyond the limit they are compared with.              *)
(***************************************************************************)
EXTENDS Naturals, FiniteSets

CONSTANTS
  Sessions,   \* keys "session:..."
  Ips,        \* keys "ip:...", for events without a session
  Window,     \* window_seconds, in ticks
  MaxAge,     \* max_cluster_age_seconds, in ticks
  MaxActive   \* max_active_clusters

ASSUME ClusterAssumption ==
  /\ Sessions \cap Ips = {}
  /\ Window \in Nat /\ MaxAge \in Nat
  /\ MaxActive \in Nat \ {0}

Keys == Sessions \cup Ips

Cluster == [lines : SUBSET Nat, age : 0..(MaxAge + 1), quiet : 0..(Window + 1),
            alerted : BOOLEAN]

NewCluster == [lines |-> {}, age |-> 0, quiet |-> 0, alerted |-> FALSE]

RecordEvent(c, n) == [c EXCEPT !.lines = @ \cup {n}, !.quiet = 0]

\* observe continues the cluster of a key; one keyed by IP that has been quiet
\* for longer than the window is replaced.
Continues(active, k) ==
  /\ k \in DOMAIN active
  /\ k \in Sessions \/ active[k].quiet <= Window

Observe(active, k, n) ==
  [j \in DOMAIN active \cup {k} |->
     IF j # k THEN active[j]
     ELSE RecordEvent(IF Continues(active, k) THEN active[k] ELSE NewCluster, n)]

ExpiredKeys(active) ==
  {k \in DOMAIN active : active[k].quiet > Window \/ active[k].age > MaxAge}

\* evict_overflow, one eviction: the least recently active, if over the bound.
OverflowKeys(active) ==
  {k \in DOMAIN active :
     /\ Cardinality(DOMAIN active) > MaxActive
     /\ \A j \in DOMAIN active : active[j].quiet <= active[k].quiet}

Without(active, k) == [j \in DOMAIN active \ {k} |-> active[j]]

MarkAlerted(active, k) == [active EXCEPT ![k].alerted = TRUE]

TickClusters(active) ==
  [k \in DOMAIN active |->
     [active[k] EXCEPT !.age = IF @ > MaxAge THEN @ ELSE @ + 1,
                       !.quiet = IF @ > Window THEN @ ELSE @ + 1]]

\* Lines held by active clusters.
LinesOf(active) == UNION {active[k].lines : k \in DOMAIN active}

=============================================================================
