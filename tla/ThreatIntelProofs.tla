------------------------- MODULE ThreatIntelProofs -------------------------
(***************************************************************************)
(* Proofs about ThreatIntel, for every value of the constants and any      *)
(* number of threads: the types and the limit of the cache; that a         *)
(* request for an address whose answer should be served comes only from a  *)
(* lookup that overlaps with the one that stored it; and that no lookup    *)
(* passes can_call in the cooldown that the last 429 asks for.             *)
(***************************************************************************)
EXTENDS ThreatIntel, FiniteSetTheorems, TLAPS

Phases == {"idle", "credential", "fetch", "governor", "attempt", "call", "store"}

\* The cardinality of the cache is a number because it is finite.
CachesFinite == IsFiniteSet(DOMAIN entries) /\ IsFiniteSet(DOMAIN saved)

IInv == TypeOK /\ CachesFinite

\* The cache holds what is promised, and so does its file unless a save failed.
Kept ==
  /\ \A i \in Ips : promised[i] = IF i \in DOMAIN entries THEN entries[i].ttl ELSE 0
  /\ unsaved \/ saved = entries

\* A lookup goes on for an address with a promised answer only if that was stored
\* since the lookup missed it.
MissedBefore == \A t \in Threads : ip[t] \in Ips /\ promised[ip[t]] > 0 => t \in overlapped

\* The cooldown lasts as long as the last 429 asks for, or up to its limit.
Waits ==
  \/ heard.left <= governor.cooldown
  \/ heard.age + governor.cooldown >= MaxCooldown

-----------------------------------------------------------------------------
(* What the operators return.                                              *)

\* The number of 429s raises 2 to a positive number: that of the sets of so
\* many elements.
LEMMA PowerPositive ==
  ASSUME NEW n \in Nat
  PROVE  2^n \in Nat \ {0}
<1>1. IsFiniteSet(1..n) /\ Cardinality(1..n) = n
  BY FS_Interval
<1>2. IsFiniteSet(SUBSET (1..n)) /\ Cardinality(SUBSET (1..n)) = 2^n
  BY <1>1, FS_SUBSET
<1>3. Cardinality(SUBSET (1..n)) \in Nat
  BY <1>2, FS_CardinalityType
<1>4. SUBSET (1..n) # {}
  OBVIOUS
<1>5. Cardinality(SUBSET (1..n)) # 0
  BY <1>2, <1>4, FS_EmptySet
<1> QED BY <1>2, <1>3, <1>5

\* A cooldown is between one tick and its limit.
LEMMA BoundedType ==
  ASSUME NEW s \in Nat
  PROVE  /\ Bounded(s) \in 0..MaxCooldown
         /\ Bounded(s) <= s
         /\ s > 0 => Bounded(s) > 0
         /\ \A r \in Nat : r <= s => Bounded(r) <= Bounded(s)
BY GovernorAssumption DEF Bounded

\* note_rate_limited without Retry-After waits at least the default.
LEMMA BackoffType ==
  ASSUME NEW n \in Nat
  PROVE  /\ Bounded(DefaultCooldown * 2^n) \in 0..MaxCooldown
         /\ DefaultCooldown <= Bounded(DefaultCooldown * 2^n)
<1>1. 2^n \in Nat \ {0}
  BY PowerPositive
<1> DEFINE p == 2^n
<1>2. p \in Nat /\ p >= 1
  BY <1>1
<1> HIDE DEF p
<1>3. DefaultCooldown \in Nat /\ MaxCooldown \in Nat /\ DefaultCooldown <= MaxCooldown
  BY GovernorAssumption
<1>4. \A d, q \in Nat : q >= 1 => d * q \in Nat /\ d <= d * q
  OBVIOUS
<1>5. DefaultCooldown * p \in Nat /\ DefaultCooldown <= DefaultCooldown * p
  BY <1>2, <1>3, <1>4
<1> DEFINE m == DefaultCooldown * p
<1>6. m \in Nat /\ DefaultCooldown <= m
  BY <1>5
<1> HIDE DEF m
<1>7. Bounded(m) \in 0..MaxCooldown /\ DefaultCooldown <= Bounded(m)
  BY <1>3, <1>6 DEF Bounded
<1> QED BY <1>7 DEF m, p

\* The governor's operations give a governor.
LEMMA GovernorType ==
  ASSUME NEW g \in Governor, NEW s \in Nat
  PROVE  /\ NoteCallAttempt(g) \in Governor
         /\ NoteSuccess(g) \in Governor
         /\ NoteRetryAfter(g, s) \in Governor
         /\ NoteRateLimited(g) \in Governor
         /\ TickGovernor(g) \in Governor
<1>1. /\ g.interval \in 0..MinInterval /\ g.cooldown \in 0..MaxCooldown
      /\ g.strikes \in 0..(MaxStrikes + 1) /\ g.strikes \in Nat
      /\ g = [interval |-> g.interval, cooldown |-> g.cooldown, strikes |-> g.strikes]
  BY GovernorAssumption DEF Governor
<1>2. MinInterval \in Nat /\ MaxCooldown \in Nat /\ MaxStrikes \in Nat
  BY GovernorAssumption
<1>3. NoteCallAttempt(g) \in Governor /\ NoteSuccess(g) \in Governor
  BY <1>1, <1>2 DEF NoteCallAttempt, NoteSuccess, Governor
<1>4. NoteRetryAfter(g, s) \in Governor
  <2> DEFINE b == Bounded(IF s < 1 THEN 1 ELSE s)
  <2>1. b \in 0..MaxCooldown
    BY BoundedType
  <2>0. NoteRetryAfter(g, s) = [g EXCEPT !.strikes = 0, !.cooldown = b]
    BY DEF NoteRetryAfter
  <2> HIDE DEF b
  <2>2. NoteRetryAfter(g, s) = [interval |-> g.interval, cooldown |-> b, strikes |-> 0]
    BY <1>1, <2>0
  <2> QED BY <1>1, <1>2, <2>1, <2>2 DEF Governor
<1>5. NoteRateLimited(g) \in Governor
  <2> DEFINE b == Bounded(DefaultCooldown * 2^g.strikes)
  <2>1. b \in 0..MaxCooldown
    BY <1>1, BackoffType
  <2> HIDE DEF b
  <2>2. NoteRateLimited(g) = IF g.strikes >= MaxStrikes
                             THEN [g EXCEPT !.strikes = MaxStrikes + 1]
                             ELSE [g EXCEPT !.strikes = @ + 1, !.cooldown = b]
    BY DEF NoteRateLimited, Overflows, b
  <2>3. CASE g.strikes >= MaxStrikes
    <3>1. NoteRateLimited(g) = [interval |-> g.interval, cooldown |-> g.cooldown,
                                strikes |-> MaxStrikes + 1]
      BY <1>1, <2>2, <2>3
    <3> QED BY <1>1, <1>2, <3>1 DEF Governor
  <2>4. CASE ~(g.strikes >= MaxStrikes)
    <3>1. NoteRateLimited(g) = [interval |-> g.interval, cooldown |-> b,
                                strikes |-> g.strikes + 1]
      BY <1>1, <2>2, <2>4
    <3> QED BY <1>1, <1>2, <2>1, <2>4, <3>1 DEF Governor
  <2> QED BY <2>3, <2>4
<1>6. TickGovernor(g) \in Governor
  <2> DEFINE i == IF g.interval > 0 THEN g.interval - 1 ELSE 0
             c == IF g.cooldown > 0 THEN g.cooldown - 1 ELSE 0
  <2>1. i \in 0..MinInterval /\ c \in 0..MaxCooldown
    BY <1>1, <1>2
  <2>2. TickGovernor(g) = [g EXCEPT !.interval = i, !.cooldown = c]
    BY DEF TickGovernor
  <2> HIDE DEF i, c
  <2>3. TickGovernor(g) = [interval |-> i, cooldown |-> c, strikes |-> g.strikes]
    BY <1>1, <2>2
  <2> QED BY <1>1, <2>1, <2>3 DEF Governor
<1> QED BY <1>3, <1>4, <1>5, <1>6

\* What cache.set puts in the cache, before it evicts.
LEMMA WithType ==
  ASSUME NEW e, IsEntries(e), IsFiniteSet(DOMAIN e), NEW i \in Ips,
         NEW status \in {"ok", "error"}
  PROVE  /\ DOMAIN With(e, i, status) = DOMAIN e \cup {i}
         /\ IsFiniteSet(DOMAIN With(e, i, status))
         /\ DOMAIN With(e, i, status) \subseteq Ips
         /\ \A j \in DOMAIN With(e, i, status) : With(e, i, status)[j] \in Entry
<1>1. DOMAIN With(e, i, status) = DOMAIN e \cup {i}
  BY DEF With
<1>2. IsFiniteSet(DOMAIN e \cup {i})
  BY FS_AddElement
<1>3. [status |-> status, ttl |-> TtlOf(status)] \in Entry
  BY CacheAssumption DEF Entry, TtlOf
<1> QED BY <1>1, <1>2, <1>3 DEF With, IsEntries

\* The eviction leaves a cache within its limit.
LEMMA EvictedType ==
  ASSUME NEW all, IsFiniteSet(DOMAIN all), DOMAIN all \subseteq Ips,
         \A j \in DOMAIN all : all[j] \in Entry,
         NEW keep, Evicted(all, keep)
  PROVE  /\ IsEntries([i \in keep |-> all[i]])
         /\ IsFiniteSet(DOMAIN [i \in keep |-> all[i]])
<1>1. keep \subseteq DOMAIN all /\ DOMAIN [i \in keep |-> all[i]] = keep
  BY DEF Evicted
<1>2. IsFiniteSet(keep) /\ Cardinality(keep) \in Nat
  BY <1>1, FS_Subset, FS_CardinalityType
<1>3. MaxEntries \in Nat
  BY CacheAssumption
<1>4. Cardinality(keep) <= MaxEntries
  BY <1>2, <1>3 DEF Evicted
<1> QED BY <1>1, <1>2, <1>4 DEF IsEntries

\* Time passes for every entry, and brings none back.
LEMMA TickEntriesType ==
  ASSUME NEW e, IsEntries(e)
  PROVE  /\ IsEntries(TickEntries(e))
         /\ DOMAIN TickEntries(e) = DOMAIN e
         /\ \A i \in Ips : Hit(TickEntries(e), i) => Hit(e, i)
<1>1. DOMAIN TickEntries(e) = DOMAIN e
  BY DEF TickEntries
<1>2. ASSUME NEW i \in DOMAIN e
      PROVE  /\ TickEntries(e)[i] \in Entry
             /\ TickEntries(e)[i].ttl > 0 => e[i].ttl > 0
  <2>1. /\ e[i].status \in {"ok", "error"} /\ e[i].ttl \in 0..Ttl \cup 0..ErrorTtl
        /\ e[i] = [status |-> e[i].status, ttl |-> e[i].ttl]
    BY DEF IsEntries, Entry
  <2> DEFINE n == IF e[i].ttl > 0 THEN e[i].ttl - 1 ELSE 0
  <2>2. n \in 0..Ttl \cup 0..ErrorTtl
    BY <2>1, CacheAssumption
  <2>3. n > 0 => e[i].ttl > 0
    BY <2>1
  <2>4. TickEntries(e)[i] = [status |-> e[i].status, ttl |-> n]
    BY <2>1 DEF TickEntries
  <2> HIDE DEF n
  <2> QED BY <2>1, <2>2, <2>3, <2>4 DEF Entry
<1> QED BY <1>1, <1>2 DEF IsEntries, Hit

\* What the operations do to the cooldown.
LEMMA GovernorCooldown ==
  ASSUME NEW g \in Governor, NEW s \in Nat
  PROVE  /\ NoteCallAttempt(g).cooldown = g.cooldown
         /\ NoteSuccess(g).cooldown = g.cooldown
         /\ \/ s <= NoteRetryAfter(g, s).cooldown
            \/ NoteRetryAfter(g, s).cooldown = MaxCooldown
         /\ Overflows(g) => NoteRateLimited(g).cooldown = g.cooldown
         /\ g.strikes < MaxStrikes => DefaultCooldown <= NoteRateLimited(g).cooldown
         /\ TickGovernor(g).cooldown = IF g.cooldown > 0 THEN g.cooldown - 1 ELSE 0
<1>1. g.strikes \in Nat /\ MaxStrikes \in Nat
  BY GovernorAssumption DEF Governor
<1>2. g = [interval |-> g.interval, cooldown |-> g.cooldown, strikes |-> g.strikes]
  BY DEF Governor
<1>3. NoteCallAttempt(g).cooldown = g.cooldown /\ NoteSuccess(g).cooldown = g.cooldown
  BY <1>2 DEF NoteCallAttempt, NoteSuccess
<1>4. \/ s <= NoteRetryAfter(g, s).cooldown
      \/ NoteRetryAfter(g, s).cooldown = MaxCooldown
  <2> DEFINE r == IF s < 1 THEN 1 ELSE s
             b == Bounded(r)
  <2>1. r \in Nat /\ s <= r
    OBVIOUS
  <2> HIDE DEF r
  <2>2. s <= b \/ b = MaxCooldown
    BY <2>1, GovernorAssumption DEF Bounded
  <2>3. NoteRetryAfter(g, s) = [g EXCEPT !.strikes = 0, !.cooldown = b]
    BY DEF NoteRetryAfter, r
  <2> HIDE DEF b
  <2> QED BY <1>2, <2>2, <2>3
<1>5. g.strikes < MaxStrikes => DefaultCooldown <= NoteRateLimited(g).cooldown
  <2> DEFINE b == Bounded(DefaultCooldown * 2^g.strikes)
  <2>1. DefaultCooldown <= b
    BY <1>1, BackoffType
  <2>2. ~(g.strikes >= MaxStrikes) =>
          NoteRateLimited(g) = [g EXCEPT !.strikes = @ + 1, !.cooldown = b]
    BY DEF NoteRateLimited, Overflows, b
  <2> HIDE DEF b
  <2>3. g.strikes < MaxStrikes => ~(g.strikes >= MaxStrikes)
    BY <1>1
  <2>4. [g EXCEPT !.strikes = @ + 1, !.cooldown = b].cooldown = b
    BY <1>2
  <2> QED BY <2>1, <2>2, <2>3, <2>4
<1>7. Overflows(g) => NoteRateLimited(g).cooldown = g.cooldown
  <2>1. Overflows(g) => NoteRateLimited(g) = [g EXCEPT !.strikes = MaxStrikes + 1]
    BY DEF NoteRateLimited
  <2>2. [g EXCEPT !.strikes = MaxStrikes + 1].cooldown = g.cooldown
    BY <1>2
  <2> QED BY <2>1, <2>2
<1>6. TickGovernor(g).cooldown = IF g.cooldown > 0 THEN g.cooldown - 1 ELSE 0
  <2> DEFINE i == IF g.interval > 0 THEN g.interval - 1 ELSE 0
             c == IF g.cooldown > 0 THEN g.cooldown - 1 ELSE 0
  <2>1. TickGovernor(g) = [g EXCEPT !.interval = i, !.cooldown = c]
    BY DEF TickGovernor
  <2> HIDE DEF i, c
  <2>2. TickGovernor(g).cooldown = c
    BY <1>2, <2>1
  <2> QED BY <2>2 DEF c
<1> QED BY <1>3, <1>4, <1>5, <1>6, <1>7

-----------------------------------------------------------------------------
(* Type correctness, and the limit of the cache.                           *)

LEMMA InitType == Init => IInv
<1> SUFFICES ASSUME Init PROVE IInv
  OBVIOUS
<1>1. DOMAIN entries = {} /\ DOMAIN saved = {}
  BY DEF Init
<1>2. IsFiniteSet({}) /\ Cardinality({}) = 0
  BY FS_EmptySet
<1>3. IsEntries(entries) /\ IsEntries(saved) /\ CachesFinite
  BY <1>1, <1>2, CacheAssumption DEF IsEntries, CachesFinite
<1>4. governor \in Governor
  BY GovernorAssumption DEF Init, NewGovernor, Governor
<1>5. credential \in [value : BOOLEAN, refresh : 0..Refresh]
  BY IntelAssumption DEF Init, NewCredential
<1>6. heard \in [left : Nat, age : Nat]
  BY DEF Init, Silence
<1> QED BY <1>3, <1>4, <1>5, <1>6 DEF Init, IInv, TypeOK

\* What the types say of the variables, as the proofs use it.
LEMMA Types ==
  ASSUME IInv
  PROVE  /\ IsEntries(entries) /\ IsEntries(saved)
         /\ IsFiniteSet(DOMAIN entries) /\ IsFiniteSet(DOMAIN saved)
         /\ governor \in Governor
         /\ pc \in [Threads -> Phases]
         /\ \A t \in Threads : /\ pc[t] # "idle" => ip[t] \in Ips
                               /\ pc[t] = "store" => answer[t] \in {"ok", "error"}
         /\ promised \in [Ips -> Nat]
         /\ heard \in [left : Nat, age : Nat]
BY DEF IInv, TypeOK, CachesFinite, Phases

\* Every step of a thread, of the clock and of the process keeps the types.
LEMMA NextType == IInv /\ [Next]_vars => IInv'
<1> SUFFICES ASSUME IInv, [Next]_vars PROVE IInv'
  OBVIOUS
<1> DEFINE CacheTyped == /\ IsEntries(entries) /\ IsEntries(saved)
                         /\ IsFiniteSet(DOMAIN entries) /\ IsFiniteSet(DOMAIN saved)
           ThreadsTyped ==
             /\ pc \in [Threads -> Phases]
             /\ ip \in [Threads -> Ips \cup {NoIp}]
             /\ answer \in [Threads -> {"ok", "error", NoAnswer}]
             /\ \A t \in Threads : /\ pc[t] = "idle" <=> ip[t] = NoIp
                                   /\ pc[t] = "store" <=> answer[t] # NoAnswer
             /\ overlapped \subseteq {t \in Threads : pc[t] # "idle"}
           RestTyped ==
             /\ governor \in Governor
             /\ credential \in [value : BOOLEAN, refresh : 0..Refresh]
             /\ crashes \in Nat /\ faults \in Nat
             /\ promised \in [Ips -> Nat]
             /\ unsaved \in BOOLEAN
             /\ heard \in [left : Nat, age : Nat]
<1>1. CacheTyped /\ ThreadsTyped /\ RestTyped
  BY DEF IInv, TypeOK, CachesFinite, Phases
<1>2. ASSUME CacheTyped', ThreadsTyped', RestTyped' PROVE IInv'
  BY <1>2 DEF IInv, TypeOK, CachesFinite, Phases
<1>3. UNCHANGED <<entries, saved>> => CacheTyped'
  BY <1>1 DEF IsEntries
<1>4. UNCHANGED <<pc, ip, answer, overlapped>> => ThreadsTyped'
  BY <1>1
<1>5. ASSUME NEW t \in Threads, NEW l \in Phases \ {"idle", "store"}, Goto(t, l),
             pc[t] \notin {"idle", "store"}, UNCHANGED answer
      PROVE  ThreadsTyped'
  BY <1>1, <1>5 DEF Goto
<1>6. ASSUME NEW t \in Threads, Return(t), pc[t] # "store", UNCHANGED answer
      PROVE  ThreadsTyped'
  BY <1>1, <1>6, IntelAssumption DEF Return, Phases
<1>7. ASSUME NEW t \in Threads, NEW status \in {"ok", "error"}, Goto(t, "store"),
             pc[t] = "call", answer' = [answer EXCEPT ![t] = status]
      PROVE  ThreadsTyped'
  BY <1>1, <1>7 DEF Goto, Phases, NoAnswer
<1>8. Fault => faults' \in Nat
  BY <1>1 DEF Fault
<1>9. {"credential", "fetch", "governor", "attempt", "call"} = Phases \ {"idle", "store"}
  BY DEF Phases
<1>10. CASE Tick
  <2>1. CacheTyped'
    <3>1. entries' = TickEntries(entries) /\ saved' = TickEntries(saved)
      BY <1>10 DEF Tick
    <3>2. IsEntries(TickEntries(entries)) /\ IsEntries(TickEntries(saved))
      BY <1>1, TickEntriesType
    <3>3. DOMAIN TickEntries(entries) = DOMAIN entries /\ DOMAIN TickEntries(saved) = DOMAIN saved
      BY <1>1, TickEntriesType
    <3> QED BY <1>1, <3>1, <3>2, <3>3 DEF IsEntries
  <2>2. governor' \in Governor
    BY <1>1, <1>10, GovernorType DEF Tick
  <2>3. credential' \in [value : BOOLEAN, refresh : 0..Refresh]
    BY <1>1, <1>10, IntelAssumption DEF Tick, Less
  <2>4. promised' \in [Ips -> Nat]
    BY <1>1, <1>10 DEF Tick, Less
  <2>5. heard' \in [left : Nat, age : Nat]
    BY <1>1, <1>10 DEF Tick, Silence
  <2>6. ThreadsTyped'
    BY <1>4, <1>10 DEF Tick
  <2>7. RestTyped'
    BY <1>1, <1>10, <2>2, <2>3, <2>4, <2>5 DEF Tick
  <2> QED BY <1>2, <2>1, <2>6, <2>7
<1>11. CASE Restart
  <2>1. NewGovernor \in Governor
    BY GovernorAssumption DEF NewGovernor, Governor
  <2>2. NewCredential \in [value : BOOLEAN, refresh : 0..Refresh]
    BY IntelAssumption DEF NewCredential
  <2>3. ThreadsTyped'
    BY <1>11, IntelAssumption DEF Restart, Phases
  <2>4. entries' = saved /\ saved' = saved
    BY <1>11 DEF Restart
  <2>5. CacheTyped'
    BY <1>1, <2>4 DEF IsEntries
  <2>6. \A i \in DOMAIN saved : saved[i].ttl \in Nat
    BY <1>1, CacheAssumption DEF IsEntries, Entry
  <2>7. promised' \in [Ips -> Nat]
    BY <1>1, <1>11, <2>6 DEF Restart
  <2>8. heard' \in [left : Nat, age : Nat]
    BY <1>11 DEF Restart, Silence
  <2>9. RestTyped'
    <3>1. governor' = NewGovernor /\ credential' = NewCredential
      BY <1>11 DEF Restart
    <3>2. crashes' \in Nat /\ faults' \in Nat
      BY <1>1, <1>11 DEF Restart
    <3>3. unsaved' \in BOOLEAN
      BY <1>11, Zenon DEF Restart
    <3>4. governor' \in Governor
      BY <2>1, <3>1
    <3>5. credential' \in [value : BOOLEAN, refresh : 0..Refresh]
      BY <2>2, <3>1
    <3> QED BY <2>7, <2>8, <3>2, <3>3, <3>4, <3>5
  <2> QED BY <1>2, <2>3, <2>5, <2>9
<1>12. ASSUME NEW t \in Threads, CacheGet(t) PROVE IInv'
  <2>1. ThreadsTyped'
    BY <1>1, <1>12, IntelAssumption DEF CacheGet, history, Phases
  <2>2. RestTyped'
    BY <1>1, <1>12 DEF CacheGet, history
  <2> QED BY <1>2, <1>3, <1>12, <2>1, <2>2 DEF CacheGet
<1>14. ASSUME NEW t \in Threads, CredentialGet(t) PROVE IInv'
  <2>1. ThreadsTyped'
    BY <1>5, <1>6, <1>9, <1>14 DEF CredentialGet
  <2>2. credential' \in [value : BOOLEAN, refresh : 0..Refresh]
    BY <1>1, <1>14, IntelAssumption DEF CredentialGet
  <2>3. RestTyped'
    BY <1>1, <1>14, <2>2 DEF CredentialGet
  <2> QED BY <1>2, <1>3, <1>14, <2>1, <2>3 DEF CredentialGet
<1>15. ASSUME NEW t \in Threads, CredentialFetched(t) PROVE IInv'
  <2>1. ThreadsTyped'
    BY <1>5, <1>6, <1>9, <1>15 DEF CredentialFetched
  <2>2. credential' \in [value : BOOLEAN, refresh : 0..Refresh] /\ faults' \in Nat
    BY <1>1, <1>8, <1>15 DEF CredentialFetched
  <2>3. RestTyped'
    BY <1>1, <1>15, <2>2 DEF CredentialFetched
  <2> QED BY <1>2, <1>3, <1>15, <2>1, <2>3 DEF CredentialFetched
<1>16. ASSUME NEW t \in Threads, CheckGovernor(t) PROVE IInv'
  <2>1. ThreadsTyped'
    BY <1>5, <1>6, <1>9, <1>16 DEF CheckGovernor
  <2>2. RestTyped'
    BY <1>1, <1>16 DEF CheckGovernor
  <2> QED BY <1>2, <1>3, <1>16, <2>1, <2>2 DEF CheckGovernor
<1>17. ASSUME NEW t \in Threads, CallProvider(t) PROVE IInv'
  <2>1. ThreadsTyped'
    BY <1>5, <1>9, <1>17 DEF CallProvider
  <2>2. governor' \in Governor
    BY <1>1, <1>17, GovernorType DEF CallProvider
  <2>3. RestTyped'
    BY <1>1, <1>17, <2>2 DEF CallProvider
  <2> QED BY <1>2, <1>3, <1>17, <2>1, <2>3 DEF CallProvider
<1>18. ASSUME NEW t \in Threads, Answered(t) PROVE IInv'
  <2>1. ThreadsTyped'
    BY <1>6, <1>7, <1>18 DEF Answered
  <2>2. governor' \in Governor
    BY <1>1, <1>18, GovernorType DEF Answered
  <2>3. RestTyped'
    BY <1>1, <1>18, <2>2 DEF Answered
  <2> QED BY <1>2, <1>3, <1>18, <2>1, <2>3 DEF Answered
<1>19. ASSUME NEW t \in Threads, RateLimited(t) PROVE IInv'
  <2>1. ThreadsTyped'
    BY <1>6, <1>7, <1>19 DEF RateLimited
  <2>2. governor' \in Governor
    BY <1>1, <1>19, GovernorType, IntelAssumption DEF RateLimited
  <2>3. \A n \in Nat : Hear(n) => heard' \in [left : Nat, age : Nat]
    BY DEF Hear, Silence
  <2>4. DefaultCooldown \in Nat /\ RetryAfters \subseteq Nat
    BY GovernorAssumption, IntelAssumption
  <2>5. heard' \in [left : Nat, age : Nat]
    BY <1>1, <1>19, <2>3, <2>4 DEF RateLimited
  <2>6. RestTyped'
    BY <1>1, <1>19, <2>2, <2>5 DEF RateLimited
  <2> QED BY <1>2, <1>3, <1>19, <2>1, <2>6 DEF RateLimited
<1>20. ASSUME NEW t \in Threads, Store(t) PROVE IInv'
  <2> DEFINE all == With(entries, ip[t], answer[t])
  <2>0. ip[t] \in Ips /\ answer[t] \in {"ok", "error"}
    BY <1>1, <1>20 DEF Store
  <2>1. /\ IsFiniteSet(DOMAIN all) /\ DOMAIN all \subseteq Ips
        /\ \A j \in DOMAIN all : all[j] \in Entry
    BY <1>1, <2>0, WithType
  <2> HIDE DEF all
  <2>2. PICK keep \in SUBSET DOMAIN all : Evicted(all, keep) /\ entries' = [i \in keep |-> all[i]]
    BY <1>20 DEF Store, all
  <2>3. IsEntries(entries') /\ IsFiniteSet(DOMAIN entries')
    BY <2>1, <2>2, EvictedType
  <2>4. saved' \in {entries', saved} /\ faults' \in Nat /\ unsaved' \in BOOLEAN
    BY <1>1, <1>8, <1>20 DEF Store
  <2>5. CacheTyped'
    BY <1>1, <2>3, <2>4 DEF IsEntries
  <2>6. ThreadsTyped'
    BY <1>1, <1>20, IntelAssumption DEF Store, Phases
  <2>7. TtlOf(answer[t]) \in Nat
    BY CacheAssumption DEF TtlOf
  <2>8. promised' \in [Ips -> Nat]
    BY <1>1, <1>20, <2>0, <2>7 DEF Store, Promise
  <2>10. UNCHANGED <<governor, credential, crashes, heard>>
    BY <1>20 DEF Store
  <2>9. RestTyped'
    BY <1>1, <2>4, <2>8, <2>10
  <2> QED BY <1>2, <2>5, <2>6, <2>9
<1>21. CASE UNCHANGED vars
  <2>1. ThreadsTyped' /\ RestTyped'
    BY <1>1, <1>4, <1>21 DEF vars, history
  <2> QED BY <1>2, <1>3, <1>21, <2>1 DEF vars
<1> QED
  BY <1>10, <1>11, <1>12, <1>14, <1>15, <1>16, <1>17, <1>18, <1>19, <1>20, <1>21
  DEF Next, Lookup

\* With any number of threads, the cache of memory and that of its file stay
\* within their limit, and the governor's waits within theirs.
THEOREM TypeCorrect == Spec => []TypeOK
<1>1. Spec => []IInv
  BY InitType, NextType, PTL DEF Spec
<1>2. IInv => TypeOK
  BY DEF IInv
<1> QED BY <1>1, <1>2, PTL

-----------------------------------------------------------------------------
(* The cache against the promise of its answers.                           *)

\* What a store drops it drops for answers that live as long, so that the cache
\* still holds all that is promised.
LEMMA StoreKeepsPromise ==
  ASSUME IInv, Kept, NEW t \in Threads, Store(t)
  PROVE  /\ \A i \in Ips : promised'[i] = IF i \in DOMAIN entries' THEN entries'[i].ttl ELSE 0
         /\ \A i \in Ips : i # ip[t] /\ promised'[i] > 0 => promised[i] > 0
<1> DEFINE all == With(entries, ip[t], answer[t])
           new == [promised EXCEPT ![ip[t]] = TtlOf(answer[t])]
           Older(j) == {k \in Ips \ {j} : new[k] >= new[j]}
<1>1. /\ IsEntries(entries) /\ IsFiniteSet(DOMAIN entries)
      /\ promised \in [Ips -> Nat]
      /\ ip[t] \in Ips /\ answer[t] \in {"ok", "error"}
  BY Types DEF Store
<1>2. TtlOf(answer[t]) \in Nat
  BY CacheAssumption DEF TtlOf
<1>3. new \in [Ips -> Nat]
  BY <1>1, <1>2
<1>4. /\ DOMAIN all = DOMAIN entries \cup {ip[t]}
      /\ IsFiniteSet(DOMAIN all) /\ DOMAIN all \subseteq Ips
  BY <1>1, WithType
<1>5. \A j \in Ips : new[j] = IF j \in DOMAIN all THEN all[j].ttl ELSE 0
  BY <1>1, <1>4 DEF Kept, With
<1>6. PICK keep \in SUBSET DOMAIN all : Evicted(all, keep) /\ entries' = [i \in keep |-> all[i]]
  BY DEF Store
<1>7. promised' = [j \in Ips |->
        IF j \notin keep /\ Cardinality(Older(j)) >= MaxEntries THEN 0 ELSE new[j]]
  BY <1>6 DEF Store, Promise
<1>8. ASSUME NEW j \in Ips, j \notin keep, new[j] > 0
      PROVE  Cardinality(Older(j)) >= MaxEntries
  <2>1. j \in DOMAIN all
    BY <1>5, <1>8
  <2>2. /\ Cardinality(keep) = MaxEntries
        /\ \A k \in keep : all[j].ttl <= all[k].ttl
    BY <1>6, <1>8, <2>1 DEF Evicted
  <2>3. \A k \in keep : new[k] >= new[j]
    BY <1>4, <1>5, <2>1, <2>2
  <2>4. keep \subseteq Older(j)
    BY <1>4, <1>8, <2>3
  <2>5. \A k \in Ips : new[k] \in Nat
    BY <1>3
  <2>6. Older(j) \subseteq DOMAIN all
    BY <1>5, <1>8, <2>5
  <2>7. IsFiniteSet(Older(j))
    BY <1>4, <2>6, FS_Subset
  <2> HIDE DEF Older
  <2>8. Cardinality(keep) <= Cardinality(Older(j)) /\ Cardinality(Older(j)) \in Nat
    BY <2>4, <2>7, FS_Subset, FS_CardinalityType
  <2> QED BY <2>2, <2>8, CacheAssumption
<1> HIDE DEF Older, all, new
<1>9. ASSUME NEW j \in Ips
      PROVE  promised'[j] = IF j \in keep THEN new[j] ELSE 0
  <2>1. new[j] \in Nat
    BY <1>3
  <2>2. CASE j \in keep
    BY <1>7, <2>2
  <2>3. CASE j \notin keep /\ new[j] > 0
    BY <1>7, <1>8, <2>3
  <2>4. CASE j \notin keep /\ new[j] = 0
    BY <1>7, <2>4
  <2> QED BY <2>1, <2>2, <2>3, <2>4
<1>10. ASSUME NEW j \in Ips
       PROVE  promised'[j] = IF j \in DOMAIN entries' THEN entries'[j].ttl ELSE 0
  <2>1. DOMAIN entries' = keep /\ keep \subseteq DOMAIN all
    BY <1>6
  <2>2. j \in keep => entries'[j] = all[j]
    BY <1>6
  <2> QED BY <1>5, <1>9, <2>1, <2>2
<1>11. ASSUME NEW j \in Ips, j # ip[t], promised'[j] > 0
       PROVE  promised[j] > 0
  <2>1. new[j] = promised[j]
    BY <1>1, <1>11 DEF new
  <2> QED BY <1>9, <1>11, <2>1
<1> QED BY <1>10, <1>11

\* Every step keeps what is promised, and a lookup that goes on for an address
\* with a promised answer has seen it stored.
LEMMA KeptNext ==
  ASSUME IInv, Kept, MissedBefore, [Next]_vars
  PROVE  Kept' /\ MissedBefore'
<1>1. /\ IsEntries(entries) /\ IsEntries(saved)
      /\ pc \in [Threads -> Phases]
      /\ promised \in [Ips -> Nat]
      /\ NoIp \notin Ips
  BY Types, IntelAssumption
<1>2. ip \in [Threads -> Ips \cup {NoIp}]
  BY DEF IInv, TypeOK
<1>3. ASSUME NEW t \in Threads,
             Goto(t, pc'[t]) \/ Return(t),
             UNCHANGED <<entries, saved, promised, unsaved>>
      PROVE  Kept' /\ MissedBefore'
  <2>1. Kept'
    BY <1>3 DEF Kept
  <2>2. CASE Goto(t, pc'[t])
    BY <1>3, <2>1, <2>2 DEF Goto, MissedBefore
  <2>3. CASE Return(t)
    BY <1>1, <1>2, <1>3, <2>1, <2>3 DEF Return, MissedBefore
  <2> QED BY <1>3, <2>2, <2>3
<1>4. CASE Tick
  <2>1. entries' = TickEntries(entries) /\ saved' = TickEntries(saved)
    BY <1>4 DEF Tick
  <2>2. \A i \in Ips : promised'[i] = Less(promised[i])
    BY <1>4 DEF Tick
  <2>3. /\ DOMAIN entries' = DOMAIN entries
        /\ \A i \in DOMAIN entries : entries'[i].ttl = Less(entries[i].ttl)
    <3>1. DOMAIN entries' = DOMAIN entries
      BY <2>1 DEF TickEntries
    <3>2. ASSUME NEW i \in DOMAIN entries
          PROVE  entries'[i].ttl = Less(entries[i].ttl)
      <4>1. entries[i] = [status |-> entries[i].status, ttl |-> entries[i].ttl]
        BY <1>1 DEF IsEntries, Entry
      <4>2. entries'[i] = [entries[i] EXCEPT !.ttl = Less(entries[i].ttl)]
        BY <2>1 DEF TickEntries, Less
      <4> DEFINE n == Less(entries[i].ttl)
      <4> HIDE DEF n
      <4>3. entries'[i].ttl = n
        BY <4>1, <4>2 DEF n
      <4> QED BY <4>3 DEF n
    <3> QED BY <3>1, <3>2
  <2>4. Less(0) = 0
    BY DEF Less
  <2>5. Kept'
    BY <1>4, <2>1, <2>2, <2>3, <2>4 DEF Kept, Tick
  <2>6. \A n \in Nat : Less(n) > 0 => n > 0
    BY DEF Less
  <2>7. MissedBefore'
    BY <1>1, <1>4, <2>2, <2>6 DEF MissedBefore, Tick
  <2> QED BY <2>5, <2>7
<1>5. CASE Restart
  <2>1. entries' = saved /\ saved' = saved /\ unsaved' = FALSE
    BY <1>5 DEF Restart
  <2>2. \A i \in Ips : promised'[i] = IF i \in DOMAIN saved THEN saved[i].ttl ELSE 0
    BY <1>5 DEF Restart, Kept
  <2>3. \A t \in Threads : ip'[t] \notin Ips
    BY <1>1, <1>5 DEF Restart
  <2> QED BY <2>1, <2>2, <2>3 DEF Kept, MissedBefore
<1>6. ASSUME NEW t \in Threads, CacheGet(t) PROVE Kept' /\ MissedBefore'
  <2>1. PICK i \in Ips : ~Hit(entries, i) /\ ip' = [ip EXCEPT ![t] = i]
    BY <1>6 DEF CacheGet
  <2>2. UNCHANGED <<entries, saved, promised, unsaved, overlapped>>
    BY <1>6 DEF CacheGet, history
  <2>3. ~(promised[i] > 0)
    BY <2>1 DEF Kept, Hit
  <2> QED BY <1>2, <2>1, <2>2, <2>3 DEF Kept, MissedBefore
<1>7. ASSUME NEW t \in Threads,
             \/ CredentialGet(t) \/ CredentialFetched(t) \/ CheckGovernor(t)
             \/ CallProvider(t) \/ Answered(t) \/ RateLimited(t)
      PROVE  Kept' /\ MissedBefore'
  <2>1. UNCHANGED <<entries, saved, promised, unsaved>>
    BY <1>7 DEF CredentialGet, CredentialFetched, CheckGovernor, CallProvider, Answered,
                RateLimited
  <2>2. Return(t) \/ \E l \in Phases : Goto(t, l)
    BY <1>7 DEF CredentialGet, CredentialFetched, CheckGovernor, CallProvider, Answered,
                RateLimited, Phases
  <2>3. \A l \in Phases : Goto(t, l) => Goto(t, pc'[t])
    BY <1>1 DEF Goto
  <2> QED BY <1>3, <2>1, <2>2, <2>3
<1>8. ASSUME NEW t \in Threads, Store(t) PROVE Kept' /\ MissedBefore'
  <2>1. /\ \A i \in Ips : promised'[i] = IF i \in DOMAIN entries' THEN entries'[i].ttl ELSE 0
        /\ \A i \in Ips : i # ip[t] /\ promised'[i] > 0 => promised[i] > 0
    BY <1>8, StoreKeepsPromise
  <2>2. /\ unsaved' \/ saved' = entries'
        /\ ip' = [ip EXCEPT ![t] = NoIp]
        /\ overlapped' = (overlapped \cup {u \in Threads : ip[u] = ip[t]}) \ {t}
    BY <1>8 DEF Store
  <2>3. Kept'
    BY <2>1, <2>2 DEF Kept
  <2>4. ASSUME NEW u \in Threads, ip'[u] \in Ips, promised'[ip'[u]] > 0
        PROVE  u \in overlapped'
    <3>1. u # t /\ ip'[u] = ip[u]
      BY <1>1, <1>2, <2>2, <2>4
    <3>2. CASE ip[u] = ip[t]
      BY <2>2, <3>1, <3>2
    <3>3. CASE ip[u] # ip[t]
      BY <2>1, <2>2, <2>4, <3>1, <3>3 DEF MissedBefore
    <3> QED BY <3>2, <3>3
  <2>5. MissedBefore'
    BY <2>4 DEF MissedBefore
  <2> QED BY <2>3, <2>5
<1>9. CASE UNCHANGED vars
  BY <1>9 DEF vars, history, Kept, MissedBefore
<1> QED BY <1>4, <1>5, <1>6, <1>7, <1>8, <1>9 DEF Next, Lookup

\* A request for an address whose last answer should be served comes only from a
\* lookup during which that answer was stored: at every size of the cache, with
\* any number of threads, whatever is evicted, and across restarts, except for
\* answers whose save failed.
THEOREM OncePerTtl == Spec => []OncePerTtlUnlessOverlapping
<1>1. Init => IInv /\ Kept /\ MissedBefore
  <2>1. Init => Kept
    BY DEF Init, Kept
  <2>2. Init => MissedBefore
    BY IntelAssumption DEF Init, MissedBefore
  <2> QED BY <2>1, <2>2, InitType
<1>2. IInv /\ Kept /\ MissedBefore /\ [Next]_vars => (IInv /\ Kept /\ MissedBefore)'
  BY NextType, KeptNext
<1>3. ASSUME IInv, MissedBefore PROVE OncePerTtlUnlessOverlapping
  BY <1>3, Types DEF MissedBefore, OncePerTtlUnlessOverlapping
<1> QED BY <1>1, <1>2, <1>3, PTL DEF Spec

-----------------------------------------------------------------------------
(* The governor against the last 429.                                      *)

\* Only a 429 changes a cooldown before its time: an answer that arrives from a
\* request sent before leaves it alone.  Then the test and time agree.
LEMMA WaitsNext ==
  ASSUME IInv, Waits, [Next]_vars
  PROVE  /\ Waits'
         /\ CanCall(governor) => heard.left = 0 \/ heard.age >= MaxCooldown
<1>1. /\ governor \in Governor /\ governor.cooldown \in Nat
      /\ heard \in [left : Nat, age : Nat] /\ heard.left \in Nat /\ heard.age \in Nat
      /\ MaxCooldown \in Nat
  BY Types, GovernorAssumption DEF Governor
<1>2. CanCall(governor) => heard.left = 0 \/ heard.age >= MaxCooldown
  BY <1>1 DEF Waits, CanCall
<1> SUFFICES Waits'
  BY <1>2
<1>3. ASSUME UNCHANGED heard, governor'.cooldown = governor.cooldown PROVE Waits'
  BY <1>3 DEF Waits
<1>4. CASE Tick
  <2>1. governor'.cooldown = IF governor.cooldown > 0 THEN governor.cooldown - 1 ELSE 0
    BY <1>1, <1>4, GovernorCooldown DEF Tick
  <2>2. heard.left <= 1 => heard'.left = 0
    BY <1>4 DEF Tick, Silence
  <2>3. ~(heard.left <= 1) => heard'.left = heard.left - 1 /\ heard'.age = heard.age + 1
    BY <1>4 DEF Tick
  <2> QED BY <1>1, <2>1, <2>2, <2>3 DEF Waits
<1>5. CASE Restart
  BY <1>5 DEF Restart, Silence, NewGovernor, Waits
<1>6. ASSUME NEW t \in Threads,
             \/ CacheGet(t) \/ CredentialGet(t) \/ CredentialFetched(t)
             \/ CheckGovernor(t) \/ Store(t)
      PROVE  Waits'
  <2>1. UNCHANGED <<governor, heard>>
    BY <1>6 DEF CacheGet, CredentialGet, CredentialFetched, CheckGovernor, Store, history
  <2> QED BY <1>3, <2>1
<1>7. ASSUME NEW t \in Threads, CallProvider(t) \/ Answered(t) PROVE Waits'
  <2>1. UNCHANGED heard /\ governor' \in {NoteCallAttempt(governor), NoteSuccess(governor)}
    BY <1>7 DEF CallProvider, Answered
  <2>2. governor'.cooldown = governor.cooldown
    BY <1>1, <2>1, GovernorCooldown
  <2> QED BY <1>3, <2>1, <2>2
<1>8. ASSUME NEW t \in Threads, RateLimited(t) PROVE Waits'
  <2>1. CASE \E s \in RetryAfters : governor' = NoteRetryAfter(governor, s) /\ Hear(s)
    <3>1. PICK s \in RetryAfters : governor' = NoteRetryAfter(governor, s) /\ Hear(s)
      BY <2>1
    <3>2. s \in Nat
      BY IntelAssumption
    <3>3. NoteRetryAfter(governor, s) \in Governor
      BY <1>1, <3>2, GovernorType
    <3>4. governor'.cooldown \in Nat
      BY <3>1, <3>3, GovernorAssumption DEF Governor
    <3>5. s <= governor'.cooldown \/ governor'.cooldown = MaxCooldown
      BY <1>1, <3>1, <3>2, GovernorCooldown
    <3>6. heard'.left = s /\ heard'.age = 0
      BY <3>1 DEF Hear, Silence
    <3> QED BY <1>1, <3>2, <3>4, <3>5, <3>6 DEF Waits
  <2>2. CASE governor' = NoteRateLimited(governor) /\ Overflows(governor) /\ UNCHANGED heard
    BY <1>1, <1>3, <2>2, GovernorCooldown
  <2>3. CASE governor' = NoteRateLimited(governor) /\ ~Overflows(governor) /\ Hear(DefaultCooldown)
    <3>1. governor.strikes < MaxStrikes
      BY <1>1, <2>3, GovernorAssumption DEF Overflows, Governor
    <3>2. DefaultCooldown <= governor'.cooldown
      BY <1>1, <2>3, <3>1, GovernorCooldown
    <3>3. heard'.left = DefaultCooldown
      BY <2>3, GovernorAssumption DEF Hear, Silence
    <3> QED BY <3>2, <3>3 DEF Waits
  <2> QED BY <1>8, <2>1, <2>2, <2>3 DEF RateLimited
<1>9. CASE UNCHANGED vars
  BY <1>3, <1>9 DEF vars, history
<1> QED BY <1>4, <1>5, <1>6, <1>7, <1>8, <1>9 DEF Next, Lookup

\* A thread goes from the test to the attempt only where can_call says so.
LEMMA OnlyByTest ==
  ASSUME IInv, [Next]_vars, NEW t \in Threads, pc[t] = "governor", pc'[t] = "attempt"
  PROVE  CanCall(governor)
<1>1. pc \in [Threads -> Phases]
  BY Types
<1>2. ASSUME NEW u \in Threads, NEW l, pc' = [pc EXCEPT ![u] = l] PROVE u = t /\ l = "attempt"
  BY <1>1, <1>2
<1>3. CASE Tick \/ UNCHANGED vars
  BY <1>3 DEF Tick, vars
<1>4. CASE Restart
  BY <1>4 DEF Restart
<1>5. ASSUME NEW u \in Threads, CheckGovernor(u) PROVE CanCall(governor)
  BY <1>2, <1>5 DEF CheckGovernor, Return
<1>6. ASSUME NEW u \in Threads,
             \/ CacheGet(u) \/ CredentialGet(u) \/ CredentialFetched(u) \/ CallProvider(u)
             \/ Answered(u) \/ RateLimited(u) \/ Store(u)
      PROVE  FALSE
  <2>1. \E l \in Phases \ {"attempt"} : pc' = [pc EXCEPT ![u] = l]
    BY <1>6 DEF CacheGet, CredentialGet, CredentialFetched, CallProvider, Answered,
                RateLimited, Store, Goto, Return, Phases
  <2> QED BY <1>2, <2>1
<1> QED BY <1>3, <1>4, <1>5, <1>6 DEF Next, Lookup

\* No lookup passes can_call before the time the last 429 noted asks for, or the
\* governor's limit, has passed, with any number of threads and whatever the
\* answers of the requests still in flight.
THEOREM LastBackoffIsKept == Spec => LastBackoffKept
<1>1. Init => IInv /\ Waits
  BY InitType DEF Init, Waits, Silence, NewGovernor
<1>2. IInv /\ Waits /\ [Next]_vars => (IInv /\ Waits)'
  BY NextType, WaitsNext
<1>3. IInv /\ Waits /\ [Next]_vars =>
        [\A t \in Threads : pc[t] = "governor" /\ pc'[t] = "attempt" =>
           heard.left = 0 \/ heard.age >= MaxCooldown]_vars
  BY OnlyByTest, WaitsNext
<1> QED BY <1>1, <1>2, <1>3, PTL DEF Spec, LastBackoffKept

=============================================================================
