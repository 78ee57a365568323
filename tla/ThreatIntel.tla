---------------------------- MODULE ThreatIntel ----------------------------
(***************************************************************************)
(* Lookups of one provider, native/threat_intel: the worker's threads run  *)
(* enrich_ip for the addresses of flushed clusters, and each lookup goes   *)
(* through the cache, the provider's credential, its rate governor and an  *)
(* HTTP request, which several threads do at once.  Providers share only   *)
(* the cache's lock and limit, so one provider is modelled.                *)
(*                                                                         *)
(* Answers are those get_json tells apart: found or not found ("ok"), an   *)
(* error, 429, or an exception.                                            *)
(***************************************************************************)
EXTENDS ProviderRateGovernor, EnrichmentCache

CONSTANTS
  Threads,      \* threads of the ThreatIntelWorker
  NoIp,         \* of a thread that looks up nothing
  Refresh,      \* REFRESH_SECONDS of the credential, in ticks
  RetryAfters,  \* Retry-After values of 429 answers, in ticks
  MaxUnannounced, \* bound: 429s in a row without Retry-After
  MaxCrashes,   \* bound: times the process is killed
  MaxFaults     \* bound: failed cache saves and credential commands

ASSUME IntelAssumption ==
  /\ Threads # {} /\ NoIp \notin Ips
  /\ Refresh \in Nat
  /\ RetryAfters \subseteq Nat
  /\ MaxUnannounced \in Nat /\ MaxCrashes \in Nat /\ MaxFaults \in Nat

VARIABLES
  entries,     \* the cache in memory
  saved,       \* cache.json
  governor,
  credential,  \* the SsmSecureStringCache: whether it has a value, and the
               \* ticks until its next refresh
  pc,          \* where _lookup_one is, for each thread
  ip,          \* the address each thread looks up
  answer,      \* the status that each thread stores
  crashes, faults,
  \* History, which no action reads to decide what it does:
  promised,    \* ticks for which the last answer stored for an address must
               \* be served
  unsaved,     \* the last save of the cache failed
  overlapped,  \* threads whose address another one has stored since they
               \* looked it up in the cache
  heard        \* the last 429: the ticks left of what it asked for, and its age

history == <<promised, unsaved, overlapped, heard>>
vars == <<entries, saved, governor, credential, pc, ip, answer, crashes, faults, history>>

NewCredential == [value |-> FALSE, refresh |-> 0]

\* answer of a thread that has none to store.
NoAnswer == "none"

Goto(t, label) == pc' = [pc EXCEPT ![t] = label] /\ UNCHANGED <<ip, overlapped>>

\* The lookup ends.
Return(t) ==
  /\ pc' = [pc EXCEPT ![t] = "idle"]
  /\ ip' = [ip EXCEPT ![t] = NoIp]
  /\ overlapped' = overlapped \ {t}

\* Something that is not the provider's answer fails.
Fault == faults < MaxFaults /\ faults' = faults + 1

Less(n) == IF n > 0 THEN n - 1 ELSE 0

\* No 429 has been noted that asks for anything.
Silence == [left |-> 0, age |-> 0]

-----------------------------------------------------------------------------

\* enrich_ip starts a lookup, which begins with cache.get under its lock: the
\* lookup ends where it finds an entry.
CacheGet(t) ==
  /\ pc[t] = "idle"
  /\ \E i \in Ips :
       /\ ~Hit(entries, i)
       /\ ip' = [ip EXCEPT ![t] = i]
  /\ pc' = [pc EXCEPT ![t] = "credential"]
  /\ UNCHANGED <<entries, saved, governor, credential, answer, crashes, faults, history>>

\* SsmSecureStringCache.get: the value in hand, or the command is started.
\* There is no lock: meanwhile other threads take the value that is in hand.
CredentialGet(t) ==
  /\ pc[t] = "credential"
  /\ \/ /\ credential.refresh > 0
        /\ IF credential.value THEN Goto(t, "governor") ELSE Return(t)
        /\ UNCHANGED credential
     \/ /\ credential.refresh = 0
        /\ Goto(t, "fetch")
        /\ credential' = [credential EXCEPT !.refresh = Refresh]
  /\ UNCHANGED <<entries, saved, governor, answer, crashes, faults,
                 promised, unsaved, heard>>

\* The command ends: with a value, without one, or by its timeout, which keeps
\* the value for the calls to come.
CredentialFetched(t) ==
  /\ pc[t] = "fetch"
  /\ \/ /\ credential' = [credential EXCEPT !.value = TRUE]
        /\ Goto(t, "governor")
        /\ UNCHANGED faults
     \/ /\ Fault
        /\ credential' \in {credential, [credential EXCEPT !.value = FALSE]}
        /\ Return(t)
  /\ UNCHANGED <<entries, saved, governor, answer, crashes,
                 promised, unsaved, heard>>

\* can_call, under the governor's lock.
CheckGovernor(t) ==
  /\ pc[t] = "governor"
  /\ IF CanCall(governor) THEN Goto(t, "attempt") ELSE Return(t)
  /\ UNCHANGED <<entries, saved, governor, credential, answer, crashes, faults,
                 promised, unsaved, heard>>

\* note_call_attempt, under the lock again, and the request.
CallProvider(t) ==
  /\ pc[t] = "attempt"
  /\ governor' = NoteCallAttempt(governor)
  /\ Goto(t, "call")
  /\ UNCHANGED <<entries, saved, credential, answer, crashes, faults,
                 promised, unsaved, heard>>

\* An answer that is not 429 resets the governor; an exception is not cached.
Answered(t) ==
  /\ pc[t] = "call"
  /\ governor' = NoteSuccess(governor)
  /\ \/ \E status \in {"ok", "error"} : /\ answer' = [answer EXCEPT ![t] = status]
                                        /\ Goto(t, "store")
     \/ UNCHANGED answer /\ Return(t)
  /\ UNCHANGED <<entries, saved, credential, crashes, faults,
                 promised, unsaved, heard>>

\* A 429 has been noted that asks for s ticks.
Hear(s) == heard' = IF s = 0 THEN Silence ELSE [left |-> s, age |-> 0]

\* 429; on overflow note_rate_limited raises and the lookup ends in enrich_ip.
RateLimited(t) ==
  /\ pc[t] = "call"
  /\ \/ \E s \in RetryAfters :
          /\ governor' = NoteRetryAfter(governor, s)
          /\ Hear(s)
     \/ /\ governor.strikes < MaxUnannounced
        /\ governor' = NoteRateLimited(governor)
        /\ IF Overflows(governor) THEN UNCHANGED heard ELSE Hear(DefaultCooldown)
  /\ IF governor'.strikes > MaxStrikes
     THEN Return(t) /\ UNCHANGED answer
     ELSE Goto(t, "store") /\ answer' = [answer EXCEPT ![t] = "error"]
  /\ UNCHANGED <<entries, saved, credential, crashes, faults, promised, unsaved>>

\* History: an answer is promised for its time to live; a cache at its limit may
\* drop one for others that live as long, as many as it can hold.
Promise(i, status) ==
  LET new == [promised EXCEPT ![i] = TtlOf(status)]
      Outlived(j) == Cardinality({k \in Ips \ {j} : new[k] >= new[j]}) >= MaxEntries
  IN promised' = [j \in Ips |-> IF j \notin DOMAIN entries' /\ Outlived(j) THEN 0 ELSE new[j]]

\* cache.set under its lock: entry, eviction and save; a save that raises leaves
\* the entry in memory only.
Store(t) ==
  /\ pc[t] = "store"
  /\ LET all == With(entries, ip[t], answer[t])
     IN \E keep \in SUBSET DOMAIN all :
          /\ Evicted(all, keep)
          /\ entries' = [i \in keep |-> all[i]]
  /\ \/ saved' = entries' /\ unsaved' = FALSE /\ UNCHANGED faults
     \/ Fault /\ unsaved' = TRUE /\ UNCHANGED saved
  /\ pc' = [pc EXCEPT ![t] = "idle"]
  /\ ip' = [ip EXCEPT ![t] = NoIp]
  /\ answer' = [answer EXCEPT ![t] = NoAnswer]
  /\ Promise(ip[t], answer[t])
  /\ overlapped' = (overlapped \cup {u \in Threads : ip[u] = ip[t]}) \ {t}
  /\ UNCHANGED <<governor, credential, crashes, heard>>

\* The clock; cache entries expire by wall-clock time, on disk as well.
Tick ==
  /\ entries' = TickEntries(entries)
  /\ saved' = TickEntries(saved)
  /\ governor' = TickGovernor(governor)
  /\ credential' = [credential EXCEPT !.refresh = Less(@)]
  /\ promised' = [i \in Ips |-> Less(promised[i])]
  /\ heard' = IF heard.left <= 1 THEN Silence
              ELSE [left |-> heard.left - 1, age |-> heard.age + 1]
  /\ UNCHANGED <<pc, ip, answer, crashes, faults, unsaved, overlapped>>

\* Killed and restarted: the cache is read back, everything else starts anew.
Restart ==
  /\ crashes < MaxCrashes
  /\ crashes' = crashes + 1
  /\ entries' = saved
  /\ governor' = NewGovernor
  /\ credential' = NewCredential
  /\ pc' = [t \in Threads |-> "idle"]
  /\ ip' = [t \in Threads |-> NoIp]
  /\ answer' = [t \in Threads |-> NoAnswer]
  /\ promised' = IF unsaved
                 THEN [i \in Ips |-> IF i \in DOMAIN saved THEN saved[i].ttl ELSE 0]
                 ELSE promised
  /\ unsaved' = FALSE
  /\ overlapped' = {}
  /\ heard' = Silence
  /\ UNCHANGED <<saved, faults>>

-----------------------------------------------------------------------------

Init ==
  /\ entries = [i \in {} |-> 0]
  /\ saved = entries
  /\ governor = NewGovernor
  /\ credential = NewCredential
  /\ pc = [t \in Threads |-> "idle"]
  /\ ip = [t \in Threads |-> NoIp]
  /\ answer = [t \in Threads |-> NoAnswer]
  /\ crashes = 0
  /\ faults = 0
  /\ promised = [i \in Ips |-> 0]
  /\ unsaved = FALSE
  /\ overlapped = {}
  /\ heard = Silence

\* Steps of a lookup that has begun.
Lookup(t) ==
  \/ CredentialGet(t) \/ CredentialFetched(t) \/ CheckGovernor(t)
  \/ CallProvider(t) \/ Answered(t) \/ RateLimited(t) \/ Store(t)

Next == Tick \/ Restart \/ \E t \in Threads : CacheGet(t) \/ Lookup(t)

Spec == Init /\ [][Next]_vars

\* Commands and requests have timeouts, threads are scheduled, time passes.
FairSpec == Spec /\ WF_vars(Tick) /\ \A t \in Threads : WF_vars(Lookup(t))

-----------------------------------------------------------------------------

IsEntries(e) ==
  /\ DOMAIN e \subseteq Ips /\ Cardinality(DOMAIN e) <= MaxEntries
  /\ \A i \in DOMAIN e : e[i] \in Entry

\* The variables hold what the code keeps in them; the cache is within its limit
\* in memory and in its file.
TypeOK ==
  /\ IsEntries(entries) /\ IsEntries(saved)
  /\ governor \in Governor
  /\ credential \in [value : BOOLEAN, refresh : 0..Refresh]
  /\ pc \in [Threads -> {"idle", "credential", "fetch", "governor", "attempt", "call",
                         "store"}]
  /\ ip \in [Threads -> Ips \cup {NoIp}]
  /\ answer \in [Threads -> {"ok", "error", NoAnswer}]
  /\ \A t \in Threads : /\ pc[t] = "idle" <=> ip[t] = NoIp
                        /\ pc[t] = "store" <=> answer[t] # NoAnswer
  /\ crashes \in Nat /\ faults \in Nat
  /\ promised \in [Ips -> Nat]
  /\ unsaved \in BOOLEAN
  /\ overlapped \subseteq {t \in Threads : pc[t] # "idle"}
  /\ heard \in [left : Nat, age : Nat]

\* broker.py: "Once a provider 429s, every other in-flight or future lookup for
\* that provider is skipped -- no network call at all -- until its cooldown
\* expires".  No request starts before the time the last 429 noted asks for.
BackoffHonoured ==
  [][\A t \in Threads : pc[t] = "attempt" /\ pc'[t] = "call" => heard.left = 0]_vars

\* What the governor does keep of this with several threads: no lookup passes
\* can_call before the time that the last 429 noted asks for, or MAX_COOLDOWN,
\* whatever answers of other requests in flight arrive in between.  A 429 that
\* overflows the exponential is not noted: note_rate_limited raises before it sets
\* a cooldown.
LastBackoffKept ==
  [][\A t \in Threads :
       pc[t] = "governor" /\ pc'[t] = "attempt" =>
         heard.left = 0 \/ heard.age >= MaxCooldown]_vars

\* broker.py: "Enrichment happens once per IP per cache TTL", as far as several
\* threads keep it: a request is under way for an address whose last answer
\* should be served only where that answer was stored during this very lookup.
\* A cache at its limit may drop an answer for others that live as long, and a
\* restart may lose one whose save failed.
OncePerTtlUnlessOverlapping ==
  \A t \in Threads : pc[t] = "call" /\ promised[ip[t]] > 0 => t \in overlapped

\* A provider that sent 429s is callable again, time after time, also when it
\* has not sent any other answer since.
ProviderRecovers == []<>CanCall(governor)

=============================================================================
