-------------------------- MODULE EnrichmentCache --------------------------
(***************************************************************************)
(* native/threat_intel/cache.py as operators on its entries, a function    *)
(* from observables to entries.  expires_at_epoch is kept as the ticks     *)
(* left until it; an expired entry stays until it is replaced or evicted.  *)
(***************************************************************************)
EXTENDS Naturals, FiniteSets

CONSTANTS
  Ips,         \* observables of one provider: public addresses
  MaxEntries,
  Ttl,         \* time to live of an answer, in ticks
  ErrorTtl     \* time to live of an error, in ticks

ASSUME CacheAssumption ==
  /\ MaxEntries \in Nat \ {0}
  /\ Ttl \in Nat /\ ErrorTtl \in Nat

Entry == [status : {"ok", "error"}, ttl : 0..Ttl \cup 0..ErrorTtl]

\* get finds an entry that has not expired.
Hit(entries, ip) == ip \in DOMAIN entries /\ entries[ip].ttl > 0

\* Mutant of Evicted: one entry too many is kept.
EvictedLate(entries, keep) ==
  /\ keep \subseteq DOMAIN entries
  /\ Cardinality(keep) <= MaxEntries + 1
  /\ Cardinality(DOMAIN entries) <= MaxEntries => keep = DOMAIN entries

\* Mutant of Evicted: the entries that expire last go first.
EvictedFresh(entries, keep) ==
  /\ keep \subseteq DOMAIN entries
  /\ IF Cardinality(DOMAIN entries) <= MaxEntries
     THEN keep = DOMAIN entries
     ELSE /\ Cardinality(keep) = MaxEntries
          /\ \A in \in keep, out \in DOMAIN entries \ keep : entries[in].ttl <= entries[out].ttl

\* _evict_if_needed leaves keep: the entries that expire last, as many as fit.
Evicted(entries, keep) ==
  /\ keep \subseteq DOMAIN entries
  /\ IF Cardinality(DOMAIN entries) <= MaxEntries
     THEN keep = DOMAIN entries
     ELSE /\ Cardinality(keep) = MaxEntries
          /\ \A in \in keep, out \in DOMAIN entries \ keep : entries[out].ttl <= entries[in].ttl

\* What _lookup_one passes to set.
TtlOf(status) == IF status = "ok" THEN Ttl ELSE ErrorTtl

With(entries, ip, status) ==
  [j \in DOMAIN entries \cup {ip} |->
     IF j = ip THEN [status |-> status, ttl |-> TtlOf(status)] ELSE entries[j]]

TickEntries(entries) ==
  [ip \in DOMAIN entries |-> [entries[ip] EXCEPT !.ttl = IF @ > 0 THEN @ - 1 ELSE 0]]

=============================================================================
