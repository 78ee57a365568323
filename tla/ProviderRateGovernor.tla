------------------------ MODULE ProviderRateGovernor ------------------------
(***************************************************************************)
(* native/threat_intel/rate_governor.py: the governor that every lookup of *)
(* one provider shares, as operators on its fields.  The deadlines are     *)
(* kept as the ticks left until them.                                      *)
(***************************************************************************)
EXTENDS Naturals

CONSTANTS
  MinInterval,      \* min_interval_seconds, in ticks
  DefaultCooldown,  \* default_cooldown_seconds, in ticks
  MaxCooldown,      \* max_cooldown_seconds, in ticks
  MaxStrikes        \* 429s in a row without Retry-After after which the next
                    \* default_cooldown * 2 ** n overflows a float: 1024

ASSUME GovernorAssumption ==
  /\ MinInterval \in Nat
  /\ MaxCooldown \in Nat /\ DefaultCooldown \in 1..MaxCooldown
  /\ MaxStrikes \in Nat

Governor == [interval : 0..MinInterval, cooldown : 0..MaxCooldown,
             strikes : 0..(MaxStrikes + 1)]

NewGovernor == [interval |-> 0, cooldown |-> 0, strikes |-> 0]

\* Mutant of CanCall: a provider that gave no Retry-After is not called again.
CanCallUnstruck(g) == g.cooldown = 0 /\ g.interval = 0 /\ g.strikes = 0

CanCall(g) == g.cooldown = 0 /\ g.interval = 0

NoteCallAttempt(g) == [g EXCEPT !.interval = MinInterval]

\* Mutant of NoteSuccess: the cooldown ends with the streak of 429s.
NoteSuccessClears(g) == [g EXCEPT !.strikes = 0, !.cooldown = 0]

NoteSuccess(g) == [g EXCEPT !.strikes = 0]

Bounded(backoff) == IF backoff > MaxCooldown THEN MaxCooldown ELSE backoff

\* note_rate_limited with Retry-After.
NoteRetryAfter(g, s) ==
  [g EXCEPT !.strikes = 0, !.cooldown = Bounded(IF s < 1 THEN 1 ELSE s)]

\* note_rate_limited without: exponential, or an OverflowError that leaves the
\* cooldown as it is.
Overflows(g) == g.strikes >= MaxStrikes
NoteRateLimited(g) ==
  IF Overflows(g)
  THEN [g EXCEPT !.strikes = MaxStrikes + 1]
  ELSE [g EXCEPT !.strikes = @ + 1, !.cooldown = Bounded(DefaultCooldown * 2^g.strikes)]

TickGovernor(g) == [g EXCEPT !.interval = IF @ > 0 THEN @ - 1 ELSE 0,
                             !.cooldown = IF @ > 0 THEN @ - 1 ELSE 0]

=============================================================================
