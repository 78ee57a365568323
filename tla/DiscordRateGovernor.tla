------------------------ MODULE DiscordRateGovernor ------------------------
(***************************************************************************)
(* The outbound governor of one Discord channel,                           *)
(* native/discord_rate_governor.py, as operators on its fields.  The two   *)
(* deadlines are kept as the ticks left until them; TickGovernor is the    *)
(* clock.                                                                  *)
(***************************************************************************)
EXTENDS Naturals

CONSTANTS
  MinInterval,   \* min_interval_seconds, in ticks
  MaxCooldown    \* max_cooldown_seconds, in ticks

ASSUME GovernorAssumption ==
  /\ MinInterval \in Nat
  /\ MaxCooldown \in Nat \ {0}

Governor == [interval : 0..MinInterval, cooldown : 0..MaxCooldown,
             degraded : BOOLEAN, suppressed : Nat]

NewGovernor == [interval |-> 0, cooldown |-> 0, degraded |-> FALSE, suppressed |-> 0]

CanSend(g) == g.cooldown = 0 /\ g.interval = 0

NoteSendAttempt(g) == [g EXCEPT !.interval = MinInterval]

NoteBlocked(g, depth) ==
  [g EXCEPT !.suppressed = IF g.degraded /\ depth > @ THEN depth ELSE @]

\* The size of the recovery digest, which it returns, is read by no property.
NoteSuccess(g) == [g EXCEPT !.degraded = FALSE,
                            !.suppressed = IF g.degraded THEN 0 ELSE @]

\* Mutant of NoteRateLimited: max_cooldown_seconds is not applied.
NoteRateLimitedUncapped(g, retryAfter) ==
  [g EXCEPT !.cooldown = IF retryAfter < 1 THEN 1 ELSE retryAfter, !.degraded = TRUE]

NoteRateLimited(g, retryAfter) ==
  [g EXCEPT !.cooldown = IF retryAfter > MaxCooldown THEN MaxCooldown
                         ELSE IF retryAfter < 1 THEN 1 ELSE retryAfter,
            !.degraded = TRUE]

TickGovernor(g) == [g EXCEPT !.interval = IF @ > 0 THEN @ - 1 ELSE 0,
                             !.cooldown = IF @ > 0 THEN @ - 1 ELSE 0]

=============================================================================
