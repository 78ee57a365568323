--------------------------- MODULE DiscordMonitor ---------------------------
(***************************************************************************)
(* The Discord monitor, native/discord-monitor.py, from the log line to    *)
(* the webhook: poll_once absorbs lines into session clusters, flushes     *)
(* expired clusters to the threat-intel worker, queues their summaries and *)
(* drains the two channels' queues under their governors.  The process can *)
(* be killed at any step and is restarted by systemd; every save_state can *)
(* fail; Discord can accept, refuse, rate-limit or not answer.             *)
(*                                                                         *)
(* The log is one growing sequence here; LogTailer has its rotations.  A   *)
(* line is its number and its digest.  A queued item is its id: a summary  *)
(* is a key and the lines of its cluster, which the timestamps and count   *)
(* in _flush_item_id stand for; an alert is its line.                      *)
(***************************************************************************)
EXTENDS SessionClusters, DiscordRateGovernor, Sequences

CONSTANTS
  Garbage,         \* the "key" of a line that is not a JSON object
  AlertsEnabled,   \* IMMEDIATE_ALERTS_ENABLED
  MaxSeen, MaxDead, MaxPending,
  MaxInflight,     \* max_inflight of the worker
  RetryAfters,     \* retry_after values of Discord's 429 answers, in ticks
  MaxLines,        \* bound: lines Cowrie logs
  FirstKeys,       \* bound: keys of the first one
  MaxPriority,     \* bound: of them, the first ones may be priority events
  MaxFaults        \* bound: kills of the process, failed saves, credentials,
                   \* answers, 429 on intel

ASSUME MonitorAssumption ==
  /\ Garbage \notin Keys
  /\ AlertsEnabled \in BOOLEAN
  /\ MaxSeen \in Nat \ {0} /\ MaxDead \in Nat \ {0} /\ MaxPending \in Nat \ {0}
  /\ MaxInflight \in Nat
  /\ RetryAfters \subseteq Nat
  /\ FirstKeys \subseteq Keys
  /\ MaxLines \in Nat /\ MaxPriority \in Nat /\ MaxFaults \in Nat

Channels == {"legacy", "intel"}

VARIABLES
  log,        \* lines Cowrie wrote: key and whether the event is a priority one
  state,      \* the state dictionary in memory
  disk,       \* what STATE_PATH holds
  active,     \* clusters in the SessionClusterManager
  jobs,       \* clusters the worker is enriching
  results,    \* the worker's result queue
  governor,   \* one per channel
  pc,         \* where main is; "down" when the process is not running
  dirty,      \* the loop under way has changed something it will save
  request,    \* the POST under way, and how it will be answered
  accepted,   \* items Discord accepted, in order
  abandoned,  \* items ever dead-lettered
  faults

memVars == <<state, active, jobs, results, governor, dirty, request>>
netVars == <<accepted, abandoned>>
vars == <<log, memVars, disk, pc, netVars, faults>>

-----------------------------------------------------------------------------
(* Data.                                                                   *)

Line == [key : Keys \cup {Garbage}, priority : BOOLEAN]

Item == [type : {"line", "alert", "summary"}, key : Keys \cup {Garbage},
         lines : SUBSET Nat]

\* The digest of line n, the id of its alert, and the id of a cluster's flush.
LineId(n)       == [type |-> "line", key |-> log[n].key, lines |-> {n}]
AlertId(n)      == [type |-> "alert", key |-> log[n].key, lines |-> {n}]
SummaryId(k, c) == [type |-> "summary", key |-> k, lines |-> c.lines]

\* What becomes of a POST: Discord accepts it and says so, or the answer is
\* lost; Discord refuses it, or answers 429.
Answers == {"ok", "lost", "refused", "limited"}

NoRequest == [item |-> [type |-> "line", key |-> Garbage, lines |-> {}],
              answer |-> "none"]

DefaultState ==
  [offset |-> 0, seen |-> <<>>, clusters |-> [k \in {} |-> NewCluster],
   awaiting |-> {}, pending |-> [c \in Channels |-> <<>>], dead |-> <<>>,
   replaySuppressed |-> 0]

Elements(q) == {q[n] : n \in DOMAIN q}

\* append_bounded of every element of q in turn.
AppendBounded(items, q, limit) ==
  LET all == items \o q
  IN IF Len(all) > limit THEN SubSeq(all, Len(all) - limit + 1, Len(all)) ELSE all

\* Items q get a dead letter and are marked seen.
DeadLetter(st, q, reason) ==
  [st EXCEPT !.dead = AppendBounded(@, [n \in DOMAIN q |-> [id |-> q[n], reason |-> reason]],
                                    MaxDead),
             !.seen = AppendBounded(@, q, MaxSeen)]

\* Mutant of Displaced: the bound is checked one item late.
DisplacedLate(st, item, ch) ==
  IF /\ item \notin Elements(st.seen) \cup Elements(st.pending[ch])
     /\ Len(st.pending[ch]) > MaxPending
  THEN <<Head(st.pending[ch])>>
  ELSE <<>>

\* The item enqueue_pending drops to make room, if any.
Displaced(st, item, ch) ==
  IF /\ item \notin Elements(st.seen) \cup Elements(st.pending[ch])
     /\ Len(st.pending[ch]) >= MaxPending
  THEN <<Head(st.pending[ch])>>
  ELSE <<>>

\* Mutant of EnqueuePending: a full queue ignores the item, without a dead letter.
EnqueuePendingIgnores(st, item, ch) ==
  IF \/ item \in Elements(st.seen) \cup Elements(st.pending[ch])
     \/ Len(st.pending[ch]) >= MaxPending
  THEN st
  ELSE [st EXCEPT !.pending[ch] = Append(@, item)]

\* enqueue_pending: at most once, in the place of the oldest item when full.
EnqueuePending(st, item, ch) ==
  IF item \in Elements(st.seen) \cup Elements(st.pending[ch])
  THEN st
  ELSE LET dropped == Displaced(st, item, ch)
           rest == SubSeq(st.pending[ch], Len(dropped) + 1, Len(st.pending[ch]))
       IN [DeadLetter(st, dropped, "queue_limit") EXCEPT
             !.pending[ch] = Append(rest, item)]

\* _enqueue_summary: queued for intel and no longer awaiting enrichment.
EnqueueSummary(st, item) ==
  [EnqueuePending(st, item, "intel") EXCEPT !.awaiting = @ \ {item}]

\* Mutants of LoadState: queued items survive a restart; summaries that were
\* awaiting enrichment do not.
LoadStateReplays(d) == d

LoadStateForgets(d) == [d EXCEPT !.pending = [c \in Channels |-> <<>>], !.awaiting = {}]

\* load_state: what a prior process left queued is never sent again.
LoadState(d) ==
  LET left == d.pending["legacy"] \o d.pending["intel"]
  IN [DeadLetter(d, left, "restart_replay_suppressed") EXCEPT
        !.pending = [c \in Channels |-> <<>>],
        !.replaySuppressed = @ + Len(left)]

\* The head of a queue is settled, with a dead letter when abandoned.
PopSeen(st, ch) ==
  [st EXCEPT !.pending[ch] = Tail(@),
             !.seen = AppendBounded(@, <<Head(st.pending[ch])>>, MaxSeen)]

PopAbandoned(st, ch) ==
  [DeadLetter(st, <<Head(st.pending[ch])>>, "delivery_uncertain_no_replay") EXCEPT
     !.pending[ch] = Tail(@)]

-----------------------------------------------------------------------------
(* Control.                                                                *)

\* The queue that a drain_pending call works on.
Draining == {"drainLine", "drainLegacy", "drainIntel"}
Channel  == IF pc = "drainIntel" THEN "intel" ELSE "legacy"

\* Mutant of AfterDrain: the end of the legacy drain ends the poll.
AfterDrainEnds == IF pc = "drainLine" THEN "consume" ELSE "idle"

\* Where poll_once continues when drain_pending returns.
AfterDrain == CASE pc = "drainLine" -> "consume"
                [] pc = "drainLegacy" -> "drainIntel"
                [] OTHER -> "idle"

\* save_state, or a command, raises: STATE_PATH keeps its content and the
\* exception unwinds to handler.
Raises(handler) ==
  /\ faults < MaxFaults
  /\ faults' = faults + 1
  /\ pc' = handler
  /\ UNCHANGED disk

\* save_state of state', then go on at next; or it raises.
SaveState(next, handler) ==
  \/ disk' = state' /\ pc' = next /\ UNCHANGED faults
  \/ Raises(handler)

\* The step dead-letters these items.
Abandon(items) == abandoned' = abandoned \cup items

\* Cowrie logs a line (external).
LogLine ==
  /\ Len(log) < MaxLines
  /\ \E line \in Line :
       /\ log = <<>> => line.key \in FirstKeys
       /\ line.priority => line.key # Garbage /\ Len(log) < MaxPriority
       /\ log' = Append(log, line)
  /\ UNCHANGED <<memVars, disk, pc, netVars, faults>>

\* The clock.  Cluster timestamps are wall-clock and age on disk as well.
Tick ==
  /\ active' = TickClusters(active)
  /\ state' = [state EXCEPT !.clusters = TickClusters(@)]
  /\ disk' = [disk EXCEPT !.clusters = TickClusters(@)]
  /\ governor' = [c \in Channels |-> TickGovernor(governor[c])]
  /\ UNCHANGED <<log, jobs, results, pc, dirty, request, netVars, faults>>

\* main: load_state, a manager with the clusters restored, new governors and a
\* new worker.
Start ==
  /\ pc = "down"
  /\ pc' = "recover"
  /\ state' = LoadState(disk)
  /\ Abandon(UNION {Elements(disk.pending[c]) : c \in Channels})
  /\ active' = disk.clusters
  /\ governor' = [c \in Channels |-> NewGovernor]
  /\ UNCHANGED <<log, disk, jobs, results, dirty, request, accepted, faults>>

\* _recover_flushed_awaiting_enrichment, one summary, and its save.
RecoverOne ==
  /\ pc = "recover"
  /\ \E item \in state.awaiting :
       /\ state' = EnqueueSummary(state, item)
       /\ Abandon(Elements(Displaced(state, item, "intel")))
  /\ dirty' = TRUE
  /\ UNCHANGED <<log, disk, active, jobs, results, governor, pc, request,
                 accepted, faults>>

RecoverDone ==
  /\ pc = "recover"
  /\ state.awaiting = {}
  /\ UNCHANGED state
  /\ \/ dirty /\ SaveState("idle", "down")
     \/ ~dirty /\ pc' = "idle" /\ UNCHANGED <<disk, faults>>
  /\ dirty' = FALSE
  /\ UNCHANGED <<log, active, jobs, results, governor, request, netVars>>

\* poll_once after the sleep.
BeginPoll ==
  /\ pc = "idle"
  /\ pc' = "consume"
  /\ UNCHANGED <<log, memVars, disk, netVars, faults>>

\* queue_line: the state after line n, and the clusters after it.  The state
\* keeps the clusters as they are before the alert is marked.
QueueLine(n) ==
  LET k      == log[n].key
      seen   == [state EXCEPT !.seen = AppendBounded(@, <<LineId(n)>>, MaxSeen)]
      after  == Observe(active, k, n)
      absorbed == [seen EXCEPT !.clusters = after]
      alerts == AlertsEnabled /\ log[n].priority /\ ~after[k].alerted
  IN IF LineId(n) \in Elements(state.seen)
     THEN [state |-> state, active |-> active, displaced |-> {}]
     ELSE IF k = Garbage
     THEN [state |-> seen, active |-> active, displaced |-> {}]
     ELSE [state |-> IF alerts THEN EnqueuePending(absorbed, AlertId(n), "legacy")
                     ELSE absorbed,
           active |-> IF alerts THEN MarkAlerted(after, k) ELSE after,
           displaced |-> IF alerts
                         THEN Elements(Displaced(absorbed, AlertId(n), "legacy"))
                         ELSE {}]

\* consume, one complete line: queue_line, the offset, save_state.
ConsumeLine ==
  /\ pc = "consume"
  /\ state.offset < Len(log)
  /\ LET q == QueueLine(state.offset + 1)
     IN /\ state' = [q.state EXCEPT !.offset = @ + 1]
        /\ active' = q.active
        /\ Abandon(q.displaced)
  /\ SaveState("drainLine", "idle")
  /\ UNCHANGED <<log, jobs, results, governor, dirty, request, accepted>>

ConsumeDone ==
  /\ pc = "consume"
  /\ state.offset = Len(log)
  /\ pc' = "flush"
  /\ UNCHANGED <<log, memVars, disk, netVars, faults>>

\* flush_expired_clusters, one cluster: it awaits enrichment if the worker
\* takes it, otherwise its summary is queued without.
FlushOne ==
  /\ pc = "flush"
  /\ \E k \in IF ExpiredKeys(active) # {} THEN ExpiredKeys(active)
              ELSE OverflowKeys(active) :
       LET item == SummaryId(k, active[k])
           flushed == [state EXCEPT !.awaiting = @ \cup {item}]
       IN /\ active' = Without(active, k)
          /\ \/ /\ Cardinality(jobs) < MaxInflight
                /\ jobs' = jobs \cup {item}
                /\ state' = flushed
                /\ Abandon({})
             \/ /\ Cardinality(jobs) >= MaxInflight
                /\ state' = EnqueueSummary(flushed, item)
                /\ Abandon(Elements(Displaced(flushed, item, "intel")))
                /\ UNCHANGED jobs
  /\ dirty' = TRUE
  /\ UNCHANGED <<log, disk, results, governor, pc, request, accepted, faults>>

\* Mutant of FlushDone: state["clusters"] still has the flushed clusters.
FlushDoneStale ==
  /\ pc = "flush"
  /\ ExpiredKeys(active) = {}
  /\ OverflowKeys(active) = {}
  /\ UNCHANGED state
  /\ \/ dirty /\ SaveState("complete", "idle")
     \/ ~dirty /\ pc' = "complete" /\ UNCHANGED <<disk, faults>>
  /\ dirty' = FALSE
  /\ UNCHANGED <<log, active, jobs, results, governor, request, netVars>>

FlushDone ==
  /\ pc = "flush"
  /\ ExpiredKeys(active) = {}
  /\ OverflowKeys(active) = {}
  /\ \/ /\ dirty
        /\ state' = [state EXCEPT !.clusters = active]
        /\ SaveState("complete", "idle")
     \/ /\ ~dirty
        /\ pc' = "complete"
        /\ UNCHANGED <<state, disk, faults>>
  /\ dirty' = FALSE
  /\ UNCHANGED <<log, active, jobs, results, governor, request, netVars>>

\* flush_expired_clusters, one drained result.
CompleteOne ==
  /\ pc = "complete"
  /\ results # <<>>
  /\ results' = Tail(results)
  /\ LET item == Head(results)
     IN \/ /\ item \in state.awaiting
           /\ state' = EnqueueSummary(state, item)
           /\ Abandon(Elements(Displaced(state, item, "intel")))
        \/ /\ item \notin state.awaiting
           /\ Abandon({})
           /\ UNCHANGED state
  /\ dirty' = TRUE
  /\ UNCHANGED <<log, disk, active, jobs, governor, pc, request, accepted,
                 faults>>

CompleteDone ==
  /\ pc = "complete"
  /\ results = <<>>
  /\ UNCHANGED state
  /\ \/ dirty /\ SaveState("drainLegacy", "idle")
     \/ ~dirty /\ pc' = "drainLegacy" /\ UNCHANGED <<disk, faults>>
  /\ dirty' = FALSE
  /\ UNCHANGED <<log, active, jobs, results, governor, request, netVars>>

\* A worker thread finishes: enriched or not, the cluster comes back.
WorkerFinishes ==
  /\ \E item \in jobs :
       /\ jobs' = jobs \ {item}
       /\ results' = Append(results, item)
  /\ UNCHANGED <<log, state, disk, active, governor, pc, dirty, request, netVars,
                 faults>>

\* drain_pending returns: nothing is queued, or the governor holds the queue.
DrainReturns ==
  /\ pc \in Draining
  /\ request = NoRequest
  /\ \/ /\ state.pending[Channel] = <<>>
        /\ UNCHANGED governor
     \/ /\ state.pending[Channel] # <<>>
        /\ ~CanSend(governor[Channel])
        /\ governor' = [governor EXCEPT
                          ![Channel] = NoteBlocked(@, Len(state.pending[Channel]))]
  /\ pc' = AfterDrain
  /\ UNCHANGED <<log, state, disk, active, jobs, results, dirty, request, netVars,
                 faults>>

\* No webhook: the whole queue is dead-lettered.
DrainWithoutCredential ==
  /\ pc \in Draining
  /\ request = NoRequest
  /\ state.pending[Channel] # <<>>
  /\ LET q == state.pending[Channel]
     IN /\ state' = [DeadLetter(state, q, "credential_unavailable") EXCEPT
                       !.pending[Channel] = <<>>]
        /\ Abandon(Elements(q))
  /\ SaveState(AfterDrain, "idle")
  /\ UNCHANGED <<log, active, jobs, results, governor, dirty, request, accepted>>

\* The command that reads the webhook outlives its timeout: poll_once fails.
CredentialTimesOut ==
  /\ pc \in Draining
  /\ request = NoRequest
  /\ state.pending[Channel] # <<>>
  /\ Raises("idle")
  /\ UNCHANGED <<log, memVars, netVars>>

\* The head of the queue is saved as still pending, then posted.
SendHead ==
  LET item == Head(state.pending[Channel])
  IN /\ pc \in Draining
     /\ request = NoRequest
     /\ state.pending[Channel] # <<>>
     /\ CanSend(governor[Channel])
     /\ governor' = [governor EXCEPT ![Channel] = NoteSendAttempt(@)]
     /\ \/ Raises("idle") /\ UNCHANGED <<request, accepted>>
        \/ \E answer \in Answers :
             /\ disk' = state
             /\ pc' = pc
             /\ request' = [item |-> item, answer |-> answer]
             /\ accepted' = IF answer \in {"ok", "lost"}
                            THEN Append(accepted, item) ELSE accepted
             /\ \/ /\ \/ answer = "ok"
                      \/ answer = "limited" /\ Channel = "legacy"
                   /\ UNCHANGED faults
                \/ /\ answer # "ok"
                   /\ ~(answer = "limited" /\ Channel = "legacy")
                   /\ faults < MaxFaults
                   /\ faults' = faults + 1
     /\ UNCHANGED <<log, state, active, jobs, results, dirty, abandoned>>

\* A 2xx answer; the digest posted on recovery is not followed.
SendSucceeded ==
  /\ request.answer = "ok"
  /\ governor' = [governor EXCEPT ![Channel] = NoteSuccess(@)]
  /\ state' = PopSeen(state, Channel)
  /\ SaveState(pc, "idle")
  /\ request' = NoRequest
  /\ UNCHANGED <<log, active, jobs, results, dirty, accepted, abandoned>>

\* 429: the item stays queued and drain_pending returns.
SendRateLimited ==
  /\ request.answer = "limited"
  /\ \E s \in RetryAfters :
       governor' = [governor EXCEPT ![Channel] = NoteRateLimited(@, s)]
  /\ request' = NoRequest
  /\ pc' = AfterDrain
  /\ UNCHANGED <<log, state, disk, active, jobs, results, dirty, netVars,
                 faults>>

\* Any other answer, or none: Discord may or may not have the item.
SendAbandoned ==
  /\ request.answer \in {"lost", "refused"}
  /\ state' = PopAbandoned(state, Channel)
  /\ Abandon({request.item})
  /\ SaveState(pc, "idle")
  /\ request' = NoRequest
  /\ UNCHANGED <<log, active, jobs, results, governor, dirty, accepted>>

\* The process is killed: memory, the worker and its results are gone.
Crash ==
  /\ pc # "down"
  /\ faults < MaxFaults
  /\ faults' = faults + 1
  /\ pc' = "down"
  /\ state' = disk
  /\ active' = disk.clusters
  /\ jobs' = {}
  /\ results' = <<>>
  /\ governor' = [c \in Channels |-> NewGovernor]
  /\ dirty' = FALSE
  /\ request' = NoRequest
  /\ UNCHANGED <<log, disk, netVars>>

-----------------------------------------------------------------------------

Init ==
  /\ log = <<>>
  /\ state = DefaultState
  /\ disk = DefaultState
  /\ active = DefaultState.clusters
  /\ jobs = {}
  /\ results = <<>>
  /\ governor = [c \in Channels |-> NewGovernor]
  /\ pc = "down"
  /\ dirty = FALSE
  /\ request = NoRequest
  /\ accepted = <<>>
  /\ abandoned = {}
  /\ faults = 0

Monitor ==
  \/ Start \/ RecoverOne \/ RecoverDone \/ BeginPoll \/ ConsumeLine \/ ConsumeDone
  \/ FlushOne \/ FlushDone \/ CompleteOne \/ CompleteDone
  \/ DrainReturns \/ DrainWithoutCredential \/ CredentialTimesOut
  \/ SendHead \/ SendSucceeded \/ SendRateLimited \/ SendAbandoned

Next == Monitor \/ WorkerFinishes \/ Tick \/ LogLine \/ Crash

Spec == Init /\ [][Next]_vars

\* systemd restarts the process and poll_once is called for ever; enrich_ip
\* returns, its providers having timeouts; time passes.  New lines and
\* faults need not happen and faults stop, but Discord may answer 429 on the
\* legacy channel for ever.
FairSpec == Spec /\ WF_vars(Monitor) /\ WF_vars(WorkerFinishes) /\ WF_vars(Tick)

-----------------------------------------------------------------------------
(* Properties.                                                             *)

Reasons == {"restart_replay_suppressed", "queue_limit", "credential_unavailable",
            "delivery_uncertain_no_replay"}

IsClusters(c) == DOMAIN c \subseteq Keys /\ \A k \in DOMAIN c : c[k] \in Cluster

IsState(st) ==
  /\ st.offset \in Nat
  /\ st.seen \in Seq(Item)
  /\ IsClusters(st.clusters)
  /\ st.awaiting \subseteq Item
  /\ st.pending \in [Channels -> Seq(Item)]
  /\ st.dead \in Seq([id : Item, reason : Reasons])
  /\ st.replaySuppressed \in Nat

\* The variables hold what the code keeps in them.
TypeOK ==
  /\ log \in Seq(Line)
  /\ IsState(state)
  /\ IsState(disk)
  /\ IsClusters(active)
  /\ jobs \subseteq Item
  /\ results \in Seq(Item)
  /\ governor \in [Channels -> Governor]
  /\ pc \in {"down", "recover", "idle", "consume", "flush", "complete"} \cup Draining
  /\ dirty \in BOOLEAN
  /\ request \in [item : Item, answer : Answers \cup {"none"}]
  /\ accepted \in Seq(Item)
  /\ abandoned \subseteq Item
  /\ faults \in Nat

\* Lines of a session.  A line without one is keyed by its address, and observe
\* replaces a cluster of an address that was quiet.
SessionLines == {n \in DOMAIN log : log[n].key \in Sessions}

\* Lines that a set of items summarises.
Summarised(items) == UNION {i.lines : i \in {j \in items : j.type = "summary"}}

\* Lines whose summary STATE_PATH still leads to.
HeldOnDisk == LinesOf(disk.clusters) \cup Summarised(disk.awaiting)
                \cup Summarised(Elements(disk.pending["intel"]))

\* Lines whose summary was delivered or dead-lettered.
Settled == Summarised(Elements(accepted) \cup abandoned)

\* default_state: "a crash can never advance the offset (or mark a line seen)
\* without the cluster data it produced also being on disk".  A line below the
\* saved offset is in a saved cluster, in a summary on its way, or settled.
SummaryNeverLost ==
  \A n \in 1..disk.offset :
    log[n].key # Garbage => n \in HeldOnDisk \cup Settled

\* The same of the lines of sessions, beside lines that have none.
SessionNeverLost ==
  \A n \in SessionLines : n <= disk.offset => n \in HeldOnDisk \cup Settled

\* No line is reported twice: whatever is lost, retried, recovered or replayed,
\* Discord accepts at most one summary and one alert that contain it.
ReportedOnce ==
  \A a, b \in DOMAIN accepted :
    a # b /\ accepted[a].type = accepted[b].type
      => accepted[a].lines \cap accepted[b].lines = {}

\* What Discord accepted, or STATE_PATH records as given up, is not also saved
\* in a form that a restart would send again: not in a cluster, not awaiting.
SettledNotRevived ==
  LET gaveUp == {d.id : d \in Elements(disk.dead)}
  IN Summarised(Elements(accepted) \cup gaveUp)
       \cap (LinesOf(disk.clusters) \cup Summarised(disk.awaiting)) = {}

\* The lists of the state stay within their limits in memory and on disk, the
\* worker within max_inflight, and a flush leaves at most MaxActive clusters.
Bounded ==
  /\ \A st \in {state, disk} :
       /\ Len(st.seen) <= MaxSeen /\ Len(st.dead) <= MaxDead
       /\ \A c \in Channels : Len(st.pending[c]) <= MaxPending
  /\ Cardinality(jobs) <= MaxInflight
  /\ pc = "complete" => Cardinality(DOMAIN active) <= MaxActive

\* Every line of a session ends in a summary that is delivered or dead-lettered,
\* also when the legacy channel is rate-limited for ever.
SummariesSettle ==
  \A n \in 1..MaxLines : (n \in SessionLines) ~> (n \in Settled)

\* What the ledger sees of the monitor: what STATE_PATH holds, the summaries
\* Discord accepted, and those given up, as far as they are of sessions.
Ledger == INSTANCE SummaryLedger WITH
  lines    <- SessionLines,
  recorded <- disk.offset,
  open     <- HeldOnDisk \cap SessionLines,
  reports  <- [r \in {a \in DOMAIN accepted : accepted[a].type = "summary"} |->
                 accepted[r].lines \cap SessionLines],
  dropped  <- Summarised(abandoned)

\* The monitor implements the ledger: at every single save, crash, restart,
\* lost answer and retry, a summary is posted only while STATE_PATH leads to
\* it, a session's line leaves STATE_PATH only when its summary was posted or given
\* up, and what has left never comes back.
ImplementsLedger == Ledger!Spec

=============================================================================
