# A TLA+ verification of the PatriotPot control deployment

PatriotPot is a medium-interaction SSH honeypot: Cowrie on one EC2 instance, a
CloudFormation stack around it, and sidecars that carry what Cowrie logs to S3 and to
Discord, deployed by one PowerShell script. This directory holds the TLA+ models of
those sidecars, of the host they run on and of that script, the TLC configurations that
check them and the proofs about them. Paths below are relative to the repository (`src/`
is its root).

## 1. Inventory

| Component | State it keeps | Operations | Hard part | Here |
|---|---|---|---|---|
| S3 evidence archive, `native/s3-archive.py` | `STATE_PATH`: a lineage (generation, offset, anchor) per inode, `uploaded_objects`; in memory the same and one open descriptor | one run per timer tick under a flock: rotated logs, then the current one; per record PUT object, PUT manifest, save | crash between PUT and save, lost answers, rotation and truncation under the reader | `S3Archive`, `EvidenceLedger`, `S3ArchiveProofs`, `S3EvidenceProofs` |
| Discord monitor, `native/discord-monitor.py` | `STATE_PATH`: source, seen, two pending queues, dead letters, clusters, flushed clusters that await enrichment; in memory the same, two governors, the worker | poll loop: consume lines, flush clusters, complete enrichments, drain the queues; recovery at start | crash between any two steps, failed saves, uncertain deliveries, 429s, completions in any order | `DiscordMonitor`, `SummaryLedger`, `DiscordMonitorProofs`, `DiscordMonitorSafety` |
| Log tailer (`poll_once`, `consume`) | device, inode, offset | stat, drain the rotated file, follow the current | path and descriptor disagree; rotation while down; a rotated file that is deleted | `LogTailer`, `LogTailerProofs` |
| Session clusters, `native/session_cluster.py` | active clusters by session or address | observe, flush_expired, evict_overflow, to_state, restore_state | a key that comes back, the limit | `SessionClusters` |
| Discord rate governor, `native/discord_rate_governor.py` | next permitted send, degraded flag, suppressed count | can_send, note_* | counting what is really suppressed | `DiscordRateGovernor` |
| Threat-intel worker, `native/threat_intel/worker.py` | in-flight futures, result queue | try_submit, drain_completed | backpressure, order of completion | in `DiscordMonitor` |
| Broker, cache, provider governor, credentials, `native/threat_intel/` | cache entries and `cache.json`, cooldowns, credential and refresh time | one lookup per provider and address, in several threads | check-then-act between locks, back-off arithmetic | `ThreatIntel`, `EnrichmentCache`, `ProviderRateGovernor`, `ThreatIntelProofs` |
| Provider clients, `observables.py`, `http_client.py` | none | request, classify, normalise | none beyond data conversion | outcomes only |
| Egress firewall, `native/patriotpot-egress-firewall.sh` | iptables chains, the state of its oneshot unit | remove, rebuild, hook; start | a command that fails half way, and the next run over what it left | `EgressFirewall`, `HostProofs` |
| Host-key installer, `native/install-host-key.py` | two key files | write, derive, compare, write | a rejected key after the old one is replaced | in `Host` |
| UserData and bootstrap, `gmu-honeypot-stack-2026-control.yaml`, `native/bootstrap-native.sh` | phase, units enabled and running, CloudFormation signal | phases in order, trap on failure, signal | a failure in any phase, services that die meanwhile, a reboot | `Host`, `HostProofs` |
| Firewall association (same template) | version installed | install, enable, check | the unit is active already | `Host` |
| Deployment control, `Invoke-PatriotPot.ps1` | the stack's template and parameters, change sets, published bundles | per flow (default, FirewallOnly, H2, AuthParity): check the tree, read the stack, publish, create and review a change set, execute it | the stack moves between what a run read and what it executes; bundles published half, or from different trees | `Deployment`, `MCDeployment`, `DeploymentProofs` |
| Validators, `validate-*.py` | none | compare texts | none: sequential | not modelled |
| Template, units, Cowrie | declarative, or third-party | | | assumptions only |

Cowrie appends to `cowrie.json` and rotates it. The archive and the monitor read
the same file and know nothing of each other; each has its own state file, saved
by writing a temporary file and renaming it. The monitor hands a flushed cluster to
the worker, whose threads ask the broker, and takes the results back at the end of a
poll. Everything else is one process and one thread. The archive is started by a
systemd timer; the monitor is restarted by systemd when it exits.

Correctness, component by component:

* archive: the saved offset never runs ahead of the bucket; what it skips is in the
  bucket byte for byte and an object is one whole record, unless the 64 bytes it
  compares are repeated by another incarnation of the log; a key has one manifest;
* monitor: a line consumed is in a cluster, on its way, or settled, never nowhere; a
  summary is delivered or abandoned once; what is settled stays settled; the queues
  keep their limits; one channel does not hold the other;
* tailer: no line is skipped, none is read twice, the old file is finished first;
* threat intelligence: an address is asked again while its answer lives only by a lookup
  that overlapped the storing of that answer; no lookup passes `can_call` before the time
  the last 429 noted asks for, or MAX_COOLDOWN; a provider comes back;
* deployment: what the stack refers to has been published, whole and from one tree; the
  instance is replaced only by a run that announced it, or by a change of the default
  flow that CloudFormation calls Conditional; a gate changes only the resources it owns;
* host: a firewall that is active is whole; Cowrie starts behind it; success is signalled
  only of what is in place, and failure is signalled.

## 2. Modules and how they correspond to the code

**`S3Archive`**. A log is a sequence of bytes. To tell incarnations of a log apart, a
byte of the model carries the event it belongs to and whether it is the LF, but the
archive sees only its text (`Seen`, `Text`): the LF of one record of two bytes is that
of any other. So a window of the anchors can repeat in another incarnation of the log,
which `AnchorsMatch` then takes for the same bytes, as the code does with the digest of
at most 64 bytes. Records have different lengths, so that an offset of one incarnation
may fall inside a record of the next. SHA-256 is injective: a digest is the text.
`repeats` is history: the generations in which `lineage_for` (`Mistaken`) or the test
around the read (`ReadRepeats`) accepted a window of another incarnation. The actions
follow `locked_run` and `archive_path` at the granularity at which the rest of the world
can intervene: `BeginRun` (load_state and the glob), `OpenSource` (open, first fstat,
`lineage_for`), `ReadSnapshot`, `CheckStable` (second fstat and anchors), `NextSegment`,
`PutData`, `PutManifest` (with `ManifestDiffers` when `verify_object` raises),
`SaveSegment`, `EndRun`. `PutAmbiguous` is an answer `put_once` retries, whether or not
the PUT took effect; `RunDies` is everything that ends the process. `WriteByte`,
`Rotate` and `Truncate` are external and may fall between any two of them.
`state["current"]` and `descriptor` are written and never read by schema 3, and are left
out. `reset_generation` and `lineage_for` are the operators `ResetGeneration` and
`LineageFor`, the pre/post test is `Stable`.

**`DiscordMonitor`** with **`SessionClusters`** and **`DiscordRateGovernor`**. `state`
is the dictionary in memory, `disk` what the file holds, `active` the
SessionClusterManager; the distinction matters because the code copies the clusters into
the state at particular lines. Each `save_state` is a step that either succeeds or
raises and unwinds to where the exception is caught. `LogLine` is Cowrie; the log is one
sequence here. An item is known by what its id is made of: the line of an alert, or the
key and creation of a cluster. Times are kept as ages and as ticks left. `accepted` and
`abandoned` are history: what Discord accepted, what was dead-lettered. `SendHead` is
`can_send`, `note_send_attempt`, `save_state` and the post; its answer is handled by
`SendSucceeded`, `SendRateLimited` or `SendAbandoned`. `WorkerFinishes` completes jobs
in any order. `Start`, `RecoverOne` and `RecoverDone` are load_state and the recovery.
The start-up message and the post of the digest bypass queue and governor and change no
state; they are left out.

**`LogTailer`** replaces that one sequence by a directory: `StatFirst`, `StatSame`,
`StatTruncated` and `StatRotated` are the branches of `poll_once`; `OpenLog` opens the
path again, which may name another file by then; `ReadLine` is one turn of `consume`.
`Remove` is external: logrotate or an operator deletes a rotated file that the monitor
has not open, whose unread lines are `lost`; `locate_inode` then finds no prior file and
`StatRotated` goes on with the current one, as it does with an empty one.
`queue_line` is reduced to the digest it remembers.

**`ThreatIntel`** with **`EnrichmentCache`** and **`ProviderRateGovernor`**. Every lock
acquisition of `_lookup_one` is one step of its thread: `CacheGet`, `CredentialGet`,
`CredentialFetched`, `CheckGovernor`, `CallProvider`, `Answered`/`RateLimited`, `Store`;
a lookup that ends early returns in the step that ends it. Providers share the cache and
nothing else, so one is modelled. History: `promised` is for how long the answer stored
last for an address must be served, `unsaved` that the cache's file lacks it,
`overlapped` the threads whose address another thread stored since they missed it in the
cache, `heard` the last 429 noted: what is left of the time it asked for, which
MAX_COOLDOWN does not cap, and its age.

**`EgressFirewall`** and **`Host`**. `table` is the kernel's filter table of each family,
`script` the run of the shell script: one step per `iptables` command, where those of
`remove_chain` ignore a failure and any other one ends the script and fails the unit.
`StartFirewall` is `systemctl start` of a oneshot unit with RemainAfterExit. `Host`
extends it with the instance: `phase` is what UserData or `bootstrap-native.sh` does
next, one action per `set_phase`, and one per command in `native_service_start`, where
the order of the commands matters. `Fails` is `set -e` and the EXIT trap. `Reboot` clears
the kernel and starts what is enabled, `BootServices` comes after the firewall's job
(`Before=`). `Associate` and `AssociationChecks` are the SSM association, which exists
only after the signal (CreationPolicy). `bypassed` is history: the firewall failed at
this boot.

**`Deployment`**. The script's variables are an operator's `run`: `Preflight` is
`Assert-AssetIntegrity`, describe-stacks and the decision whether the instance must be
replaced; `Snapshot` is get-template, the patch and the parameter test of the two gates;
each `Publish` is one `Publish-Asset`; `CreateAndReview` is create-change-set with the
flow's `New-*ChangeSet` guards; `Execute` is the execution, after which the script waits
for `UpdateComplete` or `UpdateRollback`. The stack is its configuration: the parts of
the template that are edited, which gates are in it, and the bundles its parameters
name. The `Parts` of a template are the text of the instance, of the monitor's
association, of the resources H2 and auth-parity protect (`Firewall` stands for them),
of the role's inline policies and of the rest of the role. `Changes` lists the resources
whose content differs, which is what the guards read. `Replacement` is what
CloudFormation may say of the instance: True when its network interface names another
bootstrap bundle, anything when its own text is edited; `Replaces` what a change so
called does. A *version* stands for the content of the pinned files. A tree has a
version of the files, one that bootstrap pins (`Assert-AssetIntegrity` wants them equal)
and one that the literals of the H2 patch pin (which nothing compares with the others).
A bundle's identifier (the hash of its entry file) may be the same for two versions:
that is what lets bundles collide. `H2Bundle` records the identifier, the literals and,
as history, the files it was published from. Working trees may be of different commits,
with or without a gate's parameters in the template; `MCDeployment` gives those of the
run. CloudFormation is external: it creates no change set during an update, refuses one
whose parameters have no value, and deletes the other change sets of a stack when it
executes one.

**`EvidenceLedger`** and **`SummaryLedger`** are the abstract specifications of the
archive and the monitor. The evidence ledger has three steps: evidence is stored, what
is there is attested at most once, and a log is passed forward over attested bytes.
`S3Archive` maps `objects`, `manifests` and the saved lineages to it: runs, descriptors,
retries and crashes disappear. The summary ledger records the lines of sessions from the
log, keeps them open, and closes a line only by a numbered report of it or by giving it
up; no line is in two reports. `DiscordMonitor` maps what `STATE_PATH` leads to (a
queued summary, a cluster, a flushed cluster that awaits its enrichment), what Discord
accepted and what was dead-lettered, restricted to the lines of sessions; clusters,
queues, governors, enrichments and restarts disappear, and so do the lines that have no
session and are clustered by address, which `observe` can lose (section 4). Both
refinements are stated as `ImplementsLedger`.

Every definition that models code is in the `map` of `PROJECT.json` with its lines.
Definitions commented "Mutant" are variants of the one below them, each a plausible
bug; a property is kept only if one of them breaks it.

## 3. Runs

| Run | Bounds | Shows |
|---|---|---|
| `S3Archive` | 2 inodes, 3 records of 1 and 2 bytes that end alike, windows of 1 byte, 2 truncations, 2 attempts, 2 faults | `SavedOffsetCovered`, `SkippedPrefixArchived`, `ObjectsAreWholeRecords`, `OneManifestBesideItsObject`, `UploadedCountsOnce`, `SavedNeverRegresses`; `ImplementsLedger`; `RecordsEventuallyArchived` |
| `S3ArchiveRetry` | same, violated | `RetrySendsSameManifest`, see findings |
| `DiscordMonitor` | 1 session and 1 address, 2 lines, the first one of the session and with an alert, 1 active cluster, queues of 1, 1 job in flight, 2 faults (kills included) | `SessionNeverLost`, `ReportedOnce`, `SettledNotRevived`, `Bounded`; `ImplementsLedger`; `SummariesSettle` |
| `DiscordMonitorIp` | 1 address, lines without session; violated | `SummaryNeverLost` |
| `LogTailer` | 3 files, 4 lines, a memory of 2 digests, 1 truncation or removal, 1 crash, 1 failed save, calm log | `NothingSkipped`, `AbsorbedInOrder`, `OldInodeDrained`, `LinesAbsorbed` |
| `LogTailerRotation` | 3 files, 3 lines, log not calm; violated | `OldInodeDrained` |
| `ThreatIntel` | 2 threads, 2 addresses, a cache of 1 entry, a Retry-After of nothing and one above the maximum, 2 unannounced 429s of which the second overflows, 1 crash, 1 fault | `OncePerTtlUnlessOverlapping`, `LastBackoffKept`, `ProviderRecovers` |
| `ThreatIntelBackoff` | 2 threads; violated | `BackoffHonoured` |
| `Host` | 3 faults, 2 reboots, 2 versions of the firewall | `ActiveMeansEnforced`, `CowrieBehindFirewall`, `SuccessMeansInPlace`; `SignalArrives` |
| `Deployment` | 2 operators, 2 versions with the same `discord-monitor.py`, one of them with another `userdb.txt`, 7 trees: both versions, one with stale H2 literals, one whose pins do not match, the first with an edit of the instance, of the role's policies or of the rest of the role; 4 runs | `BundlesPublished`, `ReplacedAsAnnounced`, `GatesStayInScope` |
| `HostPinned` | 1 fault; violated | `VerifiedBeforeRun` |
| `HostApplied` | 2 versions; violated | `FirewallApplied` |

Why these bounds: three records are the fewest with which a log can be archived,
truncated and grow past the saved offset again, with a record boundary elsewhere; a
window of one byte is the shortest that the code's 64 stand for, and two records that
end alike are enough for it to repeat; two faults allow a lost answer and then a crash.
A session and an address over a limit of one active cluster, one queued item and one job
reach every displacement, backpressure and eviction; two faults allow a crash during the
recovery from the first, and a failed save before a crash. The first line is the
session's and the later ones carry no alert: one alert is enough to displace another
item and to be answered 429, and the theorems of section 5 hold for every choice of
sessions, addresses and first lines. `SummariesSettle` is stated of sessions, whose
summaries cannot be lost on the way. Two versions that share `discord-monitor.py` are
two trees that publish under one H2 bundle; four runs are a first gate, a second one on
top of it, and two that overtake them. The runs of the script are bounded and it may
simply not be called, so that run checks no deadlock. With four runs a gate's snapshot
can also be followed by a default run and another gate that undo and redo what the
snapshot relies on, so that the gate reverts an edit; an edit of the monitor's
association behaves like one of the rest of the role and doubles the states: it is left
to the theorems, which hold for every set of trees. Three files allow a rotation while
the previous one is not finished; a memory of two digests is smaller than the log, so
that order and uniqueness do not follow from it. A cache of one entry with two addresses
evicts; two threads overlap, with each other's lookup of the same address, with its 429
and with its store; a third only repeats what the second does, and the theorems hold for
any number. `MaxStrikes` is 1 in that run so that an exponential of two 429s overflows
as the code's does at the 1025th. A run of the firewall that meets the leftovers of an
earlier one takes a reboot, a fault in it and an association, and one more fault to
leave the leftovers in place: two faults, and a third for the bootstrap's services. The
host is one module without deadlock checking: an instance that has signalled a failure
does nothing more. Limits that only scale (MAX_SEEN, MAX_PENDING, 64 bytes of anchor)
are constants of the modules, and the theorems do not fix them. Bounded counters
(`faults`, `crashes`, `truncations`, `logged`, `started`) are all named in CONSTANTS
with "bound".

The log is *calm* in the `LogTailer` run: it is renamed at any time, also twice while the
monitor is down, but not between the stat and the open of one poll; a file is truncated
when the monitor has saved its end, and polled before it is written again. A file renamed
before the monitor had come to it is never looked for (`locate_inode` looks for the saved
inode only): its lines count as `lost`, and the properties say that nothing else is.
Daily rotation against a one-second poll makes a calm log the usual case, not a
guarantee: a rotation between stat and open is `LogTailerRotation`, where `OldInodeDrained`
breaks; a truncated file that grows past the saved offset between two polls is one the
monitor cannot tell from its predecessor, and no property is stated of it.

### Fairness

`S3Archive`: weak fairness of a run's next step, since the timer starts a run every
five minutes and nothing in a run waits. Writing, rotating, truncating and faults have
none, and the number of faults is bounded: liveness is stated once they are over.
`Deployment` has no fairness: an operator may always walk away.
`DiscordMonitor`: weak fairness of the monitor's next step (systemd restarts it, posts
and commands have timeouts), of the worker's jobs (HTTP timeouts) and of the clock. A
429 is not bounded on the legacy channel: `SummariesSettle` says that it does not hold
the summaries of the other. `LogTailer`: of the monitor's step, and of Cowrie creating
the file it has just renamed away. `ThreatIntel`: of each lookup's next step and of
the clock. `Host`: of UserData and of a firewall script that has started; nothing has to
fail, reboot or be associated.

## 4. Findings

Each is a run that TLC ends with a counterexample, against a line of the repository
(quoted in `PROJECT.json`).

* `RetrySendsSameManifest`: the manifest contains the size of the snapshot and the kind
  of the path. After a crash between manifest and save, a log that has grown or was
  rotated yields another manifest under the stored key; `verify_object` raises in this
  and in every later run. `RecordsEventuallyArchived` therefore excepts `Orphaned`.
* `DiscordMonitorIp`: `observe` overwrites an expired cluster that was not flushed yet.
* `LogTailerRotation`: stat and open of the path are two steps; a rotation between them
  leaves the rest of the old file unread.
* `ThreatIntelBackoff`: the governor's test and the request are not one critical section.
* `HostPinned`: the subshell of UserData is the left side of `||`, where bash ignores its
  `set -e`: a script whose digest does not match is run.
* `HostApplied`: the association enables a unit that is active, which starts nothing; it
  reports success and the kernel keeps the earlier policy until a reboot.

Seen while modelling and not kept as runs. Of the archive:

* `s3-archive.py:594` says that copytruncate or replacement "must not continue an old
  byte range under the same generation". It is continued when the new incarnation of the
  log repeats the 64 bytes before the offset: the bytes below the offset that were not
  archived then never are, and an object that begins at an offset inside a record is a
  fragment. `SkippedPrefixArchived`, `ObjectsAreWholeRecords` and
  `RecordsEventuallyArchived` except these generations by `Mistaken`, `repeats` and
  `Overlooked`;
* the byte ranges of two objects of a generation overlap after upload, crash, truncation
  (`s3-archive.py:596` against the `logical_contract` at 408).

Of the monitor:

* `post_payload` (`discord-monitor.py:461` to 467) does not catch
  `http.client.HTTPException`: a connection cut short after Discord took a post ends the
  poll with the head still queued, and it is posted again; the same holds of the
  recovery digest's post. `ReportedOnce` and the theorem about it are of the answers that
  `post_payload` handles and do not hold of this one;
* the alerted kind is added to a cluster after the clusters were copied into the state
  (`discord-monitor.py:526`, 531), so a restart forgets it and the same kind alerts again
  (`tests/test_sidecars.py:638`); the items a recovery digest reports as not individually
  replayed (`discord-monitor.py:354`) stay queued and are sent right after it; the first
  start reads an existing log from offset zero (`CONTROL-ARCHITECTURE.md:128` says EOF).

Of the threat intelligence:

* `broker.py:8` says "once per IP per cache TTL". Two lookups of one address at once
  both miss and both ask, and an error of the second replaces a good answer of the
  first; in a full cache an entry that lives shorter than all others is evicted when it
  is stored. The first is what `OncePerTtlUnlessOverlapping` excepts;
* a Retry-After above 600 s is shortened (`rate_governor.py:58`), and a later 429 that
  asks for less replaces a longer cooldown (line 69): `LastBackoffKept` is about the
  last one, and up to MAX_COOLDOWN;
* at the 1025th unannounced 429 in a row the exponential overflows
  (`rate_governor.py:66`): no cooldown is set by that one nor by any later one until
  another answer comes, against the comment at 61, "doesn't settle into a tight loop".
  The run reaches it, and the property counts such a 429 as not noted.

Of the host: `CONTROL-ARCHITECTURE.md:111` says that the host key is validated before it
is installed, `install-host-key.py:77` installs it first and removes it when it is
rejected; a firewall that fails at boot does not keep Cowrie from starting (`Before=`
without `Requires=`), which `CowrieBehindFirewall` excepts by `bypassed`.

Of the deployment script:

* the digests the H2 association compares its sidecars with are literals
  (`Invoke-PatriotPot.ps1:1126` to 1167) that neither `Assert-AssetIntegrity` (138 to
  212) nor `Publish-H2Bundle` (328 to 343) compares with the files, so that the stack
  may name digests that no published object has. `native/session_cluster.py` of this
  commit is a case: its hash is neither the one `bootstrap-native.sh:58` pins, so that
  every flow is refused until the pin is renewed, nor the literal at 1127, which is left
  stale when it is;
* a replacement of the instance that CloudFormation calls Conditional passes although
  none was announced (402 to 407, 412 to 424), against the message "unexpectedly
  replaces an instance already on the pinned AMI". An edit of the instance's text can
  have that effect; `ReplacedAsAnnounced` excepts it in the default flow;
* a concurrent edit of only the text of the role or of the monitor's association is
  reverted by the H2 flow, whose candidate is a snapshot: `Assert-H2CandidateScope`
  (1625 to 1741) expects both resources to change. The auth-parity flow reverts one of
  the role outside its inline policies. The run does this, and `GatesStayInScope` says
  no more than the resources and policies the reviews look at;
* the default and FirewallOnly flows give no value to the parameters of the two gates,
  which have no default (`gmu-honeypot-stack-2026-control.yaml:57` to 96), so that
  CloudFormation refuses their change set from a tree that has the gates
  (`ParametersGiven`), although `BUILD-AND-DEPLOY.md:119` describes the run; from an
  older tree the same flows are accepted and take deployed gates away, since removals
  are not guarded (`GatesStayInScope` therefore says nothing of the default flow, and of
  the firewall's only that the instance stays);
* the auth-parity flow reads the template whatever the stack's status, H2 wants a
  terminal one.

## 5. Proofs

`S3ArchiveProofs` proves for every value of the constants that satisfies
`ArchiveAssumption` (non-empty set of inodes, at least one attempt and one byte of
anchor; nothing else):

* `TypeCorrect`: `Spec => []TypeOK`;
* `EvidenceBeforeOffset`: `Spec => []SavedOffsetCovered`;
* `ManifestUnique`: `Spec => []OneManifestBesideItsObject`;
* `SavedForward`: `Spec => SavedNeverRegresses`;
* `ArchiveImplementsLedger`: `Spec => ImplementsLedger`, the refinement: initial states
  map to initial states and every step to `Store`, `Attest`, `Pass` or a stutter;
* `Invariance`: the inductive invariant they rest on.

`SavedOffsetCovered` alone is not inductive: `saved` is overwritten from `lineages`,
and an offset advances over a segment that must already be in the bucket. `IInv` adds
that the lineages in memory are covered as well, that the segment under way starts
where its lineage ends (`SegmentContinues`), that object and manifest are there by the
point of the upload sequence that needs them (`UploadOrder`), and that memory is never
behind the disk (`MemoryAhead`). A crash keeps it because it copies `saved` back; an
ambiguous PUT keeps it because objects and manifests are only added; a reset keeps it
because nothing lies below offset zero.

`DeploymentProofs` proves for every value that satisfies `DeploymentAssumption` (the
subsets of versions are subsets, the bound on runs is a number; any number of operators,
any set of working trees):

* `TypeCorrect`: `Spec => []TypeOK`;
* `BundlesArePublished`: `Spec => []BundlesPublished`, which of H2's sidecars says that they
  are of the publishing tree, not that they match the literals;
* `ReplacementIsAnnounced`: `Spec => ReplacedAsAnnounced`;
* `ScopeIsKept`: `Spec => GatesStayInScope`;
* `Invariance`: the inductive invariant they rest on.

Here `IInv` says what a run in each of its steps has established: no key holds two
objects (`OnePerKey`); the assets a run has published so far are in the bucket with the
hashes of its tree (`RunsEstablished`); the review of a run that is reviewed or waiting
holds of the stack in force now (`ReviewsHold`): a required replacement is one
CloudFormation calls True, and no other is, and the scope is the gate's (`InScope`);
because no update can complete between: executing one change set deletes the others, and
none is created during an update (`OneWaits`); and the stack refers to published bundles
only (`StackSound`). An update that completes moves the reviewed candidate into the
stack, for which the review and the run's own publications give `BundlesPublished`.

`LogTailerProofs` proves for every value that satisfies `TailerAssumption` (at least one
file and one digest remembered, bounds that are numbers):

* `TypeCorrect`: `Spec => []TypeOK`, at any pace of the log;
* `NothingIsSkipped`: `Calm => (Spec => []NothingSkipped)`;
* `LinesKeepTheirOrder`: `Calm => (Spec => []AbsorbedInOrder)`;
* `OldInodeIsDrained`: `Calm => (Spec => OldInodeDrained)`.

Neither property is inductive: they speak of the disk, which is overwritten from memory,
and of what was absorbed, which grows by what lies beyond the position. `IInv` says of
both states that they are `Sound`: what they have passed they have absorbed or it was lost,
files between the position and the last one are lost, and all they have absorbed was
written before every line beyond the position. The last conjunct is why a line is
absorbed once although the memory of digests forgets: a line read is beyond the position,
so it is later than everything absorbed. `PastTheEnd` is why a truncation is noticed: an
offset past the end of the last file is one the disk has too, and the file is empty.
`Poll` is what the steps of one poll may rely on, and it is here that a log that is not
calm breaks the proof: `present /\ identity = Len(files)` between stat and open.
`DrainInv` adds, for `OldInodeIsDrained`, that a state has absorbed, not only passed, the
lines of the file it names, and memory those of the file the disk names.

`HostProofs` proves for every value that satisfies `FirewallAssumption` and
`HostAssumption` (the bounds on faults and reboots are numbers, there is at least one
version):

* `TypeCorrect`: `Spec => []TypeOK`;
* `ActiveIsEnforced`: `Spec => []ActiveMeansEnforced`;
* `CowrieRunsBehind`: `Spec => []CowrieBehindFirewall`;
* `SuccessIsInPlace`: `Spec => []SuccessMeansInPlace`;
* `Invariance`: the inductive invariant they rest on.

None of the three is inductive: the commands come one by one, and so do the phases.
`Built` says what the commands so far have made of the family the script is at (the first
rules of a policy while it is filled, the whole of it when it is hooked), `OneFamilyDone`
that IPv4 is whole when IPv6 begins, `HookedExists` why `-N` cannot succeed beside a jump
of an earlier run: the kernel deletes no chain that is referenced. `Established` says what
each phase of the bootstrap takes for granted, and that no association comes before its
end; `StartedBehind` that Cowrie was started with the unit active or at a boot where it
failed. A unit that is active stays so until a reboot, since `systemctl start` leaves it
alone; that is why the later starts and the association keep both, and it is the same
fact that `FirewallApplied` is refuted by.

`S3EvidenceProofs` proves under the same assumption what the bytes of the evidence are:

* `NoSilentGapUnlessRepeated`: `Spec => []SkippedPrefixArchived`;
* `WholeRecordsOnly`: `Spec => []ObjectsAreWholeRecords`;
* `CountedOnce`: `Spec => []UploadedCountsOnce`;
* `EvidenceInvariance`: the inductive invariant they rest on, with the one above.

That a window of `AnchorBytes` bytes vouches for a whole prefix holds only where it is
not repeated. A byte of an event is never written again, but its text may be: `repeats`
collects the generations in which a window of another incarnation was accepted, and what
the invariant says of bytes it says of the others (`Trusted`). There two readings of one
log agree up to any position where they agree at all (`Agree`), and a log that has lost
the LF an anchor ends with never has it again, though it may have one that looks the
same. `Vouches` is then inductive: if a trusted lineage's log still has that very LF at
the offset, the bucket has the log up to it. `AcceptedMark` is the other half: a window
that `lineage_for` accepts, and that is not `Mistaken`, ends with that very LF.
`SourceSound` says the same of the descriptor's bytes during a run, `SnapshotSound` that
a stable snapshot is what the first fstat saw, which is where `Stable` is needed.
`ObjectsAreWholeRecords` follows because the offset of a trusted lineage is zero or
behind an LF of a log made of `Records`. `CountInv` replaces all objects by those the
saved state has passed: a save passes one that it had not.

`DiscordMonitorProofs` and `DiscordMonitorSafety` prove for every value that satisfies
`ClusterAssumption`, `GovernorAssumption` and `MonitorAssumption` (sessions and addresses
are different things, limits are positive, the rest are numbers):

* `TypeCorrect`: `Spec => []TypeOK`, and `LimitsKept`: `Spec => []Bounded`;
* `NoLineReportedTwice`: `Spec => []ReportedOnce`;
* `NothingSettledRevived`: `Spec => []SettledNotRevived`;
* `NoSessionLost`: `Spec => []SessionNeverLost`;
* `MonitorImplementsLedger`: `Spec => ImplementsLedger`;
* `Invariance`: the inductive invariant they rest on.

None of them is inductive: they speak of the file and of Discord, and both are written
from memory. The proof looks at memory and at the file through a `View` (the offset, the
lines of each cluster, the awaiting clusters, the two queues, the ids known), and asks
the same of both. `Sound`: a line is in one cluster, one awaiting summary or one place
of a queue (`Single`), what waits is in nothing queued, delivered or abandoned
(`Unsettled`), nothing is beyond the offset (`Behind`), and a clustered line has its
cluster's key (`Genuine`). `Unposted` and `Novel` tie a view to Discord: what waits has
not been delivered, and what is queued has not either, but for the item whose POST is
under way; that exception is the uncertain delivery, which the next step of the drain
settles and which `load_state` dead-letters with the rest of the queue if the process is
killed first. Between the two views, `MemInv` says that what memory still holds from
before the saved offset is on disk too, so that writing memory over the file revives
nothing, and that the state's copy of the clusters is the manager's, except during a
flush (`Copied`). `Behind` is why a line that is read again after a crash is not a
second one: whatever of it was delivered was saved first. Every handler is then shown to
move a view in one of a few ways (`Evolves`, `Loses`), and every step of the monitor
preserves the invariant by what it does to its view. `Kept` adds that a session's line
below the offset is held or settled. It cannot be said of lines keyed by address, which
is the finding of `DiscordMonitorIp`; the theorems hold beside any number of them. The
refinement maps a step to the ledger's record of the lines between the old and the new
saved offset, with or without a report, or to a stutter.

`ThreatIntelProofs` proves, for any number of threads and every value that satisfies
`CacheAssumption`, `GovernorAssumption` and `IntelAssumption`:

* `TypeCorrect`: `Spec => []TypeOK`, the limit of the cache included;
* `OncePerTtl`: `Spec => []OncePerTtlUnlessOverlapping`;
* `LastBackoffIsKept`: `Spec => LastBackoffKept`.

No condition on the threads is assumed: they overlap as they do in the worker. `Kept`
says that what is promised is what the cache holds in memory, and in its file unless a
save failed; the eviction of the entries that expire first keeps it. `MissedBefore`
carries a miss from the check of the cache to the request: an answer promised since was
stored by another thread. `Waits` says that the governor's own wait covers what the last
429 noted asks for until that 429 is MAX_COOLDOWN old, whatever answers of requests
already under way come in: a success leaves the cooldown alone, and `Bounded` cuts it
only at the maximum.

Only model-checked: what needs fairness (`RecordsEventuallyArchived`, `SummariesSettle`,
`LinesAbsorbed`, `ProviderRecovers`, `SignalArrives`), which this prover does not reach.
Every invariant and action property of a passing run is stated by a theorem; those of the
tailer with a calm log.

## 6. Not modelled

Migration of older state schemas (v1, v2) and the v1 rotated marker of the archive;
the wording, sanitising and layout of Discord messages; normalisation of provider
answers; address parsing; instance metadata; logging; self-tests. Two providers at once
(they meet only in the cache). Corrupt state files, which the code answers with an
exception or defaults.

Of the archive, `OpenSource` takes the first fstat, the anchor that `lineage_for`
compares (`s3-archive.py:596`, 665) and the anchors of the view (676, 679, 680) in one
step, and `ReadSnapshot` reads the whole range at once, although the code reads window
by window and a log may be truncated in between; what the second fstat and the anchors
see afterwards is a step of its own. Of the monitor, the exception that `post_payload`
does not catch (section 4): the component is therefore listed as partly modelled. Of the
tailer, a rotated file that is deleted while the monitor has it open, which it goes on
reading.

The two validators compare texts of one checkout in sequence: no state, nothing
concurrent, and each comparison is what it compares. Of the deployment script: how a
patch edits the template's text (that its anchors fit is the guard `PatchFits`),
`-IncludeAuthParityInstrumentationFix`, the dependency-only exception for the bucket
policy, the Elastic IP, the host key's metadata, and files edited while a run is under
way. The image stands still; another one would force the same replacement as another
bootstrap bundle. Resources that no review names are not told apart. A script killed
while it waits leaves the update running, which is the same as waiting. Of the template:
everything declarative, and the association of the monitor.

## 7. Order of construction and what is left

`S3Archive` and its proofs; `SessionClusters`, `DiscordRateGovernor`,
`DiscordMonitor`; `LogTailer`; `ProviderRateGovernor`, `EnrichmentCache`,
`ThreatIntel`; `EgressFirewall`, `Host`; then the two ledgers with their refinements,
`Deployment`, and the proofs about the deployment, the tailer and the host; last the
proofs about the monitor, the threat intelligence and the bytes of the evidence.

What would come next:

1. The state migrations of archive and monitor.
2. An abstract specification of the tailer that the monitor's log implements, to join
   `LogTailer` and `DiscordMonitor`.
3. Two providers that share one cache.
