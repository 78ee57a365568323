----------------------------- MODULE Deployment -----------------------------
(***************************************************************************)
(* Invoke-PatriotPot.ps1: operators who publish content-addressed bundles  *)
(* and update one CloudFormation stack, each from a working tree of their  *)
(* own.  A run checks its tree, reads the stack, publishes, creates a      *)
(* change set, reviews it, and executes it or leaves it.  The stack may    *)
(* move between any two of these steps.                                    *)
(*                                                                         *)
(* A version stands for the content of the files a bootstrap script pins.  *)
(* A template stands by the parts that carry their later text, each part   *)
(* having two; a gate is in it when its parameters, statements and         *)
(* association are.  The AMI stands still: another would force the same    *)
(* replacement as another bootstrap bundle.                                *)
(***************************************************************************)
EXTENDS Integers, Sequences, FiniteSets, TLC

CONSTANTS Operators,
          Versions,     \* of the pinned files
          First,        \* the version deployed at first
          NewMonitor,   \* the versions with the new discord-monitor.py
          Drifted,      \* the versions whose userdb.txt is not the frozen one
          Trees,        \* bound: the working trees the operators run from
          MaxRuns       \* bound: runs of the script

VARIABLES bucket,       \* objects below bootstrap/: [prefix, asset, hash]
          stack,        \* the template and parameters in force
          instance,     \* the running instance, and the bundle it booted from
          target,       \* the update in progress: [busy, config, effect]
          run,          \* for each operator, where the script is
          started       \* runs begun

vars == <<bucket, stack, instance, target, run, started>>

Gates == {"auth", "h2"}
Kinds == {"default", "firewall"} \cup Gates

\* The parts of the template: the text of three resources ("Firewall" stands
\* for every resource H2 and auth-parity protect), and of the role its inline
\* policies and the rest.
Parts == {"Instance", "Monitor", "Firewall", "Policies", "Role"}

\* A working tree: what bootstrap pins, what the files are, what the literals
\* of the H2 patch pin, the template.
Tree == [boot: Versions, files: Versions, pins: Versions,
         text: SUBSET Parts, gates: SUBSET Gates]

ASSUME DeploymentAssumption ==
  /\ First \in Versions /\ NewMonitor \subseteq Versions /\ Drifted \subseteq Versions
  /\ Trees \subseteq Tree /\ MaxRuns \in Nat

\* The hashes of the files that name the bundles of the gates.
Monitor(v) == IF v \in NewMonitor THEN "new" ELSE "old"
Userdb(v)  == IF v \in Drifted THEN "drifted" ELSE "frozen"

\* The bundle of H2, the digests its association compares the sidecars with,
\* and (history) the files it was published from.
H2Bundle   == [id: {"new", "old"}, pins: Versions, files: Versions]
NoBundle   == [id |-> "none", pins |-> First, files |-> First]

\* What the stack is made from; h2 is NoBundle when the gate is absent.
Config == [gates: SUBSET Gates, text: SUBSET Parts, boot: Versions, fw: Versions,
           h2: H2Bundle \cup {NoBundle}]
Effects  == {"True", "Conditional", "False"}
NoUpdate == [busy |-> FALSE]

-----------------------------------------------------------------------------
(* Resources of the stack as functions of its configuration.               *)

Resources == {"Instance", "Monitor", "Firewall", "Auth", "Role"}

Content(c, r) ==
  CASE r = "Instance" -> <<"Instance" \in c.text, c.boot>>
    [] r = "Monitor"  -> <<"Monitor" \in c.text,
                           IF "h2" \in c.gates THEN <<c.h2.id, c.h2.pins>> ELSE <<c.fw>>>>
    [] r = "Firewall" -> <<"Firewall" \in c.text, c.fw>>
    [] r = "Auth"     -> <<"auth" \in c.gates>>
    [] r = "Role"     -> [policies |-> [text |-> "Policies" \in c.text, boot |-> c.boot,
                                        fw |-> c.fw, auth |-> "auth" \in c.gates,
                                        h2 |-> c.h2.id],
                          rest |-> "Role" \in c.text]

Changes(old, new) == {r \in Resources : Content(old, r) # Content(new, r)}
Added(old, new)   == "auth" \notin old.gates /\ "auth" \in new.gates

\* What CloudFormation says of the instance's replacement.  The description of
\* the network interface names the bootstrap bundle: a change of it alone
\* replaces the instance.  An edit of the instance's own text may have any
\* effect, one that takes the bundle out of that description included.
Replacement(old, new) ==
  IF "Instance" \notin Changes(old, new) THEN {"False"}
  ELSE IF "Instance" \in old.text <=> "Instance" \in new.text THEN {"True"}
  ELSE Effects

\* What an update with that effect does: a Conditional one may or may not.
Replaces(effect) == CASE effect = "True"        -> {TRUE}
                      [] effect = "Conditional" -> {TRUE, FALSE}
                      [] effect = "False"       -> {FALSE}

-----------------------------------------------------------------------------
(* The bundles: their identifiers, assets in order, and hashes.            *)

Prefix(of, hash) == [of |-> of, id |-> hash]
PrefixOf(kind, t) ==
  CASE kind = "h2"   -> Prefix("monitor", Monitor(t.files))
    [] kind = "auth" -> Prefix("userdb", Userdb(t.files))
    [] OTHER         -> Prefix("bootstrap", t.boot)

AssetsOf(kind) ==
  CASE kind = "h2"   -> <<"discord-monitor.py", "sidecars">>
    [] kind = "auth" -> <<"userdb.txt">>
    [] OTHER         -> <<"bootstrap-native.sh", "assets">>

HashOf(asset, t) ==
  CASE asset = "bootstrap-native.sh" -> t.boot
    [] asset = "discord-monitor.py"  -> Monitor(t.files)
    [] asset = "userdb.txt"          -> Userdb(t.files)
    [] OTHER                         -> t.files

Object(p, a, h) == [prefix |-> p, asset |-> a, hash |-> h]
Stored(p, a)    == {o \in bucket : o.prefix = p /\ o.asset = a}

Idle == [at |-> "idle"]
At(o, step) == run[o].at = step

FirstTree == [boot |-> First, files |-> First, pins |-> First, text |-> {}, gates |-> {}]
Init ==
  /\ bucket = {Object(PrefixOf("default", FirstTree), a, HashOf(a, FirstTree)) :
                 a \in {"bootstrap-native.sh", "assets"}}
  /\ stack = [gates |-> {}, text |-> {}, boot |-> First, fw |-> First, h2 |-> NoBundle]
  /\ instance = [id |-> 0, boot |-> First]
  /\ target = NoUpdate
  /\ run = [o \in Operators |-> Idle]
  /\ started = 0

-----------------------------------------------------------------------------
(* Assert-AssetIntegrity: every asset has the hash the bootstrap pins.  It *)
(* does not look at the literals of the H2 patch.                          *)
AssetIntegrity(t) == t.files = t.boot

\* What describe-stacks shows: during an update, the old or the new values.
Described == IF target.busy THEN {stack, target.config} ELSE {stack}

\* The preflight of a run: the tree is checked, the stack described.
Preflight(o, kind, t) ==
  /\ At(o, "idle") /\ started < MaxRuns
  /\ AssetIntegrity(t)
  /\ \E seen \in Described :
       run' = [run EXCEPT ![o] =
         [at      |-> IF kind \in Gates THEN "snapshot" ELSE "publish",
          kind    |-> kind, tree |-> t, done |-> 0,
          require |-> kind = "default" /\ seen.boot # t.boot,
          base    |-> seen, candidate |-> seen, effect |-> "False"]]
  /\ started' = started + 1
  /\ UNCHANGED <<bucket, stack, instance, target>>

\* The gates' patches name anchors that occur once in the template they fit.
PatchFits(kind, base) ==
  IF kind = "h2" THEN base.gates = {"auth"} ELSE "h2" \notin base.gates

\* The parameters the snapshot declares were on the stack, or are the gate's.
ParametersAccountedFor(kind, base, seen) == base.gates \ {kind} \subseteq seen.gates

\* Get-DeployedTemplateSnapshot (H2) wants a terminal status, the auth-parity
\* flow reads the template whatever the status.
Snapshot(o) ==
  /\ At(o, "snapshot")
  /\ run[o].kind = "h2" => ~target.busy
  /\ \E base \in Described :
       /\ PatchFits(run[o].kind, base)
       /\ run[o].kind = "auth" => ParametersAccountedFor("auth", base, run[o].base)
       /\ run' = [run EXCEPT ![o].base = base, ![o].at = "publish"]
  /\ UNCHANGED <<bucket, stack, instance, target, started>>

\* The candidate each flow gives to create-change-set.  UsePreviousValue is
\* the value in force when the change set is created.
Candidate(kind, t, base) ==
  CASE kind = "default"  -> [gates |-> {}, text |-> t.text, boot |-> t.boot,
                             fw |-> t.boot, h2 |-> NoBundle]
    [] kind = "firewall" -> [gates |-> {}, text |-> t.text, boot |-> stack.boot,
                             fw |-> t.boot, h2 |-> NoBundle]
    [] kind = "h2"       -> [gates |-> base.gates \cup {"h2"}, text |-> base.text,
                             boot |-> stack.boot, fw |-> stack.fw,
                             h2 |-> [id |-> Monitor(t.files), pins |-> t.pins,
                                     files |-> t.files]]
    [] kind = "auth"     -> [gates |-> base.gates \cup {"auth"}, text |-> base.text,
                             boot |-> stack.boot, fw |-> stack.fw, h2 |-> NoBundle]

\* CloudFormation refuses a template with a parameter that has neither a
\* value, a default nor a previous value.
ParametersGiven(kind, t, base) ==
  CASE kind \in {"default", "firewall"} -> t.gates = {}
    [] OTHER                            -> base.gates \ {kind} \subseteq stack.gates

\* Mutant: an object that exists is taken for this tree's.
PublishAssetUnverified(p, a, h) ==
  bucket' = IF Stored(p, a) = {} THEN bucket \cup {Object(p, a, h)} ELSE bucket

\* Publish-Asset: put-object unless the key exists, then head-object: what is
\* stored must have this tree's hash.  A collision throws.
PublishAsset(p, a, h) ==
  /\ bucket' = IF Stored(p, a) = {} THEN bucket \cup {Object(p, a, h)} ELSE bucket
  /\ Object(p, a, h) \in bucket'

Publish(o) ==
  /\ At(o, "publish")
  /\ LET r == run[o]  IN
     /\ r.done < Len(AssetsOf(r.kind))
     /\ LET a == AssetsOf(r.kind)[r.done + 1] IN
          PublishAsset(PrefixOf(r.kind, r.tree), a, HashOf(a, r.tree))
     /\ run' = [run EXCEPT ![o].done = r.done + 1]
  /\ UNCHANGED <<stack, instance, target, started>>

\* Mutant: a replacement that was not announced is let through.
ReviewDefaultHalf(effect, require) == require => effect = "True"

\* The reviews: what the changes must and must not contain.  In the default
\* flow a Conditional replacement of the instance passes if none is required.
ReviewDefault(effect, require) == (effect = "True") = require

ReviewFirewall(new) ==
  /\ "Instance" \notin Changes(stack, new)
  /\ {"Monitor", "Role"} \subseteq Changes(stack, new)

ReviewH2(new) ==
  /\ Changes(stack, new) \cap {"Instance", "Firewall", "Auth"} = {}
  /\ {"Monitor", "Role"} \subseteq Changes(stack, new)

\* Only changes of the inline policies that were there are compared; the rest
\* of the role is not looked at.
PoliciesGainAuthOnly(old, new) ==
  Content(new, "Role").policies = [Content(old, "Role").policies EXCEPT !.auth = TRUE]

\* Mutant: what changes of the role's policies is not compared.
ReviewAuthUncompared(new) == Changes(stack, new) \subseteq {"Auth", "Role"} /\ Added(stack, new)

ReviewAuth(new) ==
  /\ Changes(stack, new) \subseteq {"Auth", "Role"}
  /\ Added(stack, new)
  /\ PoliciesGainAuthOnly(stack, new)

Reviewed(r, new, effect) ==
  /\ Changes(stack, new) # {}
  /\ CASE r.kind = "default"  -> ReviewDefault(effect, r.require)
       [] r.kind = "firewall" -> ReviewFirewall(new)
       [] r.kind = "h2"       -> ReviewH2(new)
       [] r.kind = "auth"     -> r.tree.files \notin Drifted /\ ReviewAuth(new)

\* create-change-set, describe-change-set and the guards.  CloudFormation
\* creates none while an update is in progress.
CreateAndReview(o) ==
  /\ At(o, "publish") /\ run[o].done = Len(AssetsOf(run[o].kind))
  /\ ~target.busy
  /\ LET r == run[o]
         new == Candidate(r.kind, r.tree, r.base)
     IN  /\ ParametersGiven(r.kind, r.tree, r.base)
         /\ \E effect \in Replacement(stack, new) :
              /\ Reviewed(r, new, effect)
              /\ run' = [run EXCEPT ![o].at = "reviewed", ![o].candidate = new,
                                    ![o].effect = effect]
  /\ UNCHANGED <<bucket, stack, instance, target, started>>

\* CloudFormation deletes the other change sets of the stack when it starts
\* to execute one: a run that would execute one of them throws.
Execute(o) ==
  /\ At(o, "reviewed")
  /\ target' = [busy |-> TRUE, config |-> run[o].candidate, effect |-> run[o].effect]
  /\ run' = [p \in Operators |-> IF p = o THEN [run[o] EXCEPT !.at = "waiting"]
                                 ELSE IF At(p, "reviewed") THEN Idle ELSE run[p]]
  /\ UNCHANGED <<bucket, stack, instance, started>>

\* Mutant: the script waits on although the update has ended.
EndOfWaitNever == run

\* cloudformation wait stack-update-complete returns, or fails.
EndOfWait == [o \in Operators |-> IF At(o, "waiting") THEN Idle ELSE run[o]]

\* A new instance boots from the bundle in force; two ids tell it from the old.
UpdateComplete ==
  /\ target.busy
  /\ stack' = target.config
  /\ \E replaced \in Replaces(target.effect) :
       instance' = IF replaced THEN [id |-> 1 - instance.id, boot |-> target.config.boot]
                   ELSE instance
  /\ target' = NoUpdate
  /\ run' = EndOfWait
  /\ UNCHANGED <<bucket, started>>

UpdateRollback ==
  /\ target.busy
  /\ target' = NoUpdate
  /\ run' = EndOfWait
  /\ UNCHANGED <<bucket, stack, instance, started>>

\* A command fails, a guard throws, the script is interrupted, or the change
\* set is left without -ExecuteChangeSet.
Stop(o) ==
  /\ run[o].at \notin {"idle", "waiting"}
  /\ run' = [run EXCEPT ![o] = Idle]
  /\ UNCHANGED <<bucket, stack, instance, target, started>>

Next ==
  \/ \E o \in Operators :
       \/ \E kind \in Kinds, t \in Trees : Preflight(o, kind, t)
       \/ Snapshot(o)
       \/ Publish(o)
       \/ CreateAndReview(o)
       \/ Execute(o)
       \/ Stop(o)
  \/ UpdateComplete
  \/ UpdateRollback

Spec == Init /\ [][Next]_vars

Symmetry == Permutations(Operators)

-----------------------------------------------------------------------------
Run == [at: {"snapshot", "publish", "reviewed", "waiting"}, kind: Kinds, tree: Tree,
        done: 0..2, require: BOOLEAN, base: Config, candidate: Config, effect: Effects]

\* The variables keep their types, and an update in progress is waited for
\* by exactly one run (script lines 1805-2172).
TypeOK ==
  /\ stack \in Config
  /\ instance \in [id: 0..1, boot: Versions]
  /\ target = NoUpdate \/ target \in [busy: {TRUE}, config: Config, effect: Effects]
  /\ run \in [Operators -> Run \cup {Idle}]
  /\ \A o \in Operators : ~At(o, "idle") => run[o].done <= Len(AssetsOf(run[o].kind))
  /\ started \in 0..MaxRuns
  /\ Cardinality({o \in Operators : At(o, "waiting")}) = IF target.busy THEN 1 ELSE 0

Has(p, a, h) == Stored(p, a) = {Object(p, a, h)}

\* Whatever runs failed half-way or published from other trees, everything
\* the stack in force tells an instance or an association to download is in
\* the bucket, under its key, with the one hash of the tree that published it
\* (Publish-Asset).  That is the hash it will be compared with, but for H2's
\* sidecars, compared with literals no check holds against the files.
BundlesPublished ==
  /\ \A v \in {instance.boot, stack.boot, stack.fw} :
       /\ Has(Prefix("bootstrap", v), "bootstrap-native.sh", v)
       /\ Has(Prefix("bootstrap", v), "assets", v)
  /\ "h2" \in stack.gates =>
       /\ Has(Prefix("monitor", stack.h2.id), "discord-monitor.py", stack.h2.id)
       /\ Has(Prefix("monitor", stack.h2.id), "sidecars", stack.h2.files)
  /\ "auth" \in stack.gates =>
       Has(Prefix("userdb", "frozen"), "userdb.txt", "frozen")

\* An update whose preflight announced a replacement of the instance makes
\* it; one that did not replaces the instance only in the default flow, by a
\* change CloudFormation called Conditional, however the stack moved between
\* the preflight and the change set (lines 2112-2115, 386-427).
ReplacedAsAnnounced ==
  [][\A o \in Operators : At(o, "waiting") /\ stack' # stack =>
       /\ run[o].require => instance' # instance
       /\ instance' # instance /\ ~run[o].require =>
            run[o].kind = "default" /\ run[o].effect = "Conditional"]_vars

\* A gate's update changes only what its gate owns, although its candidate is
\* a snapshot taken before another operator's update may have completed: the
\* firewall never the instance; H2 the monitor's association and the role;
\* auth-parity its own association, one statement of the role's policies, and
\* the rest of the role (lines 484-517, 1484-1573, 1625-1741).
GatesStayInScope ==
  [][\A o \in Operators : At(o, "waiting") /\ stack' # stack =>
       CASE run[o].kind = "default"  -> TRUE
         [] run[o].kind = "firewall" -> "Instance" \notin Changes(stack, stack')
         [] run[o].kind = "h2"   -> Changes(stack, stack') \subseteq {"Monitor", "Role"}
         [] run[o].kind = "auth" -> /\ Changes(stack, stack') \subseteq {"Auth", "Role"}
                                    /\ PoliciesGainAuthOnly(stack, stack')
    ]_vars

=============================================================================
