-------------------------- MODULE DeploymentProofs --------------------------
(***************************************************************************)
(* Proofs about the deployment script, for any number of operators, runs   *)
(* and versions.  The inductive invariant says that what a change set      *)
(* would put in force is published and within its gate from the moment it  *)
(* passes its review until the update ends: the bucket only grows, and the *)
(* stack cannot move in between without the change set being deleted.      *)
(***************************************************************************)
EXTENDS Deployment, FiniteSetTheorems, TLAPS

Typed ==
  /\ stack \in Config
  /\ instance \in [id: 0..1, boot: Versions]
  /\ target = NoUpdate \/ target \in [busy: {TRUE}, config: Config, effect: Effects]
  /\ run \in [Operators -> Run \cup {Idle}]
  /\ started \in 0..MaxRuns

\* Every key has one object.
OnePerKey ==
  /\ \A x \in bucket : x = Object(x.prefix, x.asset, x.hash)
  /\ \A x, y \in bucket : x.prefix = y.prefix /\ x.asset = y.asset => x = y

\* A bootstrap bundle is in the bucket.
Bundled(v) ==
  /\ Object(Prefix("bootstrap", v), "bootstrap-native.sh", v) \in bucket
  /\ Object(Prefix("bootstrap", v), "assets", v) \in bucket

\* What a configuration refers to is in the bucket.
Published(c) ==
  /\ Bundled(c.boot) /\ Bundled(c.fw)
  /\ "h2" \in c.gates =>
       /\ Object(Prefix("monitor", c.h2.id), "discord-monitor.py", c.h2.id) \in bucket
       /\ Object(Prefix("monitor", c.h2.id), "sidecars", c.h2.files) \in bucket
  /\ "auth" \in c.gates =>
       Object(Prefix("userdb", "frozen"), "userdb.txt", "frozen") \in bucket

\* What a run of each kind may change of the stack.
InScope(r) ==
  /\ r.require <=> r.effect = "True"
  /\ r.kind # "default" => r.effect = "False"
  /\ r.kind = "firewall" => "Instance" \notin Changes(stack, r.candidate)
  /\ r.kind = "h2" => Changes(stack, r.candidate) \subseteq {"Monitor", "Role"}
  /\ r.kind = "auth" => /\ Changes(stack, r.candidate) \subseteq {"Auth", "Role"}
                        /\ PoliciesGainAuthOnly(stack, r.candidate)

\* What a run has established: its tree is as pinned, its template fits, the
\* assets counted are stored with its hashes.
Established(r) ==
  /\ r.tree.files = r.tree.boot
  /\ r.require => r.kind = "default"
  /\ r.at # "snapshot" /\ r.kind \in Gates => PatchFits(r.kind, r.base)
  /\ r.done \in 0..Len(AssetsOf(r.kind))
  /\ \A i \in 1..r.done :
       Object(PrefixOf(r.kind, r.tree), AssetsOf(r.kind)[i],
              HashOf(AssetsOf(r.kind)[i], r.tree)) \in bucket

Accepted(r) == Published(r.candidate) /\ InScope(r)

RunsEstablished == \A o \in Operators : ~At(o, "idle") => Established(run[o])

\* A change set that is reviewed or being executed is still acceptable.
ReviewsHold ==
  \A o \in Operators :
    /\ At(o, "reviewed") => ~target.busy
    /\ At(o, "reviewed") \/ At(o, "waiting") => Accepted(run[o])

\* One run waits for the update in progress.
OneWaits ==
  IF target.busy
  THEN \E o \in Operators : /\ \A p \in Operators : At(p, "waiting") <=> p = o
                            /\ target.config = run[o].candidate
                            /\ target.effect = run[o].effect
  ELSE \A p \in Operators : ~At(p, "waiting")

StackSound == Published(stack) /\ Bundled(instance.boot)

\* The inductive invariant.
IInv == Typed /\ OnePerKey /\ RunsEstablished /\ ReviewsHold /\ OneWaits /\ StackSound

-----------------------------------------------------------------------------
(* The operators.                                                          *)

\* The bundles and hashes of each kind of run.
LEMMA GateBundles ==
  ASSUME NEW t
  PROVE  /\ PrefixOf("h2", t) = Prefix("monitor", Monitor(t.files))
         /\ PrefixOf("auth", t) = Prefix("userdb", Userdb(t.files))
         /\ \A k \in {"default", "firewall"} : PrefixOf(k, t) = Prefix("bootstrap", t.boot)
         /\ AssetsOf("h2") = <<"discord-monitor.py", "sidecars">>
         /\ AssetsOf("auth") = <<"userdb.txt">>
         /\ \A k \in {"default", "firewall"} :
              AssetsOf(k) = <<"bootstrap-native.sh", "assets">>
         /\ HashOf("discord-monitor.py", t) = Monitor(t.files)
         /\ HashOf("userdb.txt", t) = Userdb(t.files)
         /\ HashOf("bootstrap-native.sh", t) = t.boot
         /\ HashOf("sidecars", t) = t.files
         /\ HashOf("assets", t) = t.files
<1>1. /\ PrefixOf("h2", t) = Prefix("monitor", Monitor(t.files))
      /\ PrefixOf("auth", t) = Prefix("userdb", Userdb(t.files))
      /\ \A k \in {"default", "firewall"} : PrefixOf(k, t) = Prefix("bootstrap", t.boot)
  BY DEF PrefixOf
<1>2. /\ AssetsOf("h2") = <<"discord-monitor.py", "sidecars">>
      /\ AssetsOf("auth") = <<"userdb.txt">>
      /\ \A k \in {"default", "firewall"} :
           AssetsOf(k) = <<"bootstrap-native.sh", "assets">>
  BY DEF AssetsOf
<1>3. /\ HashOf("discord-monitor.py", t) = Monitor(t.files)
      /\ HashOf("userdb.txt", t) = Userdb(t.files)
      /\ HashOf("bootstrap-native.sh", t) = t.boot
      /\ HashOf("sidecars", t) = t.files
      /\ HashOf("assets", t) = t.files
  BY DEF HashOf
<1> QED BY <1>1, <1>2, <1>3

\* A run begins with the fields of a run.
LEMMA RunFields ==
  ASSUME Typed, NEW o \in Operators, ~At(o, "idle")
  PROVE  run[o] \in Run
BY DEF Typed, At, Idle

\* Two kinds publish two assets, auth-parity one.
LEMMA AssetCounts ==
  ASSUME NEW kind \in Kinds
  PROVE  Len(AssetsOf(kind)) = IF kind = "auth" THEN 1 ELSE 2
BY DEF Kinds, Gates, AssetsOf

-----------------------------------------------------------------------------
(* The initial states.                                                     *)

LEMMA InitIInv == Init => IInv
<1> SUFFICES ASSUME Init PROVE IInv
  OBVIOUS
<1> USE DeploymentAssumption
<1>1. Typed
  BY DEF Typed, Init, Config, NoBundle, NoUpdate, Idle
<1>2. bucket = {Object(Prefix("bootstrap", First), "bootstrap-native.sh", First),
                Object(Prefix("bootstrap", First), "assets", First)}
  BY GateBundles DEF Init, FirstTree
<1>3. OnePerKey
  BY <1>2 DEF OnePerKey, Object
<1>4. RunsEstablished /\ ReviewsHold /\ OneWaits
  BY DEF RunsEstablished, ReviewsHold, OneWaits, Init, At, Idle, NoUpdate
<1>5. StackSound
  BY <1>2 DEF StackSound, Published, Bundled, Init
<1> QED BY <1>1, <1>3, <1>4, <1>5 DEF IInv

-----------------------------------------------------------------------------
(* The review: what passes it is published, built as a gate and in scope.  *)

\* The reviewed run r of a run q, with its candidate and its effect.
Carries(r, q, new, effect) ==
  /\ r.kind = q.kind /\ r.require = q.require
  /\ r.candidate = new /\ r.effect = effect

LEMMA CandidatePasses ==
  ASSUME IInv, NEW o \in Operators, CreateAndReview(o), NEW effect, NEW new,
         new = Candidate(run[o].kind, run[o].tree, run[o].base),
         effect \in Replacement(stack, new), Reviewed(run[o], new, effect)
  PROVE  /\ new \in Config /\ effect \in Effects
         /\ Published(new)
         /\ \A r : Carries(r, run[o], new, effect) => InScope(r)
<1> DEFINE r == run[o]
           t == run[o].tree
           InBucket(p, a, h) == Object(p, a, h) \in bucket
<1>1. r \in Run /\ t \in Tree /\ r.kind \in Kinds /\ r.base \in Config /\ r.require \in BOOLEAN
  <2>1. r \in Run
    BY RunFields DEF IInv, CreateAndReview, At
  <2> QED BY <2>1 DEF Run
<1>2. Established(r) /\ r.at = "publish" /\ r.done = Len(AssetsOf(r.kind))
  BY DEF IInv, RunsEstablished, CreateAndReview, At
<1>3. /\ stack \in Config /\ Published(stack)
  BY DEF IInv, Typed, StackSound
<1>4. /\ t.files = t.boot /\ t.files \in Versions /\ t.pins \in Versions
      /\ t.text \in SUBSET Parts /\ t.gates \in SUBSET Gates
  BY <1>1, <1>2 DEF Established, Tree
<1>5. /\ Reviewed(r, new, effect) /\ ParametersGiven(r.kind, t, r.base)
      /\ effect \in Replacement(stack, new)
  BY DEF CreateAndReview
<1>6. effect \in Effects /\ ("Instance" \notin Changes(stack, new) => effect = "False")
  BY <1>5 DEF Replacement, Effects
<1>7. CASE r.kind \in {"default", "firewall"}
  <2>1. /\ InBucket(Prefix("bootstrap", t.boot), "bootstrap-native.sh", t.boot)
        /\ InBucket(Prefix("bootstrap", t.boot), "assets", t.boot)
    <3>1. /\ PrefixOf(r.kind, t) = Prefix("bootstrap", t.boot)
          /\ AssetsOf(r.kind) = <<"bootstrap-native.sh", "assets">>
          /\ HashOf("bootstrap-native.sh", t) = t.boot /\ HashOf("assets", t) = t.boot
      BY <1>4, <1>7, GateBundles
    <3>2. r.done = 2
      BY <1>2, <3>1
    <3>3. \A i \in 1..2 : InBucket(PrefixOf(r.kind, t), AssetsOf(r.kind)[i],
                                   HashOf(AssetsOf(r.kind)[i], t))
      BY <1>2, <3>2 DEF Established
    <3>4. /\ InBucket(PrefixOf(r.kind, t), AssetsOf(r.kind)[1],
                       HashOf(AssetsOf(r.kind)[1], t))
          /\ InBucket(PrefixOf(r.kind, t), AssetsOf(r.kind)[2],
                       HashOf(AssetsOf(r.kind)[2], t))
      BY <3>3
    <3> QED BY <3>1, <3>4
  <2>2. /\ new.gates = {} /\ new.fw = t.boot
        /\ new.boot = IF r.kind = "default" THEN t.boot ELSE stack.boot
        /\ new \in Config
    BY <1>3, <1>4, <1>7, <1>1 DEF Candidate, Config, NoBundle, Tree
  <2>3. Published(new)
    BY <2>1, <2>2, <1>3, <1>7 DEF Published, Bundled
  <2>4. CASE r.kind = "default"
    <3>1. r.require <=> effect = "True"
      BY <1>1, <1>5, <2>4 DEF Reviewed, ReviewDefault
    <3>2. \A x : Carries(x, r, new, effect) => InScope(x)
      BY <2>4, <3>1 DEF InScope, Carries
    <3> QED BY <1>6, <2>2, <2>3, <3>2
  <2>5. CASE r.kind = "firewall"
    <3>1. "Instance" \notin Changes(stack, new)
      BY <1>5, <2>5 DEF Reviewed, ReviewFirewall
    <3>2. ~r.require
      BY <1>2, <2>5 DEF Established
    <3>3. \A x : Carries(x, r, new, effect) => InScope(x)
      BY <1>6, <2>5, <3>1, <3>2 DEF InScope, Carries
    <3> QED BY <1>6, <2>2, <2>3, <3>3
  <2> QED BY <1>7, <2>4, <2>5
<1>8. CASE r.kind = "h2"
  <2>1. r.base.gates = {"auth"}
    BY <1>2, <1>8 DEF Established, PatchFits, Gates
  <2>2. "auth" \in stack.gates
    BY <1>5, <1>8, <2>1 DEF ParametersGiven
  <2>3. new = [gates |-> {"auth", "h2"}, text |-> r.base.text, boot |-> stack.boot,
               fw |-> stack.fw, h2 |-> [id |-> Monitor(t.files), pins |-> t.pins,
                                        files |-> t.files]]
    BY <1>8, <2>1 DEF Candidate
  <2>4. new \in Config
    BY <1>1, <1>3, <1>4, <2>3 DEF Config, Gates, H2Bundle, Monitor
  <2>5. /\ InBucket(Prefix("monitor", Monitor(t.files)), "discord-monitor.py", Monitor(t.files))
        /\ InBucket(Prefix("monitor", Monitor(t.files)), "sidecars", t.files)
    BY <1>2, <1>4, <1>8, GateBundles DEF Established
  <2>6. Published(new)
    BY <2>2, <2>3, <2>5, <1>3 DEF Published
  <2>7. Changes(stack, new) \subseteq {"Monitor", "Role"}
    <3>1. Changes(stack, new) \cap {"Instance", "Firewall", "Auth"} = {}
      BY <1>5, <1>8 DEF Reviewed, ReviewH2
    <3>2. Changes(stack, new) \subseteq Resources
      BY DEF Changes
    <3> QED BY <3>1, <3>2 DEF Resources
  <2>8. ~r.require
    BY <1>2, <1>8 DEF Established
  <2>9. effect = "False"
    BY <1>6, <2>7
  <2>10. \A x : Carries(x, r, new, effect) => InScope(x)
    BY <1>8, <2>7, <2>8, <2>9 DEF InScope, Carries
  <2> QED BY <1>6, <2>4, <2>6, <2>10
<1>9. CASE r.kind = "auth"
  <2>1. "h2" \notin r.base.gates /\ r.base.gates \subseteq Gates
    BY <1>1, <1>2, <1>9 DEF Established, PatchFits, Gates, Config
  <2>2. new = [gates |-> {"auth"}, text |-> r.base.text, boot |-> stack.boot,
               fw |-> stack.fw, h2 |-> NoBundle]
    <3>1. r.base.gates \cup {"auth"} = {"auth"}
      BY <2>1 DEF Gates
    <3> QED BY <3>1, <1>9 DEF Candidate
  <2>3. new \in Config
    BY <1>1, <1>3, <2>2 DEF Config, Gates
  <2>4. t.files \notin Drifted /\ ReviewAuth(new)
    BY <1>5, <1>9 DEF Reviewed
  <2>5. InBucket(Prefix("userdb", "frozen"), "userdb.txt", "frozen")
    BY <1>2, <1>9, <2>4, GateBundles DEF Established, Userdb
  <2>6. Published(new)
    BY <2>2, <2>5, <1>3 DEF Published
  <2>7. ~r.require
    BY <1>2, <1>9 DEF Established
  <2>8. Changes(stack, new) \subseteq {"Auth", "Role"} /\ PoliciesGainAuthOnly(stack, new)
    BY <2>4 DEF ReviewAuth
  <2>9. effect = "False"
    BY <1>6, <2>8
  <2>10. \A x : Carries(x, r, new, effect) => InScope(x)
    BY <1>9, <2>7, <2>8, <2>9 DEF InScope, Carries
  <2> QED BY <1>6, <2>3, <2>6, <2>10
<1> QED BY <1>1, <1>7, <1>8, <1>9 DEF Kinds, Gates

-----------------------------------------------------------------------------
(* Each action preserves the invariant.                                    *)

\* A step of one run that leaves the stack and the update alone, and does not
\* lose what is in the bucket, has to establish what it says of that run only.
LEMMA RunStep ==
  ASSUME IInv, NEW o \in Operators, ~At(o, "waiting"),
         UNCHANGED <<stack, instance, target>>,
         bucket \subseteq bucket', OnePerKey', started' \in 0..MaxRuns,
         NEW r \in Run \cup {Idle}, run' = [run EXCEPT ![o] = r], r.at # "waiting",
         r.at # "idle" => Established(r)',
         r.at = "reviewed" => ~target.busy /\ Accepted(r)'
  PROVE  IInv'
<1>1. run'[o] = r /\ \A p \in Operators : p # o => run'[p] = run[p]
  BY DEF IInv, Typed
<1>2. Typed'
  BY DEF IInv, Typed
<1>3. ASSUME NEW p \in Operators, p # o
      PROVE  /\ Established(run[p]) => Established(run[p])'
             /\ Accepted(run[p]) => Accepted(run[p])'
  <2>1. run'[p] = run[p]
    BY <1>1, <1>3
  <2>2. Established(run[p]) => Established(run[p])'
    BY <2>1 DEF Established
  <2>3. Accepted(run[p]) => Accepted(run[p])'
    BY <2>1 DEF Accepted, Published, Bundled, InScope
  <2> QED BY <2>2, <2>3
<1>4. ASSUME NEW p \in Operators, ~At(p, "idle")'
      PROVE  Established(run[p])'
  <2>1. CASE p = o
    BY <1>1, <1>4, <2>1 DEF At, Established
  <2>2. CASE p # o
    <3>1. ~At(p, "idle")
      BY <1>1, <1>4, <2>2 DEF At
    <3> QED BY <1>3, <2>2, <3>1 DEF IInv, RunsEstablished
  <2> QED BY <2>1, <2>2
<1>5. ASSUME NEW p \in Operators
      PROVE  /\ At(p, "reviewed")' => ~target'.busy
             /\ At(p, "reviewed")' \/ At(p, "waiting")' => Accepted(run[p])'
  <2>1. CASE p = o
    BY <1>1, <2>1 DEF At, Accepted, Published, Bundled, InScope
  <2>2. CASE p # o
    <3>1. run'[p] = run[p]
      BY <1>1, <2>2
    <3> QED BY <1>3, <2>2, <3>1 DEF IInv, ReviewsHold, At
  <2> QED BY <2>1, <2>2
<1>6. OneWaits'
  <2>1. \A p \in Operators : At(p, "waiting")' <=> At(p, "waiting")
    BY <1>1 DEF At
  <2>2. CASE target.busy
    <3>1. PICK q \in Operators : /\ \A p \in Operators : At(p, "waiting") <=> p = q
                                 /\ target.config = run[q].candidate
                                 /\ target.effect = run[q].effect
      BY <2>2 DEF IInv, OneWaits
    <3>2. q # o /\ run'[q] = run[q]
      BY <1>1, <3>1
    <3> QED BY <2>1, <2>2, <3>1, <3>2 DEF OneWaits
  <2>3. CASE ~target.busy
    BY <2>1, <2>3 DEF IInv, OneWaits
  <2> QED BY <2>2, <2>3
<1>7. StackSound'
  BY DEF IInv, StackSound, Published, Bundled
<1> QED BY <1>2, <1>4, <1>5, <1>6, <1>7 DEF IInv, RunsEstablished, ReviewsHold

\* What describe-stacks and get-template show is a configuration.
LEMMA DescribedType == ASSUME Typed PROVE Described \subseteq Config
<1>1. CASE target.busy
  <2>1. target # NoUpdate
    BY <1>1 DEF NoUpdate
  <2> QED BY <1>1, <2>1 DEF Typed, Described
<1>2. CASE ~target.busy
  BY <1>2 DEF Typed, Described
<1> QED BY <1>1, <1>2

LEMMA PreflightIInv ==
  ASSUME IInv, NEW o \in Operators, NEW kind \in Kinds, NEW t \in Trees, Preflight(o, kind, t)
  PROVE  IInv'
<1>0. PICK seen \in Described :
        run' = [run EXCEPT ![o] =
                        [at |-> IF kind \in Gates THEN "snapshot" ELSE "publish",
                         kind |-> kind, tree |-> t, done |-> 0,
                         require |-> kind = "default" /\ seen.boot # t.boot,
                         base |-> seen, candidate |-> seen, effect |-> "False"]]
  BY DEF Preflight
<1>1. PICK r :
        /\ r = [at |-> IF kind \in Gates THEN "snapshot" ELSE "publish",
                kind |-> kind, tree |-> t, done |-> 0,
                require |-> kind = "default" /\ seen.boot # t.boot,
                base |-> seen, candidate |-> seen, effect |-> "False"]
        /\ run' = [run EXCEPT ![o] = r]
  BY <1>0
<1>2. seen \in Config
  BY <1>1, DescribedType DEF IInv
<1>3. r \in Run /\ r.at \in {"snapshot", "publish"}
  <2>1. t \in Tree
    BY DeploymentAssumption
  <2> QED BY <1>1, <1>2, <2>1 DEF Run, Gates, Effects
<1>4. /\ t.files = t.boot /\ started' \in 0..MaxRuns /\ ~At(o, "waiting")
      /\ UNCHANGED <<stack, instance, target>>
      /\ bucket \subseteq bucket' /\ bucket' = bucket
  BY DeploymentAssumption DEF Preflight, AssetIntegrity, IInv, Typed, At
<1>5. Established(r)'
  <2>1. Len(AssetsOf(kind)) \in Nat
    BY AssetCounts
  <2>2. /\ r.tree = t /\ r.kind = kind /\ r.done = 0 /\ r.base = seen
        /\ r.require => kind = "default"
        /\ kind \in Gates => r.at = "snapshot"
    BY <1>1
  <2>3. 0 \in 0..Len(AssetsOf(kind)) /\ 1..0 = {}
    BY <2>1
  <2> QED BY <1>4, <2>2, <2>3 DEF Established
<1>6. OnePerKey'
  BY <1>4 DEF IInv, OnePerKey
<1> QED BY <1>1, <1>3, <1>4, <1>5, <1>6, RunStep

\* A snapshot's template fits the patch of its gate.
LEMMA SnapshotIInv ==
  ASSUME IInv, NEW o \in Operators, Snapshot(o)
  PROVE  IInv'
<1>0. PICK base \in Described :
        /\ PatchFits(run[o].kind, base)
        /\ run' = [run EXCEPT ![o].base = base, ![o].at = "publish"]
  BY DEF Snapshot
<1>1. PICK r :
        /\ r = [run[o] EXCEPT !.base = base, !.at = "publish"]
        /\ run' = [run EXCEPT ![o] = r]
        /\ PatchFits(run[o].kind, base)
  BY <1>0 DEF IInv, Typed
<1>2. base \in Config
  BY <1>1, DescribedType DEF IInv
<1>3. run[o] \in Run /\ Established(run[o])
  BY RunFields DEF IInv, RunsEstablished, Snapshot, At
<1>4. r \in Run /\ r.at = "publish"
  BY <1>1, <1>2, <1>3 DEF Run
<1>5. /\ started' \in 0..MaxRuns /\ ~At(o, "waiting")
      /\ UNCHANGED <<stack, instance, target>>
      /\ bucket \subseteq bucket' /\ bucket' = bucket
  BY DEF Snapshot, IInv, Typed, At
<1>6. Established(r)'
  <2>1. /\ r.kind = run[o].kind /\ r.tree = run[o].tree /\ r.done = run[o].done
        /\ r.require = run[o].require /\ r.base = base
    BY <1>1, <1>3 DEF Run
  <2> QED BY <1>1, <1>3, <1>5, <2>1 DEF Established
<1>7. OnePerKey'
  BY <1>5 DEF IInv, OnePerKey
<1> QED BY <1>1, <1>4, <1>5, <1>6, <1>7, RunStep

\* An asset published is stored with the hash of the tree it comes from.
LEMMA PublishIInv ==
  ASSUME IInv, NEW o \in Operators, Publish(o)
  PROVE  IInv'
<1> DEFINE a == AssetsOf(run[o].kind)[run[o].done + 1]
           x == Object(PrefixOf(run[o].kind, run[o].tree), a, HashOf(a, run[o].tree))
<1>1. PICK r : r = [run[o] EXCEPT !.done = run[o].done + 1]
  OBVIOUS
<1>2. run[o] \in Run /\ Established(run[o]) /\ run[o].at = "publish"
  BY RunFields DEF IInv, RunsEstablished, Publish, At
<1>3. run' = [run EXCEPT ![o] = r]
  BY <1>1, <1>2 DEF Publish, IInv, Typed
<1>4. /\ run[o].done < Len(AssetsOf(run[o].kind)) /\ x \in bucket'
      /\ bucket' = IF Stored(PrefixOf(run[o].kind, run[o].tree), a) = {}
                   THEN bucket \cup {x} ELSE bucket
  BY DEF Publish, PublishAsset
<1>5. Len(AssetsOf(run[o].kind)) \in 0..2
  BY <1>2, AssetCounts DEF Run
<1>6. r \in Run /\ r.at = "publish"
  BY <1>1, <1>2, <1>4, <1>5 DEF Run
<1>7. /\ started' \in 0..MaxRuns /\ ~At(o, "waiting")
      /\ UNCHANGED <<stack, instance, target>>
      /\ bucket \subseteq bucket'
  BY <1>2, <1>4 DEF Publish, IInv, Typed, At
<1>8. Established(r)'
  <2>1. /\ r.kind = run[o].kind /\ r.tree = run[o].tree /\ r.done = run[o].done + 1
        /\ r.require = run[o].require /\ r.base = run[o].base
    BY <1>1, <1>2 DEF Run
  <2>2. \A i \in 1..r.done :
          Object(PrefixOf(r.kind, r.tree), AssetsOf(r.kind)[i],
                 HashOf(AssetsOf(r.kind)[i], r.tree)) \in bucket'
    <3>1. SUFFICES ASSUME NEW i \in 1..r.done
                   PROVE  Object(PrefixOf(r.kind, r.tree), AssetsOf(r.kind)[i],
                                 HashOf(AssetsOf(r.kind)[i], r.tree)) \in bucket'
      OBVIOUS
    <3>2. CASE i = run[o].done + 1
      BY <1>4, <2>1, <3>2
    <3>3. CASE i # run[o].done + 1
      <4>1. i \in 1..run[o].done
        BY <1>2, <2>1, <3>3 DEF Run
      <4> QED BY <1>2, <1>7, <2>1, <4>1 DEF Established
    <3> QED BY <3>2, <3>3
  <2>3. r.done \in 0..Len(AssetsOf(r.kind))
    BY <1>2, <1>4, <1>5, <2>1 DEF Run
  <2> HIDE DEF a, x
  <2> QED BY <1>2, <1>6, <2>1, <2>2, <2>3 DEF Established
<1>9. OnePerKey'
  <2>1. x = Object(x.prefix, x.asset, x.hash)
        /\ x.prefix = PrefixOf(run[o].kind, run[o].tree) /\ x.asset = a
    BY DEF Object
  <2>2. CASE Stored(PrefixOf(run[o].kind, run[o].tree), a) = {}
    <3>1. \A y \in bucket : ~(y.prefix = x.prefix /\ y.asset = x.asset)
      BY <2>1, <2>2 DEF Stored
    <3>2. bucket' = bucket \cup {x}
      BY <1>4, <2>2
    <3> HIDE DEF x, a
    <3> QED BY <2>1, <3>1, <3>2 DEF IInv, OnePerKey
  <2>3. CASE Stored(PrefixOf(run[o].kind, run[o].tree), a) # {}
    BY <1>4, <2>3 DEF IInv, OnePerKey
  <2> QED BY <2>2, <2>3
<1> QED BY <1>3, <1>6, <1>7, <1>8, <1>9, RunStep

\* The review establishes what the update relies on.
LEMMA CreateAndReviewIInv ==
  ASSUME IInv, NEW o \in Operators, CreateAndReview(o)
  PROVE  IInv'
<1>0. PICK new : new = Candidate(run[o].kind, run[o].tree, run[o].base)
  OBVIOUS
<1>a. PICK effect \in Replacement(stack, new) :
        /\ Reviewed(run[o], new, effect)
        /\ run' = [run EXCEPT ![o].at = "reviewed", ![o].candidate = new,
                              ![o].effect = effect]
  BY <1>0 DEF CreateAndReview
<1>1. PICK r : r = [[[run[o] EXCEPT !.at = "reviewed"] EXCEPT !.candidate = new]
                     EXCEPT !.effect = effect]
  OBVIOUS
<1>2. run[o] \in Run /\ Established(run[o]) /\ run[o].at = "publish"
  BY RunFields DEF IInv, RunsEstablished, CreateAndReview, At
<1>3. run' = [run EXCEPT ![o] = r]
  BY <1>a, <1>1, <1>2 DEF IInv, Typed
<1>b. /\ r.kind = run[o].kind /\ r.require = run[o].require
      /\ r.candidate = new /\ r.effect = effect /\ r.at = "reviewed"
  BY <1>1, <1>2 DEF Run
<1>4. new \in Config /\ effect \in Effects /\ Published(new) /\ InScope(r)
  BY <1>0, <1>a, <1>b, CandidatePasses DEF Carries
<1>5. r \in Run /\ r.at = "reviewed" /\ r.candidate = new
  BY <1>1, <1>2, <1>4 DEF Run
<1>6. /\ started' \in 0..MaxRuns /\ ~At(o, "waiting") /\ ~target.busy
      /\ UNCHANGED <<stack, instance, target>>
      /\ bucket \subseteq bucket' /\ bucket' = bucket
  BY DEF CreateAndReview, IInv, Typed, At
<1>7. Accepted(r)'
  BY <1>4, <1>5, <1>6 DEF Accepted, Published, Bundled, InScope
<1>8. Established(r)'
  <2>1. /\ r.kind = run[o].kind /\ r.tree = run[o].tree /\ r.done = run[o].done
        /\ r.require = run[o].require /\ r.base = run[o].base
    BY <1>1, <1>2 DEF Run
  <2> QED BY <1>2, <1>6, <2>1 DEF Established
<1>9. OnePerKey'
  BY <1>6 DEF IInv, OnePerKey
<1> QED BY <1>3, <1>5, <1>6, <1>7, <1>8, <1>9, RunStep

LEMMA StopIInv ==
  ASSUME IInv, NEW o \in Operators, Stop(o)
  PROVE  IInv'
<1>1. run' = [run EXCEPT ![o] = Idle] /\ Idle.at = "idle"
  BY DEF Stop, Idle
<1>2. /\ started' \in 0..MaxRuns /\ ~At(o, "waiting")
      /\ UNCHANGED <<stack, instance, target>>
      /\ bucket \subseteq bucket' /\ bucket' = bucket
  BY DEF Stop, IInv, Typed, At
<1>3. OnePerKey'
  BY <1>2 DEF IInv, OnePerKey
<1> QED BY <1>1, <1>2, <1>3, RunStep

\* The run that executes waits; the reviewed change sets of the others go.
LEMMA ExecuteIInv ==
  ASSUME IInv, NEW o \in Operators, Execute(o)
  PROVE  IInv'
<1>1. PICK r : r = [run[o] EXCEPT !.at = "waiting"]
  OBVIOUS
<1>2. run[o] \in Run /\ run[o].at = "reviewed" /\ ~target.busy
  BY RunFields DEF IInv, ReviewsHold, Execute, At
<1>3. /\ r \in Run /\ r.at = "waiting" /\ r.candidate = run[o].candidate
      /\ r.effect = run[o].effect
      /\ r.kind = run[o].kind /\ r.tree = run[o].tree /\ r.done = run[o].done
      /\ r.require = run[o].require /\ r.base = run[o].base
  BY <1>1, <1>2 DEF Run
<1>4. /\ UNCHANGED <<bucket, stack, instance, started>>
      /\ target' = [busy |-> TRUE, config |-> run[o].candidate, effect |-> run[o].effect]
      /\ run' = [p \in Operators |-> IF p = o THEN r
                                     ELSE IF At(p, "reviewed") THEN Idle ELSE run[p]]
  BY <1>1 DEF Execute
<1>5. run[o].candidate \in Config /\ run[o].effect \in Effects /\ Accepted(run[o]) /\ Established(run[o])
  BY <1>2 DEF Run, IInv, ReviewsHold, RunsEstablished, At
<1>6. Typed'
  <2>1. run' \in [Operators -> Run \cup {Idle}]
    BY <1>3, <1>4 DEF IInv, Typed
  <2>2. target' \in [busy: {TRUE}, config: Config, effect: Effects]
    BY <1>4, <1>5
  <2> QED BY <1>4, <2>1, <2>2 DEF IInv, Typed
<1>7. \A p \in Operators : p # o =>
        /\ ~At(p, "reviewed")' /\ ~At(p, "waiting")'
        /\ ~At(p, "idle")' => run'[p] = run[p] /\ ~At(p, "idle")
  BY <1>2, <1>4 DEF IInv, OneWaits, At, Idle
<1>8. run'[o] = r
  BY <1>4
<1>9. RunsEstablished'
  <2>1. Established(r)'
    BY <1>2, <1>3, <1>4, <1>5 DEF Established
  <2>2. \A p \in Operators : p # o /\ ~At(p, "idle")' => Established(run[p])'
    BY <1>4, <1>7 DEF IInv, RunsEstablished, Established
  <2>3. Established(run[o])'
    BY <1>8, <2>1 DEF Established
  <2> QED BY <2>2, <2>3 DEF RunsEstablished
<1>10. ReviewsHold'
  <2>1. Accepted(run[o])'
    BY <1>3, <1>4, <1>5, <1>8 DEF Accepted, Published, Bundled, InScope
  <2>2. ~At(o, "reviewed")'
    BY <1>3, <1>8 DEF At
  <2> QED BY <1>7, <2>1, <2>2 DEF ReviewsHold
<1>11. OneWaits'
  <2>1. \A p \in Operators : At(p, "waiting")' <=> p = o
    BY <1>3, <1>7, <1>8 DEF At
  <2> QED BY <1>3, <1>4, <1>8, <2>1 DEF OneWaits
<1>12. OnePerKey' /\ StackSound'
  BY <1>4 DEF IInv, OnePerKey, StackSound, Published, Bundled
<1> QED BY <1>6, <1>9, <1>10, <1>11, <1>12 DEF IInv

\* When an update ends the run that waited is over, and no change set is left.
LEMMA EndOfUpdate ==
  ASSUME IInv, target.busy, target' = NoUpdate, run' = EndOfWait,
         UNCHANGED <<bucket, started>>, stack' \in Config, instance' \in [id: 0..1, boot: Versions]
  PROVE  Typed' /\ OnePerKey' /\ RunsEstablished' /\ ReviewsHold' /\ OneWaits'
<1>1. \A p \in Operators : run'[p] = IF At(p, "waiting") THEN Idle ELSE run[p]
  BY DEF EndOfWait
<1>2. Typed'
  <2>1. run' \in [Operators -> Run \cup {Idle}]
    BY DEF EndOfWait, IInv, Typed
  <2> QED BY <2>1 DEF IInv, Typed
<1>3. \A p \in Operators : /\ ~At(p, "waiting")' /\ ~At(p, "reviewed")'
                           /\ ~At(p, "idle")' => run'[p] = run[p] /\ ~At(p, "idle")
  BY <1>1 DEF IInv, ReviewsHold, At, Idle
<1>4. RunsEstablished'
  BY <1>3 DEF IInv, RunsEstablished, Established
<1>5. ReviewsHold' /\ OneWaits'
  BY <1>3 DEF ReviewsHold, OneWaits, NoUpdate
<1>6. OnePerKey'
  BY DEF IInv, OnePerKey
<1> QED BY <1>2, <1>4, <1>5, <1>6

\* The update in progress is the change set of the run that waits for it.
LEMMA UpdateIsAccepted ==
  ASSUME IInv, target.busy, NEW o \in Operators, At(o, "waiting")
  PROVE  /\ target.config = run[o].candidate /\ target.effect = run[o].effect
         /\ Accepted(run[o]) /\ run[o] \in Run
<1>1. target.config = run[o].candidate /\ target.effect = run[o].effect
  BY DEF IInv, OneWaits
<1>2. Accepted(run[o])
  BY DEF IInv, ReviewsHold
<1>3. run[o] \in Run
  BY RunFields DEF IInv, At
<1> QED BY <1>1, <1>2, <1>3

\* What the update of a run makes of the instance.
LEMMA InstanceAfterUpdate ==
  ASSUME IInv, UpdateComplete, NEW o \in Operators, At(o, "waiting")
  PROVE  /\ \/ instance' = instance
            \/ instance' = [id |-> 1 - instance.id, boot |-> stack'.boot]
         /\ run[o].effect = "True" => instance' # instance
         /\ run[o].effect = "False" => instance' = instance
<1>1. target.effect = run[o].effect
  BY UpdateIsAccepted DEF UpdateComplete
<1>2. PICK replaced \in Replaces(target.effect) :
        instance' = IF replaced THEN [id |-> 1 - instance.id, boot |-> stack'.boot]
                    ELSE instance
  BY DEF UpdateComplete
<1>3. [id |-> 1 - instance.id, boot |-> stack'.boot] # instance
  <2>1. instance.id \in 0..1
    BY DEF IInv, Typed
  <2>2. 1 - instance.id # instance.id
    BY <2>1
  <2> QED BY <2>2
<1>4. CASE run[o].effect = "True"
  <2>1. replaced = TRUE
    BY <1>1, <1>2, <1>4 DEF Replaces
  <2> QED BY <1>2, <1>3, <1>4, <2>1
<1>5. CASE run[o].effect = "False"
  <2>1. replaced = FALSE
    BY <1>1, <1>2, <1>5 DEF Replaces
  <2> QED BY <1>2, <1>5, <2>1
<1>6. CASE run[o].effect \notin {"True", "False"}
  BY <1>2, <1>6
<1> QED BY <1>4, <1>5, <1>6

LEMMA UpdateCompleteIInv ==
  ASSUME IInv, UpdateComplete
  PROVE  IInv'
<1>1. PICK o \in Operators : At(o, "waiting")
  BY DEF UpdateComplete, IInv, OneWaits
<1>2. /\ target.config = run[o].candidate /\ Accepted(run[o]) /\ run[o] \in Run
  BY <1>1, UpdateIsAccepted DEF UpdateComplete
<1>3. /\ stack' = target.config /\ bucket' = bucket /\ target' = NoUpdate
      /\ run' = EndOfWait /\ started' = started /\ target.busy
  BY DEF UpdateComplete
<1>4. stack' \in Config
  BY <1>2, <1>3 DEF Run
<1>5. \/ instance' = instance
      \/ instance' = [id |-> 1 - instance.id, boot |-> stack'.boot]
  BY <1>1, InstanceAfterUpdate
<1>6. instance' \in [id: 0..1, boot: Versions]
  BY <1>4, <1>5 DEF Config, IInv, Typed
<1>7. StackSound'
  <2>1. Published(stack)'
    BY <1>2, <1>3 DEF Accepted, Published, Bundled
  <2>2. Bundled(instance.boot)'
    BY <1>3, <1>5, <2>1 DEF IInv, StackSound, Published, Bundled
  <2> QED BY <2>1, <2>2 DEF StackSound
<1> QED BY <1>3, <1>4, <1>6, <1>7, EndOfUpdate DEF IInv

LEMMA UpdateRollbackIInv ==
  ASSUME IInv, UpdateRollback
  PROVE  IInv'
<1>1. UNCHANGED <<bucket, stack, instance, started>>
  BY DEF UpdateRollback
<1>2. StackSound'
  BY <1>1 DEF IInv, StackSound, Published, Bundled
<1>3. stack' \in Config /\ instance' \in [id: 0..1, boot: Versions]
  BY <1>1 DEF IInv, Typed
<1> QED BY <1>1, <1>2, <1>3, EndOfUpdate DEF IInv, UpdateRollback

LEMMA NextIInv ==
  ASSUME IInv, [Next]_vars
  PROVE  IInv'
<1>1. CASE UNCHANGED vars
  <2>1. Typed' /\ OnePerKey' /\ OneWaits'
    BY <1>1 DEF vars, IInv, Typed, OnePerKey, OneWaits, At
  <2>2. RunsEstablished'
    BY <1>1 DEF vars, IInv, RunsEstablished, Established, At
  <2>3. ReviewsHold'
    BY <1>1 DEF vars, IInv, ReviewsHold, Accepted, Published, Bundled, InScope, At
  <2>4. StackSound'
    BY <1>1 DEF vars, IInv, StackSound, Published, Bundled
  <2> QED BY <2>1, <2>2, <2>3, <2>4 DEF IInv
<1>2. ASSUME NEW o \in Operators, NEW kind \in Kinds, NEW t \in Trees, Preflight(o, kind, t)
      PROVE  IInv'
  BY <1>2, PreflightIInv
<1>3. ASSUME NEW o \in Operators, Snapshot(o) PROVE IInv'
  BY <1>3, SnapshotIInv
<1>4. ASSUME NEW o \in Operators, Publish(o) PROVE IInv'
  BY <1>4, PublishIInv
<1>5. ASSUME NEW o \in Operators, CreateAndReview(o) PROVE IInv'
  BY <1>5, CreateAndReviewIInv
<1>6. ASSUME NEW o \in Operators, Execute(o) PROVE IInv'
  BY <1>6, ExecuteIInv
<1>7. ASSUME NEW o \in Operators, Stop(o) PROVE IInv'
  BY <1>7, StopIInv
<1>8. CASE UpdateComplete
  BY <1>8, UpdateCompleteIInv
<1>9. CASE UpdateRollback
  BY <1>9, UpdateRollbackIInv
<1> QED BY <1>1, <1>2, <1>3, <1>4, <1>5, <1>6, <1>7, <1>8, <1>9 DEF Next

-----------------------------------------------------------------------------
(* The theorems.                                                           *)

\* The inductive invariant holds in every state of the script's runs.
THEOREM Invariance == Spec => []IInv
BY InitIInv, NextIInv, PTL DEF Spec

\* The variables keep their types, and exactly one run waits for an update in
\* progress.
THEOREM TypeCorrect == Spec => []TypeOK
<1>1. IInv => TypeOK
  <2> SUFFICES ASSUME IInv PROVE TypeOK
    OBVIOUS
  <2>1. \A o \in Operators : ~At(o, "idle") => run[o].done <= Len(AssetsOf(run[o].kind))
    <3> SUFFICES ASSUME NEW o \in Operators, ~At(o, "idle")
                 PROVE  run[o].done <= Len(AssetsOf(run[o].kind))
      OBVIOUS
    <3>1. run[o] \in Run /\ Established(run[o])
      BY RunFields DEF IInv, RunsEstablished
    <3>2. Len(AssetsOf(run[o].kind)) \in Nat
      BY <3>1, AssetCounts DEF Run
    <3> QED BY <3>1, <3>2 DEF Established
  <2>2. Cardinality({o \in Operators : At(o, "waiting")}) = IF target.busy THEN 1 ELSE 0
    <3>1. CASE target.busy
      <4>1. PICK o \in Operators : {p \in Operators : At(p, "waiting")} = {o}
        BY <3>1 DEF IInv, OneWaits
      <4> QED BY <3>1, <4>1, FS_Singleton
    <3>2. CASE ~target.busy
      <4>1. {p \in Operators : At(p, "waiting")} = {}
        BY <3>2 DEF IInv, OneWaits
      <4> QED BY <3>2, <4>1, FS_EmptySet
    <3> QED BY <3>1, <3>2
  <2> QED BY <2>1, <2>2 DEF IInv, Typed, TypeOK
<1> QED BY <1>1, Invariance, PTL

LEMMA StoredIsUnique ==
  ASSUME OnePerKey, NEW p, NEW a, NEW h, Object(p, a, h) \in bucket
  PROVE  Has(p, a, h)
<1>1. Object(p, a, h) \in Stored(p, a)
  BY DEF Stored, Object
<1>2. \A x \in Stored(p, a) : x = Object(p, a, h)
  BY DEF Stored, OnePerKey, Object
<1> QED BY <1>1, <1>2 DEF Has

\* Whatever runs failed half-way or published from other trees, all that the
\* stack in force tells an instance or an association to download is stored
\* with the one hash of the tree that published it (Publish-Asset,
\* Assert-AssetIntegrity).
THEOREM BundlesArePublished == Spec => []BundlesPublished
<1>1. IInv => BundlesPublished
  <2> SUFFICES ASSUME IInv PROVE BundlesPublished
    OBVIOUS
  <2>1. OnePerKey /\ Published(stack) /\ Bundled(instance.boot)
    BY DEF IInv, StackSound
  <2>2. \A p, a, h : Object(p, a, h) \in bucket => Has(p, a, h)
    BY <2>1, StoredIsUnique
  <2> QED BY <2>1, <2>2 DEF BundlesPublished, Published, Bundled
<1> QED BY <1>1, Invariance, PTL

\* A step that changes the stack completes the update the waiting run executed.
LEMMA StackStep ==
  ASSUME IInv, [Next]_vars, stack' # stack, NEW o \in Operators, At(o, "waiting")
  PROVE  /\ UpdateComplete /\ stack' = run[o].candidate
         /\ InScope(run[o]) /\ run[o] \in Run
<1>1. UpdateComplete
  BY DEF Next, vars, Preflight, Snapshot, Publish, CreateAndReview, Execute, Stop,
     UpdateRollback
<1>2. target.busy /\ stack' = target.config
  BY <1>1 DEF UpdateComplete
<1> QED BY <1>1, <1>2, UpdateIsAccepted DEF Accepted

\* An announced replacement is made, and one that was not is made only by a
\* default run, by a change called Conditional (lines 2112-2115, 386-427).
THEOREM ReplacementIsAnnounced == Spec => ReplacedAsAnnounced
<1> DEFINE Announced ==
      \A o \in Operators : At(o, "waiting") /\ stack' # stack =>
       /\ run[o].require => instance' # instance
       /\ instance' # instance /\ ~run[o].require =>
            run[o].kind = "default" /\ run[o].effect = "Conditional"
<1>1. ASSUME IInv, [Next]_vars PROVE Announced
  <2> SUFFICES ASSUME NEW o \in Operators, At(o, "waiting"), stack' # stack
               PROVE  /\ run[o].require => instance' # instance
                      /\ instance' # instance /\ ~run[o].require =>
                           run[o].kind = "default" /\ run[o].effect = "Conditional"
    OBVIOUS
  <2>1. UpdateComplete /\ InScope(run[o]) /\ run[o] \in Run
    BY <1>1, StackStep
  <2>2. /\ run[o].effect = "True" => instance' # instance
        /\ run[o].effect = "False" => instance' = instance
    BY <1>1, <2>1, InstanceAfterUpdate
  <2>3. /\ run[o].require <=> run[o].effect = "True"
        /\ run[o].kind # "default" => run[o].effect = "False"
    BY <2>1 DEF InScope
  <2>4. run[o].effect \in {"True", "Conditional", "False"}
    BY <2>1 DEF Run, Effects
  <2> QED BY <2>2, <2>3, <2>4
<1>2. IInv /\ [Next]_vars => [Announced]_vars
  BY <1>1
<1> QED BY <1>2, Invariance, PTL DEF Spec, ReplacedAsAnnounced

\* An update changes only what its gate owns, although its candidate may be a
\* snapshot taken before another update (lines 484-517, 1484-1573, 1625-1741).
THEOREM ScopeIsKept == Spec => GatesStayInScope
<1> DEFINE Scope ==
      \A o \in Operators : At(o, "waiting") /\ stack' # stack =>
       CASE run[o].kind = "default"  -> TRUE
         [] run[o].kind = "firewall" -> "Instance" \notin Changes(stack, stack')
         [] run[o].kind = "h2"   -> Changes(stack, stack') \subseteq {"Monitor", "Role"}
         [] run[o].kind = "auth" -> /\ Changes(stack, stack') \subseteq {"Auth", "Role"}
                                    /\ PoliciesGainAuthOnly(stack, stack')
<1>1. ASSUME IInv, [Next]_vars PROVE Scope
  <2> SUFFICES ASSUME NEW o \in Operators, At(o, "waiting"), stack' # stack
               PROVE  CASE run[o].kind = "default"  -> TRUE
         [] run[o].kind = "firewall" -> "Instance" \notin Changes(stack, stack')
         [] run[o].kind = "h2"   -> Changes(stack, stack') \subseteq {"Monitor", "Role"}
         [] run[o].kind = "auth" -> /\ Changes(stack, stack') \subseteq {"Auth", "Role"}
                                    /\ PoliciesGainAuthOnly(stack, stack')
    OBVIOUS
  <2>1. stack' = run[o].candidate /\ InScope(run[o]) /\ run[o] \in Run
    BY <1>1, StackStep
  <2>2. run[o].kind \in {"default", "firewall", "h2", "auth"}
    BY <2>1 DEF Run, Kinds, Gates
  <2> QED BY <2>1, <2>2 DEF InScope
<1>2. IInv /\ [Next]_vars => [Scope]_vars
  BY <1>1
<1> QED BY <1>2, Invariance, PTL DEF Spec, GatesStayInScope
=============================================================================
