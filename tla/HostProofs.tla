----------------------------- MODULE HostProofs -----------------------------
(***************************************************************************)
(* Proofs about Host, for any number of faults, reboots and versions: an   *)
(* active firewall is the whole policy, Cowrie starts behind it, and what  *)
(* is signalled as a success is in place.                                  *)
(***************************************************************************)
EXTENDS Host, SequenceTheorems, TLAPS

Rule == {"log", "drop"} \cup Range(Policy.v4)

RuleChain == [exists : BOOLEAN, rules : Seq(Rule), version : Nat]

Commands == {"off", "unhook", "flush", "delete", "flush deny", "delete deny", "new deny",
             "fill deny", "new", "fill", "hook"}

\* The first k rules of a policy.
FirstRules(rules, policy, k) ==
  /\ Len(rules) = k
  /\ \A n \in 1..k : rules[n] = policy[n]

FirewallTypes ==
  /\ table \in [Family -> [chain : RuleChain, deny : RuleChain, jumps : 0..1]]
  /\ script \in [family : Family, at : Commands, appended : Nat, version : Nat]
  /\ unit \in {"inactive", "activating", "active", "failed"}
  /\ installed \in Nat
  /\ faults \in 0..MaxFaults
  /\ (script.at = "off") <=> (unit # "activating")

\* A chain that is hooked exists: the kernel deletes none that is referenced.
HookedExists == \A f \in Family : table[f].jumps > 0 => table[f].chain.exists

\* The script comes to IPv6 when the policy of IPv4 is whole, and then leaves
\* it alone.
OneFamilyDone == script.at # "off" /\ script.family = "v6" => Enforced("v4")

\* What the commands so far have established of the script's family.
Built ==
  /\ script.at \notin {"fill deny", "fill"} => script.appended = 0
  /\ script.at = "fill deny" =>
       /\ script.appended < Len(DenyPolicy)
       /\ FirstRules(Here.deny.rules, DenyPolicy, script.appended)
  /\ script.at \in {"new", "fill", "hook"} => Here.deny.rules = DenyPolicy
  /\ script.at \in {"fill", "hook"} => Here.chain.exists /\ Here.jumps = 0
  /\ script.at = "fill" =>
       /\ script.appended < Len(Policy[script.family])
       /\ FirstRules(Here.chain.rules, Policy[script.family], script.appended)
  /\ script.at = "hook" => Here.chain.rules = Policy[script.family]

FirewallInv ==
  FirewallTypes /\ HookedExists /\ OneFamilyDone /\ Built /\ ActiveMeansEnforced

-----------------------------------------------------------------------------

\* The bootstrap's phases after the one that establishes something.
AfterTimer == {"archive_initial_run", "final_runtime_validation"}
AfterDiscord == AfterTimer \cup {"archive_timer_enablement"}
AfterCowrie == AfterDiscord \cup {"cowrie_listener_check", "discord_service_enablement"}
AfterMask == AfterCowrie \cup {"start cowrie"}
AfterSsm == AfterMask \cup {"disable sshd", "mask sshd"}
AfterFirewall == AfterSsm \cup {"start ssm"}
AfterKey == AfterFirewall \cup {"monitoring_archive_services", "sidecar_self_tests",
                                "native_service_start", "await firewall"}

\* All that a bootstrap which succeeds has put in place.
InPlace ==
  /\ enabled = {"firewall", "ssm", "cowrie", "discord", "timer"}
  /\ sshd = "masked"
  /\ hostKey = [private |-> "new", public |-> "new"]
  /\ reboots = 0 => unit = "active"

\* What the bootstrap has established when it is at a phase, and that nobody
\* associates another firewall before it has ended.
Established ==
  /\ phase \notin {"done", "cut"} => signal = "none"
  /\ phase \in AfterKey => hostKey = [private |-> "new", public |-> "new"]
  /\ phase \in {"await firewall"} \cup AfterFirewall => "firewall" \in enabled
  /\ phase \in AfterFirewall => unit = "active"
  /\ phase \in AfterSsm => "ssm" \in enabled
  /\ phase \in AfterMask => sshd = "masked"
  /\ phase \in AfterCowrie => "cowrie" \in enabled
  /\ phase \in AfterDiscord => "discord" \in enabled
  /\ phase \in AfterTimer => "timer" \in enabled
  /\ phase = "signal" /\ result = "ok" /\ ran = "pinned" => InPlace

HostTypes ==
  /\ phase \in Phases
  /\ ran \in {"pinned", "damaged", "none"}
  /\ result \in {"ok", "failed"}
  /\ signal \in {"none", "success", "failure", "lost"}
  /\ hostKey \in [private : {"none", "new"}, public : {"none", "new", "other"}]
  /\ enabled \subseteq {"firewall", "ssm", "cowrie", "discord", "timer"}
  /\ sshd \in {"active", "disabled", "masked"}
  /\ service \in [Services -> {"off", "running", "restarting"}]
  /\ booting \in BOOLEAN /\ bypassed \in BOOLEAN
  /\ association \in 0..MaxVersions /\ applied \in 0..MaxVersions
  /\ reboots \in 0..MaxReboots

\* A Cowrie that was not started at a boot where the firewall failed was started
\* with the firewall active, which is then not started again.
StartedBehind == service["cowrie"] # "off" => bypassed \/ unit = "active"

\* The inductive invariant.
HostInv ==
  HostTypes /\ FirewallInv /\ Established /\ StartedBehind /\ SuccessMeansInPlace

-----------------------------------------------------------------------------
(* The policies *)

\* Tuples of the lengths of the two policies.
LEMMA LengthOfSeven == \A a, b, c, d, e, f, g : Len(<<a, b, c, d, e, f, g>>) = 7
OBVIOUS

\* The entries of a tuple that the policy of IPv6 has too.
LEMMA EntriesOfSeven ==
  \A a, b, c, d, e, f, g :
    /\ <<a, b, c, d, e, f, g>>[1] = a
    /\ <<a, b, c, d, e, f, g>>[2] = b
    /\ <<a, b, c, d, e, f, g>>[6] = f
    /\ <<a, b, c, d, e, f, g>>[7] = g
OBVIOUS

\* A sequence is one of its entries.
LEMMA RangeOfSequence ==
  \A T : \A s \in Seq(T) : s \in Seq(Range(s)) /\ \A n \in 1..Len(s) : s[n] \in Range(s)
BY DEF Range

\* Both policies are sequences of rules.
LEMMA PolicyFacts ==
  /\ \A f \in Family : /\ Policy[f] \in Seq(Rule)
                       /\ Len(Policy[f]) \in Nat /\ 0 < Len(Policy[f]) /\ Len(Policy[f]) <= 7
  /\ Len(Policy.v4) = 7
  /\ DenyPolicy \in Seq(Rule)
  /\ Len(DenyPolicy) \in Nat /\ 0 < Len(DenyPolicy) /\ Len(DenyPolicy) <= 7
<1> DEFINE p4 == <<"established", "loopback", "infrastructure", "reserved", "web", "deny new",
                   "return">>
           p6 == <<"established", "loopback", "deny new", "return">>
           S  == {"established", "loopback", "infrastructure", "reserved", "web", "deny new",
                  "return"}
           T  == {"established", "loopback", "deny new", "return"}
<1>1. Policy.v4 = p4 /\ Policy["v4"] = p4 /\ Policy["v6"] = p6
  BY DEF Policy
<1>2. p4 \in Seq(S) /\ p6 \in Seq(T)
  <2>1. p4 \in Seq(S)
    OBVIOUS
  <2>2. p6 \in Seq(T)
    OBVIOUS
  <2> QED BY <2>1, <2>2
<1>3. Len(p4) = 7
  BY LengthOfSeven, Zenon
<1>4. Len(p6) = 4
  OBVIOUS
<1>5. p4[1] = "established" /\ p4[2] = "loopback" /\ p4[6] = "deny new" /\ p4[7] = "return"
  BY EntriesOfSeven, Zenon
<1>6. /\ DenyPolicy \in Seq({"log", "drop"})
      /\ Len(DenyPolicy) \in Nat /\ 0 < Len(DenyPolicy) /\ Len(DenyPolicy) <= 7
  BY DEF DenyPolicy
<1>7. Rule = {"log", "drop"} \cup Range(p4)
  BY <1>1 DEF Rule
<1> HIDE DEF p4, p6, S
<1>8. p4 \in Seq(Rule) /\ p6 \in Seq(Rule) /\ DenyPolicy \in Seq(Rule)
  <2>1. \A U : U \subseteq Rule => Seq(U) \subseteq Seq(Rule)
    OBVIOUS
  <2>2. p4 \in Seq(Range(p4)) /\ \A n \in 1..7 : p4[n] \in Range(p4)
    BY <1>2, <1>3, RangeOfSequence
  <2>3. T \subseteq Range(p4)
    <3>1. /\ p4[1] \in Range(p4) /\ p4[2] \in Range(p4)
          /\ p4[6] \in Range(p4) /\ p4[7] \in Range(p4)
      BY <2>2
    <3> QED BY <1>5, <3>1
  <2> HIDE DEF T
  <2>4. Range(p4) \subseteq Rule /\ T \subseteq Rule /\ {"log", "drop"} \subseteq Rule
    BY <1>7, <2>3
  <2> QED BY <1>2, <1>6, <2>1, <2>2, <2>4
<1>9. ASSUME NEW f \in Family
      PROVE  Policy[f] \in Seq(Rule) /\ (Len(Policy[f]) = 7 \/ Len(Policy[f]) = 4)
  <2>1. CASE f = "v4"
    BY <1>1, <1>3, <1>8, <2>1
  <2>2. CASE f = "v6"
    BY <1>1, <1>4, <1>8, <2>2
  <2> QED BY <2>1, <2>2 DEF Family
<1>10. Len(Policy.v4) = 7
  BY <1>1, <1>3
<1>11. ASSUME NEW f \in Family
       PROVE  Len(Policy[f]) \in Nat /\ 0 < Len(Policy[f]) /\ Len(Policy[f]) <= 7
  <2>1. CASE Len(Policy[f]) = 7
    BY <2>1
  <2>2. CASE Len(Policy[f]) = 4
    BY <2>2
  <2> QED BY <1>9, <2>1, <2>2
<1> QED BY <1>6, <1>8, <1>9, <1>10, <1>11

\* The next rule of a policy, and the last one.
LEMMA NextRule ==
  ASSUME NEW policy \in Seq(Rule), NEW rules \in Seq(Rule), NEW k \in Nat,
         k < Len(policy), FirstRules(rules, policy, k)
  PROVE  /\ Append(rules, policy[k + 1]) \in Seq(Rule)
         /\ FirstRules(Append(rules, policy[k + 1]), policy, k + 1)
         /\ k + 1 = Len(policy) => Append(rules, policy[k + 1]) = policy
<1> DEFINE new == Append(rules, policy[k + 1])
<1>1. policy[k + 1] \in Rule
  BY ElementOfSeq
<1>2. /\ new \in Seq(Rule) /\ Len(new) = k + 1 /\ new[k + 1] = policy[k + 1]
      /\ \A n \in 1..k : new[n] = rules[n]
  BY <1>1, AppendProperties DEF FirstRules
<1>3. FirstRules(new, policy, k + 1)
  BY <1>2 DEF FirstRules
<1>4. ASSUME k + 1 = Len(policy) PROVE new = policy
  BY <1>2, <1>3, <1>4, SeqEqual DEF FirstRules
<1> QED BY <1>2, <1>3, <1>4

\* An empty chain has the first zero rules of a policy.
LEMMA NoRules ==
  ASSUME NEW policy
  PROVE  <<>> \in Seq(Rule) /\ FirstRules(<<>>, policy, 0)
BY DEF FirstRules

-----------------------------------------------------------------------------
(* The script *)

\* What an update of one field of the script's row does to the table.
LEMMA UpdatedJumps ==
  ASSUME FirewallTypes, NEW value \in 0..1, Update("jumps", value)
  PROVE  /\ table' \in [Family -> [chain : RuleChain, deny : RuleChain, jumps : 0..1]]
         /\ table'[script.family].chain = Here.chain
         /\ table'[script.family].deny = Here.deny
         /\ table'[script.family].jumps = value
         /\ \A f \in Family : f # script.family => table'[f] = table[f]
BY DEF FirewallTypes, Update, Here

LEMMA UpdatedChain ==
  ASSUME FirewallTypes, NEW value \in RuleChain, Update("chain", value)
  PROVE  /\ table' \in [Family -> [chain : RuleChain, deny : RuleChain, jumps : 0..1]]
         /\ table'[script.family].chain = value
         /\ table'[script.family].deny = Here.deny
         /\ table'[script.family].jumps = Here.jumps
         /\ \A f \in Family : f # script.family => table'[f] = table[f]
BY DEF FirewallTypes, Update, Here

LEMMA UpdatedDeny ==
  ASSUME FirewallTypes, NEW value \in RuleChain, Update("deny", value)
  PROVE  /\ table' \in [Family -> [chain : RuleChain, deny : RuleChain, jumps : 0..1]]
         /\ table'[script.family].chain = Here.chain
         /\ table'[script.family].deny = value
         /\ table'[script.family].jumps = Here.jumps
         /\ \A f \in Family : f # script.family => table'[f] = table[f]
BY DEF FirewallTypes, Update, Here

\* A chain is hooked once or not at all.
LEMMA ZeroOrOne == ~(0 > 0) /\ \A n \in 0..1 : ~(n > 0) => n = 0
OBVIOUS

\* Faults stay within their bound.
LEMMA FaultsBounded ==
  ASSUME FirewallTypes
  PROVE  /\ Fault => faults' \in 0..MaxFaults
         /\ UNCHANGED faults => faults' \in 0..MaxFaults
         /\ \A refused : CommandFails(refused) => faults' \in 0..MaxFaults
BY FirewallAssumption DEF FirewallTypes, Fault, CommandFails

\* A script that fails leaves the tables to themselves.
LEMMA FailureKeeps ==
  ASSUME FirewallInv, ScriptFails, faults' \in 0..MaxFaults
  PROVE  FirewallInv'
<1> USE DEF FirewallInv, ScriptFails, Off
<1>1. FirewallTypes'
  BY DEF FirewallTypes, Family, Commands
<1>2. HookedExists'
  BY DEF HookedExists
<1>3. OneFamilyDone'
  BY DEF OneFamilyDone
<1>4. Built'
  BY DEF Built
<1>5. ActiveMeansEnforced'
  BY DEF ActiveMeansEnforced
<1> QED BY <1>1, <1>2, <1>3, <1>4, <1>5

\* The script goes on with a command for which its row of the table is ready.
LEMMA ProceedKeeps ==
  ASSUME FirewallInv, script.at # "off", faults' \in 0..MaxFaults,
         NEW at \in Commands \ {"off"}, Proceed(at),
         table' \in [Family -> [chain : RuleChain, deny : RuleChain, jumps : 0..1]],
         \A f \in Family : f # script.family => table'[f] = table[f],
         table'[script.family].jumps > 0 => table'[script.family].chain.exists,
         at = "fill deny" => table'[script.family].deny.rules = <<>>,
         at \in {"new", "fill", "hook"} => table'[script.family].deny.rules = DenyPolicy,
         at \in {"fill", "hook"} => /\ table'[script.family].chain.exists
                                   /\ table'[script.family].jumps = 0,
         at = "fill" => table'[script.family].chain.rules = <<>>,
         at = "hook" => table'[script.family].chain.rules = Policy[script.family]
  PROVE  FirewallInv'
<1>1. /\ script.family \in Family
      /\ script'.family = script.family /\ script'.at = at /\ script'.appended = 0
      /\ script' \in [family : Family, at : Commands, appended : Nat, version : Nat]
      /\ unit' = unit /\ unit = "activating"
  BY DEF FirewallInv, FirewallTypes, Proceed
<1>2. FirewallTypes'
  BY <1>1 DEF FirewallInv, FirewallTypes, Proceed
<1>3. HookedExists'
  BY <1>1 DEF FirewallInv, HookedExists
<1>4. OneFamilyDone'
  BY <1>1 DEF FirewallInv, OneFamilyDone, Enforced, Family
<1>5. Built'
  <2>1. at = "fill deny" => FirstRules(table'[script.family].deny.rules, DenyPolicy, 0)
    BY NoRules
  <2>2. at = "fill" =>
          FirstRules(table'[script.family].chain.rules, Policy[script.family], 0)
    BY NoRules
  <2>3. Here' = table'[script.family] /\ Policy[script'.family] = Policy[script.family]
    BY <1>1 DEF Here
  <2>4. 0 < Len(DenyPolicy) /\ 0 < Len(Policy[script.family])
    BY <1>1, PolicyFacts, Zenon
  <2> QED BY <1>1, <2>1, <2>2, <2>3, <2>4 DEF Built
<1>6. ActiveMeansEnforced'
  BY <1>1 DEF ActiveMeansEnforced
<1> QED BY <1>2, <1>3, <1>4, <1>5, <1>6 DEF FirewallInv

\* The commands of the script, one by one.
LEMMA UnhookKeeps ==
  ASSUME FirewallInv, Unhook
  PROVE  FirewallInv'
<1>1. /\ FirewallTypes /\ HookedExists /\ script.family \in Family
      /\ Here = table[script.family] /\ Here.jumps \in 0..1
      /\ Here.jumps > 0 => Here.chain.exists
  BY DEF FirewallInv, FirewallTypes, HookedExists, Here
<1>2. script.at = "unhook"
  BY DEF Unhook
<1>3. CASE /\ Here.jumps > 0 /\ Update("jumps", Here.jumps - 1)
           /\ Proceed("unhook") /\ UNCHANGED faults
  <2>1. Here.jumps - 1 \in 0..1
    BY <1>1, <1>3
  <2>2. /\ table' \in [Family -> [chain : RuleChain, deny : RuleChain, jumps : 0..1]]
        /\ table'[script.family].chain = Here.chain
        /\ \A f \in Family : f # script.family => table'[f] = table[f]
    BY <1>1, <1>3, <2>1, UpdatedJumps
  <2> QED BY <1>1, <1>2, <1>3, <2>2, FaultsBounded, ProceedKeeps DEF Commands
<1>4. CASE CommandFails(Here.jumps = 0) /\ Proceed("flush") /\ UNCHANGED table
  <2>1. faults' \in 0..MaxFaults
    BY <1>1, <1>4, FaultsBounded
  <2> QED BY <1>1, <1>2, <1>4, <2>1, ProceedKeeps DEF Commands, FirewallTypes
<1> QED BY <1>3, <1>4 DEF Unhook

\* -F leaves a chain that exists, and is hooked if it was.
LEMMA FlushKeeps ==
  ASSUME FirewallInv,
         Flush("chain", "flush", "delete") \/ Flush("deny", "flush deny", "delete deny")
  PROVE  FirewallInv'
<1>1. /\ FirewallTypes /\ HookedExists /\ script.family \in Family
      /\ Here = table[script.family] /\ Here.jumps \in 0..1
      /\ Here.chain \in RuleChain /\ Here.deny \in RuleChain
      /\ Here.jumps > 0 => Here.chain.exists
  BY DEF FirewallInv, FirewallTypes, HookedExists, Here
<1>2. CASE Flush("chain", "flush", "delete")
  <2>1. script.at = "flush" /\ Proceed("delete")
    BY <1>2 DEF Flush
  <2>2. CASE /\ Here.chain.exists /\ Update("chain", [Here.chain EXCEPT !.rules = <<>>])
             /\ UNCHANGED faults
    <3> DEFINE new == [Here.chain EXCEPT !.rules = <<>>]
    <3>1. new \in RuleChain /\ new.exists
      BY <1>1, <2>2, NoRules DEF RuleChain
    <3> HIDE DEF new
    <3>2. /\ table' \in [Family -> [chain : RuleChain, deny : RuleChain, jumps : 0..1]]
          /\ table'[script.family].chain = new
          /\ \A f \in Family : f # script.family => table'[f] = table[f]
      BY <1>1, <2>2, <3>1, UpdatedChain DEF new
    <3> QED BY <1>1, <2>1, <2>2, <3>1, <3>2, FaultsBounded, ProceedKeeps DEF Commands
  <2>3. CASE CommandFails(~Here.chain.exists) /\ UNCHANGED table
    <3>1. faults' \in 0..MaxFaults
      BY <1>1, <2>3, FaultsBounded
    <3> QED BY <1>1, <2>1, <2>3, <3>1, ProceedKeeps DEF Commands, FirewallTypes
  <2> QED BY <1>2, <2>2, <2>3 DEF Flush
<1>3. CASE Flush("deny", "flush deny", "delete deny")
  <2>1. script.at = "flush deny" /\ Proceed("delete deny")
    BY <1>3 DEF Flush
  <2>2. CASE /\ Here.deny.exists /\ Update("deny", [Here.deny EXCEPT !.rules = <<>>])
             /\ UNCHANGED faults
    <3> DEFINE new == [Here.deny EXCEPT !.rules = <<>>]
    <3>1. new \in RuleChain
      BY <1>1, NoRules DEF RuleChain
    <3> HIDE DEF new
    <3>2. /\ table' \in [Family -> [chain : RuleChain, deny : RuleChain, jumps : 0..1]]
          /\ table'[script.family].chain = Here.chain
          /\ table'[script.family].jumps = Here.jumps
          /\ \A f \in Family : f # script.family => table'[f] = table[f]
      BY <1>1, <2>2, <3>1, UpdatedDeny DEF new
    <3> QED BY <1>1, <2>1, <2>2, <3>2, FaultsBounded, ProceedKeeps DEF Commands
  <2>3. CASE CommandFails(~Here.deny.exists) /\ UNCHANGED table
    <3>1. faults' \in 0..MaxFaults
      BY <1>1, <2>3, FaultsBounded
    <3> QED BY <1>1, <2>1, <2>3, <3>1, ProceedKeeps DEF Commands, FirewallTypes
  <2> QED BY <1>3, <2>2, <2>3 DEF Flush
<1> QED BY <1>2, <1>3

\* -X deletes a chain only when nothing is hooked to it.
LEMMA DeleteKeeps ==
  ASSUME FirewallInv,
         Delete("chain", "delete", "flush deny") \/ Delete("deny", "delete deny", "new deny")
  PROVE  FirewallInv'
<1>1. /\ FirewallTypes /\ HookedExists /\ script.family \in Family
      /\ Here = table[script.family] /\ Here.jumps \in 0..1
      /\ Here.chain \in RuleChain /\ Here.deny \in RuleChain
      /\ Here.jumps > 0 => Here.chain.exists
  BY DEF FirewallInv, FirewallTypes, HookedExists, Here
<1>2. Absent \in RuleChain
  BY NoRules DEF Absent, RuleChain
<1>3. CASE Delete("chain", "delete", "flush deny")
  <2>1. script.at = "delete" /\ Proceed("flush deny")
    BY <1>3 DEF Delete
  <2>2. CASE ~Referenced("chain") /\ Update("chain", Absent) /\ UNCHANGED faults
    <3>1. Here.jumps = 0
      BY <1>1, <2>2, ZeroOrOne, Zenon DEF Referenced
    <3>2. /\ table' \in [Family -> [chain : RuleChain, deny : RuleChain, jumps : 0..1]]
          /\ table'[script.family].jumps = 0
          /\ \A f \in Family : f # script.family => table'[f] = table[f]
      BY <1>1, <1>2, <2>2, <3>1, UpdatedChain
    <3>3. ~(table'[script.family].jumps > 0)
      BY <3>2, ZeroOrOne, Zenon
    <3> QED BY <1>1, <2>1, <2>2, <3>2, <3>3, FaultsBounded, ProceedKeeps DEF Commands
  <2>3. CASE (\E refused : CommandFails(refused)) /\ UNCHANGED table
    <3>1. faults' \in 0..MaxFaults
      BY <1>1, <2>3, FaultsBounded
    <3> QED BY <1>1, <2>1, <2>3, <3>1, ProceedKeeps DEF Commands, FirewallTypes
  <2> QED BY <1>3, <2>2, <2>3 DEF Delete
<1>4. CASE Delete("deny", "delete deny", "new deny")
  <2>1. script.at = "delete deny" /\ Proceed("new deny")
    BY <1>4 DEF Delete
  <2>2. CASE Update("deny", Absent) /\ UNCHANGED faults
    <3>1. /\ table' \in [Family -> [chain : RuleChain, deny : RuleChain, jumps : 0..1]]
          /\ table'[script.family].chain = Here.chain
          /\ table'[script.family].jumps = Here.jumps
          /\ \A f \in Family : f # script.family => table'[f] = table[f]
      BY <1>1, <1>2, <2>2, UpdatedDeny
    <3> QED BY <1>1, <2>1, <2>2, <3>1, FaultsBounded, ProceedKeeps DEF Commands
  <2>3. CASE (\E refused : CommandFails(refused)) /\ UNCHANGED table
    <3>1. faults' \in 0..MaxFaults
      BY <1>1, <2>3, FaultsBounded
    <3> QED BY <1>1, <2>1, <2>3, <3>1, ProceedKeeps DEF Commands, FirewallTypes
  <2> QED BY <1>4, <2>2, <2>3 DEF Delete
<1> QED BY <1>3, <1>4

\* -N makes an empty chain, of which the first zero rules are in place.
LEMMA NewKeeps ==
  ASSUME FirewallInv, New("deny", "new deny", "fill deny") \/ New("chain", "new", "fill")
  PROVE  FirewallInv'
<1>1. /\ FirewallTypes /\ HookedExists /\ script.family \in Family
      /\ Here = table[script.family] /\ Here.jumps \in 0..1
      /\ Here.chain \in RuleChain /\ Here.deny \in RuleChain
      /\ Here.jumps > 0 => Here.chain.exists
  BY DEF FirewallInv, FirewallTypes, HookedExists, Here
<1> DEFINE new == Empty(script.version)
<1>2. new \in RuleChain /\ new.exists /\ new.rules = <<>>
  BY <1>1, NoRules DEF Empty, RuleChain, FirewallTypes
<1> HIDE DEF new
<1>3. CASE New("deny", "new deny", "fill deny")
  <2>1. script.at = "new deny"
    BY <1>3 DEF New
  <2>2. CASE Update("deny", Empty(script.version)) /\ Proceed("fill deny") /\ UNCHANGED faults
    <3>1. /\ table' \in [Family -> [chain : RuleChain, deny : RuleChain, jumps : 0..1]]
          /\ table'[script.family].chain = Here.chain
          /\ table'[script.family].jumps = Here.jumps
          /\ table'[script.family].deny.rules = <<>>
          /\ \A f \in Family : f # script.family => table'[f] = table[f]
      BY <1>1, <1>2, <2>2, UpdatedDeny DEF new
    <3> QED BY <1>1, <2>1, <2>2, <3>1, FaultsBounded, ProceedKeeps DEF Commands
  <2>3. CASE (\E refused : CommandFails(refused)) /\ ScriptFails
    BY <1>1, <2>3, FaultsBounded, FailureKeeps
  <2> QED BY <1>3, <2>2, <2>3 DEF New
<1>4. CASE New("chain", "new", "fill")
  <2>1. script.at = "new" /\ Here.deny.rules = DenyPolicy
    BY <1>4 DEF New, FirewallInv, Built
  <2>2. CASE /\ ~Here.chain.exists /\ Update("chain", Empty(script.version))
             /\ Proceed("fill") /\ UNCHANGED faults
    <3>1. Here.jumps = 0
      BY <1>1, <2>2, ZeroOrOne, Zenon
    <3>2. /\ table' \in [Family -> [chain : RuleChain, deny : RuleChain, jumps : 0..1]]
          /\ table'[script.family].chain = new
          /\ table'[script.family].deny = Here.deny
          /\ table'[script.family].jumps = 0
          /\ \A f \in Family : f # script.family => table'[f] = table[f]
      BY <1>1, <1>2, <2>2, <3>1, UpdatedChain DEF new
    <3> QED BY <1>1, <1>2, <2>1, <2>2, <3>2, FaultsBounded, ProceedKeeps DEF Commands
  <2>3. CASE (\E refused : CommandFails(refused)) /\ ScriptFails
    BY <1>1, <2>3, FaultsBounded, FailureKeeps
  <2> QED BY <1>4, <2>2, <2>3 DEF New
<1> QED BY <1>3, <1>4

\* The script goes on with another rule of the same chain.
LEMMA NextRuleKeeps ==
  ASSUME FirewallInv, script.at \in {"fill deny", "fill"}, faults' \in 0..MaxFaults,
         NEW n \in Nat, script' = [script EXCEPT !.appended = n], UNCHANGED <<unit, installed>>,
         table' \in [Family -> [chain : RuleChain, deny : RuleChain, jumps : 0..1]],
         \A f \in Family : f # script.family => table'[f] = table[f],
         table'[script.family].jumps > 0 => table'[script.family].chain.exists,
         script.at = "fill deny" =>
           /\ n < Len(DenyPolicy)
           /\ FirstRules(table'[script.family].deny.rules, DenyPolicy, n),
         script.at = "fill" =>
           /\ table'[script.family].deny.rules = DenyPolicy
           /\ table'[script.family].chain.exists /\ table'[script.family].jumps = 0
           /\ n < Len(Policy[script.family])
           /\ FirstRules(table'[script.family].chain.rules, Policy[script.family], n)
  PROVE  FirewallInv'
<1>1. /\ script.family \in Family
      /\ script'.family = script.family /\ script'.at = script.at /\ script'.appended = n
      /\ script' \in [family : Family, at : Commands, appended : Nat, version : Nat]
      /\ unit' = unit /\ unit = "activating"
  BY DEF FirewallInv, FirewallTypes
<1>2. FirewallTypes'
  BY <1>1 DEF FirewallInv, FirewallTypes
<1>3. HookedExists'
  BY <1>1 DEF FirewallInv, HookedExists
<1>4. OneFamilyDone'
  BY <1>1 DEF FirewallInv, OneFamilyDone, Enforced, Family
<1>5. Built'
  <2>1. Here' = table'[script.family] /\ Policy[script'.family] = Policy[script.family]
    BY <1>1 DEF Here
  <2> QED BY <1>1, <2>1 DEF Built
<1>6. ActiveMeansEnforced'
  BY <1>1 DEF ActiveMeansEnforced
<1> QED BY <1>2, <1>3, <1>4, <1>5, <1>6 DEF FirewallInv

\* What -A makes of a chain that has the first rules of a policy.
LEMMA Appended ==
  ASSUME NEW chain \in RuleChain, NEW policy \in Seq(Rule), NEW k \in Nat,
         k < Len(policy), FirstRules(chain.rules, policy, k)
  PROVE  LET new == [chain EXCEPT !.rules = Append(@, policy[k + 1])]
         IN /\ new \in RuleChain /\ (chain.exists => new.exists)
            /\ FirstRules(new.rules, policy, k + 1)
            /\ k + 1 \in Nat
            /\ k + 1 = Len(policy) => new.rules = policy
            /\ k + 1 # Len(policy) => k + 1 < Len(policy)
<1> DEFINE new == [chain EXCEPT !.rules = Append(@, policy[k + 1])]
<1>1. chain.rules \in Seq(Rule)
  BY DEF RuleChain
<1>2. new.rules = Append(chain.rules, policy[k + 1]) /\ new.exists = chain.exists
  BY DEF RuleChain
<1>3. /\ new.rules \in Seq(Rule)
      /\ FirstRules(new.rules, policy, k + 1)
      /\ k + 1 = Len(policy) => new.rules = policy
  BY <1>1, <1>2, NextRule
<1>4. new \in RuleChain
  BY <1>1, <1>2, <1>3 DEF RuleChain
<1>5. Len(policy) \in Nat
  OBVIOUS
<1> QED BY <1>2, <1>3, <1>4, <1>5

\* -A puts in place the next rule, and with the last one the policy.
LEMMA FillKeeps ==
  ASSUME FirewallInv,
         \/ Fill("deny", DenyPolicy, "fill deny", "new")
         \/ Fill("chain", Policy[script.family], "fill", "hook")
  PROVE  FirewallInv'
<1>1. /\ FirewallTypes /\ HookedExists /\ script.family \in Family
      /\ Here = table[script.family] /\ Here.jumps \in 0..1
      /\ Here.chain \in RuleChain /\ Here.deny \in RuleChain
      /\ Here.jumps > 0 => Here.chain.exists
  BY DEF FirewallInv, FirewallTypes, HookedExists, Here
<1>2. /\ script.appended \in Nat /\ Policy[script.family] \in Seq(Rule)
      /\ DenyPolicy \in Seq(Rule)
  BY <1>1, PolicyFacts DEF FirewallTypes
<1>3. CASE Fill("deny", DenyPolicy, "fill deny", "new")
  <2> DEFINE n == script.appended + 1
             new == [Here.deny EXCEPT !.rules = Append(@, DenyPolicy[n])]
  <2>1. /\ script.at = "fill deny" /\ script.appended < Len(DenyPolicy)
        /\ FirstRules(Here.deny.rules, DenyPolicy, script.appended)
    BY <1>3 DEF Fill, FirewallInv, Built
  <2>2. CASE /\ Update("deny", new) /\ UNCHANGED faults
             /\ IF n = Len(DenyPolicy)
                THEN Proceed("new")
                ELSE script' = [script EXCEPT !.appended = n] /\ UNCHANGED <<unit, installed>>
    <3>1. /\ new \in RuleChain
          /\ FirstRules(new.rules, DenyPolicy, n) /\ n \in Nat
          /\ n = Len(DenyPolicy) => new.rules = DenyPolicy
          /\ n # Len(DenyPolicy) => n < Len(DenyPolicy)
      BY <1>1, <1>2, <2>1, Appended, Zenon
    <3> HIDE DEF new, n
    <3>2. /\ table' \in [Family -> [chain : RuleChain, deny : RuleChain, jumps : 0..1]]
          /\ table'[script.family].chain = Here.chain
          /\ table'[script.family].deny = new
          /\ table'[script.family].jumps = Here.jumps
          /\ \A f \in Family : f # script.family => table'[f] = table[f]
      BY <1>1, <2>2, <3>1, UpdatedDeny
    <3>3. faults' \in 0..MaxFaults
      BY <1>1, <2>2, FaultsBounded
    <3>4. CASE n = Len(DenyPolicy)
      BY <1>1, <2>1, <2>2, <3>1, <3>2, <3>3, <3>4, ProceedKeeps DEF Commands
    <3>5. CASE n # Len(DenyPolicy)
      BY <1>1, <2>1, <2>2, <3>1, <3>2, <3>3, <3>5, NextRuleKeeps
    <3> QED BY <3>4, <3>5
  <2>3. CASE CommandFails(FALSE) /\ ScriptFails
    BY <1>1, <2>3, FaultsBounded, FailureKeeps
  <2> QED BY <1>3, <2>2, <2>3 DEF Fill
<1>4. CASE Fill("chain", Policy[script.family], "fill", "hook")
  <2> DEFINE n == script.appended + 1
             policy == Policy[script.family]
             new == [Here.chain EXCEPT !.rules = Append(@, policy[n])]
  <2>1. /\ script.at = "fill" /\ script.appended < Len(policy)
        /\ FirstRules(Here.chain.rules, policy, script.appended)
        /\ Here.deny.rules = DenyPolicy /\ Here.chain.exists /\ Here.jumps = 0
    BY <1>4 DEF Fill, FirewallInv, Built
  <2>2. CASE /\ Update("chain", new) /\ UNCHANGED faults
             /\ IF n = Len(policy)
                THEN Proceed("hook")
                ELSE script' = [script EXCEPT !.appended = n] /\ UNCHANGED <<unit, installed>>
    <3>1. /\ new \in RuleChain /\ new.exists
          /\ FirstRules(new.rules, policy, n) /\ n \in Nat
          /\ n = Len(policy) => new.rules = policy
          /\ n # Len(policy) => n < Len(policy)
      BY <1>1, <1>2, <2>1, Appended, Zenon
    <3> HIDE DEF new, n
    <3>2. /\ table' \in [Family -> [chain : RuleChain, deny : RuleChain, jumps : 0..1]]
          /\ table'[script.family].chain = new
          /\ table'[script.family].deny = Here.deny
          /\ table'[script.family].jumps = Here.jumps
          /\ \A f \in Family : f # script.family => table'[f] = table[f]
      BY <1>1, <2>2, <3>1, UpdatedChain
    <3>3. faults' \in 0..MaxFaults
      BY <1>1, <2>2, FaultsBounded
    <3>4. CASE n = Len(policy)
      BY <1>1, <2>1, <2>2, <3>1, <3>2, <3>3, <3>4, ProceedKeeps DEF Commands
    <3>5. CASE n # Len(policy)
      BY <1>1, <2>1, <2>2, <3>1, <3>2, <3>3, <3>5, NextRuleKeeps
    <3> QED BY <3>4, <3>5
  <2>3. CASE CommandFails(FALSE) /\ ScriptFails
    BY <1>1, <2>3, FaultsBounded, FailureKeeps
  <2> QED BY <1>4, <2>2, <2>3 DEF Fill
<1> QED BY <1>3, <1>4

\* -I makes a family enforced, and the unit active when it is the second one.
LEMMA HookKeeps ==
  ASSUME FirewallInv, Hook
  PROVE  FirewallInv'
<1>1. /\ FirewallTypes /\ HookedExists /\ OneFamilyDone /\ script.family \in Family
      /\ Here = table[script.family] /\ script.at = "hook"
  BY DEF FirewallInv, FirewallTypes, Here, Hook
<1>2. /\ script.appended = 0 /\ Here.chain.exists /\ Here.jumps = 0
      /\ Here.chain.rules = Policy[script.family] /\ Here.deny.rules = DenyPolicy
  BY <1>1 DEF FirewallInv, Built
<1>3. CASE /\ Update("jumps", Here.jumps + 1)
           /\ IF script.family = "v4"
              THEN script' = [script EXCEPT !.family = "v6", !.at = "unhook"] /\ UNCHANGED unit
              ELSE script' = Off /\ unit' = "active"
           /\ UNCHANGED <<installed, faults>>
  <2>1. Update("jumps", 1) /\ 1 \in 0..1
    <3>1. \A n : n = 0 => n + 1 = 1
      OBVIOUS
    <3>2. 1 \in 0..1
      OBVIOUS
    <3> QED BY <1>2, <1>3, <3>1, <3>2, Zenon
  <2>2. /\ table' \in [Family -> [chain : RuleChain, deny : RuleChain, jumps : 0..1]]
        /\ table'[script.family].chain = Here.chain
        /\ table'[script.family].deny = Here.deny
        /\ table'[script.family].jumps = 1
        /\ \A f \in Family : f # script.family => table'[f] = table[f]
    BY <1>1, <2>1, UpdatedJumps
  <2>3. HookedExists'
    BY <1>1, <1>2, <2>2 DEF HookedExists
  <2>4. ASSUME NEW f \in Family, script.family = f PROVE Enforced(f)'
    BY <1>1, <1>2, <2>2, <2>4 DEF Enforced
  <2>5. CASE script.family = "v4"
    <3>1. /\ script' \in [family : Family, at : Commands, appended : Nat, version : Nat]
          /\ script'.family = "v6" /\ script'.at = "unhook" /\ script'.appended = 0
          /\ unit' = unit /\ unit = "activating"
      BY <1>1, <1>2, <1>3, <2>5 DEF FirewallTypes, Commands, Family
    <3>2. FirewallTypes'
      BY <1>1, <1>3, <2>2, <3>1 DEF FirewallTypes
    <3>3. OneFamilyDone'
      BY <2>4, <2>5 DEF OneFamilyDone, Family
    <3>4. Built'
      BY <3>1 DEF Built
    <3>5. ActiveMeansEnforced'
      BY <3>1 DEF ActiveMeansEnforced
    <3> QED BY <2>3, <3>2, <3>3, <3>4, <3>5 DEF FirewallInv
  <2>6. CASE script.family = "v6"
    <3>1. /\ script' \in [family : Family, at : Commands, appended : Nat, version : Nat]
          /\ script'.at = "off" /\ script'.appended = 0
          /\ unit' = "active"
      <4>1. script' = Off /\ unit' = "active"
        BY <1>3, <2>6
      <4> QED BY <4>1 DEF Off, Commands, Family
    <3>2. FirewallTypes'
      BY <1>1, <1>3, <2>2, <3>1 DEF FirewallTypes
    <3>3. OneFamilyDone' /\ Built'
      BY <3>1 DEF OneFamilyDone, Built
    <3>4. Enforced("v4")'
      BY <1>1, <2>2, <2>6 DEF OneFamilyDone, Enforced, Family
    <3>5. ActiveMeansEnforced'
      BY <2>4, <2>6, <3>4 DEF ActiveMeansEnforced, Family
    <3> QED BY <2>3, <3>2, <3>3, <3>5 DEF FirewallInv
  <2> QED BY <1>1, <2>5, <2>6 DEF Family
<1>4. CASE CommandFails(FALSE) /\ ScriptFails
  BY <1>1, <1>4, FaultsBounded, FailureKeeps
<1> QED BY <1>3, <1>4 DEF Hook

\* Every command of the script keeps the invariant; only a hook makes the unit
\* active, and the version that is installed stays.
LEMMA ScriptKeeps ==
  ASSUME FirewallInv, FirewallScript
  PROVE  FirewallInv' /\ unit = "activating"
<1>1. script.at # "off"
  BY DEF FirewallScript, Unhook, Flush, Delete, New, Fill, Hook
<1>2. unit = "activating"
  BY <1>1 DEF FirewallInv, FirewallTypes
<1>3. FirewallInv'
  BY UnhookKeeps, FlushKeeps, DeleteKeeps, NewKeeps, FillKeeps, HookKeeps DEF FirewallScript
<1> QED BY <1>2, <1>3

\* systemctl start.
LEMMA StartKeeps ==
  ASSUME FirewallInv, NEW version \in Nat, StartFirewall(version),
         table' = table, installed' \in Nat, faults' \in 0..MaxFaults
  PROVE  FirewallInv' /\ (unit = "active" => unit' = "active")
<1>1. CASE unit \in {"active", "activating"}
  BY <1>1 DEF StartFirewall, FirewallInv, FirewallTypes, HookedExists, OneFamilyDone, Built, Here,
              ActiveMeansEnforced, Enforced
<1>2. CASE unit \notin {"active", "activating"}
  <2>1. /\ script' \in [family : Family, at : Commands, appended : Nat, version : Nat]
        /\ script'.family = "v4" /\ script'.at = "unhook" /\ script'.appended = 0
        /\ unit' = "activating"
    <3>1. /\ unit' = "activating"
          /\ script' = [family |-> "v4", at |-> "unhook", appended |-> 0, version |-> version]
      BY <1>2 DEF StartFirewall, Off
    <3> QED BY <3>1 DEF Family, Commands
  <2>2. FirewallTypes' /\ HookedExists'
    BY <2>1 DEF FirewallInv, FirewallTypes, HookedExists
  <2>3. OneFamilyDone' /\ Built' /\ ActiveMeansEnforced'
    BY <2>1 DEF OneFamilyDone, Built, ActiveMeansEnforced
  <2> QED BY <1>2, <2>2, <2>3 DEF FirewallInv
<1> QED BY <1>1, <1>2

\* Steps that leave the tables, the script and the unit alone.
LEMMA FirewallUnchanged ==
  ASSUME FirewallInv, UNCHANGED <<table, script, unit>>, installed' \in Nat,
         faults' \in 0..MaxFaults
  PROVE  FirewallInv'
BY DEF FirewallInv, FirewallTypes, HookedExists, OneFamilyDone, Built, Here,
       ActiveMeansEnforced, Enforced

-----------------------------------------------------------------------------
(* UserData and the bootstrap *)

LEMMA InitHost == Init => HostInv
<1> SUFFICES ASSUME Init PROVE HostInv
  OBVIOUS
<1>1. HostTypes
  <2>1. /\ phase \in Phases /\ ran \in {"pinned", "damaged", "none"}
        /\ result \in {"ok", "failed"}
        /\ signal \in {"none", "success", "failure", "lost"}
        /\ sshd \in {"active", "disabled", "masked"}
    BY DEF Init, Phases
  <2>2. hostKey \in [private : {"none", "new"}, public : {"none", "new", "other"}]
    BY DEF Init, NoKey
  <2>3. /\ service \in [Services -> {"off", "running", "restarting"}]
        /\ enabled \subseteq {"firewall", "ssm", "cowrie", "discord", "timer"}
        /\ booting \in BOOLEAN /\ bypassed \in BOOLEAN
    BY DEF Init
  <2>4. /\ association \in 0..MaxVersions /\ applied \in 0..MaxVersions
        /\ reboots \in 0..MaxReboots
    BY HostAssumption DEF Init
  <2> QED BY <2>1, <2>2, <2>3, <2>4 DEF HostTypes
<1>2. FirewallInv
  <2>1. Absent \in RuleChain
    BY NoRules DEF Absent, RuleChain
  <2>2. NoTable \in [chain : RuleChain, deny : RuleChain, jumps : 0..1] /\ ~(NoTable.jumps > 0)
    BY <2>1 DEF NoTable
  <2>3. FirewallTypes
    BY <2>2, FirewallAssumption DEF Init, FirewallTypes, Off, Family, Commands
  <2>4. HookedExists
    BY <2>2 DEF Init, HookedExists
  <2>5. OneFamilyDone /\ Built /\ ActiveMeansEnforced
    BY DEF Init, OneFamilyDone, Built, ActiveMeansEnforced, Off
  <2> QED BY <2>3, <2>4, <2>5 DEF FirewallInv
<1>3. Established
  BY DEF Init, Established, AfterKey, AfterFirewall, AfterSsm, AfterMask, AfterCowrie, AfterDiscord,
         AfterTimer
<1>4. StartedBehind /\ SuccessMeansInPlace
  BY DEF Init, StartedBehind, SuccessMeansInPlace, Services
<1> QED BY <1>1, <1>2, <1>3, <1>4 DEF HostInv

\* The bootstrap fails: what it has left behind is typed, and no unit is disabled.
LEMMA BootstrapFailsKeeps ==
  ASSUME HostInv, phase \notin {"done", "cut"}, BootstrapFails,
         faults' \in 0..MaxFaults, UNCHANGED <<sshd, service>>,
         hostKey' \in [private : {"none", "new"}, public : {"none", "new", "other"}],
         enabled \subseteq enabled',
         enabled' \subseteq {"firewall", "ssm", "cowrie", "discord", "timer"}
  PROVE  HostInv'
<1>1. HostTypes'
  BY DEF HostInv, HostTypes, BootstrapFails, systemVars, Phases
<1>2. FirewallInv'
  BY FirewallUnchanged DEF HostInv, FirewallInv, FirewallTypes, BootstrapFails
<1>3. signal' = "none"
  BY DEF HostInv, Established, BootstrapFails
<1>4. Established'
  BY <1>3 DEF BootstrapFails, Established, AfterKey, AfterFirewall, AfterSsm, AfterMask,
              AfterCowrie, AfterDiscord, AfterTimer
<1>5. StartedBehind' /\ SuccessMeansInPlace'
  BY <1>3 DEF HostInv, StartedBehind, SuccessMeansInPlace, BootstrapFails, systemVars
<1> QED BY <1>1, <1>2, <1>4, <1>5 DEF HostInv

\* It goes on: what is left is to say that what its next phase takes for granted
\* is established.
LEMMA PassesKeeps ==
  ASSUME HostInv, NEW at \in Phases \ {"done", "cut"}, NEW next \in Phases \ {"done", "cut"},
         Passes(at, next), FirewallInv', HostTypes', Established',
         unit = "active" => unit' = "active",
         enabled \subseteq enabled',
         service'["cowrie"] # "off" => service["cowrie"] # "off" \/ unit = "active"
  PROVE  HostInv'
<1>1. signal' = "none"
  BY DEF HostInv, Established, Passes
<1>2. StartedBehind'
  BY DEF HostInv, StartedBehind, Passes, systemVars
<1>3. SuccessMeansInPlace'
  BY <1>1 DEF SuccessMeansInPlace
<1> QED BY <1>2, <1>3 DEF HostInv

\* A phase that takes nothing for granted that the one before it does not, and
\* leaves nothing.
LEMMA PreparesKeeps ==
  ASSUME HostInv,
         NEW at \in Phases \ {"done", "cut", "signal"},
         NEW next \in Phases \ {"done", "cut", "signal"},
         next \in AfterKey => at \in AfterKey,
         next \in {"await firewall"} \cup AfterFirewall => at \in AfterFirewall,
         next \in AfterFirewall => at \in AfterFirewall,
         next \in AfterSsm => at \in AfterSsm,
         next \in AfterMask => at \in AfterMask,
         next \in AfterCowrie => at \in AfterCowrie,
         next \in AfterDiscord => at \in AfterDiscord,
         next \in AfterTimer => at \in AfterTimer,
         Prepares(at, next)
  PROVE  HostInv'
<1>1. CASE Passes(at, next) /\ UNCHANGED <<firewallVars, hostVars>>
  <2>1. HostTypes'
    BY <1>1 DEF HostInv, HostTypes, Passes, systemVars, hostVars
  <2>2. FirewallInv'
    BY <1>1, FirewallUnchanged DEF HostInv, FirewallInv, FirewallTypes, firewallVars
  <2>3. Established'
    BY <1>1 DEF HostInv, Established, Passes, systemVars, hostVars, firewallVars
  <2> QED BY <1>1, <2>1, <2>2, <2>3, PassesKeeps DEF HostInv, hostVars, firewallVars
<1>2. CASE Fails(at)
  <2>1. phase = at /\ faults' \in 0..MaxFaults
    BY <1>2, FaultsBounded DEF HostInv, FirewallInv, Fails
  <2> QED BY <1>2, <2>1, BootstrapFailsKeeps DEF HostInv, HostTypes, Fails, hostVars
<1> QED BY <1>1, <1>2 DEF Prepares

\* The phases that leave nothing.
LEMMA PreparationsKeep ==
  ASSUME HostInv,
         \/ Preflight \/ FetchAssets \/ PreparePackages \/ PreparePython \/ PrepareCowrie
         \/ SelfTests \/ FirstArchive
  PROVE  HostInv'
<1> USE DEF Phases, AfterKey, AfterFirewall, AfterSsm, AfterMask, AfterCowrie, AfterDiscord,
            AfterTimer
<1>1. CASE Preflight
  BY <1>1, PreparesKeeps DEF Preflight
<1>2. CASE FetchAssets
  BY <1>2, PreparesKeeps DEF FetchAssets
<1>3. CASE PreparePackages
  BY <1>3, PreparesKeeps DEF PreparePackages
<1>4. CASE PreparePython
  BY <1>4, PreparesKeeps DEF PreparePython
<1>5. CASE PrepareCowrie
  BY <1>5, PreparesKeeps DEF PrepareCowrie
<1>6. CASE SelfTests
  BY <1>6, PreparesKeeps DEF SelfTests
<1>7. CASE FirstArchive
  BY <1>7, PreparesKeeps DEF FirstArchive
<1> QED BY <1>1, <1>2, <1>3, <1>4, <1>5, <1>6, <1>7

LEMMA FetchBootstrapKeeps ==
  ASSUME HostInv, FetchBootstrap
  PROVE  HostInv'
<1>1. faults' \in 0..MaxFaults
  BY FaultsBounded DEF HostInv, FirewallInv, FetchBootstrap
<1>2. FirewallInv'
  BY <1>1, FirewallUnchanged DEF HostInv, FirewallInv, FirewallTypes, FetchBootstrap
<1>3. HostTypes'
  <2>1. /\ phase' \in {"bootstrap_preflight", "signal"} /\ ran' \in {"pinned", "damaged", "none"}
        /\ result' \in {"ok", "failed"} /\ UNCHANGED <<signal, hostVars, systemVars>>
    BY DEF HostInv, HostTypes, FetchBootstrap
  <2> QED BY <2>1 DEF HostInv, HostTypes, hostVars, systemVars, Phases
<1>4. Established'
  BY DEF HostInv, Established, FetchBootstrap, AfterKey, AfterFirewall, AfterSsm, AfterMask,
         AfterCowrie, AfterDiscord, AfterTimer
<1>5. StartedBehind' /\ SuccessMeansInPlace'
  BY DEF HostInv, Established, StartedBehind, SuccessMeansInPlace, FetchBootstrap,
         hostVars, systemVars
<1> QED BY <1>2, <1>3, <1>4, <1>5 DEF HostInv

LEMMA SignalKeeps ==
  ASSUME HostInv, Signal
  PROVE  HostInv'
<1>1. faults' \in 0..MaxFaults
  BY FaultsBounded DEF HostInv, FirewallInv, Signal
<1>2. FirewallInv'
  BY <1>1, FirewallUnchanged DEF HostInv, FirewallInv, FirewallTypes, Signal
<1>3. HostTypes'
  BY DEF HostInv, HostTypes, Signal, hostVars, systemVars, Phases
<1>4. Established'
  BY DEF Established, Signal, AfterKey, AfterFirewall, AfterSsm, AfterMask, AfterCowrie,
         AfterDiscord, AfterTimer
<1>5. StartedBehind'
  BY DEF HostInv, StartedBehind, Signal, hostVars, systemVars
<1>6. SuccessMeansInPlace'
  BY DEF HostInv, Established, InPlace, SuccessMeansInPlace, Signal, hostVars, systemVars
<1> QED BY <1>2, <1>3, <1>4, <1>5, <1>6 DEF HostInv

LEMMA InstallHostKeyKeeps ==
  ASSUME HostInv, InstallHostKey
  PROVE  HostInv'
<1>1. phase = "host_key_install"
  BY DEF InstallHostKey
<1>2. CASE /\ Passes("host_key_install", "monitoring_archive_services")
           /\ hostKey' = [private |-> "new", public |-> "new"]
           /\ UNCHANGED <<firewallVars, enabled, sshd, service>>
  <2>1. HostTypes'
    BY <1>2 DEF HostInv, HostTypes, Passes, systemVars, Phases
  <2>2. FirewallInv'
    BY <1>2, FirewallUnchanged DEF HostInv, FirewallInv, FirewallTypes, firewallVars
  <2>3. Established'
    BY <1>1, <1>2 DEF HostInv, Established, Passes, AfterKey, AfterFirewall, AfterSsm, AfterMask,
                      AfterCowrie, AfterDiscord, AfterTimer
  <2> QED BY <1>2, <2>1, <2>2, <2>3, PassesKeeps DEF HostInv, Phases, firewallVars
<1>3. CASE /\ Fault /\ BootstrapFails
           /\ \E secret \in {"no answer", "mismatched", "public not written"} :
                hostKey' = CASE secret = "no answer" -> hostKey
                             [] secret = "mismatched" -> NoKey
                             [] secret = "public not written" -> [NoKey EXCEPT !.private = "new"]
           /\ UNCHANGED <<enabled, sshd, service>>
  <2>1. hostKey' \in [private : {"none", "new"}, public : {"none", "new", "other"}]
    <3>1. \/ hostKey' = hostKey \/ hostKey' = [private |-> "none", public |-> "none"]
          \/ hostKey' = [private |-> "new", public |-> "none"]
      BY <1>3 DEF NoKey
    <3> QED BY <3>1 DEF HostInv, HostTypes
  <2>2. faults' \in 0..MaxFaults
    BY <1>3, FaultsBounded DEF HostInv, FirewallInv
  <2> QED BY <1>1, <1>3, <2>1, <2>2, BootstrapFailsKeeps DEF HostInv, HostTypes
<1> QED BY <1>2, <1>3 DEF InstallHostKey

LEMMA InstallServicesKeeps ==
  ASSUME HostInv, InstallServices
  PROVE  HostInv'
<1>1. phase = "monitoring_archive_services"
  BY DEF InstallServices
<1>2. CASE /\ Passes("monitoring_archive_services", "sidecar_self_tests")
           /\ installed' = 1 /\ UNCHANGED <<table, script, unit, faults, hostVars>>
  <2>1. HostTypes'
    BY <1>2 DEF HostInv, HostTypes, Passes, systemVars, hostVars, Phases
  <2>2. FirewallInv'
    <3>1. installed' \in Nat
      BY <1>2
    <3> QED BY <1>2, <3>1, FirewallUnchanged DEF HostInv, FirewallInv, FirewallTypes
  <2>3. Established'
    BY <1>1, <1>2 DEF HostInv, Established, Passes, hostVars, AfterKey, AfterFirewall, AfterSsm,
                      AfterMask, AfterCowrie, AfterDiscord, AfterTimer
  <2> QED BY <1>2, <2>1, <2>2, <2>3, PassesKeeps DEF HostInv, Phases, hostVars
<1>3. CASE Fails("monitoring_archive_services")
  <2>1. faults' \in 0..MaxFaults
    BY <1>3, FaultsBounded DEF HostInv, FirewallInv, Fails
  <2> QED BY <1>1, <1>3, <2>1, BootstrapFailsKeeps DEF HostInv, HostTypes, Fails, hostVars
<1> QED BY <1>2, <1>3 DEF InstallServices

LEMMA EnableFirewallKeeps ==
  ASSUME HostInv, EnableFirewall
  PROVE  HostInv'
<1>1. CASE /\ Passes("native_service_start", "await firewall")
           /\ enabled' = enabled \cup {"firewall"}
           /\ StartFirewall(installed)
           /\ UNCHANGED <<table, installed, faults, hostKey, sshd, service>>
  <2>1. phase = "native_service_start"
    BY <1>1 DEF Passes
  <2>2. FirewallInv' /\ (unit = "active" => unit' = "active")
    BY <1>1, StartKeeps DEF HostInv, FirewallInv, FirewallTypes
  <2>3. HostTypes'
    BY <1>1 DEF HostInv, HostTypes, Passes, systemVars, Phases
  <2>4. Established'
    BY <1>1, <2>1 DEF HostInv, Established, Passes, AfterKey, AfterFirewall, AfterSsm,
                      AfterMask, AfterCowrie, AfterDiscord, AfterTimer
  <2> QED BY <1>1, <2>2, <2>3, <2>4, PassesKeeps DEF HostInv, Phases
<1>2. CASE Fails("native_service_start")
  <2>1. phase = "native_service_start" /\ faults' \in 0..MaxFaults
    BY <1>2, FaultsBounded DEF HostInv, FirewallInv, Fails
  <2> QED BY <1>2, <2>1, BootstrapFailsKeeps DEF HostInv, HostTypes, Fails, hostVars
<1> QED BY <1>1, <1>2 DEF EnableFirewall

LEMMA FirewallStartedKeeps ==
  ASSUME HostInv, FirewallStarted
  PROVE  HostInv'
<1>1. phase = "await firewall"
  BY DEF FirewallStarted
<1>2. CASE /\ unit = "active" /\ Passes("await firewall", "start ssm")
           /\ UNCHANGED <<firewallVars, hostVars>>
  <2>1. HostTypes'
    BY <1>2 DEF HostInv, HostTypes, Passes, systemVars, hostVars, Phases
  <2>2. FirewallInv'
    BY <1>2, FirewallUnchanged DEF HostInv, FirewallInv, FirewallTypes, firewallVars
  <2>3. Established'
    BY <1>1, <1>2 DEF HostInv, Established, Passes, hostVars, firewallVars, AfterKey,
                      AfterFirewall, AfterSsm, AfterMask, AfterCowrie, AfterDiscord, AfterTimer
  <2> QED BY <1>2, <2>1, <2>2, <2>3, PassesKeeps DEF HostInv, Phases, hostVars,
                                                     firewallVars
<1>3. CASE UNCHANGED <<faults, hostVars>> /\ BootstrapFails
  <2>1. faults' \in 0..MaxFaults
    BY <1>3, FaultsBounded DEF HostInv, FirewallInv
  <2> QED BY <1>1, <1>3, <2>1, BootstrapFailsKeeps DEF HostInv, HostTypes, hostVars
<1> QED BY <1>2, <1>3 DEF FirewallStarted

LEMMA StartSsmKeeps ==
  ASSUME HostInv, StartSsm
  PROVE  HostInv'
<1>1. phase = "start ssm"
  BY DEF StartSsm, Passes, Fails
<1>2. CASE /\ Passes("start ssm", "disable sshd") /\ enabled' = enabled \cup {"ssm"}
           /\ UNCHANGED <<firewallVars, hostKey, sshd, service>>
  <2>1. HostTypes'
    BY <1>2 DEF HostInv, HostTypes, Passes, systemVars, Phases
  <2>2. FirewallInv'
    BY <1>2, FirewallUnchanged DEF HostInv, FirewallInv, FirewallTypes, firewallVars
  <2>3. Established'
    BY <1>1, <1>2 DEF HostInv, Established, Passes, firewallVars, AfterKey,
                      AfterFirewall, AfterSsm, AfterMask, AfterCowrie, AfterDiscord, AfterTimer
  <2> QED BY <1>2, <2>1, <2>2, <2>3, PassesKeeps DEF HostInv, Phases, firewallVars
<1>3. CASE Fails("start ssm")
  <2>1. faults' \in 0..MaxFaults
    BY <1>3, FaultsBounded DEF HostInv, FirewallInv, Fails
  <2> QED BY <1>1, <1>3, <2>1, BootstrapFailsKeeps DEF HostInv, HostTypes, Fails, hostVars
<1> QED BY <1>2, <1>3 DEF StartSsm

\* sshd goes where SSM has come.
LEMMA StopSshdKeeps ==
  ASSUME HostInv,
         NEW at, NEW next, NEW state,
         \/ at = "disable sshd" /\ next = "mask sshd" /\ state = "disabled"
         \/ at = "mask sshd" /\ next = "start cowrie" /\ state = "masked",
         StopSshd(at, next, state)
  PROVE  HostInv'
<1>1. phase = at /\ at \in AfterSsm /\ "ssm" \in enabled
  BY DEF StopSshd, Passes, Fails, HostInv, Established, AfterSsm
<1>2. CASE /\ Passes(at, next) /\ sshd' = state
           /\ UNCHANGED <<firewallVars, hostKey, enabled, service>>
  <2>1. HostTypes'
    BY <1>2 DEF HostInv, HostTypes, Passes, systemVars, Phases
  <2>2. FirewallInv'
    BY <1>2, FirewallUnchanged DEF HostInv, FirewallInv, FirewallTypes, firewallVars
  <2>3. Established'
    BY <1>1, <1>2 DEF HostInv, Established, Passes, firewallVars, AfterKey,
                      AfterFirewall, AfterSsm, AfterMask, AfterCowrie, AfterDiscord, AfterTimer
  <2> QED BY <1>1, <1>2, <2>1, <2>2, <2>3, PassesKeeps DEF Phases, firewallVars
<1>3. CASE Fails(at)
  <2>1. faults' \in 0..MaxFaults
    BY <1>3, FaultsBounded DEF HostInv, FirewallInv, Fails
  <2> QED BY <1>1, <1>3, <2>1, BootstrapFailsKeeps DEF HostInv, HostTypes, Fails, hostVars
<1> QED BY <1>2, <1>3 DEF StopSshd

\* Cowrie and the monitor are enabled where the firewall is active.
LEMMA EnableServiceKeeps ==
  ASSUME HostInv, NEW s, NEW at, NEW next,
         \/ s = "cowrie" /\ at = "start cowrie" /\ next = "cowrie_listener_check"
         \/ /\ s = "discord" /\ at = "discord_service_enablement"
            /\ next = "archive_timer_enablement",
         EnableService(s, at, next)
  PROVE  HostInv'
<1>1. /\ phase = at /\ at \in AfterFirewall /\ unit = "active"
      /\ enabled' = enabled \cup {s} /\ s \in Services
  BY DEF EnableService, HostInv, Established, AfterFirewall, AfterSsm, AfterMask, AfterCowrie,
         AfterDiscord, Services
<1>2. CASE /\ Passes(at, next) /\ service' = [service EXCEPT ![s] = "running"]
           /\ UNCHANGED <<firewallVars, hostKey, sshd>>
  <2>1. HostTypes'
    <3>1. enabled' \subseteq {"firewall", "ssm", "cowrie", "discord", "timer"}
      BY <1>1 DEF HostInv, HostTypes, Services
    <3>2. service' \in [Services -> {"off", "running", "restarting"}]
      BY <1>1, <1>2 DEF HostInv, HostTypes
    <3>3. next \in Phases
      BY DEF Phases
    <3> QED BY <1>2, <3>1, <3>2, <3>3 DEF HostInv, HostTypes, Passes, systemVars
  <2>2. FirewallInv'
    BY <1>2, FirewallUnchanged DEF HostInv, FirewallInv, FirewallTypes, firewallVars
  <2>3. Established'
    BY <1>1, <1>2 DEF HostInv, Established, Passes, firewallVars, AfterKey,
                      AfterFirewall, AfterSsm, AfterMask, AfterCowrie, AfterDiscord, AfterTimer
  <2> QED BY <1>1, <1>2, <2>1, <2>2, <2>3, PassesKeeps DEF HostInv, Phases,
                                                           firewallVars
<1>3. CASE Fault /\ BootstrapFails /\ UNCHANGED <<hostKey, sshd, service>>
  <2>1. faults' \in 0..MaxFaults
    BY <1>3, FaultsBounded DEF HostInv, FirewallInv
  <2>2. enabled' \subseteq {"firewall", "ssm", "cowrie", "discord", "timer"}
    BY <1>1 DEF HostInv, HostTypes, Services
  <2> QED BY <1>1, <1>3, <2>1, <2>2, BootstrapFailsKeeps DEF HostInv, HostTypes
<1> QED BY <1>2, <1>3 DEF EnableService

LEMMA CheckListenerKeeps ==
  ASSUME HostInv, CheckListener
  PROVE  HostInv'
<1>1. phase = "cowrie_listener_check"
  BY DEF CheckListener, Passes
<1>2. CASE /\ Passes("cowrie_listener_check", "discord_service_enablement")
           /\ UNCHANGED <<firewallVars, hostVars>>
  <2>1. HostTypes'
    BY <1>2 DEF HostInv, HostTypes, Passes, systemVars, hostVars, Phases
  <2>2. FirewallInv'
    BY <1>2, FirewallUnchanged DEF HostInv, FirewallInv, FirewallTypes, firewallVars
  <2>3. Established'
    BY <1>1, <1>2 DEF HostInv, Established, Passes, hostVars, firewallVars, AfterKey,
                      AfterFirewall, AfterSsm, AfterMask, AfterCowrie, AfterDiscord, AfterTimer
  <2> QED BY <1>2, <2>1, <2>2, <2>3, PassesKeeps DEF HostInv, Phases, hostVars,
                                                     firewallVars
<1>3. CASE /\ CommandFails(service["cowrie"] # "running") /\ BootstrapFails /\ UNCHANGED hostVars
  <2>1. faults' \in 0..MaxFaults
    BY <1>3, FaultsBounded DEF HostInv, FirewallInv
  <2> QED BY <1>1, <1>3, <2>1, BootstrapFailsKeeps DEF HostInv, HostTypes, hostVars
<1> QED BY <1>2, <1>3 DEF CheckListener

LEMMA EnableTimerKeeps ==
  ASSUME HostInv, EnableTimer
  PROVE  HostInv'
<1>1. phase = "archive_timer_enablement"
  BY DEF EnableTimer, Passes, Fails
<1>2. CASE /\ Passes("archive_timer_enablement", "archive_initial_run")
           /\ enabled' = enabled \cup {"timer"}
           /\ UNCHANGED <<firewallVars, hostKey, sshd, service>>
  <2>1. HostTypes'
    BY <1>2 DEF HostInv, HostTypes, Passes, systemVars, Phases
  <2>2. FirewallInv'
    BY <1>2, FirewallUnchanged DEF HostInv, FirewallInv, FirewallTypes, firewallVars
  <2>3. Established'
    BY <1>1, <1>2 DEF HostInv, Established, Passes, firewallVars, AfterKey,
                      AfterFirewall, AfterSsm, AfterMask, AfterCowrie, AfterDiscord, AfterTimer
  <2> QED BY <1>2, <2>1, <2>2, <2>3, PassesKeeps DEF HostInv, Phases, firewallVars
<1>3. CASE Fails("archive_timer_enablement")
  <2>1. faults' \in 0..MaxFaults
    BY <1>3, FaultsBounded DEF HostInv, FirewallInv, Fails
  <2> QED BY <1>1, <1>3, <2>1, BootstrapFailsKeeps DEF HostInv, HostTypes, Fails, hostVars
<1> QED BY <1>2, <1>3 DEF EnableTimer

\* The last phase finds in place what UserData will signal.
LEMMA ValidateKeeps ==
  ASSUME HostInv, Validate
  PROVE  HostInv'
<1>1. phase = "final_runtime_validation"
  BY DEF Validate
<1>2. CASE /\ Passes("final_runtime_validation", "signal")
           /\ UNCHANGED <<firewallVars, hostVars>>
  <2>1. HostTypes'
    BY <1>2 DEF HostInv, HostTypes, Passes, systemVars, hostVars, Phases
  <2>2. FirewallInv'
    BY <1>2, FirewallUnchanged DEF HostInv, FirewallInv, FirewallTypes, firewallVars
  <2>3. InPlace'
    <3>1. InPlace
      BY <1>1 DEF HostInv, HostTypes, Established, InPlace, AfterKey, AfterFirewall, AfterSsm,
                  AfterMask, AfterCowrie, AfterDiscord, AfterTimer
    <3> QED BY <1>2, <3>1 DEF InPlace, Passes, hostVars, firewallVars, systemVars
  <2>4. Established'
    BY <1>1, <1>2, <2>3 DEF HostInv, Established, Passes, AfterKey, AfterFirewall, AfterSsm,
                            AfterMask, AfterCowrie, AfterDiscord, AfterTimer
  <2> QED BY <1>2, <2>1, <2>2, <2>4, PassesKeeps DEF HostInv, Phases, hostVars,
                                                     firewallVars
<1>3. CASE \E c \in BOOLEAN : CommandFails(c) /\ UNCHANGED hostVars /\ BootstrapFails
  <2>1. faults' \in 0..MaxFaults
    BY <1>3, FaultsBounded DEF HostInv, FirewallInv, CommandFails
  <2> QED BY <1>1, <1>3, <2>1, BootstrapFailsKeeps DEF HostInv, HostTypes, hostVars
<1> QED BY <1>2, <1>3 DEF Validate

\* Every step of UserData and of the bootstrap.
LEMMA ProvisionKeeps ==
  ASSUME HostInv, Provision
  PROVE  HostInv'
<1>1. CASE \/ StopSshd("disable sshd", "mask sshd", "disabled")
           \/ StopSshd("mask sshd", "start cowrie", "masked")
  BY <1>1, StopSshdKeeps
<1>2. CASE \/ EnableService("cowrie", "start cowrie", "cowrie_listener_check")
           \/ EnableService("discord", "discord_service_enablement", "archive_timer_enablement")
  BY <1>2, EnableServiceKeeps
<1> QED BY <1>1, <1>2, FetchBootstrapKeeps, PreparationsKeep, InstallHostKeyKeeps,
           InstallServicesKeeps, EnableFirewallKeeps, FirewallStartedKeeps, StartSsmKeeps,
           CheckListenerKeeps, EnableTimerKeeps, ValidateKeeps, SignalKeeps
        DEF Provision

-----------------------------------------------------------------------------
(* systemd and the association *)

\* A script runs only while its unit activates: no property of a unit that is
\* active is touched.
LEMMA RunFirewallKeeps ==
  ASSUME HostInv, RunFirewall
  PROVE  HostInv'
<1>1. /\ FirewallInv' /\ unit = "activating"
      /\ UNCHANGED <<provisionVars, hostVars, systemVars>>
  BY ScriptKeeps DEF HostInv, RunFirewall
<1>2. HostTypes'
  BY <1>1 DEF HostInv, HostTypes, provisionVars, hostVars, systemVars
<1>3. Established'
  BY <1>1 DEF HostInv, Established, InPlace, provisionVars, hostVars, systemVars
<1>4. StartedBehind' /\ SuccessMeansInPlace'
  BY <1>1 DEF HostInv, StartedBehind, SuccessMeansInPlace, provisionVars, hostVars,
              systemVars
<1> QED BY <1>1, <1>2, <1>3, <1>4 DEF HostInv

\* A service that dies and comes back was started before.
LEMMA ServiceKeeps ==
  ASSUME HostInv, NEW s \in Services, ServiceDies(s) \/ ServiceRestarts(s)
  PROVE  HostInv'
<1>1. /\ service[s] # "off" /\ faults' \in 0..MaxFaults
      /\ \E state \in {"running", "restarting"} : service' = [service EXCEPT ![s] = state]
      /\ UNCHANGED <<table, script, unit, installed, provisionVars, hostKey, enabled, sshd,
                     systemVars>>
  BY FaultsBounded DEF HostInv, FirewallInv, ServiceDies, ServiceRestarts, firewallVars
<1>2. HostTypes'
  BY <1>1 DEF HostInv, HostTypes, provisionVars, systemVars
<1>3. FirewallInv'
  BY <1>1, FirewallUnchanged DEF HostInv, FirewallInv, FirewallTypes
<1>4. Established'
  BY <1>1 DEF HostInv, Established, InPlace, provisionVars, systemVars
<1>5. StartedBehind'
  BY <1>1 DEF HostInv, HostTypes, StartedBehind, Services, systemVars
<1>6. SuccessMeansInPlace'
  BY <1>1 DEF HostInv, SuccessMeansInPlace, provisionVars, systemVars
<1> QED BY <1>2, <1>3, <1>4, <1>5, <1>6 DEF HostInv

\* A reboot takes tables and services; what was enabled and signalled stays.
LEMMA RebootKeeps ==
  ASSUME HostInv, Reboot
  PROVE  HostInv'
<1>1. /\ reboots' = reboots + 1 /\ reboots < MaxReboots /\ reboots \in 0..MaxReboots
      /\ phase' \in {"done", "cut"} /\ service' = [s \in Services |-> "off"]
      /\ phase \notin {"done", "cut"} => signal = "none"
      /\ UNCHANGED <<installed, faults, ran, result, signal, hostKey, enabled, sshd, applied>>
  BY DEF HostInv, HostTypes, Established, Reboot
<1>2. reboots' \in 0..MaxReboots /\ reboots' # 0
  BY <1>1, HostAssumption
<1>3. HostTypes'
  <2>1. booting' = TRUE /\ bypassed' = FALSE /\ association' \in 0..MaxVersions
    BY HostAssumption DEF Reboot
  <2>2. service' \in [Services -> {"off", "running", "restarting"}]
    BY <1>1
  <2> QED BY <1>1, <1>2, <2>1, <2>2 DEF HostInv, HostTypes, Phases
<1>4. FirewallInv'
  <2>1. NoTable \in [chain : RuleChain, deny : RuleChain, jumps : 0..1] /\ ~(NoTable.jumps > 0)
    <3>1. Absent \in RuleChain
      BY NoRules DEF Absent, RuleChain
    <3> QED BY <3>1 DEF NoTable
  <2>2. /\ table' = [f \in Family |-> NoTable] /\ installed \in Nat /\ faults \in 0..MaxFaults
        /\ \/ unit' = "activating" /\ script' = [Off EXCEPT !.at = "unhook", !.version = installed]
           \/ unit' = "inactive" /\ script' = Off
    BY DEF Reboot, HostInv, FirewallInv, FirewallTypes
  <2>3. /\ script' \in [family : Family, at : Commands, appended : Nat, version : Nat]
        /\ script'.family = "v4" /\ script'.appended = 0
        /\ \/ script'.at = "unhook" /\ unit' = "activating"
           \/ script'.at = "off" /\ unit' = "inactive"
    <3>1. CASE unit' = "activating" /\ script' = [Off EXCEPT !.at = "unhook", !.version = installed]
      <4>1. script' = [family |-> "v4", at |-> "unhook", appended |-> 0, version |-> installed]
        BY <3>1 DEF Off
      <4>2. installed \in Nat
        BY <2>2
      <4>3. unit' = "activating"
        BY <3>1
      <4> QED BY <4>1, <4>2, <4>3 DEF Family, Commands
    <3>2. CASE unit' = "inactive" /\ script' = Off
      BY <3>2 DEF Off, Family, Commands
    <3> QED BY <2>2, <3>1, <3>2
  <2>4. FirewallTypes'
    <3>1. table' \in [Family -> [chain : RuleChain, deny : RuleChain, jumps : 0..1]]
      BY <2>1, <2>2
    <3> QED BY <1>1, <2>2, <2>3, <3>1 DEF FirewallTypes
  <2>5. HookedExists'
    BY <2>1, <2>2 DEF HookedExists
  <2>6. OneFamilyDone' /\ Built' /\ ActiveMeansEnforced'
    BY <2>3 DEF OneFamilyDone, Built, ActiveMeansEnforced
  <2> QED BY <2>4, <2>5, <2>6 DEF FirewallInv
<1>5. Established'
  BY <1>1 DEF Established, AfterKey, AfterFirewall, AfterSsm, AfterMask, AfterCowrie,
              AfterDiscord, AfterTimer
<1>6. StartedBehind'
  BY <1>1 DEF StartedBehind, Services
<1>7. SuccessMeansInPlace'
  BY <1>1, <1>2 DEF HostInv, SuccessMeansInPlace
<1> QED BY <1>3, <1>4, <1>5, <1>6, <1>7 DEF HostInv

\* The services start when the job of the firewall has ended, one way or the other.
LEMMA BootServicesKeeps ==
  ASSUME HostInv, BootServices
  PROVE  HostInv'
<1>1. /\ booting' = FALSE /\ bypassed' \in BOOLEAN /\ (unit # "active" => bypassed')
      /\ service' = [s \in Services |-> IF s \in enabled THEN "running" ELSE "off"]
      /\ UNCHANGED <<firewallVars, provisionVars, hostKey, enabled, sshd, reboots,
                     association, applied>>
  BY DEF BootServices
<1>2. HostTypes'
  <2>1. service' \in [Services -> {"off", "running", "restarting"}]
    BY <1>1
  <2> QED BY <1>1, <2>1 DEF HostInv, HostTypes, provisionVars
<1>3. FirewallInv'
  BY <1>1, FirewallUnchanged DEF HostInv, FirewallInv, FirewallTypes, firewallVars
<1>4. Established'
  BY <1>1 DEF HostInv, Established, InPlace, provisionVars, firewallVars
<1>5. StartedBehind'
  BY <1>1 DEF StartedBehind, firewallVars
<1>6. SuccessMeansInPlace'
  BY <1>1 DEF HostInv, SuccessMeansInPlace, provisionVars, firewallVars
<1> QED BY <1>2, <1>3, <1>4, <1>5, <1>6 DEF HostInv

\* An association is of an instance that has signalled success, where UserData
\* has ended; a unit that is active it leaves alone.
LEMMA AssociateKeeps ==
  ASSUME HostInv, Associate
  PROVE  HostInv'
<1>1. /\ signal = "success" /\ phase \in {"done", "cut"}
      /\ UNCHANGED <<table, faults, provisionVars, hostKey, sshd, service, booting, bypassed,
                     reboots, applied>>
      /\ enabled' = enabled \cup {"firewall"}
  BY DEF HostInv, Established, Associate
<1>2. PICK v \in installed..MaxVersions :
        installed' = v /\ association' = v /\ StartFirewall(v)
  BY DEF Associate
<1>3. v \in Nat /\ v \in 0..MaxVersions
  BY <1>2, HostAssumption DEF HostInv, FirewallInv, FirewallTypes
<1>4. FirewallInv' /\ (unit = "active" => unit' = "active")
  BY <1>1, <1>2, <1>3, StartKeeps DEF HostInv, FirewallInv, FirewallTypes
<1>5. HostTypes'
  BY <1>1, <1>2, <1>3 DEF HostInv, HostTypes, provisionVars
<1>6. Established'
  BY <1>1 DEF Established, provisionVars, AfterKey, AfterFirewall, AfterSsm, AfterMask,
              AfterCowrie, AfterDiscord, AfterTimer
<1>7. StartedBehind'
  BY <1>1, <1>4 DEF HostInv, StartedBehind
<1>8. SuccessMeansInPlace'
  BY <1>1, <1>4 DEF HostInv, SuccessMeansInPlace, provisionVars
<1> QED BY <1>4, <1>5, <1>6, <1>7, <1>8 DEF HostInv

LEMMA AssociationChecksKeeps ==
  ASSUME HostInv, AssociationChecks
  PROVE  HostInv'
<1>1. /\ applied' \in {applied, association} /\ association' = 0
      /\ UNCHANGED <<firewallVars, provisionVars, hostVars, booting, bypassed, reboots>>
  BY DEF AssociationChecks
<1>2. HostTypes'
  <2>1. applied' \in 0..MaxVersions /\ association' \in 0..MaxVersions
    BY <1>1, HostAssumption DEF HostInv, HostTypes
  <2> QED BY <1>1, <2>1 DEF HostInv, HostTypes, provisionVars, hostVars
<1>3. FirewallInv'
  BY <1>1, FirewallUnchanged DEF HostInv, FirewallInv, FirewallTypes, firewallVars
<1>4. Established'
  BY <1>1 DEF HostInv, Established, InPlace, provisionVars, hostVars, firewallVars
<1>5. StartedBehind' /\ SuccessMeansInPlace'
  BY <1>1 DEF HostInv, StartedBehind, SuccessMeansInPlace, provisionVars, hostVars,
              firewallVars
<1> QED BY <1>2, <1>3, <1>4, <1>5 DEF HostInv

LEMMA StutterKeeps ==
  ASSUME HostInv, UNCHANGED vars
  PROVE  HostInv'
<1> USE DEF vars
<1>1. HostTypes'
  BY DEF HostInv, HostTypes, provisionVars, hostVars, systemVars
<1>2. FirewallInv'
  BY FirewallUnchanged DEF HostInv, FirewallInv, FirewallTypes, firewallVars
<1>3. Established'
  BY DEF HostInv, Established, InPlace, provisionVars, hostVars, systemVars, firewallVars
<1>4. StartedBehind' /\ SuccessMeansInPlace'
  BY DEF HostInv, StartedBehind, SuccessMeansInPlace, provisionVars, hostVars,
         systemVars, firewallVars
<1> QED BY <1>1, <1>2, <1>3, <1>4 DEF HostInv

\* Every state of the host, of its firewall and of the bootstrap satisfies the
\* inductive invariant.
THEOREM Invariance == Spec => []HostInv
<1>1. ASSUME HostInv, [Next]_vars PROVE HostInv'
  BY <1>1, ProvisionKeeps, RunFirewallKeeps, ServiceKeeps, RebootKeeps, BootServicesKeeps,
     AssociateKeeps, AssociationChecksKeeps, StutterKeeps
     DEF Next
<1> QED BY InitHost, <1>1, PTL DEF Spec

-----------------------------------------------------------------------------
(* Theorems *)

\* The variables keep their types, whatever fails and however often the host
\* goes down.
THEOREM TypeCorrect == Spec => []TypeOK
<1>1. ASSUME HostInv PROVE TypeOK
  <2>1. FirewallTypes /\ Built /\ HostTypes
    BY <1>1 DEF HostInv, FirewallInv
  <2>2. script.appended < Len(Policy.v4)
    <3>1. /\ script.appended \in Nat /\ script.family \in Family
          /\ \/ script.appended = 0
             \/ script.appended < Len(DenyPolicy)
             \/ script.appended < Len(Policy[script.family])
      BY <2>1 DEF FirewallTypes, Built
    <3>2. /\ Len(Policy[script.family]) \in Nat /\ Len(Policy[script.family]) <= 7
          /\ Len(DenyPolicy) \in Nat /\ Len(DenyPolicy) <= 7 /\ Len(Policy.v4) = 7
      BY <3>1, PolicyFacts, Zenon
    <3>3. ASSUME NEW k \in Nat, NEW m \in Nat, m <= 7, k = 0 \/ k < m PROVE k < 7
      BY <3>3
    <3> QED BY <3>1, <3>2, <3>3
  <2>3. FirewallTypeOK
    <3> DEFINE Chain == [exists : BOOLEAN, rules : Seq({"log", "drop"} \cup Range(Policy.v4)),
                         version : Nat]
    <3>1. Chain = RuleChain
      BY DEF RuleChain, Rule
    <3> HIDE DEF Chain
    <3>2. table \in [Family -> [chain : Chain, deny : Chain, jumps : Nat]]
      BY <2>1, <3>1 DEF FirewallTypes
    <3>3. (script.at = "off") = (unit # "activating")
      BY <2>1 DEF FirewallTypes
    <3> QED BY <2>1, <2>2, <3>2, <3>3 DEF FirewallTypeOK, FirewallTypes, Chain
  <2>4. \A f \in Family : table[f].jumps \in 0..1
    BY <2>1 DEF FirewallTypes
  <2> QED BY <2>1, <2>3, <2>4 DEF TypeOK, HostTypes
<1> QED BY Invariance, <1>1, PTL

\* A unit that is active has the whole policy of both families in the kernel,
\* hooked once: at every command of the script, whatever an earlier run has left.
THEOREM ActiveIsEnforced == Spec => []ActiveMeansEnforced
<1>1. HostInv => ActiveMeansEnforced
  BY DEF HostInv, FirewallInv
<1> QED BY Invariance, <1>1, PTL

\* Cowrie runs behind the whole policy, at the first boot and at every other one,
\* unless the firewall failed at that boot.
THEOREM CowrieRunsBehind == Spec => []CowrieBehindFirewall
<1>1. HostInv => CowrieBehindFirewall
  BY DEF HostInv, FirewallInv, StartedBehind, ActiveMeansEnforced, CowrieBehindFirewall
<1> QED BY Invariance, <1>1, PTL

\* What the pinned bootstrap signals as a success is in place and stays so.
THEOREM SuccessIsInPlace == Spec => []SuccessMeansInPlace
<1>1. HostInv => SuccessMeansInPlace
  BY DEF HostInv
<1> QED BY Invariance, <1>1, PTL

=============================================================================
