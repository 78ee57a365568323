--------------------------- MODULE EgressFirewall ---------------------------
(***************************************************************************)
(* native/patriotpot-egress-firewall.sh and the oneshot unit that runs it: *)
(* one step for each iptables command.  The script removes what an earlier *)
(* run left of its two chains, builds them anew and hooks the first into   *)
(* OUTPUT, for IPv4 and then for IPv6.  The failure of a command that      *)
(* removes is ignored, any other one ends the script (set -e).             *)
(*                                                                         *)
(* A rule is named for what it decides; the rules of the infrastructure    *)
(* and of the reserved ranges are one rule each.                           *)
(***************************************************************************)
EXTENDS Naturals, Sequences, Functions

CONSTANT
  MaxFaults     \* bound: commands and services that fail by themselves

ASSUME FirewallAssumption == MaxFaults \in Nat

VARIABLES
  table,        \* the kernel's filter tables
  script,       \* the run of the script: its family, its next command, the
                \* rules it has appended with it, its version; "off" if none
  unit,         \* patriotpot-egress-firewall.service
  installed,    \* version of the script that is installed; 0 is none
  faults

firewallVars == <<table, script, unit, installed, faults>>

Family == {"v4", "v6"}

Policy == [v4 |-> <<"established", "loopback", "infrastructure", "reserved",
                    "web", "deny new", "return">>,
           v6 |-> <<"established", "loopback", "deny new", "return">>]

DenyPolicy == <<"log", "drop">>

\* Rules that jump to the chain of denials.
Denying == {"reserved", "deny new"}

Absent == [exists |-> FALSE, rules |-> <<>>, version |-> 0]
Empty(v) == [exists |-> TRUE, rules |-> <<>>, version |-> v]

NoTable == [chain |-> Absent, deny |-> Absent, jumps |-> 0]

Off == [family |-> "v4", at |-> "off", appended |-> 0, version |-> 0]

\* The kernel has the whole policy of a family, once.
Enforced(f) ==
  /\ table[f].jumps = 1
  /\ table[f].chain.rules = Policy[f]
  /\ table[f].deny.rules = DenyPolicy

-----------------------------------------------------------------------------

Fault == faults < MaxFaults /\ faults' = faults + 1

\* A command fails: the kernel refuses it, or it fails by itself (the lock of
\* the tables is not free within five seconds).
CommandFails(refused) == (refused /\ UNCHANGED faults) \/ (~refused /\ Fault)

\* The failure of a command ends the script (set -e) and with it the unit.
ScriptFails ==
  /\ script' = Off
  /\ unit' = "failed"
  /\ UNCHANGED <<table, installed>>

\* The script goes on with the command at.
Proceed(at) ==
  /\ script' = [script EXCEPT !.at = at, !.appended = 0]
  /\ UNCHANGED <<unit, installed>>

Here == table[script.family]

Update(field, value) == table' = [table EXCEPT ![script.family][field] = value]

\* remove_chain, its loop: -D OUTPUT until a -D fails, for whatever reason.
Unhook ==
  /\ script.at = "unhook"
  /\ \/ /\ Here.jumps > 0
        /\ Update("jumps", Here.jumps - 1)
        /\ Proceed("unhook")
        /\ UNCHANGED faults
     \/ /\ CommandFails(Here.jumps = 0)
        /\ Proceed("flush")
        /\ UNCHANGED table

\* remove_chain, its -F; a failure is ignored.
Flush(field, at, next) ==
  /\ script.at = at
  /\ Proceed(next)
  /\ \/ /\ Here[field].exists
        /\ Update(field, [Here[field] EXCEPT !.rules = <<>>])
        /\ UNCHANGED faults
     \/ /\ CommandFails(~Here[field].exists)
        /\ UNCHANGED table

\* Something still jumps to a chain.
Referenced(field) ==
  \/ field = "chain" /\ Here.jumps > 0
  \/ field = "deny" /\ \E n \in DOMAIN Here.chain.rules : Here.chain.rules[n] \in Denying

\* remove_chain, its -X, which the kernel refuses for a chain that has rules or
\* is referenced; a failure is ignored.
Delete(field, at, next) ==
  LET deletable == /\ Here[field].exists
                   /\ Here[field].rules = <<>>
                   /\ ~Referenced(field)
  IN /\ script.at = at
     /\ Proceed(next)
     /\ \/ /\ deletable
           /\ Update(field, Absent)
           /\ UNCHANGED faults
        \/ /\ CommandFails(~deletable)
           /\ UNCHANGED table

\* Mutant of New: the failure of -N is ignored, a chain that exists is used.
NewOrSame(field, at, next) ==
  /\ script.at = at
  /\ IF Here[field].exists THEN UNCHANGED table ELSE Update(field, Empty(script.version))
  /\ Proceed(next)
  /\ UNCHANGED faults

\* -N, which the kernel refuses for a chain that exists.
New(field, at, next) ==
  /\ script.at = at
  /\ \/ /\ ~Here[field].exists
        /\ Update(field, Empty(script.version))
        /\ Proceed(next)
        /\ UNCHANGED faults
     \/ CommandFails(Here[field].exists) /\ ScriptFails

\* The -A commands, one rule after the other.
Fill(field, policy, at, next) ==
  LET n == script.appended + 1
  IN /\ script.at = at
     /\ \/ /\ Update(field, [Here[field] EXCEPT !.rules = Append(@, policy[n])])
           /\ IF n = Len(policy)
              THEN Proceed(next)
              ELSE script' = [script EXCEPT !.appended = n] /\ UNCHANGED <<unit, installed>>
           /\ UNCHANGED faults
        \/ CommandFails(FALSE) /\ ScriptFails

\* -I OUTPUT 1: the family is done; with the second one so is the script, and
\* the unit is active.
Hook ==
  /\ script.at = "hook"
  /\ \/ /\ Update("jumps", Here.jumps + 1)
        /\ IF script.family = "v4"
           THEN script' = [script EXCEPT !.family = "v6", !.at = "unhook"] /\ UNCHANGED unit
           ELSE script' = Off /\ unit' = "active"
        /\ UNCHANGED <<installed, faults>>
     \/ CommandFails(FALSE) /\ ScriptFails

FirewallScript ==
  \/ Unhook
  \/ Flush("chain", "flush", "delete")
  \/ Delete("chain", "delete", "flush deny")
  \/ Flush("deny", "flush deny", "delete deny")
  \/ Delete("deny", "delete deny", "new deny")
  \/ New("deny", "new deny", "fill deny")
  \/ Fill("deny", DenyPolicy, "fill deny", "new")
  \/ New("chain", "new", "fill")
  \/ Fill("chain", Policy[script.family], "fill", "hook")
  \/ Hook

\* Mutant of StartFirewall: a unit of type simple is active at once.
StartFirewallSimple(version) ==
  IF unit \in {"active", "activating"}
  THEN UNCHANGED <<script, unit>>
  ELSE /\ unit' = "active"
       /\ script' = [Off EXCEPT !.at = "unhook", !.version = version]

\* systemctl start: a unit that is active, or about to be, is left alone.
StartFirewall(version) ==
  IF unit \in {"active", "activating"}
  THEN UNCHANGED <<script, unit>>
  ELSE /\ unit' = "activating"
       /\ script' = [Off EXCEPT !.at = "unhook", !.version = version]

FirewallTypeOK ==
  LET Chain == [exists : BOOLEAN, rules : Seq({"log", "drop"} \cup Range(Policy.v4)),
                version : Nat]
  IN /\ table \in [Family -> [chain : Chain, deny : Chain, jumps : Nat]]
     /\ script.family \in Family
     /\ script.appended < Len(Policy.v4)
     /\ (script.at = "off") = (unit # "activating")
     /\ unit \in {"inactive", "activating", "active", "failed"}
     /\ installed \in Nat
     /\ faults \in 0..MaxFaults

=============================================================================
