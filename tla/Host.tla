-------------------------------- MODULE Host --------------------------------
(***************************************************************************)
(* One instance of the stack, from its first boot: UserData                *)
(* (gmu-honeypot-stack-2026-control.yaml), which downloads and runs        *)
(* native/bootstrap-native.sh and signals CloudFormation; the units that   *)
(* the bootstrap enables, with what systemd does of them when one dies and *)
(* after a reboot; and the association that installs another version of    *)
(* the firewall through SSM on an instance that has signalled success.     *)
(*                                                                         *)
(* The bootstrap is its phases, in order; a phase whose effects no         *)
(* property reads (packages, accounts, Python, Cowrie's source) only       *)
(* succeeds or fails.  UserData runs on the first boot and never again.    *)
(***************************************************************************)
EXTENDS EgressFirewall, FiniteSets

CONSTANTS
  MaxReboots,   \* bound: reboots
  MaxVersions   \* bound: versions of the firewall that are published

ASSUME HostAssumption ==
  /\ MaxReboots \in Nat
  /\ MaxVersions \in Nat \ {0}

VARIABLES
  phase,        \* what UserData or the bootstrap does next
  ran,          \* the bootstrap script that was run
  hostKey,      \* Cowrie's pair of keys on the disk
  enabled,      \* units that start with the host
  sshd,
  service,      \* Cowrie and the monitor
  booting,      \* the host is up, but the services are not started yet
  result,       \* exit status of the bootstrap
  signal,       \* what CloudFormation was told
  association,  \* a run of the association waits for the unit
  applied,      \* the version the association last reported as in place
  bypassed,     \* history: the firewall failed to start since the last boot
  reboots

provisionVars == <<phase, ran, result, signal>>
systemVars == <<booting, bypassed, reboots, association, applied>>
hostVars == <<hostKey, enabled, sshd, service>>
vars == <<firewallVars, provisionVars, hostVars, systemVars>>

Services == {"cowrie", "discord"}

NoKey == [private |-> "none", public |-> "none"]

-----------------------------------------------------------------------------
(* UserData *)

\* The download (540-563).  The subshell is the left side of ||, where bash
\* ignores set -e: whatever fails here, the next command is run, and only a
\* script that is missing stops it.  A script that is not the pinned one ends
\* as it likes.
FetchBootstrap ==
  /\ phase = "fetch"
  /\ \E copy \in {"pinned", "damaged", "none"} :
       /\ IF copy = "pinned" THEN UNCHANGED faults ELSE Fault
       /\ ran' = copy
       /\ CASE copy = "pinned" -> phase' = "bootstrap_preflight" /\ UNCHANGED result
            [] copy = "damaged" -> phase' = "signal" /\ result' \in {"ok", "failed"}
            [] copy = "none" -> phase' = "signal" /\ result' = "failed"
  /\ UNCHANGED <<table, script, unit, installed, signal, hostVars, systemVars>>

\* Mutant of Signal: set -e in UserData itself, so that a failure ends it.
SignalIfOk ==
  /\ phase = "signal"
  /\ phase' = "done"
  /\ signal' = IF result = "ok" THEN "success" ELSE "none"
  /\ UNCHANGED <<firewallVars, ran, result, hostVars, systemVars>>

\* cfn-signal, with the status of the bootstrap, which may not arrive.
Signal ==
  /\ phase = "signal"
  /\ phase' = "done"
  /\ \/ /\ signal' = IF result = "ok" THEN "success" ELSE "failure"
        /\ UNCHANGED faults
     \/ Fault /\ signal' = "lost"
  /\ UNCHANGED <<table, script, unit, installed, ran, result, hostVars, systemVars>>

-----------------------------------------------------------------------------
(* The bootstrap *)

\* The first command that fails ends it; the trap writes the phase down.
BootstrapFails ==
  /\ phase' = "signal"
  /\ result' = "failed"
  /\ UNCHANGED <<table, script, unit, installed, ran, signal, systemVars>>

\* It fails in a phase that then leaves nothing behind.
Fails(at) == phase = at /\ Fault /\ BootstrapFails /\ UNCHANGED hostVars

\* The bootstrap is at a phase and goes on with the next one.
Passes(at, next) ==
  /\ phase = at
  /\ phase' = next
  /\ UNCHANGED <<ran, result, signal, systemVars>>

\* A phase that leaves nothing a property reads.
Prepares(at, next) ==
  \/ /\ Passes(at, next)
     /\ UNCHANGED <<firewallVars, hostVars>>
  \/ Fails(at)

Preflight == Prepares("bootstrap_preflight", "asset_fetch")

\* fetch_asset compares each digest, with set -e.
FetchAssets == Prepares("asset_fetch", "package_preparation")

PreparePackages == Prepares("package_preparation", "side_by_side_python")

PreparePython == Prepares("side_by_side_python", "cowrie_source")

PrepareCowrie == Prepares("cowrie_source", "host_key_install")

\* Mutant of InstallHostKey: the public key is not compared with the private one.
InstallHostKeyUnchecked ==
  \E secret \in {"matched", "mismatched"} :
    /\ Passes("host_key_install", "monitoring_archive_services")
    /\ hostKey' = [private |-> "new", public |-> IF secret = "matched" THEN "new" ELSE "other"]
    /\ UNCHANGED <<firewallVars, enabled, sshd, service>>

\* install-host-key.py with what Secrets Manager answers.  The private key is
\* in its place before it is compared, and removed when it does not match.
InstallHostKey ==
  /\ phase = "host_key_install"
  /\ \/ /\ Passes("host_key_install", "monitoring_archive_services")
        /\ hostKey' = [private |-> "new", public |-> "new"]
        /\ UNCHANGED <<firewallVars, enabled, sshd, service>>
     \/ /\ Fault /\ BootstrapFails
        /\ \E secret \in {"no answer", "mismatched", "public not written"} :
             hostKey' = CASE secret = "no answer" -> hostKey
                          [] secret = "mismatched" -> NoKey
                          [] secret = "public not written" -> [NoKey EXCEPT !.private = "new"]
        /\ UNCHANGED <<enabled, sshd, service>>

\* The files of all services, the first version of the firewall among them.
InstallServices ==
  /\ phase = "monitoring_archive_services"
  /\ \/ /\ Passes("monitoring_archive_services", "sidecar_self_tests")
        /\ installed' = 1
        /\ UNCHANGED <<table, script, unit, faults, hostVars>>
     \/ Fails("monitoring_archive_services")

SelfTests == Prepares("sidecar_self_tests", "native_service_start")

\* systemctl daemon-reload, which may fail, and enable --now of the firewall,
\* which returns when its script ends.
EnableFirewall ==
  \/ /\ Passes("native_service_start", "await firewall")
     /\ enabled' = enabled \cup {"firewall"}
     /\ StartFirewall(installed)
     /\ UNCHANGED <<table, installed, faults, hostKey, sshd, service>>
  \/ Fails("native_service_start")

FirewallStarted ==
  /\ phase = "await firewall"
  /\ \/ /\ unit = "active"
        /\ Passes("await firewall", "start ssm")
        /\ UNCHANGED <<firewallVars, hostVars>>
     \/ unit = "failed" /\ UNCHANGED <<faults, hostVars>> /\ BootstrapFails

StartSsm ==
  \/ /\ Passes("start ssm", "disable sshd")
     /\ enabled' = enabled \cup {"ssm"}
     /\ UNCHANGED <<firewallVars, hostKey, sshd, service>>
  \/ Fails("start ssm")

\* systemctl disable --now, then systemctl mask.
StopSshd(at, next, state) ==
  \/ /\ Passes(at, next)
     /\ sshd' = state
     /\ UNCHANGED <<firewallVars, hostKey, enabled, service>>
  \/ Fails(at)

\* systemctl enable --now of a service, which may be enabled and not start.
EnableService(s, at, next) ==
  /\ phase = at
  /\ enabled' = enabled \cup {s}
  /\ \/ /\ Passes(at, next)
        /\ service' = [service EXCEPT ![s] = "running"]
        /\ UNCHANGED <<firewallVars, hostKey, sshd>>
     \/ Fault /\ BootstrapFails /\ UNCHANGED <<hostKey, sshd, service>>

\* Sixty attempts to reach port 2222; a Cowrie that runs may not listen yet.
CheckListener ==
  \/ /\ service["cowrie"] = "running"
     /\ Passes("cowrie_listener_check", "discord_service_enablement")
     /\ UNCHANGED <<firewallVars, hostVars>>
  \/ /\ phase = "cowrie_listener_check"
     /\ CommandFails(service["cowrie"] # "running")
     /\ BootstrapFails
     /\ UNCHANGED hostVars

EnableTimer ==
  \/ /\ Passes("archive_timer_enablement", "archive_initial_run")
     /\ enabled' = enabled \cup {"timer"}
     /\ UNCHANGED <<firewallVars, hostKey, sshd, service>>
  \/ Fails("archive_timer_enablement")

\* The first run of the archive, the CloudWatch agent and the baseline file.
FirstArchive == Prepares("archive_initial_run", "final_runtime_validation")

\* final_runtime_validation, after which UserData goes on with the signal.  The
\* SSM agent, which it tests too, may have died.
Validate ==
  LET valid == /\ \A s \in Services : service[s] = "running"
               /\ unit = "active"
               /\ {"timer", "ssm"} \subseteq enabled
               /\ sshd # "active"
  IN /\ phase = "final_runtime_validation"
     /\ \/ /\ valid
           /\ Passes("final_runtime_validation", "signal")
           /\ UNCHANGED <<firewallVars, hostVars>>
        \/ CommandFails(~valid) /\ UNCHANGED hostVars /\ BootstrapFails

Provision ==
  \/ FetchBootstrap \/ Preflight \/ FetchAssets \/ PreparePackages \/ PreparePython
  \/ PrepareCowrie \/ InstallHostKey \/ InstallServices \/ SelfTests
  \/ EnableFirewall \/ FirewallStarted \/ StartSsm
  \/ StopSshd("disable sshd", "mask sshd", "disabled")
  \/ StopSshd("mask sshd", "start cowrie", "masked")
  \/ EnableService("cowrie", "start cowrie", "cowrie_listener_check") \/ CheckListener
  \/ EnableService("discord", "discord_service_enablement", "archive_timer_enablement")
  \/ EnableTimer \/ FirstArchive \/ Validate \/ Signal

-----------------------------------------------------------------------------
(* systemd *)

\* A service dies; its unit restarts it after a while.
ServiceDies(s) ==
  /\ service[s] = "running"
  /\ Fault
  /\ service' = [service EXCEPT ![s] = "restarting"]
  /\ UNCHANGED <<table, script, unit, installed, provisionVars, hostKey, enabled, sshd,
                 systemVars>>

ServiceRestarts(s) ==
  /\ service[s] = "restarting"
  /\ service' = [service EXCEPT ![s] = "running"]
  /\ UNCHANGED <<firewallVars, provisionVars, hostKey, enabled, sshd, systemVars>>

\* The kernel forgets its tables, what is enabled starts, and UserData is not
\* run again.
Reboot ==
  /\ reboots < MaxReboots
  /\ reboots' = reboots + 1
  /\ booting' = TRUE
  /\ bypassed' = FALSE
  /\ association' = 0
  /\ phase' = IF phase = "done" THEN "done" ELSE "cut"
  /\ service' = [s \in Services |-> "off"]
  /\ table' = [f \in Family |-> NoTable]
  /\ IF "firewall" \in enabled
     THEN unit' = "activating" /\ script' = [Off EXCEPT !.at = "unhook", !.version = installed]
     ELSE unit' = "inactive" /\ script' = Off
  /\ UNCHANGED <<installed, faults, ran, result, signal, hostKey, enabled, sshd, applied>>

\* Mutant of BootServices: without Before= in the unit of the firewall.
BootServicesAtOnce ==
  /\ booting
  /\ booting' = FALSE
  /\ bypassed' = (unit = "failed")
  /\ service' = [s \in Services |-> IF s \in enabled THEN "running" ELSE "off"]
  /\ UNCHANGED <<firewallVars, provisionVars, hostKey, enabled, sshd, reboots,
                 association, applied>>

\* Before= makes the services wait for the firewall's job, whether or not the
\* job succeeds: no unit requires the firewall.
BootServices ==
  /\ booting
  /\ unit # "activating"
  /\ booting' = FALSE
  /\ bypassed' = (unit # "active")
  /\ service' = [s \in Services |-> IF s \in enabled THEN "running" ELSE "off"]
  /\ UNCHANGED <<firewallVars, provisionVars, hostKey, enabled, sshd, reboots,
                 association, applied>>

-----------------------------------------------------------------------------
(* The association of the firewall *)

\* SSM installs a version, whose digest it checks, and enables the unit.
Associate ==
  /\ signal = "success" /\ "ssm" \in enabled
  /\ ~booting /\ association = 0
  /\ \E v \in installed..MaxVersions :
       installed' = v /\ association' = v /\ StartFirewall(v)
  /\ enabled' = enabled \cup {"firewall"}
  /\ UNCHANGED <<table, faults, provisionVars, hostKey, sshd, service, booting, bypassed,
                 reboots, applied>>

\* Its is-active, when the start has returned.
AssociationChecks ==
  /\ association # 0 /\ unit # "activating"
  /\ applied' = IF unit = "active" THEN association ELSE applied
  /\ association' = 0
  /\ UNCHANGED <<firewallVars, provisionVars, hostVars, booting, bypassed, reboots>>

-----------------------------------------------------------------------------

Init ==
  /\ table = [f \in Family |-> NoTable]
  /\ script = Off
  /\ unit = "inactive"
  /\ installed = 0
  /\ faults = 0
  /\ phase = "fetch" /\ ran = "none" /\ result = "ok" /\ signal = "none"
  /\ hostKey = NoKey
  /\ enabled = {}
  /\ sshd = "active"
  /\ service = [s \in Services |-> "off"]
  /\ booting = FALSE /\ bypassed = FALSE /\ reboots = 0
  /\ association = 0 /\ applied = 0

RunFirewall == FirewallScript /\ UNCHANGED <<provisionVars, hostVars, systemVars>>

Next ==
  \/ Provision
  \/ RunFirewall
  \/ \E s \in Services : ServiceDies(s) \/ ServiceRestarts(s)
  \/ Reboot \/ BootServices
  \/ Associate \/ AssociationChecks

Spec == Init /\ [][Next]_vars

\* UserData and a script that has started go on; nothing has to die, to reboot
\* or to be associated.
FairSpec == Spec /\ WF_vars(Provision) /\ WF_vars(RunFirewall)

-----------------------------------------------------------------------------

Phases == {"fetch", "bootstrap_preflight", "asset_fetch", "package_preparation",
           "side_by_side_python", "cowrie_source", "host_key_install",
           "monitoring_archive_services", "sidecar_self_tests", "native_service_start",
           "await firewall", "start ssm", "disable sshd", "mask sshd", "start cowrie",
           "cowrie_listener_check", "discord_service_enablement",
           "archive_timer_enablement", "archive_initial_run",
           "final_runtime_validation", "signal", "done", "cut"}

\* The variables keep their types: no more than one jump to a chain, and a
\* script that runs exactly while its unit activates.
TypeOK ==
  /\ FirewallTypeOK
  /\ \A f \in Family : table[f].jumps \in 0..1
  /\ phase \in Phases
  /\ ran \in {"pinned", "damaged", "none"}
  /\ result \in {"ok", "failed"}
  /\ signal \in {"none", "success", "failure", "lost"}
  /\ hostKey \in [private : {"none", "new"}, public : {"none", "new", "other"}]
  /\ enabled \subseteq {"firewall", "ssm", "cowrie", "discord", "timer"}
  /\ sshd \in {"active", "disabled", "masked"}
  /\ service \in [Services -> {"off", "running", "restarting"}]
  /\ booting \in BOOLEAN /\ bypassed \in BOOLEAN
  /\ association \in 0..MaxVersions /\ applied \in 0..MaxVersions
  /\ reboots \in 0..MaxReboots

\* The unit is active only when the kernel has the whole policy of both
\* families, hooked once, whatever an earlier run of the script has left: what
\* is-active is taken for by the bootstrap and by the association.
ActiveMeansEnforced == unit = "active" => \A f \in Family : Enforced(f)

\* Cowrie runs behind the whole policy, unless the firewall failed at this boot
\* (Before= in its unit orders, it does not require).
CowrieBehindFirewall ==
  service["cowrie"] # "off" => bypassed \/ \A f \in Family : Enforced(f)

\* A success that the pinned bootstrap signals means that all of it is in place
\* and will be after a reboot: CloudFormation then gives up the old instance.
SuccessMeansInPlace ==
  signal = "success" /\ ran = "pinned" =>
    /\ enabled = {"firewall", "ssm", "cowrie", "discord", "timer"}
    /\ sshd = "masked"
    /\ hostKey = [private |-> "new", public |-> "new"]
    /\ reboots = 0 => unit = "active"

\* Wherever the bootstrap fails, CloudFormation is told (unless the host goes
\* down first, or the signal itself is lost).
SignalArrives == <>(signal # "none" \/ reboots > 0)

\* Only the script with the digest of the template is run
\* ("SHA-256 used to verify the downloaded bootstrap entry point").
VerifiedBeforeRun == phase \notin {"fetch", "cut"} => ran # "damaged"

\* What the association reports as applied is what the kernel enforces.
FirewallApplied ==
  applied # 0 /\ unit = "active" => \A f \in Family : table[f].chain.version >= applied

=============================================================================
