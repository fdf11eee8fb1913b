----------------------------- MODULE SelfUpdate -----------------------------
(* The update an agent makes of itself: node/pinger/updater.go decides and  *)
(* launches, node/install.sh fetches, checks, stops the service, moves the  *)
(* binary, writes the unit and restarts, under the trap it sets, and        *)
(* systemd restarts what ends (the unit says Restart=always).               *)
(*                                                                         *)
(* Time is kept as ages that stop growing at the cooldown: nothing asks     *)
(* about more.  The download's sources and the arguments that never change  *)
(* are left out; the one that does change, -insecure, is kept.              *)
EXTENDS Integers, FiniteSets

CONSTANTS Versions,     \* versions an administrator may ask for
          First,        \* the one installed by hand
          Mislabelled,  \* releases that report First, whatever their tag
          Cooldown,     \* updateCooldown, in ticks
          MaxFailures   \* bound: failing steps, kills, crashes and reboots

ASSUME UpdateAssumption ==
  /\ Cooldown \in Nat \ {0} /\ MaxFailures \in Nat
  /\ Mislabelled \subseteq Versions

None == "none"
Ages == 0 .. Cooldown

VARIABLES
  desired,     \* desiredAgentVersion of the master
  selfSigned,  \* the master's certificate needs -insecure
  unit,        \* the unit file: whether it passes -insecure, and how many of its
               \* lines ExecStart= and Restart=always are there, in this order
  bin,         \* the file ExecStart names: its release, and whether it is whole
  svc,         \* the service: active, restarting (systemd will start it), stopped
  proc,        \* the agent: the version it reports, age of lastUpdateAttempt
  stamp,       \* age of the stamp file; Cooldown when there is none
  inst,        \* the installer: its step, release, download, SERVICE_WAS_ACTIVE
  failures,
  since,       \* history: age of the last attempt
  unstamped,   \* history: its stamp could not be written
  harm         \* history: the service was left to a person

updateVars == <<desired, selfSigned, unit, bin, svc, proc, stamp, inst, failures, since,
                unstamped, harm>>

Down       == [up |-> FALSE, ver |-> First, mem |-> Cooldown]
NoInstall  == [pc |-> "idle", ver |-> First, whole |-> TRUE, active |-> FALSE]
Hardcoded(v) == First
Reports(v) == IF v \in Mislabelled THEN First ELSE v

\* Cut before the end of ExecStart it starts nothing, cut after it it starts the
\* agent once; the lines that harden the service are left out.
Unit(insecure, lines) == [insecure |-> insecure, lines |-> lines]

\* LoadConfig and main: a fresh process, that remembers no attempt.
Started(b) == [up |-> TRUE, ver |-> Reports(b.ver), mem |-> Cooldown]

UpdateInit ==
  /\ desired = None
  /\ selfSigned \in BOOLEAN /\ unit = Unit(selfSigned, 2)
  /\ bin = [ver |-> First, whole |-> TRUE]
  /\ svc = "active" /\ proc = Started(bin)
  /\ stamp = Cooldown /\ inst = NoInstall
  /\ failures = 0 /\ since = Cooldown /\ unstamped = FALSE /\ harm = FALSE

Older(a) == IF a < Cooldown THEN a + 1 ELSE a

Tick ==
  /\ since < Cooldown \/ stamp < Cooldown \/ proc.mem < Cooldown
  /\ since' = Older(since) /\ stamp' = Older(stamp)
  /\ proc' = [proc EXCEPT !.mem = Older(@)]
  /\ UNCHANGED <<desired, selfSigned, unit, bin, svc, inst, failures, unstamped, harm>>

SetDesired(v) ==
  /\ desired # v /\ desired' = v
  /\ UNCHANGED <<selfSigned, unit, bin, svc, proc, stamp, inst, failures, since,
                 unstamped, harm>>

Fault == failures < MaxFailures /\ failures' = failures + 1

(***************************************************************************)
(* updater.go.  The runner learns of the wanted version when it refreshes  *)
(* its tasks, which needs a master it can talk to.                         *)
(***************************************************************************)
Reaches == proc.up /\ (selfSigned => unit.insecure)
Wants   == desired # None /\ desired # proc.ver

MemoryOnly  == proc.mem
LastAttempt == IF stamp < proc.mem THEN stamp ELSE proc.mem

\* writeLastUpdateStamp: a failure is logged and no more.
Stamp(written) ==
  IF written THEN stamp' = 0 /\ UNCHANGED failures ELSE Fault /\ UNCHANGED stamp

\* runInstallScript: a helper still running keeps the name of the unit, so the
\* launch fails; the attempt counts all the same.
Launch ==
  inst' = IF inst.pc = "idle"
            THEN [NoInstall EXCEPT !.pc = "fetch", !.ver = desired] ELSE inst

\* maybeSelfUpdate: the attempt is noted before anything is launched.
Attempt(written) ==
  /\ Reaches /\ Wants /\ LastAttempt = Cooldown
  /\ Stamp(written)
  /\ proc' = [proc EXCEPT !.mem = 0]
  /\ since' = 0 /\ unstamped' = ~written
  /\ Launch
  /\ UNCHANGED <<desired, selfSigned, unit, bin, svc, harm>>

(***************************************************************************)
(* install.sh, in a unit of its own.                                       *)
(***************************************************************************)
InstallerAt(pc)   == inst.pc = pc
InstallerGoes(pc) == inst' = [inst EXCEPT !.pc = pc]

\* Into a temporary file; what arrives may be damaged.
Fetch ==
  /\ InstallerAt("fetch")
  /\ \/ inst' = [inst EXCEPT !.pc = "verify"] /\ UNCHANGED failures
     \/ Fault /\ inst' = [inst EXCEPT !.pc = "verify", !.whole = FALSE]
     \/ Fault /\ inst' = NoInstall
  /\ UNCHANGED <<desired, selfSigned, unit, bin, svc, proc, stamp, since, unstamped, harm>>

Accepted == inst.whole

Verify ==
  /\ InstallerAt("verify")
  /\ IF Accepted THEN InstallerGoes("stop") ELSE inst' = NoInstall
  /\ UNCHANGED <<desired, selfSigned, unit, bin, svc, proc, stamp, failures, since,
                 unstamped, harm>>

\* systemctl is-active is false of a service systemd is about to start again.
Stop ==
  /\ InstallerAt("stop")
  /\ inst' = [inst EXCEPT !.pc = "move", !.active = (svc = "active")]
  /\ svc' = "stopped" /\ proc' = Down
  /\ UNCHANGED <<desired, selfSigned, unit, bin, stamp, failures, since, unstamped, harm>>

\* mv between file systems copies: the name exists before the file is whole.
MoveBegins ==
  /\ InstallerAt("move")
  /\ bin' = [ver |-> inst.ver, whole |-> FALSE]
  /\ InstallerGoes("copy")
  /\ UNCHANGED <<desired, selfSigned, unit, svc, proc, stamp, failures, since, unstamped, harm>>

MoveEnds ==
  /\ InstallerAt("copy")
  /\ bin' = [bin EXCEPT !.whole = inst.whole]
  /\ InstallerGoes("unit")
  /\ UNCHANGED <<desired, selfSigned, unit, svc, proc, stamp, failures, since, unstamped, harm>>

\* The arguments are those updater.go passes: -insecure is not among them.
WriteUnit ==
  /\ InstallerAt("unit")
  /\ unit' = Unit(FALSE, 2)
  /\ InstallerGoes("restart")
  /\ UNCHANGED <<desired, selfSigned, bin, svc, proc, stamp, failures, since, unstamped, harm>>

\* The service ends, or its program cannot be executed.
Ended(u) == IF u.lines = 2 THEN "restarting" ELSE "stopped"
Runs(u)  == u.lines > 0 /\ bin.whole

\* What systemctl start does to a stopped service, from the unit file as it is.
Start(u) ==
  /\ svc'  = IF Runs(u) THEN "active" ELSE Ended(u)
  /\ proc' = IF Runs(u) THEN Started(bin) ELSE Down

Restart ==
  /\ InstallerAt("restart")
  /\ Start(unit)
  /\ inst' = NoInstall
  /\ UNCHANGED <<desired, selfSigned, unit, bin, stamp, failures, since, unstamped, harm>>

\* "cat >" empties the file and then fills it: what ends the installer at that
\* step may leave the file as it was or any beginning of the new one.
UnitLeft ==
  IF InstallerAt("unit") THEN unit' \in {unit} \cup {Unit(FALSE, k) : k \in 0 .. 2}
  ELSE UNCHANGED unit

\* A step fails: set -e leaves the script, and the trap is next.
StepFails ==
  /\ inst.pc \in {"move", "copy", "unit", "restart"} /\ Fault
  /\ UnitLeft
  /\ InstallerGoes("trap")
  /\ harm' = (harm \/ ~bin.whole)
  /\ UNCHANGED <<desired, selfSigned, bin, svc, proc, stamp, since, unstamped>>

NotRestored == UNCHANGED <<svc, proc>>
Restored    == IF inst.active THEN Start(unit) ELSE UNCHANGED <<svc, proc>>

\* restore_service_on_error.  Nothing starts a service that was between restarts,
\* a half-copied binary or half a unit does not run, and the trap's own start
\* may fail, which "|| true" hides.
Trap ==
  /\ InstallerAt("trap")
  /\ \/ /\ Restored
        /\ harm' = (harm \/ ~inst.active \/ ~Runs(unit))
        /\ UNCHANGED failures
     \/ Fault /\ harm' = TRUE /\ UNCHANGED <<svc, proc>>
  /\ inst' = NoInstall
  /\ UNCHANGED <<desired, selfSigned, unit, bin, stamp, since, unstamped>>

(***************************************************************************)
(* The machine and systemd.                                                *)
(***************************************************************************)
\* The installer is killed: no trap.
Kill ==
  /\ ~InstallerAt("idle") /\ Fault
  /\ UnitLeft
  /\ inst' = NoInstall
  /\ harm' = (harm \/ svc = "stopped")
  /\ UNCHANGED <<desired, selfSigned, bin, svc, proc, stamp, since, unstamped>>

\* The unit is enabled: a boot starts it.
Reboot ==
  /\ Fault
  /\ UnitLeft /\ Start(unit')
  /\ inst' = NoInstall
  /\ harm' = (harm \/ ~Runs(unit'))
  /\ UNCHANGED <<desired, selfSigned, bin, stamp, since, unstamped>>

Crash ==
  /\ proc.up /\ Fault
  /\ svc' = Ended(unit) /\ proc' = Down
  /\ harm' = (harm \/ svc' = "stopped")
  /\ UNCHANGED <<desired, selfSigned, unit, bin, stamp, inst, since, unstamped>>

SystemdRestarts ==
  /\ svc = "restarting" /\ bin.whole
  /\ Start(unit)
  /\ UNCHANGED <<desired, selfSigned, unit, bin, stamp, inst, failures, since, unstamped, harm>>

Install == Fetch \/ Verify \/ Stop \/ MoveBegins \/ MoveEnds \/ WriteUnit \/ Restart
           \/ StepFails \/ Trap

UpdateNext ==
  \/ Tick \/ Install \/ Kill \/ Reboot \/ Crash \/ SystemdRestarts
  \/ \E v \in Versions \cup {None} : SetDesired(v)
  \/ \E written \in BOOLEAN : Attempt(written)

UpdateSpec == UpdateInit /\ [][UpdateNext]_updateVars

\* Time passes, the agent refreshes its tasks, the script and systemd go on.
UpdateFairness ==
  /\ WF_updateVars(Tick) /\ WF_updateVars(Attempt(TRUE))
  /\ WF_updateVars(Install) /\ WF_updateVars(SystemdRestarts)

UpdateFairSpec == UpdateSpec /\ UpdateFairness

(***************************************************************************)
(* Properties.                                                             *)
(***************************************************************************)
\* Type of every variable.
UpdateTypeOK ==
  /\ desired \in Versions \cup {None} /\ selfSigned \in BOOLEAN
  /\ unit \in [insecure : BOOLEAN, lines : 0 .. 2]
  /\ bin \in [ver : Versions \cup {First}, whole : BOOLEAN]
  /\ svc \in {"active", "restarting", "stopped"}
  /\ proc \in [up : BOOLEAN, ver : Versions \cup {First}, mem : Ages]
  /\ stamp \in Ages /\ since \in Ages
  /\ inst \in [pc : {"idle", "fetch", "verify", "stop", "move", "copy", "unit", "restart",
                    "trap"},
               ver : Versions \cup {First}, whole : BOOLEAN, active : BOOLEAN]
  /\ failures \in 0 .. MaxFailures /\ unstamped \in BOOLEAN /\ harm \in BOOLEAN

\* Attempts are a cooldown apart through every restart the updates themselves
\* cause, even when a release never reports the version it was installed as;
\* only a stamp that could not be written lets the next process come early
\* (updater.go, maybeSelfUpdate and the two stamp functions).
AttemptsSpaced ==
  [][(\E written \in BOOLEAN : Attempt(written)) => since = Cooldown \/ unstamped]_updateVars

\* What systemd starts is a release whose checksum matched, or the rest of a
\* copy that was interrupted, and then only after the fault that did it
\* (install.sh, verification and mv).
BinaryChecked == bin.whole \/ InstallerAt("copy") \/ harm

\* A service the installer stops is started again, by its last step or by its
\* trap, and one that ends by systemd.  Left down is only what a kill stopped
\* there, what was between two restarts, a binary or a unit file cut short (a
\* full disk is enough: the old unit is emptied before the new one is written),
\* and what the trap itself fails to start.  The installer's own comment (lines
\* 134-138) says the old service is restored after any failing step: after the
\* last three it is not (install.sh, restore_service_on_error).
ServiceComesBack == (svc # "active") ~> (svc = "active" \/ harm)

\* Every agent comes to run the version that stays wanted, unless the release
\* reports another, the service was left down as above, or the agent lost
\* -insecure and with it the master (updater.go, maybeSelfUpdate; install.sh).
Converges ==
  \A v \in Versions \ Mislabelled :
    <>[](desired = v) =>
      <>[](proc.up /\ proc.ver = v) \/ []<>harm \/ []<>(selfSigned /\ ~unit.insecure)
=============================================================================
