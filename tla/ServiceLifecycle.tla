-------------------------- MODULE ServiceLifecycle --------------------------
(***************************************************************************)
(* The lifecycle commands of pihole_ai/service.py: install, uninstall,     *)
(* upgrade, enable, disable, start, stop and restart, run by several       *)
(* administrators over the unit files, systemd, the lifecycle lock and the *)
(* database, which commands and services migrate (module Migrations).      *)
(*                                                                         *)
(* A command is a sequence of steps; Program gives the steps in the order  *)
(* of the code, loops unrolled.  A step is one call: a file replaced or    *)
(* removed, a systemctl call, the lock.  Any step may fail (the call       *)
(* raises) and the command may be killed before any step, which closes its *)
(* lock file.  Calls without an effect on this state (accounts and groups, *)
(* directories, ownership and permissions, the configuration access check, *)
(* daemon-reload) belong to the step after them: their failure is the      *)
(* failure of that step.  Releases are numbered; release 0 of a file means *)
(* there is none, Foreign that an administrator wrote it.  Dry runs change *)
(* nothing and are left out.                                               *)
(*                                                                         *)
(* The lock is a file in /run/pihole-ai, which every generated unit names  *)
(* as its RuntimeDirectory without RuntimeDirectoryPreserve: systemd       *)
(* removes the directory, lifecycle.lock with it, whenever one of the      *)
(* units goes dead.  Whoever held that lock still holds a deleted file,    *)
(* and the next command creates and locks a new one.                       *)
(***************************************************************************)
EXTENDS Migrations, SequencesExt

CONSTANTS
    Admins,      \* processes that run lifecycle commands
    Nobody,      \* the holder of the lock when it is free or has no file
    StartOrder,  \* START_ORDER: the daemons
    Timers,      \* timers, each with the oneshot service it starts
    Launcher,    \* /usr/local/bin/pihole-ai
    Releases,    \* SchemaOf[r]: the schema of release r of the package
    Commands     \* the commands that are run

\* Bounds: commands, and failures, kills, deaths of daemons and ends of an update
\* run together.
CONSTANTS MaxCommands, MaxTroubles

ASSUME LifecycleAssumption ==
    /\ Nobody \notin Admins
    /\ Releases \in Seq(Nat \ {0}) /\ Releases # <<>>
    /\ {StartOrder, Timers} \subseteq Seq(Range(StartOrder) \cup Range(Timers))
    /\ IsInjective(StartOrder \o Timers)
    /\ Launcher \notin Range(StartOrder) \cup Range(Timers)
    /\ Migrators = Admins \cup Range(StartOrder)
    /\ Admins \cap (Range(StartOrder) \cup Range(Timers)) = {}
    /\ Commands \subseteq {"install", "install --no-start", "install --no-enable",
                           "uninstall", "upgrade", "enable", "disable", "start", "stop",
                           "restart"}

ASSUME LifecycleBounds ==
    {MaxCommands, MaxTroubles} \subseteq Nat

Daemons == Range(StartOrder)
Units == Daemons \cup Range(Timers)          \* MANAGED_UNIT_NAMES
Files == Units \cup {Launcher}
UnitOrder == StartOrder \o Timers
Absent == 0
Foreign == Len(Releases) + 1
Contents == 0 .. Foreign

VARIABLES
    package,    \* the release that is installed in the virtual environment
    files,      \* unit files and launcher
    enabled,    \* units enabled at boot
    daemon,     \* the process of each daemon
    lock,       \* who holds the lifecycle.lock that is in the directory now
    op,         \* the command each administrator runs
    disturbed,  \* history: a command without the lock acted during another one
    used        \* how much of each bound is used

lifecycleVars ==
    <<migrationVars, package, files, enabled, daemon, lock, op, disturbed, used>>

\* systemctl calls are about units, the other calls about files or nothing.
Calls == {"enable", "disable", "disable --now", "start", "stop", "restart",
          "re-enable", "re-start"}

Step == [do : Calls, on : SUBSET Units]
        \cup [do : {"preflight", "ask", "lock", "unlock", "status", "migrate",
                    "write", "update", "rewrite", "remove"}, on : SUBSET Files]

\* _service_state: what systemctl says before an upgrade.
ServiceState == [enabled : BOOLEAN, active : BOOLEAN]

Op == [cmd     : Commands \cup {"none"},
       todo    : Seq(Step),
       release : 0 .. Len(Releases),    \* the code the command runs
       before  : [Daemons -> ServiceState],
       saved   : [Files -> Contents],   \* backups of an upgrade, Absent for none
       first   : [Files -> Contents],   \* history: the files when an upgrade began
       alone   : BOOLEAN,               \* history: no other command overlapped it
       missed  : SUBSET Files,          \* history: files its recovery failed to rewrite
       result  : {"none", "ok", "failed", "killed"}]

Daemon == [state : {"down", "starting", "up"}, release : 0 .. Len(Releases)]

LifecycleTypeOK ==
    /\ MigrationTypeOK
    /\ package \in 1 .. Len(Releases)
    /\ files \in [Files -> Contents]
    /\ enabled \subseteq Units
    /\ daemon \in [Daemons -> Daemon]
    /\ lock \in Admins \cup {Nobody}
    /\ op \in [Admins -> Op]
    /\ disturbed \in BOOLEAN
    /\ used \in [command : Nat, trouble : Nat]

-----------------------------------------------------------------------------
(* The steps of each command *)

All(do, on) == <<[do |-> do, on |-> on]>>
Just(do) == All(do, {})
Each(do, order) == [i \in DOMAIN order |-> [do |-> do, on |-> {order[i]}]]

Locked(steps) == Just("lock") \o steps \o Just("unlock")

Install(enable, start) ==
    Just("preflight")
    \o Locked(Each("write", UnitOrder \o <<Launcher>>) \o Just("migrate")
              \o (IF enable THEN All("enable", Units) ELSE <<>>)
              \o (IF start THEN All("start", Daemons) ELSE <<>>))

Faulty_Uninstall ==
    Just("preflight")
    \o Locked(Each("remove", UnitOrder \o <<Launcher>>)
              \o All("disable --now", Units))

Uninstall ==
    Just("preflight")
    \o Locked(All("disable --now", Units)
              \o Each("remove", UnitOrder \o <<Launcher>>))

\* _restore_service_states
RestoreStates == Each("re-enable", StartOrder) \o Each("re-start", StartOrder)

Upgrade ==
    Just("preflight") \o Each("ask", StartOrder)
    \o Locked(Just("status") \o Each("update", UnitOrder) \o Just("migrate")
              \o RestoreStates)

\* What follows an exception in the locked part of an upgrade; the lock has been
\* released by then.
Recovery == Each("rewrite", UnitOrder) \o RestoreStates

Program(cmd) ==
    CASE cmd = "install"             -> Install(TRUE, TRUE)
      [] cmd = "install --no-start"  -> Install(TRUE, FALSE)
      [] cmd = "install --no-enable" -> Install(FALSE, TRUE)
      [] cmd = "uninstall"           -> Uninstall
      [] cmd = "upgrade"             -> Upgrade
      [] cmd = "enable"              -> Locked(All("enable", Units))
      [] cmd = "disable"             -> Locked(All("disable", Units))
      [] cmd = "start"               -> Locked(Each("start", StartOrder))
      [] cmd = "stop"                -> Locked(Each("stop", Reverse(StartOrder)))
      [] cmd = "restart"             -> Locked(All("restart", Daemons))

-----------------------------------------------------------------------------

Active(p) == op[p].todo # <<>>
Current(p) == Head(op[p].todo)
At(p, do) == Active(p) /\ Current(p).do = do

NotYetLocked(p) == \E i \in DOMAIN op[p].todo : op[p].todo[i].do = "lock"
Recovering(p) == op[p].cmd = "upgrade" /\ ~\E i \in DOMAIN op[p].todo :
                                              op[p].todo[i].do = "unlock"
InLockedPart(p) == Active(p) /\ ~NotYetLocked(p) /\ ~Recovering(p)

IdleOp == [cmd |-> "none", todo |-> <<>>, release |-> 0,
           before |-> [s \in Daemons |-> [enabled |-> FALSE, active |-> FALSE]],
           saved |-> [f \in Files |-> Absent], first |-> [f \in Files |-> Absent],
           alone |-> TRUE, missed |-> {}, result |-> "none"]

Over(p, how) == [IdleOp EXCEPT !.missed = op[p].missed, !.result = how]

\* The command goes on with its next step, or is over.
Advanced(p) ==
    IF Len(op[p].todo) > 1 THEN [op[p] EXCEPT !.todo = Tail(@)]
    ELSE Over(p, IF Recovering(p) THEN "failed" ELSE "ok")

\* An exception: an upgrade that has come to its lock starts to recover, but
\* inside the recovery only a rewrite is guarded against another failure.
AfterFailure(p) ==
    CASE At(p, "rewrite") -> [Advanced(p) EXCEPT !.missed = @ \cup Current(p).on]
      [] op[p].cmd = "upgrade" /\ ~Recovering(p)
            /\ (At(p, "lock") \/ ~NotYetLocked(p)) -> [op[p] EXCEPT !.todo = Recovery]
      [] OTHER -> Over(p, "failed")

LockAfter(p) == IF lock = p THEN Nobody ELSE lock

RaiseIn(p) ==
    /\ op' = [op EXCEPT ![p] = AfterFailure(p)]
    /\ lock' = LockAfter(p)

\* A step that acts on the system.  A recovery does so after it has released the lock,
\* a command whose lock file is gone without knowing: both may disturb another one.
Acts(p) ==
    /\ op' = [op EXCEPT ![p] = Advanced(p)]
    /\ disturbed' = (disturbed \/ (lock # p /\ ~op[p].alone))

untouched == <<db, faults, package, used>>

-----------------------------------------------------------------------------
(* Commands begin, look around and take the lock *)

Begin(p, cmd) ==
    /\ ~Active(p)
    /\ used.command < MaxCommands
    /\ used' = [used EXCEPT !.command = @ + 1]
    /\ LET others == {q \in Admins \ {p} : Active(q)}
       IN op' = [q \in Admins |->
                   IF q = p
                   THEN [IdleOp EXCEPT !.cmd = cmd, !.todo = Program(cmd),
                                       !.release = package, !.alone = others = {},
                                       !.first = IF cmd = "upgrade" THEN files ELSE @]
                   ELSE IF q \in others THEN [op[q] EXCEPT !.alone = FALSE] ELSE op[q]]
    /\ UNCHANGED <<migrationVars, package, files, enabled, daemon, lock, disturbed>>

\* _check_unit_conflicts and _check_database_schema: the blocking issues that
\* the other commands and services can bring about.
Conflict == \E u \in Units : files[u] = Foreign
Unsupported(p) == \/ CurrentVersion(db) > Releases[op[p].release]
                  \/ db.versions = {} /\ ~db.fits

Preflight(p) ==
    /\ At(p, "preflight")
    /\ IF Conflict \/ Unsupported(p)
       THEN RaiseIn(p)
       ELSE op' = [op EXCEPT ![p] = Advanced(p)] /\ UNCHANGED lock
    /\ UNCHANGED <<untouched, run, files, enabled, daemon, disturbed>>

\* A daemon that starts is active from its fork on, and not yet in the pause before a
\* restart.
Ask(p) ==
    /\ At(p, "ask")
    /\ LET s == CHOOSE d \in Daemons : Current(p).on = {d}
       IN \E active \in CASE daemon[s].state = "up"   -> {TRUE}
                          [] daemon[s].state = "down" -> {FALSE}
                          [] OTHER                    -> BOOLEAN :
             op' = [op EXCEPT ![p] =
                      [Advanced(p) EXCEPT !.before[s] = [enabled |-> s \in enabled,
                                                         active  |-> active]]]
    /\ UNCHANGED <<untouched, run, files, enabled, daemon, lock, disturbed>>

\* Opening the file, creating it if it is gone, and locking it are one step.
TakeLock(p) ==
    /\ At(p, "lock")
    /\ IF lock = Nobody
       THEN lock' = p /\ op' = [op EXCEPT ![p] = Advanced(p)]
       ELSE RaiseIn(p)
    /\ UNCHANGED <<untouched, run, files, enabled, daemon, disturbed>>

Unlock(p) ==
    /\ At(p, "unlock")
    /\ lock' = LockAfter(p)
    /\ op' = [op EXCEPT ![p] = Advanced(p)]
    /\ UNCHANGED <<untouched, run, files, enabled, daemon, disturbed>>

Status(p) ==
    /\ At(p, "status")
    /\ IF Unsupported(p)
       THEN RaiseIn(p)
       ELSE op' = [op EXCEPT ![p] = Advanced(p)] /\ UNCHANGED lock
    /\ UNCHANGED <<untouched, run, files, enabled, daemon, disturbed>>

-----------------------------------------------------------------------------
(* Unit files and the launcher *)

File(p) == CHOOSE f \in Files : Current(p).on = {f}

\* _atomic_write_managed
Refused(p) == files[File(p)] = Foreign

Faulty_Saved(p) == IF At(p, "update") /\ op[p].saved = IdleOp.saved
                   THEN [op[p].saved EXCEPT ![File(p)] = files[File(p)]]
                   ELSE op[p].saved

Saved(p) == IF At(p, "update")
            THEN [op[p].saved EXCEPT ![File(p)] = files[File(p)]]
            ELSE op[p].saved

WriteFile(p) ==
    /\ At(p, "write") \/ At(p, "update")
    /\ ~Refused(p)
    /\ files' = [files EXCEPT ![File(p)] = op[p].release]
    /\ op' = [op EXCEPT ![p] = [Advanced(p) EXCEPT !.saved = Saved(p)]]
    /\ disturbed' = (disturbed \/ (lock # p /\ ~op[p].alone))
    /\ UNCHANGED <<untouched, run, enabled, daemon, lock>>

RefuseFile(p) ==
    /\ At(p, "write") \/ At(p, "update")
    /\ Refused(p)
    /\ RaiseIn(p)
    /\ UNCHANGED <<untouched, run, files, enabled, daemon, disturbed>>

\* A unit that was written and had been there gets its content back.
Rewritten(p) == op[p].saved[File(p)] # Absent /\ ~Refused(p)

Rewrite(p) ==
    /\ At(p, "rewrite")
    /\ files' = IF Rewritten(p)
                THEN [files EXCEPT ![File(p)] = op[p].saved[File(p)]] ELSE files
    /\ IF Rewritten(p)
       THEN Acts(p)
       ELSE op' = [op EXCEPT ![p] = Advanced(p)] /\ UNCHANGED disturbed
    /\ UNCHANGED <<untouched, run, enabled, daemon, lock>>

\* A unit is removed whoever wrote it, the launcher if it is this project's.
Removable(p) == File(p) \in Units \/ files[File(p)] # Foreign

RemoveFile(p) ==
    /\ At(p, "remove")
    /\ files' = IF Removable(p) THEN [files EXCEPT ![File(p)] = Absent] ELSE files
    /\ Acts(p)
    /\ UNCHANGED <<untouched, run, enabled, daemon, lock>>

-----------------------------------------------------------------------------
(* systemctl, which fails for a unit that has no file *)

On(p) == Current(p).on
Known(p) == \A u \in On(p) : files[u] # Absent

\* A daemon that is started runs the installed release, from its migration on.
Started == [state |-> "starting", release |-> package]
Down == [state |-> "down", release |-> 0]

\* What a stop of these units leaves of the lock: the runtime directory goes with the
\* first of them that was running.
LockAfterStop(S) ==
    IF \E s \in Daemons \cap S : daemon[s].state # "down" THEN Nobody ELSE lock

Start(S) ==
    LET new == {s \in Daemons \cap S : daemon[s].state = "down"}
    IN /\ daemon' = [s \in Daemons |-> IF s \in new THEN Started ELSE daemon[s]]
       /\ run' = [m \in Migrators |-> IF m \in new THEN Opened(Releases[package]) ELSE run[m]]
       /\ UNCHANGED lock

Stop(S) ==
    /\ lock' = LockAfterStop(S)
    /\ daemon' = [s \in Daemons |-> IF s \in S THEN Down ELSE daemon[s]]
    /\ run' = [m \in Migrators |-> IF m \in S THEN NoRun ELSE run[m]]

Systemctl(p) ==
    /\ Known(p)
    /\ Acts(p)
    /\ UNCHANGED <<untouched, files>>

Enable(p) ==
    /\ At(p, "enable")
    /\ Systemctl(p)
    /\ enabled' = enabled \cup On(p)
    /\ UNCHANGED <<run, daemon, lock>>

Disable(p) ==
    /\ At(p, "disable")
    /\ Systemctl(p)
    /\ enabled' = enabled \ On(p)
    /\ UNCHANGED <<run, daemon, lock>>

DisableNow(p) ==
    /\ At(p, "disable --now")
    /\ Systemctl(p)
    /\ enabled' = enabled \ On(p)
    /\ Stop(On(p))

StartUnits(p) ==
    /\ At(p, "start")
    /\ Systemctl(p)
    /\ Start(On(p))
    /\ UNCHANGED enabled

StopUnits(p) ==
    /\ At(p, "stop")
    /\ Systemctl(p)
    /\ Stop(On(p))
    /\ UNCHANGED enabled

RestartUnits(p) ==
    /\ At(p, "restart")
    /\ Systemctl(p)
    /\ lock' = LockAfterStop(On(p))
    /\ daemon' = [s \in Daemons |-> IF s \in On(p) THEN Started ELSE daemon[s]]
    /\ run' = [m \in Migrators |-> IF m \in On(p) THEN Opened(Releases[package]) ELSE run[m]]
    /\ UNCHANGED enabled

Before(p) == op[p].before[CHOOSE s \in Daemons : On(p) = {s}]

ReEnable(p) ==
    /\ At(p, "re-enable")
    /\ Systemctl(p)
    /\ enabled' = IF Before(p).enabled THEN enabled \cup On(p) ELSE enabled \ On(p)
    /\ UNCHANGED <<run, daemon, lock>>

ReStart(p) ==
    /\ At(p, "re-start")
    /\ Systemctl(p)
    /\ IF Before(p).active THEN Start(On(p)) ELSE Stop(On(p))
    /\ UNCHANGED enabled

UnknownUnit(p) ==
    /\ \E do \in Calls : At(p, do)
    /\ ~Known(p)
    /\ RaiseIn(p)
    /\ UNCHANGED <<untouched, run, files, enabled, daemon, disturbed>>

-----------------------------------------------------------------------------
(* Migrations by a command and by a daemon that starts *)

otherwise == <<package, files, enabled, disturbed, used>>

MigrateStep(m) == Migrate(m) \/ Busy(m)

OpenByCommand(p) ==
    /\ At(p, "migrate")
    /\ run[p].pc = "idle"
    /\ run' = [run EXCEPT ![p] = Opened(Releases[op[p].release])]
    /\ UNCHANGED <<db, faults, op, daemon, lock, otherwise>>

MigrateByCommand(p) ==
    /\ MigrateStep(p)
    /\ UNCHANGED <<op, daemon, lock, otherwise>>

\* _initialize_database goes on after a sqlite3.DatabaseError, which the taken primary
\* key is, and a database that is busy before the first transaction; a MigrationError,
\* which it is when it is busy in one, is an exception of the command.
GoesOn(r) == \/ r.pc \in {"done", "duplicate"}
             \/ r.pc = "busy" /\ r.next = 0

MigratedByCommand(p) ==
    /\ At(p, "migrate")
    /\ run[p].pc \in {"done", "duplicate", "busy", "refused"}
    /\ run' = [run EXCEPT ![p] = NoRun]
    /\ IF GoesOn(run[p])
       THEN op' = [op EXCEPT ![p] = Advanced(p)] /\ UNCHANGED lock
       ELSE RaiseIn(p)
    /\ UNCHANGED <<untouched, files, enabled, daemon, disturbed>>

MigrateByDaemon(s) ==
    /\ MigrateStep(s)
    /\ UNCHANGED <<op, daemon, lock, otherwise>>

Faulty_Comes(s) == run[s].pc \in {"done", "duplicate"}

\* init_db returns only after a migration that was not interrupted.
Comes(s) == run[s].pc = "done"

ComeUp(s) ==
    /\ Comes(s)
    /\ daemon' = [daemon EXCEPT ![s].state = "up"]
    /\ run' = [run EXCEPT ![s] = NoRun]
    /\ UNCHANGED <<db, faults, op, lock, otherwise>>

\* Restart=always: the next process runs the release that is installed by then.  The
\* runtime directory is removed in between.
StartAgain(s) ==
    /\ run[s].pc \in {"duplicate", "busy", "refused"}
    /\ daemon' = [daemon EXCEPT ![s] = Started]
    /\ run' = [run EXCEPT ![s] = Opened(Releases[package])]
    /\ lock' = Nobody
    /\ UNCHANGED <<db, faults, op, otherwise>>

-----------------------------------------------------------------------------
(* The environment *)

\* pip installs the next release.
InstallWheel ==
    /\ package < Len(Releases)
    /\ package' = package + 1
    /\ UNCHANGED <<migrationVars, files, enabled, daemon, lock, op, disturbed, used>>

Fail(p) ==
    /\ Active(p) /\ ~At(p, "unlock") /\ ~At(p, "ask") /\ ~At(p, "migrate")
    /\ used.trouble < MaxTroubles
    /\ used' = [used EXCEPT !.trouble = @ + 1]
    /\ RaiseIn(p)
    /\ UNCHANGED <<migrationVars, package, files, enabled, daemon, disturbed>>

Faulty_LockAfterKill(p) == lock

\* The kernel drops the lock of a process that is gone.
LockAfterKill(p) == LockAfter(p)

Kill(p) ==
    /\ Active(p)
    /\ used.trouble < MaxTroubles
    /\ used' = [used EXCEPT !.trouble = @ + 1]
    /\ op' = [op EXCEPT ![p] = Over(p, "killed")]
    /\ run' = [run EXCEPT ![p] = NoRun]
    /\ lock' = LockAfterKill(p)
    /\ UNCHANGED <<db, faults, package, files, enabled, daemon, disturbed>>

DaemonDies(s) ==
    /\ daemon[s].state # "down"
    /\ used.trouble < MaxTroubles
    /\ used' = [used EXCEPT !.trouble = @ + 1]
    /\ daemon' = [daemon EXCEPT ![s] = Started]
    /\ run' = [run EXCEPT ![s] = Opened(Releases[package])]
    /\ lock' = Nobody
    /\ UNCHANGED <<db, faults, package, files, enabled, op, disturbed>>

\* The update that a timer started is over and its unit goes dead.
UpdateEnds ==
    /\ lock # Nobody
    /\ \E t \in Range(Timers) : files[t] \notin {Absent, Foreign}
    /\ used.trouble < MaxTroubles
    /\ used' = [used EXCEPT !.trouble = @ + 1]
    /\ lock' = Nobody
    /\ UNCHANGED <<migrationVars, package, files, enabled, daemon, op, disturbed>>

-----------------------------------------------------------------------------

\* A host without the appliance, or with the first release; its timer may be
\* missing or an administrator's own.
Hosts ==
    {[file |-> [f \in Files |-> IF f = Launcher THEN l ELSE Absent], on |-> {}, up |-> {}] :
        l \in {Absent, Foreign}}
    \cup {[file |-> [f \in Files |-> 1], on |-> Units, up |-> Daemons]}
    \cup {[file |-> [f \in Files |-> IF f \in Range(Timers) THEN t ELSE 1],
           on |-> Daemons, up |-> Daemons] : t \in {Absent, Foreign}}

LifecycleInit ==
    \E host \in Hosts :
        /\ MigrationInit
        /\ db.fits /\ ~db.stored /\ ~db.imports
        /\ CurrentVersion(db) = IF host.on = {} THEN 0 ELSE Releases[1]
        /\ package = 1
        /\ files = host.file
        /\ enabled = host.on
        /\ daemon = [s \in Daemons |->
                       IF s \in host.up THEN [state |-> "up", release |-> 1] ELSE Down]
        /\ lock = Nobody
        /\ op = [p \in Admins |-> IdleOp]
        /\ disturbed = FALSE
        /\ used = [command |-> 0, trouble |-> 0]

CommandStep(p) ==
    \/ Preflight(p) \/ Ask(p) \/ TakeLock(p) \/ Unlock(p) \/ Status(p)
    \/ WriteFile(p) \/ RefuseFile(p) \/ Rewrite(p) \/ RemoveFile(p)
    \/ Enable(p) \/ Disable(p) \/ DisableNow(p) \/ StartUnits(p) \/ StopUnits(p)
    \/ RestartUnits(p) \/ ReEnable(p) \/ ReStart(p) \/ UnknownUnit(p)
    \/ OpenByCommand(p) \/ MigrateByCommand(p) \/ MigratedByCommand(p)

DaemonStep(s) == MigrateByDaemon(s) \/ ComeUp(s) \/ StartAgain(s)

LifecycleNext ==
    \/ \E p \in Admins : \/ \E cmd \in Commands : Begin(p, cmd)
                         \/ CommandStep(p) \/ Fail(p) \/ Kill(p)
    \/ \E s \in Daemons : DaemonStep(s) \/ DaemonDies(s)
    \/ InstallWheel \/ UpdateEnds

LifecycleSpec == LifecycleInit /\ [][LifecycleNext]_lifecycleVars

-----------------------------------------------------------------------------
(* Properties *)

\* A daemon that is up found or made the schema its release needs, whoever
\* migrated, raced or died before it came up.
NoDaemonOnOldSchema ==
    \A s \in Daemons :
        daemon[s].state = "up" => CurrentVersion(db) >= Releases[daemon[s].release]

\* Nothing runs or is enabled at boot without its unit file, not after an uninstall that
\* failed or was killed half way, nor after an upgrade, as long as no command acted
\* without the lock while another one overlapped it.  The condition is a real one: a
\* recovery has no lock, and "disable --now" of an uninstall stops units and so removes
\* the lock file before the first unit file is removed.
NothingLeftWithoutUnit ==
    ~disturbed => /\ \A s \in Daemons : daemon[s].state # "down" => files[s] # Absent
                  /\ \A u \in enabled : files[u] # Absent

\* An upgrade that failed, and that no other command overlapped, has given every unit
\* file back the content it had when the upgrade began, whichever call failed; only
\* units that did not exist before and those whose own rewrite failed remain.
FailedUpgradeRestores ==
    [][\A p \in Admins :
          Active(p) /\ op[p].cmd = "upgrade" /\ op[p].alone /\ op'[p].result = "failed"
             => \A u \in Units \ op'[p].missed :
                   op[p].first[u] # Absent => files'[u] = op[p].first[u]]_lifecycleVars

\* The lock never outlives the command that took it: a command that finds it taken is
\* refused because of one that is in its locked part.  A command may be in its locked
\* part without the lock, and even two may be, after a unit has stopped.
LockHolderRuns == \A p \in Admins : lock = p => InLockedPart(p)

=============================================================================
