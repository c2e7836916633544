---------------------------- MODULE LinuxInstaller ----------------------------
(***************************************************************************)
(* The installer of the endpoint's agent, scripts/linux_agent.sh, beside   *)
(* the systemd service it manages and the receipt journal the service      *)
(* migrates.  The script is a process that a signal, SIGKILL or a power    *)
(* failure may end between any two commands.                               *)
(*                                                                         *)
(* A release is its directory under releases/.  A symbolic link is its     *)
(* target; a link that `ln -s` is told to create where there is one to a   *)
(* directory already is created inside that directory.                     *)
(***************************************************************************)
EXTENDS Integers, FiniteSets

CONSTANTS
    Release,   \* source trees the administrator may install
    Supports,  \* the receipt schema each release migrates the journal to
    NONE       \* no such file

ASSUME InstallerAssumption ==
    /\ Supports \in [Release -> Nat \ {0}]
    /\ NONE \notin Release

VARIABLES
    releases,         \* the complete directories under releases/
    strays,           \* the links inside them, <<directory, name>>
    current,          \* the link that the service runs from
    current_new,      \* .current-new
    current_rollback, \* .current-rollback
    unit,             \* the service's unit is installed
    enrolled,         \* agent.json exists
    schema,           \* the receipt journal's schema, 0 when there is none
    service,          \* the release the service runs, or NONE
    held,             \* systemctl stop succeeded, and nothing was started since
    lock,             \* /run/protec-agent-installer.lock exists
    step,             \* where the script stands
    release,          \* its $release
    previous,         \* its $previous
    previous_schema   \* its $previous_receipt_schema

links == <<strays, current, current_new, current_rollback>>
machine == <<unit, enrolled, schema, service, held>>
script == <<lock, step, release, previous, previous_schema>>
installer_vars == <<releases, links, machine, script>>

Step == {"idle", "staging", "staged", "inspected", "linked", "switched",
         "failing", "failed", "rolling_back", "rolled_back",
         "enrolling", "enrolled", "checked_in", "removing"}

InstallerTypeOK ==
    /\ releases \subseteq Release
    /\ strays \subseteq Release \X Release
    /\ {current, current_new, current_rollback} \subseteq Release \cup {NONE}
    /\ {unit, enrolled, held, lock} \subseteq BOOLEAN
    /\ schema \in Nat /\ previous_schema \in Nat
    /\ {service, release, previous} \subseteq Release \cup {NONE}
    /\ step \in Step
    /\ step # "idle" => lock

InstallerInit ==
    /\ releases = {} /\ strays = {}
    /\ current = NONE /\ current_new = NONE /\ current_rollback = NONE
    /\ unit = FALSE /\ enrolled = FALSE /\ schema = 0 /\ service = NONE
    /\ held = FALSE /\ lock = FALSE /\ step = "idle"
    /\ release = NONE /\ previous = NONE /\ previous_schema = 0

-----------------------------------------------------------------------------
(* The surroundings: systemd, the agent, the administrator, accidents.      *)

\* ReceiptJournal.__init__ refuses a journal that is newer than the code.
Opens(r) == Supports[r] >= schema

\* The service is started: it opens and migrates the journal and runs on, or
\* stops again before or after that.
Started(r) ==
    /\ held' = FALSE
    /\ \/ Opens(r) /\ schema' = Supports[r] /\ service' \in {r, NONE}
       \/ UNCHANGED schema /\ service' = NONE

Stopped == service' = NONE /\ held' = TRUE /\ UNCHANGED schema

\* systemd, since Restart=on-failure and the service was not stopped, or the
\* administrator, whom the lock of the script does not hold back.
Restart ==
    /\ unit /\ enrolled /\ current # NONE
    /\ Started(current)
    /\ UNCHANGED <<releases, links, unit, enrolled, script>>

\* The script ends, and its variables with it.
End == step' = "idle" /\ release' = NONE /\ previous' = NONE /\ previous_schema' = 0

Leave == End /\ lock' = FALSE

\* A command fails, or a signal arrives: the trap removes the staging directory
\* and the lock.
Abort ==
    /\ step # "idle"
    /\ Leave
    /\ UNCHANGED <<releases, links, machine>>

\* SIGKILL leaves the lock as well.  A command that outlives the script does
\* what it would have done before: no other script can start until a reboot.
Kill ==
    /\ step # "idle"
    /\ End
    /\ UNCHANGED <<releases, links, machine, lock>>

\* A power failure ends the script too, and /run is empty afterwards.
Reboot ==
    /\ Leave
    /\ IF unit /\ enrolled /\ current # NONE THEN Started(current) ELSE Stopped
    /\ UNCHANGED <<releases, links, unit, enrolled>>

-----------------------------------------------------------------------------
(* install.                                                                 *)

Proceed(s) == step' = s /\ UNCHANGED <<lock, release, previous, previous_schema>>

Install(r) ==
    /\ step = "idle" /\ ~lock
    /\ lock' = TRUE
    /\ step' = "staging"
    /\ release' = r
    /\ UNCHANGED <<releases, links, machine, previous, previous_schema>>

\* A directory of that name holds what was staged, and nothing else.
Same(r) == \A name \in Release : <<r, name>> \notin strays

\* Mutant: what was staged is removed in any case.
Staged_Removed(r) == releases

Staged(r) == releases \cup {r}

Stage ==
    /\ step = "staging"
    /\ release \in releases => Same(release)
    /\ releases' = Staged(release)
    /\ Proceed("staged")
    /\ UNCHANGED <<links, machine>>

\* $previous, $previous_receipt_schema, then manage.sh and the unit.
Inspect ==
    /\ step = "staged"
    /\ previous' = current
    /\ previous_schema' = schema
    /\ unit' = TRUE
    /\ step' = "inspected"
    /\ UNCHANGED <<releases, links, enrolled, schema, service, held, lock, release>>

\* ln -s releases/$target into a link that may be there already.
Link(link, link_next, target) ==
    \/ link = NONE /\ link_next = target /\ UNCHANGED strays
    \/ link # NONE /\ link_next = link /\ <<link, target>> \notin strays
       /\ strays' = strays \cup {<<link, target>>}

LinkNew ==
    /\ step = "inspected"
    /\ Link(current_new, current_new', release)
    /\ Proceed("linked")
    /\ UNCHANGED <<releases, current, current_rollback, machine>>

\* mv -Tf is one rename.
Switch ==
    /\ step = "linked"
    /\ current' = current_new
    /\ current_new' = NONE
    /\ Proceed("switched")
    /\ UNCHANGED <<releases, strays, current_rollback, machine>>

\* The service is restarted and stays up; before enrollment there is nothing
\* to restart.
Activate ==
    /\ step = "switched"
    /\ IF enrolled THEN Started(current) /\ service' # NONE ELSE UNCHANGED <<schema, service, held>>
    /\ Leave
    /\ UNCHANGED <<releases, links, unit, enrolled>>

\* systemd is not reached, or the service does not stay up.
FailActivation ==
    /\ step = "switched"
    /\ \/ UNCHANGED <<schema, service, held>>
       \/ enrolled /\ Started(current)
    /\ Proceed("failing")
    /\ UNCHANGED <<releases, links, unit, enrolled>>

\* systemctl stop || true.
StopService ==
    /\ step = "failing"
    /\ Stopped \/ UNCHANGED <<schema, service, held>>
    /\ Proceed("failed")
    /\ UNCHANGED <<releases, links, unit, enrolled>>

\* Mutant: code is always restored.
SchemaKept_Assumed == TRUE

SchemaKept == schema = previous_schema

\* The journal was migrated, or cannot be read: the new code stays, stopped.
KeepForward ==
    /\ step = "failed"
    /\ Leave
    /\ UNCHANGED <<releases, links, machine>>

LinkRollback ==
    /\ step = "failed" /\ SchemaKept
    /\ previous # NONE
    /\ Link(current_rollback, current_rollback', previous)
    /\ Proceed("rolling_back")
    /\ UNCHANGED <<releases, current, current_new, machine>>

\* Without a previous release there is nothing to go back to.
Disable ==
    /\ step = "failed" /\ SchemaKept
    /\ previous = NONE
    /\ Leave
    /\ UNCHANGED <<releases, links, machine>>

SwitchBack ==
    /\ step = "rolling_back"
    /\ current' = current_rollback
    /\ current_rollback' = NONE
    /\ Proceed("rolled_back")
    /\ UNCHANGED <<releases, strays, current_new, machine>>

StartPrevious ==
    /\ step = "rolled_back"
    /\ IF enrolled THEN Started(current) ELSE Stopped
    /\ Leave
    /\ UNCHANGED <<releases, links, unit, enrolled>>

-----------------------------------------------------------------------------
(* enroll and uninstall.                                                    *)

Enroll ==
    /\ step = "idle" /\ ~lock
    /\ current # NONE /\ ~enrolled
    /\ lock' = TRUE /\ step' = "enrolling"
    /\ UNCHANGED <<releases, links, machine, release, previous, previous_schema>>

\* The agent of the selected release writes its state,
EnrollAgent ==
    /\ step = "enrolling"
    /\ enrolled' = TRUE
    /\ Proceed("enrolled")
    /\ UNCHANGED <<releases, links, unit, schema, service, held>>

\* opens its journal, migrates it, and checks in once;
CheckIn ==
    /\ step = "enrolled"
    /\ Opens(current) /\ schema' = Supports[current]
    /\ Proceed("checked_in")
    /\ UNCHANGED <<releases, links, unit, enrolled, service, held>>

\* then the service is restarted.  Whatever fails before ends the script (Abort).
StartEnrolled ==
    /\ step = "checked_in"
    /\ Started(current)
    /\ Leave
    /\ UNCHANGED <<releases, links, unit, enrolled>>

Uninstall ==
    /\ step = "idle" /\ ~lock
    /\ releases # {} /\ unit
    /\ lock' = TRUE /\ step' = "removing"
    /\ unit' = FALSE
    /\ Stopped
    /\ UNCHANGED <<releases, links, enrolled, release, previous, previous_schema>>

\* rm -rf of /opt/protec-agent.
RemoveCode ==
    /\ step = "removing"
    /\ releases' = {} /\ strays' = {}
    /\ current' = NONE /\ current_new' = NONE /\ current_rollback' = NONE
    /\ Leave
    /\ UNCHANGED machine

InstallerNext ==
    \/ \E r \in Release : Install(r)
    \/ Stage \/ Inspect \/ LinkNew \/ Switch \/ Activate \/ FailActivation \/ StopService
    \/ KeepForward \/ LinkRollback \/ Disable \/ SwitchBack \/ StartPrevious
    \/ Enroll \/ EnrollAgent \/ CheckIn \/ StartEnrolled
    \/ Uninstall \/ RemoveCode
    \/ Restart \/ Abort \/ Kill \/ Reboot

Installer == InstallerInit /\ [][InstallerNext]_installer_vars

-----------------------------------------------------------------------------
(* Properties.                                                              *)

\* Wherever the script is interrupted, what the service runs from is nothing
\* or one complete release, and so are the links it may be switched to.
CurrentComplete == {current, current_new, current_rollback} \subseteq releases \cup {NONE}

\* When the script goes back, what it selects can open the journal as it is then,
\* although the release that failed ran, and may have migrated it, in between: if
\* the previous release could before, if nobody has started the service behind the
\* script and it could be stopped, and if no link of an interrupted fallback is in
\* the way.  There is no fourth way for a fallback to miss its journal.
RollbackOpens ==
    [][step = "rolling_back" /\ step' = "rolled_back" /\ held
         /\ current_rollback = previous /\ Supports[previous] >= previous_schema
           => Opens(current')]_installer_vars

\* docs/LINUX_AGENT.md:42: "A known previous release is restored if service
\* activation fails."  Where that release can open the journal, so can what the
\* script selects in its place.  The code violates this: ln -s does not replace
\* a .current-rollback that is there, and mv -Tf selects what that one names.
PreviousRestored ==
    [][step = "rolling_back" /\ step' = "rolled_back" /\ Opens(previous)
         => Opens(current')]_installer_vars
=============================================================================
