---------------------------- MODULE EndpointProofs ----------------------------
(* Theorems about what runs at an endpoint: Enrollment, for any number of     *)
(* tokens, devices, places and processes and any lifetime, LinuxInstaller,    *)
(* and AptPreview, for any packages, sources, requests and policies.          *)
EXTENDS Enrollment, LinuxInstaller, AptPreview, FiniteSetTheorems, SequenceTheorems, TLAPS


-----------------------------------------------------------------------------
(* Tokens.                                                                  *)

\* A device goes back to a token that is used, and to one of its own.
TokenInv ==
    /\ used \in [Token -> {0, 1, -1, NULL}]
    /\ origin \in [Device -> Token \cup {NULL}]
    /\ \A d \in Device : origin[d] # NULL => used[origin[d]] = 1
    /\ \A d, e \in Device : origin[d] # NULL /\ origin[d] = origin[e] => d = e

\* Only three requests write to either table.
LEMMA TablesAside ==
    Next => \/ UNCHANGED <<used, origin>>
            \/ \E t \in Token : enrollment(t) \/ revoke_enrollment(t)
            \/ \E t \in Token, p \in Process \cup {NULL} : enroll(p, t)
BY DEF Next, Tick, Request, revoke, StartEnrolling, Receive, OpenState, WriteState, Load,
       OpenJournal, Stop, Retire, RemoveState, server

LEMMA TokenInitially == Init => TokenInv
BY DEF Init, TokenInv

LEMMA TokenKept == TokenInv /\ [Next]_vars => TokenInv'
<1> SUFFICES ASSUME TokenInv, [Next]_vars PROVE TokenInv'
    OBVIOUS
<1> USE EnrollmentAssumption DEF TokenInv
<1>1. CASE UNCHANGED <<used, origin>>
    BY <1>1
<1>2. ASSUME NEW t \in Token, enrollment(t) \/ revoke_enrollment(t) PROVE TokenInv'
    <2>1. \A d \in Device : origin[d] # t
        BY <1>2 DEF enrollment, revoke_enrollment, Revocable
    <2>2. origin' = origin /\ \E u \in {0, -1} : used' = [used EXCEPT ![t] = u]
        BY <1>2 DEF enrollment, revoke_enrollment
    <2> QED BY <2>1, <2>2
<1>3. ASSUME NEW t \in Token, NEW p \in Process \cup {NULL}, enroll(p, t) PROVE TokenInv'
    <2>1. CASE UNCHANGED <<used, origin>>
        BY <2>1
    <2>2. CASE ~UNCHANGED <<used, origin>>
        <3>1. used[t] = 0 /\ used' = [used EXCEPT ![t] = 1]
            BY <1>3, <2>2 DEF enroll, Usable
        <3>2. PICK d \in Device : origin[d] = NULL /\ origin' = [origin EXCEPT ![d] = t]
            BY <1>3, <2>2 DEF enroll
        <3>3. \A e \in Device : origin[e] # t
            BY <3>1
        <3> QED BY <3>1, <3>2, <3>3
    <2> QED BY <2>1, <2>2
<1>4. CASE UNCHANGED vars
    BY <1>4 DEF vars, server
<1> QED BY <1>1, <1>2, <1>3, <1>4, TablesAside

\* However tokens are shared, revoked and used late, a token makes one device
\* and a revoked one none: Store.enroll and Store.revoke_enrollment.
THEOREM TokensMakeOneDevice == Spec => []OneDevicePerToken
<1>1. TokenInv => OneDevicePerToken
    BY EnrollmentAssumption DEF TokenInv, OneDevicePerToken
<1> QED BY <1>1, TokenInitially, TokenKept, PTL DEF Spec

-----------------------------------------------------------------------------
(* Places.                                                                  *)

\* Whoever runs at a place runs under the identity its journal is bound to.
BoundInv ==
    /\ phase \in [Process -> Phase]
    /\ identity \in [Process -> Device \cup {NULL}]
    /\ journal \in [Home -> Device \cup {NULL}]
    /\ \A p \in Process : phase[p] = "loaded" => identity[p] \in Device
    /\ \A p \in Process :
          phase[p] = "running" => identity[p] \in Device /\ journal[home[p]] = identity[p]

LEMMA BoundInitially == Init => BoundInv
BY DEF Init, BoundInv, Phase

LEMMA BoundKept == BoundInv /\ [Next]_vars => BoundInv'
<1> SUFFICES ASSUME BoundInv, [Next]_vars PROVE BoundInv'
    OBVIOUS
<1> USE EnrollmentAssumption DEF BoundInv, Phase
<1>1. ASSUME NEW t \in Token, \/ enrollment(t) \/ revoke_enrollment(t)
                              \/ \E p \in Process \cup {NULL} : enroll(p, t)
      PROVE BoundInv'
    BY <1>1 DEF enrollment, revoke_enrollment, enroll, endpoint
<1>2. ASSUME NEW d \in Device, revoke(d) PROVE BoundInv'
    BY <1>2 DEF revoke, endpoint
<1>3. ASSUME NEW p \in Process, NEW t \in Token, Request(p, t) PROVE BoundInv'
    BY <1>3 DEF Request, Goto
<1>4. ASSUME NEW p \in Process, NEW d \in Device \cup {NULL}, Receive(p, d) PROVE BoundInv'
    BY <1>4 DEF Receive, Goto, Exit
<1>5. ASSUME NEW p \in Process, StartEnrolling(p) \/ OpenState(p) \/ WriteState(p) \/ Stop(p)
      PROVE BoundInv'
    BY <1>5 DEF StartEnrolling, OpenState, WriteState, Stop, Goto, Exit
<1>6. ASSUME NEW p \in Process, Load(p) PROVE BoundInv'
    BY <1>6 DEF Load, Goto, Exit
<1>7. ASSUME NEW p \in Process, OpenJournal(p) PROVE BoundInv'
    <2>1. CASE Binds(home[p], identity[p])
        <3>1. identity[p] \in Device /\ home[p] \in Home /\ journal[home[p]] \in {NULL, identity[p]}
            BY <1>7, <2>1 DEF OpenJournal, Binds
        <3>2. /\ phase' = [phase EXCEPT ![p] = "running"] /\ identity' = identity
              /\ journal' = [journal EXCEPT ![home[p]] = identity[p]]
            BY <1>7, <2>1 DEF OpenJournal, Goto
        <3> QED BY <3>1, <3>2
    <2>2. CASE ~Binds(home[p], identity[p])
        BY <1>7, <2>2 DEF OpenJournal, Goto, Exit
    <2> QED BY <2>1, <2>2
<1>8. ASSUME NEW h \in Home, Retire(h) \/ RemoveState(h) PROVE BoundInv'
    BY <1>8 DEF Retire, RemoveState
<1>9. CASE Tick \/ UNCHANGED vars
    BY <1>9 DEF Tick, vars, endpoint
<1> QED BY <1>1, <1>2, <1>3, <1>4, <1>5, <1>6, <1>7, <1>8, <1>9 DEF Next

\* Agents that run on one place run for one device, whatever is removed and
\* enrolled under them: ReceiptJournal.__init__ binds for good.
THEOREM PlacesHaveOneIdentity == Spec => []OneIdentityPerHome
<1>1. BoundInv => OneIdentityPerHome
    BY DEF BoundInv, OneIdentityPerHome
<1> QED BY <1>1, BoundInitially, BoundKept, PTL DEF Spec

-----------------------------------------------------------------------------
(* The installer: what is selected is a complete release, and where a       *)
(* fallback meets a journal it cannot open, one of three causes is there.   *)

\* The steps of install from Stage on.
Installing == {"staged", "inspected", "linked", "switched", "failing", "failed",
               "rolling_back", "rolled_back"}

\* What a running installation has built, and what it may go back to, is there.
Standing ==
    /\ release \in Release \cup {NONE}
    /\ step = "staging" => release \in Release
    /\ step \in Installing => release \in releases
    /\ previous \in releases \cup {NONE}
    /\ step \in {"idle", "enrolling", "enrolled", "checked_in", "removing"} => previous = NONE

\* No release is taken away from under an installation, nor is what was selected.
Complete == CurrentComplete /\ Standing

\* From the comparison on, nothing migrates the journal while the service is held.
Unmigrated == step = "rolling_back" /\ held => schema = previous_schema

-----------------------------------------------------------------------------

LEMMA LinkEffect ==
    ASSUME NEW link, NEW link_next, NEW target, Link(link, link_next, target)
    PROVE  link_next \in {link, target}
BY DEF Link

LEMMA CompleteAtFirst == InstallerInit => Complete
BY DEF InstallerInit, Complete, CurrentComplete, Standing, Installing

\* The commands that build and switch links.
LEMMA CommandsKeepComplete ==
    ASSUME Complete,
           \/ Stage \/ Inspect \/ LinkNew \/ Switch \/ LinkRollback \/ SwitchBack
    PROVE  Complete'
<1> USE DEF Complete, CurrentComplete, Standing, Installing
<1>1. CASE Stage
    BY <1>1 DEF Stage, Staged, Proceed, links, machine
<1>2. CASE Inspect
    BY <1>2 DEF Inspect, links
<1>3. CASE LinkNew
    <2>1. current_new' \in {current_new, release}
        BY <1>3, LinkEffect DEF LinkNew
    <2> QED BY <1>3, <2>1 DEF LinkNew, Proceed, machine
<1>4. CASE Switch
    BY <1>4 DEF Switch, Proceed, machine
<1>5. CASE LinkRollback
    <2>1. current_rollback' \in {current_rollback, previous}
        BY <1>5, LinkEffect DEF LinkRollback
    <2> QED BY <1>5, <2>1 DEF LinkRollback, Proceed, machine
<1>6. CASE SwitchBack
    BY <1>6 DEF SwitchBack, Proceed, machine
<1> QED BY <1>1, <1>2, <1>3, <1>4, <1>5, <1>6

LEMMA StepsKeepComplete ==
    ASSUME Complete, [InstallerNext]_installer_vars
    PROVE  Complete'
<1> USE DEF Complete, CurrentComplete, Standing, Installing
<1>1. ASSUME NEW r \in Release, Install(r) PROVE Complete'
    BY <1>1, InstallerAssumption DEF Install, links, machine
<1>2. CASE Activate \/ KeepForward \/ Disable \/ StartPrevious
    BY <1>2 DEF Activate, KeepForward, Disable, StartPrevious, Leave, End, links, machine
<1>3. CASE FailActivation \/ StopService
    BY <1>3 DEF FailActivation, StopService, Proceed, links
<1>4. CASE Abort \/ Kill \/ Reboot
    BY <1>4 DEF Abort, Kill, Reboot, Leave, End, links, machine
<1>5. CASE Enroll \/ EnrollAgent \/ CheckIn \/ StartEnrolled \/ Restart
    BY <1>5 DEF Enroll, EnrollAgent, CheckIn, StartEnrolled, Restart, Leave, End, Proceed, links, script
<1>6. CASE Uninstall
    BY <1>6 DEF Uninstall, links
<1>7. CASE RemoveCode
    BY <1>7 DEF RemoveCode, Leave, End
<1>8. CASE UNCHANGED installer_vars
    BY <1>8 DEF installer_vars, links, script
<1> QED
    BY <1>1, <1>2, <1>3, <1>4, <1>5, <1>6, <1>7, <1>8, CommandsKeepComplete DEF InstallerNext

\* Wherever install, its fallback or uninstall of linux_agent.sh is interrupted,
\* the links name complete releases, those left behind by an earlier run included.
THEOREM SelectedIsComplete == Installer => []CurrentComplete
<1>1. Complete => CurrentComplete
    BY DEF Complete
<1> QED BY <1>1, CompleteAtFirst, StepsKeepComplete, PTL DEF Installer

-----------------------------------------------------------------------------

LEMMA StepsKeepUnmigrated ==
    ASSUME Unmigrated, [InstallerNext]_installer_vars
    PROVE  Unmigrated'
<1> USE DEF Unmigrated
<1>1. ASSUME NEW r \in Release, Install(r) PROVE Unmigrated'
    BY <1>1 DEF Install
<1>2. CASE Stage \/ Inspect \/ LinkNew \/ Switch \/ FailActivation \/ StopService \/ SwitchBack
    BY <1>2 DEF Stage, Inspect, LinkNew, Switch, FailActivation, StopService, SwitchBack, Proceed
<1>3. CASE LinkRollback
    BY <1>3 DEF LinkRollback, SchemaKept, Proceed, machine
<1>4. CASE Activate \/ KeepForward \/ Disable \/ StartPrevious \/ RemoveCode
    BY <1>4 DEF Activate, KeepForward, Disable, StartPrevious, RemoveCode, Leave, End
<1>5. CASE Abort \/ Kill \/ Reboot
    BY <1>5 DEF Abort, Kill, Reboot, Leave, End
<1>6. CASE Enroll \/ EnrollAgent \/ CheckIn \/ StartEnrolled
    BY <1>6 DEF Enroll, EnrollAgent, CheckIn, StartEnrolled, Leave, End, Proceed
<1>7. CASE Restart
    BY <1>7 DEF Restart, Started
<1>8. CASE Uninstall
    BY <1>8 DEF Uninstall
<1>9. CASE UNCHANGED installer_vars
    BY <1>9 DEF installer_vars, machine, script
<1> QED
    BY <1>1, <1>2, <1>3, <1>4, <1>5, <1>6, <1>7, <1>8, <1>9 DEF InstallerNext

\* A fallback opens the journal, unless the previous release could not before, the
\* service was started or could not be stopped, or a link of an interrupted
\* fallback was in the way: what the comparison of linux_agent.sh:158-159 is worth.
THEOREM FallbackFindsItsJournal == Installer => RollbackOpens
<1>1. InstallerInit => Unmigrated
    BY DEF InstallerInit, Unmigrated
<1>2. ASSUME Unmigrated, InstallerNext, step = "rolling_back", step' = "rolled_back", held,
             current_rollback = previous, Supports[previous] >= previous_schema
      PROVE  Opens(current')
    <2>1. SwitchBack
        BY <1>2 DEF InstallerNext, Install, Stage, Inspect, LinkNew, Switch, Activate,
            FailActivation, StopService, KeepForward, LinkRollback, Disable, StartPrevious, Enroll,
            EnrollAgent, CheckIn, StartEnrolled, Uninstall, RemoveCode, Restart, Abort, Kill,
            Reboot, Leave, End, Proceed, script
    <2>2. current' = previous /\ schema = previous_schema
        BY <1>2, <2>1 DEF SwitchBack, Unmigrated
    <2> QED BY <1>2, <2>2 DEF Opens
<1>3. Unmigrated /\ [InstallerNext]_installer_vars =>
        [step = "rolling_back" /\ step' = "rolled_back" /\ held
           /\ current_rollback = previous /\ Supports[previous] >= previous_schema
             => Opens(current')]_installer_vars
    BY <1>2
<1> QED BY <1>1, <1>3, StepsKeepUnmigrated, PTL DEF Installer, RollbackOpens

-----------------------------------------------------------------------------
(* What APT resolves and prints.                                            *)

States == [Package -> 0..VERSIONS]

\* A package that is offered at all is offered in a newest version.
LEMMA NewestIsOffered ==
    ASSUME NEW s \in Sources, NEW p \in Package, Offered(s, p) # {}
    PROVE  Newest(s, p) \in 1..VERSIONS
<1> DEFINE Upward == {x .. VERSIONS : x \in Offered(s, p)}
<1>1. VERSIONS \in Nat /\ Offered(s, p) \subseteq 1..VERSIONS
    BY PreviewAssumption DEF Offered, Version
<1>2. IsFiniteSet(1..VERSIONS)
    BY <1>1, FS_Interval
<1>3. Upward # {} /\ Upward \subseteq FiniteSubsetsOf(1..VERSIONS)
    BY <1>1, <1>2, FS_FiniteSubsetsOfFinite
<1>4. IsWellFoundedOn(StrictSubsetOrdering(1..VERSIONS), FiniteSubsetsOf(1..VERSIONS))
    BY FS_StrictSubsetOrderingWellFounded
<1> HIDE DEF Upward
<1>5. PICK U \in Upward : \A V \in Upward : <<V, U>> \notin StrictSubsetOrdering(1..VERSIONS)
    BY <1>3, <1>4, WFMin
<1>6. PICK v \in Offered(s, p) : U = v .. VERSIONS
    BY <1>5 DEF Upward
<1>7. ASSUME NEW u \in Offered(s, p) PROVE u <= v
    <2> SUFFICES ASSUME v < u PROVE FALSE
        BY <1>1
    <2>1. u .. VERSIONS \in Upward
        BY DEF Upward
    <2>2. /\ u .. VERSIONS \subseteq U /\ v \in U /\ v \notin u .. VERSIONS
          /\ U \subseteq 1..VERSIONS
        BY <1>1, <1>6
    <2>3. <<u .. VERSIONS, U>> \in StrictSubsetOrdering(1..VERSIONS)
        BY <2>2 DEF StrictSubsetOrdering
    <2> QED BY <1>5, <2>1, <2>3
<1> QED BY <1>1, <1>7 DEF Newest

\* A request that resolves leads to a package state, with what was asked for.
LEMMA ResolutionIs ==
    ASSUME NEW h \in States, NEW s \in Sources, NEW r \in Requests, Resolves(h, s, r)
    PROVE  Resolution(h, s, r) \in States /\ Resolution(h, s, r)[r.name] = r.version
<1>1. /\ r.action \in {"install", "remove"} /\ r.name \in Package /\ r.version \in 0..VERSIONS
      /\ r.action = "remove" => r.version = 0
      /\ VERSIONS \in Nat
      /\ r.name \notin Needs[r.name]
    BY PreviewAssumption
<1>2. ASSUME NEW p \in Package PROVE Resolution(h, s, r)[p] \in 0..VERSIONS
    <2>1. h[p] \in 0..VERSIONS
        BY DEF States
    <2>2. CASE r.action = "install" /\ p # r.name /\ p \in Missing(h, r)
        <3>1. Newest(s, p) \in 1..VERSIONS
            BY <2>2, NewestIsOffered DEF Resolves
        <3>2. Resolution(h, s, r)[p] = Newest(s, p)
            BY <2>2 DEF Resolution
        <3> QED BY <1>1, <3>1, <3>2
    <2>3. CASE r.action = "install" /\ p = r.name
        <3>1. Resolution(h, s, r)[p] = r.version
            BY <1>1, <2>3 DEF Resolution, Missing
        <3> QED BY <1>1, <3>1
    <2>4. CASE r.action = "install" /\ p # r.name /\ p \notin Missing(h, r)
        <3>1. Resolution(h, s, r)[p] = h[p]
            BY <2>4 DEF Resolution
        <3> QED BY <2>1, <3>1
    <2>5. CASE r.action = "remove" /\ (p = r.name \/ r.name \in Needs[p])
        <3>1. Resolution(h, s, r)[p] = 0
            BY <2>5 DEF Resolution
        <3> QED BY <1>1, <3>1
    <2>6. CASE r.action = "remove" /\ ~(p = r.name \/ r.name \in Needs[p])
        <3>1. Resolution(h, s, r)[p] = h[p]
            BY <2>6 DEF Resolution
        <3> QED BY <2>1, <3>1
    <2> QED BY <1>1, <2>2, <2>3, <2>4, <2>5, <2>6
<1>3. Resolution(h, s, r)[r.name] = r.version
    <2>1. CASE r.action = "install"
        <3>1. PICK p \in Package : p = r.name
            BY <1>1
        <3>2. Resolution(h, s, r)[p] = r.version
            BY <1>1, <2>1, <3>1 DEF Resolution, Missing
        <3> QED BY <3>1, <3>2
    <2>2. CASE r.action = "remove"
        <3>1. Resolution(h, s, r)[r.name] = 0
            BY <1>1, <2>2 DEF Resolution
        <3> QED BY <1>1, <2>2, <3>1
    <2> QED BY <1>1, <2>1, <2>2
<1> QED BY <1>2, <1>3 DEF Resolution, States

\* What changes between two package states is finite.
LEMMA ChangesFinite ==
    ASSUME NEW h, NEW t
    PROVE  /\ IsFiniteSet(Changes(h, t))
           /\ \A c \in Changes(h, t) : c.name \in Package
<1> DEFINE name == [c \in Changes(h, t) |-> c.name]
<1>1. \A c \in Changes(h, t) : c.name \in Package
    BY DEF Changes
<1>2. name \in Injection(Changes(h, t), Package)
    <2>1. \A c, d \in Changes(h, t) : c.name = d.name => c = d
        BY DEF Changes
    <2> QED BY <1>1, <2>1 DEF Injection, IsInjective
<1>3. IsFiniteSet(Package)
    BY PreviewAssumption
<1> QED BY <1>1, <1>2, <1>3, FS_Injection

\* A finite set of changes is the whole one when its counts are.
LEMMA CountsTell ==
    ASSUME NEW cs, IsFiniteSet(cs), NEW some \in SUBSET cs, Counts(some) = Counts(cs)
    PROVE  some = cs
<1>1. /\ Cardinality(Upgraded(some)) = Cardinality(Upgraded(cs))
      /\ Cardinality(Installed(some)) = Cardinality(Installed(cs))
      /\ Cardinality(Removed(some)) = Cardinality(Removed(cs))
    BY DEF Counts
<1>2. /\ Upgraded(some) \subseteq Upgraded(cs) /\ Upgraded(cs) \subseteq cs
      /\ Installed(some) \subseteq Installed(cs) /\ Installed(cs) \subseteq cs
      /\ Removed(some) \subseteq Removed(cs) /\ Removed(cs) \subseteq cs
    BY DEF Upgraded, Installed, Removed
<1>3. IsFiniteSet(Upgraded(cs)) /\ IsFiniteSet(Installed(cs)) /\ IsFiniteSet(Removed(cs))
    BY <1>2, FS_Subset
<1>4. /\ Upgraded(some) = Upgraded(cs) /\ Installed(some) = Installed(cs)
      /\ Removed(some) = Removed(cs)
    BY <1>1, <1>2, <1>3, FS_Subset
<1>5. ASSUME NEW c \in cs PROVE c \in some
    BY <1>4 DEF Upgraded, Installed, Removed
<1> QED BY <1>5

LEMMA SequenceOfSet == ASSUME NEW S, IsFiniteSet(S) PROVE SetToSeq(S) \in Seq(S)
<1>1. PICK f : f \in Bijection(1..Cardinality(S), S)
    BY FS_CardinalityType DEF ExistsBijection
<1>2. f \in [1..Cardinality(S) -> S] /\ IsInjective(f) /\ Cardinality(S) \in Nat
    BY <1>1, FS_CardinalityType DEF Bijection, Injection
<1>3. SetToSeq(S) \in [1..Cardinality(S) -> S]
    BY <1>2 DEF SetToSeq
<1> QED BY <1>2, <1>3, SeqDef

\* The lines APT may print about some changes, in any order and number.
Printed(cs) ==
    {[kind |-> "Summary", counts |-> Counts(cs)]}
    \cup {[kind |-> "Remv", change |-> c] : c \in Removed(cs)}
    \cup {[kind |-> "Inst", change |-> c] : c \in Configured(cs)}
    \cup {[kind |-> "Conf", name |-> c.name, version |-> c.after] : c \in Configured(cs)}

LEMMA LinesArePrinted ==
    ASSUME NEW cs, IsFiniteSet(cs)
    PROVE  Lines(cs) \in Seq(Printed(cs))
<1> DEFINE Remv == {[kind |-> "Remv", change |-> c] : c \in Removed(cs)}
           Inst == {[kind |-> "Inst", change |-> c] : c \in Configured(cs)}
           Conf == {[kind |-> "Conf", name |-> c.name, version |-> c.after] : c \in Configured(cs)}
           first == <<[kind |-> "Summary", counts |-> Counts(cs)]>>
<1>1. IsFiniteSet(Removed(cs)) /\ IsFiniteSet(Configured(cs))
    BY FS_Subset DEF Removed, Configured
<1>2. IsFiniteSet(Remv)
    <2> DEFINE f == [c \in Removed(cs) |-> [kind |-> "Remv", change |-> c]]
    <2>1. f \in Surjection(Removed(cs), Remv)
        BY DEF Surjection
    <2> QED BY <1>1, <2>1, FS_Surjection
<1>3. IsFiniteSet(Inst)
    <2> DEFINE f == [c \in Configured(cs) |-> [kind |-> "Inst", change |-> c]]
    <2>1. f \in Surjection(Configured(cs), Inst)
        BY DEF Surjection
    <2> QED BY <1>1, <2>1, FS_Surjection
<1>4. IsFiniteSet(Conf)
    <2> DEFINE f == [c \in Configured(cs) |-> [kind |-> "Conf", name |-> c.name, version |-> c.after]]
    <2>1. f \in Surjection(Configured(cs), Conf)
        BY DEF Surjection
    <2> QED BY <1>1, <2>1, FS_Surjection
<1>5. /\ SetToSeq(Remv) \in Seq(Printed(cs)) /\ SetToSeq(Inst) \in Seq(Printed(cs))
      /\ SetToSeq(Conf) \in Seq(Printed(cs)) /\ first \in Seq(Printed(cs))
    <2>1. Remv \subseteq Printed(cs) /\ Inst \subseteq Printed(cs) /\ Conf \subseteq Printed(cs)
        BY DEF Printed
    <2>2. first \in Seq(Printed(cs))
        BY DEF Printed
    <2> HIDE DEF Remv, Inst, Conf
    <2>3. /\ SetToSeq(Remv) \in Seq(Remv) /\ SetToSeq(Inst) \in Seq(Inst)
          /\ SetToSeq(Conf) \in Seq(Conf)
        BY <1>2, <1>3, <1>4, SequenceOfSet
    <2> QED BY <2>1, <2>2, <2>3, SeqMonotonic
<1>6. Lines(cs) = first \o SetToSeq(Remv) \o SetToSeq(Inst) \o SetToSeq(Conf)
    BY DEF Lines
<1> HIDE DEF Remv, Inst, Conf, first
<1>7. first \o SetToSeq(Remv) \in Seq(Printed(cs))
    BY <1>5, ConcatProperties
<1>8. first \o SetToSeq(Remv) \o SetToSeq(Inst) \in Seq(Printed(cs))
    BY <1>5, <1>7, ConcatProperties
<1>9. first \o SetToSeq(Remv) \o SetToSeq(Inst) \o SetToSeq(Conf) \in Seq(Printed(cs))
    BY <1>5, <1>8, ConcatProperties
<1> QED BY <1>6, <1>9

\* parse_simulation takes nothing but whole resolutions.
LEMMA AcceptedIsWhole ==
    ASSUME NEW cs, IsFiniteSet(cs), NEW lines,
           \/ \E n \in 0..Len(Lines(cs)) : lines = SubSeq(Lines(cs), 1, n)
           \/ lines = Append(Lines(cs), [kind |-> "Warning"]),
           Accepted(lines)
    PROVE  ListedChanges(lines) = cs
<1>1. Lines(cs) \in Seq(Printed(cs))
    BY LinesArePrinted
<1>2. lines # Append(Lines(cs), [kind |-> "Warning"])
    <2> SUFFICES ASSUME lines = Append(Lines(cs), [kind |-> "Warning"]) PROVE FALSE
        OBVIOUS
    <2>1. Len(Lines(cs)) + 1 \in DOMAIN lines /\ lines[Len(Lines(cs)) + 1] = [kind |-> "Warning"]
        BY <1>1
    <2> QED BY <2>1 DEF Accepted, Of
<1>3. lines \in Seq(Printed(cs))
    <2>1. PICK n \in 0..Len(Lines(cs)) : lines = SubSeq(Lines(cs), 1, n)
        BY <1>2
    <2>2. \A i \in 1..n : Lines(cs)[i] \in Printed(cs)
        BY <1>1, <2>1, LenProperties, ElementOfSeq
    <2> QED BY <2>1, <2>2, SubSeqProperties
<1>4. \A i \in DOMAIN lines : lines[i] \in Printed(cs)
    BY <1>3, LenProperties, ElementOfSeq
<1>5. ListedChanges(lines) \subseteq cs
    BY <1>4 DEF ListedChanges, Of, Printed, Removed, Configured
<1>6. PICK i \in DOMAIN lines : lines[i].kind = "Summary"
    <2>1. Of(lines, {"Summary"}) # {}
        <3>1. Cardinality(Of(lines, {"Summary"})) = 1
            BY DEF Accepted, Summarised
        <3>2. Cardinality({}) = 0
            BY FS_EmptySet
        <3> HIDE DEF Of
        <3>3. 0 # 1
            OBVIOUS
        <3> QED BY ONLY <3>1, <3>2, <3>3
    <2> QED BY <2>1 DEF Of
<1>7. lines[i].counts = Counts(cs)
    BY <1>4, <1>6 DEF Printed
<1>8. lines[i].counts = Counts(ListedChanges(lines))
    BY <1>6 DEF Accepted, Summarised, Of
<1>9. Counts(ListedChanges(lines)) = Counts(cs)
    BY <1>7, <1>8
<1> HIDE DEF ListedChanges
<1> QED BY <1>5, <1>9, CountsTell

-----------------------------------------------------------------------------
(* Plans and commits.                                                       *)

\* Some changes are those of a whole resolution of a request as APT may read it.
Whole(request, changes) ==
    \E h \in States, s \in Sources :
        \E r \in Readings(h, s, request) :
            Resolves(h, s, r) /\ changes = Changes(h, Resolution(h, s, r))

PreviewInv ==
    preview # NOTHING =>
        /\ preview = [step |-> preview.step, request |-> preview.request, before |-> preview.before,
                      metadata |-> preview.metadata, changes |-> preview.changes,
                      artifacts |-> preview.artifacts]
        /\ preview.request \in Requests
        /\ preview.step \in {"begun", "verified"} \/ Whole(preview.request, preview.changes)

PlansInv == \A p \in plans : p.request \in Requests /\ Whole(p.request, p.changes)

\* What the worker has resolved is what its plan and its approval show, and while
\* it holds the native locks it stays what a commit would change.
WorkerInv ==
    worker # NOTHING =>
        /\ worker = [plan |-> worker.plan, shown |-> worker.shown, policy |-> worker.policy,
                     target |-> worker.target, artifacts |-> worker.artifacts]
        /\ native
        /\ worker.shown = worker.plan /\ worker.plan.request \in Requests
        /\ Permits(worker.policy, worker.plan)
        /\ worker.target # NOTHING =>
              /\ worker.target \in States
              /\ worker.target[worker.plan.request.name] = worker.plan.request.version
              /\ Changes(host, worker.target) = worker.plan.changes
              /\ worker.artifacts = worker.plan.artifacts

ChangeInv ==
    /\ host \in States /\ sources \in Sources
    /\ PreviewInv /\ PlansInv /\ WorkerInv

LEMMA ChangeInitially == PreviewInit => ChangeInv
BY PreviewAssumption DEF PreviewInit, ChangeInv, PreviewInv, PlansInv, WorkerInv, States

\* What is accepted of a simulation, read as a pattern or not, is whole.
LEMMA SimulateKeeps == ASSUME ChangeInv, Simulate PROVE ChangeInv'
<1> DEFINE r == preview.request
<1>1. r \in Requests /\ host \in States /\ sources \in Sources /\ preview # NOTHING
    BY DEF ChangeInv, PreviewInv, Simulate
<1>2. PICK lines \in Outputs(host, sources, r) :
          /\ Accepted(lines)
          /\ preview' = [preview EXCEPT !.step = "simulated", !.changes = ListedChanges(lines)]
    BY DEF Simulate
<1>3. PICK q \in Readings(host, sources, r) :
          /\ Resolves(host, sources, q)
          /\ \/ \E n \in 0..Len(Lines(Changes(host, Resolution(host, sources, q)))) :
                   lines = SubSeq(Lines(Changes(host, Resolution(host, sources, q))), 1, n)
             \/ lines = Append(Lines(Changes(host, Resolution(host, sources, q))), [kind |-> "Warning"])
    BY <1>2 DEF Outputs
<1>4. ListedChanges(lines) = Changes(host, Resolution(host, sources, q))
    BY <1>2, <1>3, ChangesFinite, AcceptedIsWhole
<1>5. Whole(r, ListedChanges(lines))
    BY <1>1, <1>3, <1>4 DEF Whole
<1>6. preview' = [step |-> "simulated", request |-> r, before |-> preview.before,
                  metadata |-> preview.metadata, changes |-> ListedChanges(lines),
                  artifacts |-> preview.artifacts]
    BY <1>1, <1>2 DEF ChangeInv, PreviewInv
<1>7. PreviewInv'
    BY <1>1, <1>5, <1>6 DEF PreviewInv, Whole
<1>8. UNCHANGED <<host, sources, plans, native, worker>>
    BY DEF Simulate, surroundings
<1> QED BY <1>7, <1>8 DEF ChangeInv, PlansInv, WorkerInv

\* The resolution under the locks is the plan's.
LEMMA RevalidateKeeps == ASSUME ChangeInv, Revalidate PROVE ChangeInv'
<1> DEFINE r == worker.plan.request
           target == Resolution(host, sources, r)
<1>1. worker # NOTHING /\ Resolves(host, sources, r)
    BY DEF Revalidate
<1>2. r \in Requests /\ host \in States /\ sources \in Sources
    BY <1>1 DEF ChangeInv, WorkerInv
<1>3. target \in States /\ target[r.name] = r.version
    BY <1>1, <1>2, ResolutionIs
<1>4. PICK artifacts : /\ Agrees(Changes(host, target), artifacts)
                       /\ worker' = [worker EXCEPT !.target = target, !.artifacts = artifacts]
    BY DEF Revalidate
<1> HIDE DEF target
<1>5. worker' = [plan |-> worker.plan, shown |-> worker.shown, policy |-> worker.policy,
                 target |-> target, artifacts |-> artifacts]
    BY <1>1, <1>4 DEF ChangeInv, WorkerInv
<1>6. Changes(host, target) = worker.plan.changes /\ artifacts = worker.plan.artifacts
    BY <1>4 DEF Agrees
<1>7. UNCHANGED <<host, sources, plans, native, preview>>
    BY DEF Revalidate, surroundings
<1>8. WorkerInv'
    BY <1>1, <1>3, <1>5, <1>6, <1>7 DEF ChangeInv, WorkerInv, Changes, Permits
<1> QED BY <1>7, <1>8 DEF ChangeInv, PreviewInv, PlansInv

LEMMA ChangeKept == ChangeInv /\ [PreviewNext]_preview_vars => ChangeInv'
<1> SUFFICES ASSUME ChangeInv, [PreviewNext]_preview_vars PROVE ChangeInv'
    OBVIOUS
<1> USE DEF surroundings
<1>1. ASSUME NEW r \in Requests, Begin(r) PROVE ChangeInv'
    BY <1>1 DEF Begin, ChangeInv, PreviewInv, PlansInv, WorkerInv
<1>2. CASE VerifySelections
    BY <1>2 DEF VerifySelections, ChangeInv, PreviewInv, PlansInv, WorkerInv
<1>3. CASE Simulate
    BY <1>3, SimulateKeeps
<1>4. CASE artifact_manifest
    BY <1>4 DEF artifact_manifest, ChangeInv, PreviewInv, PlansInv, WorkerInv
<1>5. CASE Conclude
    BY <1>5 DEF Conclude, ChangeInv, PreviewInv, PlansInv, WorkerInv
<1>6. CASE Fail
    BY <1>6 DEF Fail, ChangeInv, PreviewInv, PlansInv, WorkerInv
<1>7. ASSUME NEW p \in plans, Approve(p) PROVE ChangeInv'
    BY <1>7 DEF Approve, ChangeInv, PreviewInv, PlansInv, WorkerInv
<1>8. ASSUME NEW p \in plans, Lock(p) PROVE ChangeInv'
    BY <1>8 DEF Lock, Bound, ChangeInv, PreviewInv, PlansInv, WorkerInv
<1>9. CASE Discard
    BY <1>9 DEF Discard, ChangeInv, PreviewInv, PlansInv, WorkerInv
<1>10. CASE Revalidate
    BY <1>10, RevalidateKeeps
<1>11. CASE Commit
    BY <1>11 DEF Commit, Unlock, ChangeInv, PreviewInv, PlansInv, WorkerInv
<1>12. CASE Refuse
    BY <1>12 DEF Refuse, Unlock, ChangeInv, PreviewInv, PlansInv, WorkerInv
<1>13. CASE Elapse
    BY <1>13 DEF Elapse, ChangeInv, PreviewInv, PlansInv, WorkerInv
<1>14. CASE Administer
    BY <1>14 DEF Administer, ChangeInv, PreviewInv, PlansInv, WorkerInv, States
<1>15. CASE Update
    BY <1>15 DEF Update, ChangeInv, PreviewInv, PlansInv, WorkerInv
<1>16. CASE UNCHANGED preview_vars
    BY <1>16 DEF preview_vars, ChangeInv, PreviewInv, PlansInv, WorkerInv
<1> QED BY <1>1, <1>2, <1>3, <1>4, <1>5, <1>6, <1>7, <1>8, <1>9, <1>10, <1>11, <1>12, <1>13,
           <1>14, <1>15, <1>16 DEF PreviewNext

\* A plan that preview prints is never a part of a resolution, wherever the output
\* it was read from stopped: parse_simulation.  The resolution is of the request as
\* APT may have read it, in some state; that it is the one shown and committed
\* is CommitsAreAsShown.
THEOREM PlansAreWhole == PreviewSpec => []PlanWhole
<1>1. ChangeInv => PlanWhole
    BY DEF ChangeInv, PlansInv, Whole, PlanWhole, States
<1> QED BY <1>1, ChangeInitially, ChangeKept, PTL DEF PreviewSpec

\* Whatever becomes of packages and sources between a preview and its commit, the
\* commit does what the approval showed and the policy of the endpoint permits.
THEOREM CommitsAreAsShown == PreviewSpec => CommitAsShown
<1> DEFINE Shown ==
        worker # NOTHING /\ worker' = NOTHING /\ host' # host =>
            LET shown == worker.shown
            IN  /\ Changes(host, host') = shown.changes
                /\ worker.artifacts = shown.artifacts
                /\ host'[shown.request.name] = shown.request.version
                /\ \A c \in Changes(host, host') :
                      /\ c.name \in worker.policy.packages
                      /\ c.after = 0 => worker.policy.allow_remove
<1>1. ChangeInv /\ [PreviewNext]_preview_vars => [Shown]_preview_vars
    <2> SUFFICES ASSUME ChangeInv, PreviewNext, worker # NOTHING, worker' = NOTHING, host' # host
                 PROVE  Shown
        OBVIOUS
    <2>1. Commit
        <3>1. native
            BY DEF ChangeInv, WorkerInv
        <3> QED BY <3>1 DEF PreviewNext, surroundings, Begin, VerifySelections, Simulate,
                 artifact_manifest, Conclude, Fail, Approve, Lock, Discard, Revalidate, Refuse,
                 Unlock, Elapse, Administer, Update
    <2>2. /\ host' = worker.target /\ worker.shown = worker.plan
          /\ Permits(worker.policy, worker.plan)
          /\ worker.target[worker.plan.request.name] = worker.plan.request.version
          /\ Changes(host, worker.target) = worker.plan.changes
          /\ worker.artifacts = worker.plan.artifacts
        BY <2>1 DEF Commit, ChangeInv, WorkerInv
    <2>3. \A c \in worker.plan.changes :
              /\ c.name \in worker.policy.packages
              /\ c.after = 0 => worker.policy.allow_remove
        BY <2>2 DEF Permits, Removed
    <2> QED BY <2>2, <2>3
<1> QED BY <1>1, ChangeInitially, ChangeKept, PTL DEF PreviewSpec, CommitAsShown
=============================================================================
