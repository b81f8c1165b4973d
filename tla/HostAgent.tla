------------------------------ MODULE HostAgent ------------------------------
(***************************************************************************)
(* A host and its agent: `pessimal-agent init` sets it up (init.rs), a     *)
(* service manager starts it, and it exports (AgentExport).                *)
(*                                                                         *)
(* The questions are answered in one step; what init does to the disk is    *)
(* one step each, and it may be killed, or fail, before each of them.      *)
(***************************************************************************)
EXTENDS AgentExport, Onboarding

CONSTANTS
    Scenarios,   \* [facts, os, files, env, plist, managers, requests, starts]: a
                 \* host, and the bound of how often its agent starts
    MaxSetups    \* bound: the runs of init of a behaviour

\* What is at a path: [config, mode], the configuration None where the text is
\* none.
File == [config : Config \cup {None}, mode : {"0600", "0644"}]

ServiceManagers == {"BrewServices", "LaunchAgentLoaded", "Systemd"}

\* InitArgs, key what stdin said; and what is typed at the questions.
Args ==
    [preset : Presets \cup {None}, endpoint : Endpoint \cup {Blank, None},
     protocol : Protocols \cup {None}, key : Text \cup {None}, dataset : Text \cup {None},
     environment : Text \cup {None}, interval : Nat \cup {None},
     temperatures : BOOLEAN \cup {None}, sensors : (SUBSET Text) \cup {None}]

TypedAnswers ==
    [preset : Text, endpoint : Endpoint \cup {Blank}, protocol : Text, key : Text,
     dataset : Text, environment : Text, interval : Nat \cup {NotANumber, Blank},
     temperatures : BOOLEAN \cup {Blank}, sensors : (SUBSET Text) \cup {Blank}]

Requests ==
    [args : Args, typed : TypedAnswers \cup {None}, force : BOOLEAN, start : BOOLEAN,
     verify : BOOLEAN]

\* A host as an installation leaves it: a LaunchAgent is alone, and systemd is
\* on no Mac.
IsHost(s) ==
    /\ s.facts \in Facts /\ s.os \in {"linux", "darwin", "windows"}
    /\ DOMAIN s.files \subseteq Paths /\ \A p \in DOMAIN s.files : s.files[p] \in File
    /\ IsEnvironment(s.env) /\ IsEnvironment(s.plist)
    /\ s.managers \subseteq ServiceManagers
    /\ "LaunchAgentLoaded" \in s.managers =>
           s.managers = {"LaunchAgentLoaded"} /\ s.facts.launchAgent
    /\ s.facts.systemctl /\ s.facts.unit => ~s.facts.macos
    /\ s.requests \subseteq Requests /\ s.starts \in Nat

ASSUME HostAgentAssumption ==
    MaxSetups \in Nat /\ None \notin File \cup Paths /\ \A s \in Scenarios : IsHost(s)

VARIABLES
    scenario,  \* the host
    files,     \* what is at each path, [config, mode], None where nothing is
    baks,      \* what is beside it under the name of the backup
    envFile,   \* the environment file of the systemd unit, by suffix
    managers,  \* the service managers that keep an agent
    setup,     \* the run of init, None where there is none
    setups,    \* how many there have been
    found,     \* history: what the last run of init found at each path, else None
    tested     \* [path, config] of the batch init exported last, else None

hostVars == << scenario, files, baks, envFile, managers, setup, setups, found, tested >>
vars == << scenario, files, baks, envFile, managers, setup, setups, found, tested,
           now, agent, delivered, starts >>

facts == scenario.facts

\* typed is None under --non-interactive.
Setups ==
    [pc : {"confirm", "key", "backup", "move", "verify", "start"}, request : Requests,
     path : Paths, config : Config]

Init ==
    /\ scenario \in Scenarios
    /\ files = Over(scenario.files, [p \in Paths |-> None])
    /\ baks = [p \in Paths |-> None]
    /\ envFile = scenario.env
    /\ managers = scenario.managers
    /\ setup = None /\ setups = 0 /\ tested = None
    /\ found = [p \in Paths |-> None]
    /\ now = 0 /\ agent = None /\ delivered = None /\ starts = 0

Step(pc) == setup' = [setup EXCEPT !.pc = pc]
At(pc) == setup # None /\ setup.pc = pc

-----------------------------------------------------------------------------
\* run, up to the configuration of the answers; where they are refused init
\* ends, and nothing has changed.
BeginSetup(request) ==
    LET path == LocationOf(facts)
        existing == FromFile(files[path])
    IN /\ setup = None /\ setups < MaxSetups /\ path # None
       /\ \E m \in Machines :
            \E answers \in {IF request.typed = None THEN FromArguments(request.args, existing)
                            ELSE Asked(request.args, request.typed, existing,
                                       SensorsOffered(m))} :
            \E config \in {IF answers = Bad THEN None ELSE IntoConfig(answers, existing)} :
               /\ config # None
               /\ setup' = [pc |-> "confirm", request |-> request, path |-> path,
                            config |-> config]
       /\ setups' = setups + 1
       /\ found' = [found EXCEPT ![path] = files[path]]
       /\ UNCHANGED << scenario, files, baks, envFile, managers, tested >>

\* Written over without a question under --force or --non-interactive.
Confirm ==
    /\ At("confirm")
    /\ \/ Step("key")
       \/ ~setup.request.force /\ setup.request.typed # None /\ files[setup.path] # None
          /\ setup' = None
    /\ UNCHANGED << scenario, files, baks, envFile, managers, setups, found, tested >>

KeyGoesOut == KeyPlacement(setup.path, facts) = "EnvironmentFile" /\ setup.config.key # None
OnDisk == IF KeyGoesOut THEN [setup.config EXCEPT !.key = None] ELSE setup.config
ConfigMode == IF KeyPlacement(setup.path, facts) = "EnvironmentFile" THEN "0644" ELSE "0600"

\* write_environment_file comes first: no instant is without the key.
WriteKey ==
    /\ At("key") /\ Step("backup") /\ tested' = None
    /\ envFile' = IF KeyGoesOut THEN MergeEnvironmentFile(envFile, setup.config.key)
                  ELSE envFile
    /\ UNCHANGED << scenario, files, baks, managers, setups, found >>

\* write_config writes only what reads back as it was meant.
ReadsBack == FromToml(RenderToml(OnDisk)) = OnDisk

\* A bug of Backup: what cannot be read is not worth keeping.
BackupOfReadable ==
    /\ At("backup") /\ ReadsBack /\ Step("move")
    /\ baks' = IF FromFile(files[setup.path]) = None THEN baks
               ELSE [baks EXCEPT ![setup.path] = files[setup.path]]
    /\ UNCHANGED << scenario, files, envFile, managers, setups, found, tested >>

\* write_config: what is there is copied aside.
Backup ==
    /\ At("backup") /\ ReadsBack /\ Step("move")
    /\ baks' = IF files[setup.path] = None THEN baks
               ELSE [baks EXCEPT ![setup.path] = files[setup.path]]
    /\ UNCHANGED << scenario, files, envFile, managers, setups, found, tested >>

Written == [config |-> FromToml(RenderToml(OnDisk)), mode |-> ConfigMode]
Torn == [config |-> None, mode |-> ConfigMode]

\* write_atomically: the rename of a file that is whole.
Move ==
    /\ At("move") /\ Step("verify")
    /\ files' = [files EXCEPT ![setup.path] = Written]
    /\ UNCHANGED << scenario, baks, envFile, managers, setups, found, tested >>

\* verify_export, of the configuration with its key: a refusal ends init, and
\* the file stays.
Verify ==
    /\ At("verify")
    /\ \/ ~setup.request.verify /\ Step("start") /\ UNCHANGED tested
       \/ /\ setup.request.verify
          /\ \/ /\ Step("start")
                /\ tested' = [path |-> setup.path, config |-> setup.config]
             \/ setup' = None /\ UNCHANGED tested
    /\ UNCHANGED << scenario, files, baks, envFile, managers, setups, found >>

\* ServicePlan::command, when asked for or confirmed; the command may fail, and
\* an agent that runs is not started again.
StartService ==
    /\ At("start") /\ setup' = None
    /\ \/ UNCHANGED managers
       \/ /\ Starts(ServicePlan(facts))
          /\ setup.request.start \/ setup.request.typed # None
          /\ managers' = managers \cup {ServicePlan(facts)}
    /\ UNCHANGED << scenario, files, baks, envFile, setups, found, tested >>

\* init is killed, declined, or an operation of the disk fails; a backup may
\* be left half copied.
Abort ==
    /\ setup # None /\ setup' = None
    /\ baks' \in IF At("backup") /\ files[setup.path] # None
                 THEN {baks, [baks EXCEPT ![setup.path] = Torn]} ELSE {baks}
    /\ UNCHANGED << scenario, files, envFile, managers, setups, found, tested >>

SetupNext ==
    \/ \E request \in scenario.requests : BeginSetup(request)
    \/ Confirm \/ WriteKey \/ Backup \/ Move \/ Verify \/ StartService \/ Abort

-----------------------------------------------------------------------------
\* What the service definitions of the repository give an agent: its --config,
\* and what its environment overrides.  The formula's sets no override, the
\* plist of a LaunchAgent the key it was installed with.
ServicePath(manager) ==
    CASE manager = "BrewServices" -> "brew" [] manager = "Systemd" -> "etc" [] OTHER -> "support"

ServiceEnvironment(manager) ==
    CASE manager = "Systemd" -> envFile [] manager = "LaunchAgentLoaded" -> scenario.plist
      [] OTHER -> << >>

\* What an agent runs with, None where it fails to: the unit reads the
\* configuration as a user of its own.
ServiceConfig(manager) ==
    LET file == files[ServicePath(manager)]
    IN IF manager = "Systemd" /\ file # None /\ file.mode = "0600" THEN None
       ELSE Loaded(file, ServiceEnvironment(manager))

\* run and serve, under a service manager, which starts the agent again.
StartAgent ==
    /\ agent = None /\ starts < scenario.starts
    /\ \E manager \in managers :
         \E config \in {ServiceConfig(manager)} :
            /\ config # None
            /\ agent' = Fresh(config, scenario.os, starts + 1)
    /\ starts' = starts + 1
    /\ UNCHANGED << now, delivered >>

Next ==
    \/ SetupNext /\ UNCHANGED exportVars
    \/ (StartAgent \/ ExportNext) /\ UNCHANGED hostVars

Spec == Init /\ [][Next]_vars
-----------------------------------------------------------------------------
TypeOK ==
    /\ scenario \in Scenarios
    /\ files \in [Paths -> File \cup {None}] /\ baks \in [Paths -> File \cup {None}]
    /\ IsEnvironment(envFile)
    /\ managers \subseteq ServiceManagers
    /\ setup \in Setups \cup {None} /\ found \in [Paths -> File \cup {None}]
    /\ tested \in [path : Paths, config : Config] \cup {None}
    /\ setups \in 0..MaxSetups /\ starts \in 0..scenario.starts /\ now \in 0..MaxClock
    /\ Running => agent.config \in Config
    /\ Collecting => agent.cycle.next \in Registered

(***************************************************************************)
(* Whatever becomes of init, and long after it ended or was killed, halfway *)
(* through a backup included: the configuration its last run found is      *)
(* still on the disk, at its path or as the backup, readable by init or    *)
(* not (init.rs: "it is kept as a .bak").                                  *)
(***************************************************************************)
PreviousConfigSurvives == \A p \in Paths : found[p] \in {files[p], baks[p], None}

(***************************************************************************)
(* Nothing init writes leaves half a configuration where the agent reads   *)
(* one, killed or not (write_config: a half-written config is one the      *)
(* service cannot start with).                                             *)
(***************************************************************************)
FilesAreWhole ==
    [][\A p \in Paths : files'[p] # files[p] => files'[p].config # None]_vars

(***************************************************************************)
(* Init changes what it asks about and keeps the rest of a configuration   *)
(* it could read: headers, names, attributes, file systems; a timeout only *)
(* comes down (into_config).                                               *)
(***************************************************************************)
Unasked == {"headers", "service", "hostName", "attributes", "filesystems", "perInterface"}

UnaskedSettingsSurvive ==
    [][\A p \in Paths : files'[p] # files[p] /\ FromFile(files[p]) # None =>
           /\ \A field \in Unasked : files'[p].config[field] = files[p].config[field]
           /\ files'[p].config.timeout <= files[p].config.timeout
           /\ Valid(files'[p].config)]_vars

(***************************************************************************)
(* Between the environment file and the configuration the key an agent     *)
(* finds at a path is at every instant the one it found before, or one the *)
(* user gave: no step of init, and no kill between two, unauthenticates    *)
(* it; only an empty key given at stdin, where the backend needs none, is  *)
(* the wish for none.  Where both places hold a key, and not the same, init *)
(* makes the configuration's win, so those hosts are left out; and as the  *)
(* environment file is one for all of /etc, only the configuration that    *)
(* init writes is meant there.                                             *)
(***************************************************************************)
KeyIn(p) == IF FromFile(files[p]) = None THEN None ELSE files[p].config.key
KeyOut(p) == IF p \in UnderEtc THEN Overriding(envFile, "API_KEY") ELSE None
KeyAt(p) == IF KeyOut(p) # None THEN KeyOut(p) ELSE KeyIn(p)
GivenKeys ==
    IF setup = None THEN {}
    ELSE {key \in {setup.request.args.key}
                  \cup (IF setup.request.typed = None THEN {} ELSE {setup.request.typed.key}) :
              key \notin {None, Blank}}
         \cup (IF setup.request.args.key = Blank THEN {None} ELSE {})

KeySurvivesSetup ==
    [][\A p \in Paths :
           /\ p \in UnderEtc => p = LocationOf(facts)
           /\ KeyAt(p) \notin {None, Blank}
           /\ None \in {KeyIn(p), KeyOut(p)} \/ KeyIn(p) = KeyOut(p)
           => KeyAt(p)' \in {KeyAt(p)} \cup GivenKeys]_vars

(***************************************************************************)
(* When the backend took the batch of init, the service that reads the     *)
(* path init wrote starts, and with that very configuration, though the    *)
(* key travels in another file that another user reads.  What else its     *)
(* environment overrides init does not test.                               *)
(***************************************************************************)
TestSpeaksForTheService ==
    \A manager \in {ServicePlan(facts)} \ {"Foreground"} :
        /\ tested # None /\ setup = None /\ tested.path = ServicePath(manager)
        /\ Overrides \cap DOMAIN ServiceEnvironment(manager)
               \subseteq IF manager = "Systemd" /\ tested.config.key # None
                         THEN {"API_KEY"} ELSE {}
        => ServiceConfig(manager) = tested.config

(***************************************************************************)
(* Init starts no second agent beside a LaunchAgent: a host does not report *)
(* itself twice (ServicePlan::detect).                                     *)
(***************************************************************************)
HostReportsOnce == "LaunchAgentLoaded" \in managers => Cardinality(managers) = 1

(***************************************************************************)
(* Init never comes to write what would not read back: every key a host     *)
(* has set is rendered (render_collection: a key missing here stops init   *)
(* running at all on a host that set it).                                  *)
(***************************************************************************)
InitCanWrite == setup # None => ReadsBack

(***************************************************************************)
(* A bare `pessimal-agent --check` finds what init wrote where nothing     *)
(* else is (config_candidates: measured on a user's Mac, where it did not). *)
(***************************************************************************)
SetupIsFound ==
    tested # None /\ facts.explicit = None
    /\ (\A p \in Paths \ {tested.path, "support"} : files[p] = None)
        => FindConfig(facts, files) = tested.path

(***************************************************************************)
(* No step of init, and no kill between two, costs the host what it had:    *)
(* a whole configuration, the settings nobody asked about, its key.        *)
(***************************************************************************)
SetupKeepsTheHost == FilesAreWhole /\ UnaskedSettingsSurvive /\ KeySurvivesSetup

(***************************************************************************)
(* A host that has been set up is served: init could write, the agent that  *)
(* starts finds what it wrote and is the only one, and what the backend     *)
(* said of init's batch holds for it (init.rs, onboarding.rs).             *)
(***************************************************************************)
SetupIsServed ==
    InitCanWrite /\ SetupIsFound /\ HostReportsOnce /\ TestSpeaksForTheService
=============================================================================
