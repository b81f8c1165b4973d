----------------------------- MODULE Onboarding -----------------------------
(***************************************************************************)
(* What `pessimal-agent init` decides (onboarding.rs, and the questions of *)
(* init.rs): which answers it accepts, where the configuration and its key *)
(* go, and what starts the agent.  Paths are names of the places a          *)
(* configuration can be in.                                                 *)
(***************************************************************************)
EXTENDS AgentSettings, SequencesExt

\* A typed or given answer is None where it was not given; Bad is the refusal
\* of one.
CONSTANT Bad

EndpointText(raw) ==
    IF raw = Blank THEN Bad
    ELSE IF ~HasScheme(raw) \/ raw.host = "" THEN Bad
    ELSE [raw EXCEPT !.slash = FALSE]

\* endpoint_for: a console of SigNoz Cloud, one host of all its workspaces and
\* regions here, says 200 to everything.
EndpointAnswer(raw, preset) ==
    IF /\ EndpointText(raw) # Bad
       /\ preset = "signoz" /\ raw.host = "console.signoz.cloud" THEN Bad
    ELSE EndpointText(raw)

EnvironmentAnswer(raw) == IF raw = Blank \/ raw \in Urnlike \cup Spaced THEN Bad ELSE raw

IntervalAnswer(raw) == IF raw = NotANumber THEN Bad ELSE IF raw < 1 THEN Bad ELSE raw

\* No key is an answer only where the preset needs none.
KeyAnswer(raw, preset) ==
    IF raw # Blank THEN raw
    ELSE IF PresetHeaders(preset, None, None) # None THEN None ELSE Bad

\* select_sensor_names: what is typed must be on offer; nothing, or `all`, is
\* every sensor, and so is no name in a configuration.
SensorsAnswer(raw, offered) ==
    IF raw = Blank THEN {} ELSE IF ~(raw \subseteq offered) \/ raw = {} THEN Bad ELSE raw

-----------------------------------------------------------------------------

\* Answers.
Answers ==
    [preset : Presets, endpoint : Endpoint, protocol : Protocols, key : Text \cup {None},
     dataset : Text \cup {None}, environment : Text, interval : Nat, temperatures : BOOLEAN,
     sensors : SUBSET Text]

\* Answers::into_config: what was not asked about is kept, and the timeout
\* comes down with the interval.
IntoConfig(a, existing) ==
    LET previous == IF existing = None THEN Defaults ELSE existing
        config == [previous EXCEPT
            !.preset = a.preset, !.endpoint = a.endpoint, !.protocol = a.protocol,
            !.interval = a.interval,
            !.timeout = IF @ <= a.interval THEN @ ELSE a.interval,
            !.key = IF a.key = Blank THEN None ELSE a.key,
            !.dataset = IF a.dataset \in {None, Blank} THEN @ ELSE a.dataset,
            !.environment = a.environment,
            !.temperatures = a.temperatures, !.sensors = a.sensors]
    IN IF Valid(config) /\ ValidCredentials(config) THEN config ELSE None

\* render_toml: the keys of a configuration, without the options and the
\* tables that hold nothing.
Options == {"key", "dataset", "hostName"}

RenderToml(c) ==
    Restrict(c, {field \in DOMAIN c :
                    /\ field \in Options => c[field] # None
                    /\ field \in {"headers", "attributes"} => c[field] # << >>})

\* from_arguments, Bad where one is refused or missing; key is what stdin said,
\* None without --api-key-stdin.
Given(arg, existing, field, otherwise) ==
    IF arg # None THEN arg ELSE IF existing # None THEN existing[field] ELSE otherwise

\* A bug of KeptKey: without a key given there is none.
KeyForgotten(existing) == None

\* Running init again must not take the agent's key away.
KeptKey(existing) == IF existing = None THEN None ELSE existing.key

FromArguments(args, existing) ==
    LET preset == Given(args.preset, existing, "preset", Bad)
        endpoint == IF args.endpoint # None /\ preset # Bad
                    THEN EndpointAnswer(args.endpoint, preset)
                    ELSE Given(args.endpoint, existing, "endpoint", Bad)
        environment == IF args.environment # None THEN EnvironmentAnswer(args.environment)
                       ELSE Given(None, existing, "environment", Bad)
        key == IF args.key # None /\ preset # Bad THEN KeyAnswer(args.key, preset)
               ELSE KeptKey(existing)
        temperatures == Given(args.temperatures, existing, "temperatures", FALSE)
    IN IF Bad \in {preset, endpoint, environment, key} THEN Bad
       ELSE [preset |-> preset, endpoint |-> endpoint, key |-> key,
             protocol |-> Given(args.protocol, existing, "protocol", "grpc"),
             dataset |-> Given(args.dataset, existing, "dataset", None),
             environment |-> environment,
             interval |-> Given(args.interval, existing, "interval", DefaultInterval),
             temperatures |-> temperatures,
             sensors |-> IF temperatures
                         THEN Given(args.sensors, existing, "sensors", {}) ELSE {}]

\* ask: an argument answers its question; a question is asked until its answer
\* is accepted, and nothing typed is the default in brackets.  The key is asked
\* once, with one that is there for a default.
Typed(raw, default) == IF raw = Blank THEN default ELSE raw

Asked(args, typed, existing, offered) ==
    LET default(field, otherwise) == Given(None, existing, field, otherwise)
        preset == IF args.preset # None THEN args.preset
                  ELSE ParsePreset(Typed(typed.preset, default("preset", "signoz")))
        endpoint == EndpointAnswer(IF args.endpoint # None THEN args.endpoint
                                   ELSE Typed(typed.endpoint, default("endpoint", Blank)),
                                   preset)
        protocol == IF args.protocol # None THEN args.protocol
                    ELSE ParseProtocol(Typed(typed.protocol, default("protocol", "grpc")))
        key == IF args.key # None THEN KeyAnswer(args.key, preset)
               ELSE IF typed.key = Blank /\ KeptKey(existing) # None THEN KeptKey(existing)
               ELSE KeyAnswer(typed.key, preset)
        dataset == IF preset = "honeycomb" THEN Typed(typed.dataset, default("dataset", Bad))
                   ELSE default("dataset", None)
        environment == EnvironmentAnswer(
            IF args.environment # None THEN args.environment
            ELSE Typed(typed.environment, default("environment", "production")))
        interval == IF args.interval # None THEN args.interval
                    ELSE IntervalAnswer(Typed(typed.interval,
                                              default("interval", DefaultInterval)))
        wanted == IF args.temperatures # None THEN args.temperatures
                  ELSE offered # {} /\ Typed(typed.temperatures,
                                             default("temperatures", FALSE))
        kept == default("sensors", {})
        sensors == IF ~wanted THEN {}
                   ELSE IF args.temperatures # None
                   THEN Given(args.sensors, existing, "sensors", {})
                   ELSE SensorsAnswer(Typed(typed.sensors, IF kept = {} THEN Blank
                                                           ELSE kept), offered)
        refused == \/ None \in {preset, protocol}
                   \/ preset = "honeycomb" /\ dataset \in {None, Bad}
                   \/ Bad \in {endpoint, key, environment, interval, sensors}
    IN IF refused THEN Bad
       ELSE [preset |-> preset, endpoint |-> endpoint, protocol |-> protocol, key |-> key,
             dataset |-> dataset, environment |-> environment, interval |-> interval,
             temperatures |-> wanted, sensors |-> sensors]

-----------------------------------------------------------------------------
\* support is where install-agent-launchd.sh keeps the configuration; explicit
\* and etcElsewhere are only ever named by --config, the latter under /etc.
Paths == {"explicit", "brew", "etc", "etcElsewhere", "xdg", "home", "cwd", "support"}
UnderEtc == {"etc", "etcElsewhere"}

\* SystemFacts.
Facts ==
    [explicit : Paths \cup {None}, brew : BOOLEAN, brewDir : BOOLEAN, xdg : BOOLEAN,
     home : BOOLEAN, root : BOOLEAN, macos : BOOLEAN, systemctl : BOOLEAN, unit : BOOLEAN,
     launchAgent : BOOLEAN]

\* ConfigLocation::resolve, None where there is nowhere to write.
LocationOf(facts) ==
    IF facts.explicit # None THEN facts.explicit
    ELSE IF facts.brewDir /\ facts.brew THEN "brew"
    ELSE IF facts.root /\ ~facts.macos THEN "etc"
    ELSE IF facts.xdg THEN "xdg"
    ELSE IF facts.home THEN "home"
    ELSE None

\* config_candidates and find_config.
ConfigPaths == << "cwd", "brew", "xdg", "home", "etc" >>

IsCandidate(facts, path) ==
    /\ path = "brew" => facts.brew
    /\ path = "xdg" => facts.xdg
    /\ path = "home" => facts.home

FindConfig(facts, files) ==
    LET there == {i \in DOMAIN ConfigPaths :
                     IsCandidate(facts, ConfigPaths[i]) /\ files[ConfigPaths[i]] # None}
    IN IF there = {} THEN None ELSE ConfigPaths[Min(there)]

\* A bug of KeyPlacement: the key is always in the configuration.
AlwaysInTheFile(path, facts) == "ConfigFile"

\* KeyPlacement::decide: what is under /etc is read by another user.
KeyPlacement(path, facts) ==
    IF ~facts.macos /\ path \in UnderEtc THEN "EnvironmentFile" ELSE "ConfigFile"

\* merge_environment_file: the other lines stay.
MergeEnvironmentFile(env, key) == Over(Only("API_KEY", key), env)

\* ServicePlan::detect and command: an agent that is loaded is not started
\* again.
ServicePlan(facts) ==
    IF facts.launchAgent THEN "LaunchAgentLoaded"
    ELSE IF facts.brewDir /\ facts.brew THEN "BrewServices"
    ELSE IF facts.systemctl /\ facts.unit THEN "Systemd"
    ELSE "Foreground"

Starts(plan) == plan \in {"BrewServices", "Systemd"}
=============================================================================
