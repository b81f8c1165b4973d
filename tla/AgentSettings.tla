---------------------------- MODULE AgentSettings ----------------------------
(***************************************************************************)
(* The agent's configuration (config.rs, preset.rs of pessimal_agent_core): *)
(* what a file may say, what the environment overrides, and which headers  *)
(* an export carries.  A configuration is one record of its three tables;  *)
(* None is also the error of a function that may fail.                     *)
(***************************************************************************)
EXTENDS Telemetry, Functions, TLC

CONSTANTS
    Text,         \* what a setting or an answer can say
    Blank,        \* a text that is empty or all blanks
    NotANumber,   \* a text that is no whole number
    Urnlike,      \* the texts that contain the separator of a URN
    Spaced,       \* the texts with white space inside
    HeaderMap,    \* what the table of headers can hold
    AttributeMap  \* what the table of resource attributes can hold

\* A map of one name, and a map whose names are looked up in f before g.
Only(name, value) == [n \in {name} |-> value]
Over(f, g) == [n \in DOMAIN f \cup DOMAIN g |-> IF n \in DOMAIN f THEN f[n] ELSE g[n]]

DefaultInterval == 30
DefaultTimeout == 10

Presets == {"otlp", "signoz", "clickstack", "honeycomb"}
Protocols == {"grpc", "http"}

\* BackendPreset::from_str and ExportProtocol::from_str, in lower case.
ParsePreset(raw) ==
    CASE raw = "hyperdx" -> "clickstack"
      [] raw \in Presets -> raw
      [] OTHER -> None

ParseProtocol(raw) ==
    CASE raw \in {"http", "http/protobuf", "http_protobuf"} -> "http"
      [] raw = "grpc" -> "grpc"
      [] OTHER -> None

\* slash says that it ends with slashes; a text without one of the two schemes
\* has the scheme "none".
Endpoint == [scheme : {"http", "https", "none"}, host : Text, path : Text, slash : BOOLEAN]

HasScheme(endpoint) == endpoint.scheme \in {"http", "https"}

\* AgentConfig; the sensors are a list in the file, whose order says nothing.
Config ==
    [preset : Presets, endpoint : Endpoint, protocol : Protocols, interval : Nat,
     timeout : Nat, key : Text \cup {None}, dataset : Text \cup {None}, headers : HeaderMap,
     service : Text, environment : Text, hostName : Text \cup {None},
     attributes : AttributeMap, filesystems : SUBSET Text, perInterface : BOOLEAN,
     temperatures : BOOLEAN, sensors : SUBSET Text]

ASSUME SettingsAssumption ==
    /\ {Blank, "", "pessimal-agent", "default", "production", "/"} \subseteq Text
    /\ << >> \in HeaderMap /\ << >> \in AttributeMap
    /\ None \notin Config /\ None \notin Presets \cup Protocols \cup Text
    /\ NotANumber \notin Nat

-----------------------------------------------------------------------------
\* BackendPreset::headers, None where a credential is missing or has no place.
PresetHeaders(preset, key, dataset) ==
    CASE preset = "otlp" -> IF key = None THEN << >> ELSE None
      [] preset = "signoz" ->
             IF key = None THEN << >> ELSE Only("signoz-access-token", key)
      [] preset = "clickstack" -> IF key = None THEN None ELSE Only("authorization", key)
      [] OTHER -> IF None \in {key, dataset} THEN None
                  ELSE Over(Only("x-honeycomb-team", key), Only("x-honeycomb-dataset", dataset))

\* ExportConfig::resolved_headers: the user's own headers win.
ResolvedHeaders(c) ==
    LET preset == PresetHeaders(c.preset, c.key, c.dataset)
    IN IF preset = None THEN None ELSE Over(c.headers, preset)

\* AgentConfig::validate, which says nothing of credentials, and the check of
\* those, which comes after the environment.
Valid(c) ==
    /\ HasScheme(c.endpoint)
    /\ c.interval >= 1
    /\ c.timeout >= 1 /\ c.timeout <= c.interval
    /\ c.service # Blank
    /\ c.environment \notin Urnlike

ValidCredentials(c) == ResolvedHeaders(c) # None

\* What no file says.
Defaults ==
    [preset |-> "otlp", protocol |-> "grpc", interval |-> DefaultInterval,
     timeout |-> DefaultTimeout, key |-> None, dataset |-> None, headers |-> << >>,
     service |-> "pessimal-agent", environment |-> "default", hostName |-> None,
     attributes |-> << >>, filesystems |-> {"/"}, perInterface |-> FALSE,
     temperatures |-> FALSE, sensors |-> {},
     endpoint |-> [scheme |-> "none", host |-> "", path |-> "", slash |-> FALSE]]

\* A document is the function of the keys a text sets.  A key that is not in it
\* takes its default, which for a key of a table that is there may not be the
\* default of the table.
Collection == {"filesystems", "perInterface", "temperatures", "sensors"}

FromToml(document) ==
    Over(document, [Defaults EXCEPT
        !.filesystems = IF DOMAIN document \cap Collection = {} THEN @ ELSE {}])

\* AgentConfig::from_file: a file is None, where there is none, or [config],
\* whose config is None where the text is no configuration.
FromFile(file) ==
    IF file = None THEN None
    ELSE IF file.config = None THEN None
    ELSE IF Valid(file.config) THEN file.config ELSE None

\* apply_env on a map of the suffixes; an empty value counts as unset.
Overrides ==
    {"ENDPOINT", "PRESET", "PROTOCOL", "INTERVAL_SECONDS", "API_KEY", "DATASET",
     "SERVICE_NAME", "ENVIRONMENT", "HOST_NAME"}

IsEnvironment(env) ==
    /\ "ENDPOINT" \in DOMAIN env => env["ENDPOINT"] \in Endpoint \cup {Blank}
    /\ "INTERVAL_SECONDS" \in DOMAIN env =>
           env["INTERVAL_SECONDS"] \in Nat \cup {Blank, NotANumber}
    /\ \A suffix \in (Overrides \ {"ENDPOINT", "INTERVAL_SECONDS"}) \cap DOMAIN env :
           env[suffix] \in Text

Overriding(env, suffix) ==
    IF suffix \in DOMAIN env /\ env[suffix] # Blank THEN env[suffix] ELSE None

ApplyEnv(c, env) ==
    LET get(suffix, old) == IF Overriding(env, suffix) = None THEN old
                            ELSE Overriding(env, suffix)
        preset == IF Overriding(env, "PRESET") = None THEN c.preset
                  ELSE ParsePreset(env["PRESET"])
        protocol == IF Overriding(env, "PROTOCOL") = None THEN c.protocol
                    ELSE ParseProtocol(env["PROTOCOL"])
        interval == get("INTERVAL_SECONDS", c.interval)
        applied == [c EXCEPT !.endpoint = get("ENDPOINT", @), !.preset = preset,
                             !.protocol = protocol, !.interval = interval,
                             !.key = get("API_KEY", @), !.dataset = get("DATASET", @),
                             !.service = get("SERVICE_NAME", @),
                             !.environment = get("ENVIRONMENT", @),
                             !.hostName = get("HOST_NAME", @)]
    IN IF None \in {preset, protocol} \/ interval = NotANumber THEN None
       ELSE IF Valid(applied) /\ ValidCredentials(applied) THEN applied ELSE None

\* What main runs the agent with: the file, then the environment.
Loaded(file, env) ==
    IF FromFile(file) = None THEN None ELSE ApplyEnv(FromFile(file), env)
=============================================================================
