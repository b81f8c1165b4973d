---------------------------- MODULE HostAgentProofs ----------------------------
(***************************************************************************)
(* What holds of a host and its agent for any hosts, requests, settings,   *)
(* machines, clocks and bounds: init loses nothing it found, writes what   *)
(* reads back, and what it tested is what the service runs; a batch is one  *)
(* picture of the host, its points stay apart, and the heartbeat grows.    *)
(***************************************************************************)
EXTENDS HostAgent, FiniteSetTheorems, WellFoundedInduction, TLAPS

-----------------------------------------------------------------------------
(***************************************************************************)
(* Answers.                                                                *)
(***************************************************************************)
LEMMA EndpointIsAnEndpoint ==
    ASSUME NEW raw \in Endpoint \cup {Blank}, NEW preset,
           EndpointAnswer(raw, preset) # Bad
    PROVE  EndpointAnswer(raw, preset) \in Endpoint
BY DEF EndpointAnswer, EndpointText, Endpoint

(* The key of an answer is the one that was there, or one that was given;  *)
(* there is none where an empty one was given.                             *)
MeantKey(key, args, typed, existing) ==
    \/ args.key = None /\ key = KeptKey(existing)
    \/ args.key \notin {None, Blank} /\ key = args.key
    \/ args.key = Blank /\ key = None
    \/ args.key = None /\ typed # None /\ typed.key # Blank /\ key = typed.key
    \/ args.key = None /\ KeptKey(existing) = None /\ key = None

LEMMA KeyAnswerIs ==
    ASSUME NEW raw \in Text, NEW preset, KeyAnswer(raw, preset) # Bad
    PROVE  \/ raw # Blank /\ KeyAnswer(raw, preset) = raw
           \/ raw = Blank /\ KeyAnswer(raw, preset) = None
BY DEF KeyAnswer

LEMMA KeptKeyIs ==
    ASSUME NEW existing \in Config \cup {None}
    PROVE  KeptKey(existing) \in Text \cup {None}
BY DEF KeptKey, Config

LEMMA ArgumentsAreAnswers ==
    ASSUME NEW args \in Args, NEW existing \in Config \cup {None},
           FromArguments(args, existing) # Bad
    PROVE  /\ FromArguments(args, existing) \in Answers
           /\ MeantKey(FromArguments(args, existing).key, args, None, existing)
<1> DEFINE preset == Given(args.preset, existing, "preset", Bad)
           endpoint == IF args.endpoint # None /\ preset # Bad
                       THEN EndpointAnswer(args.endpoint, preset)
                       ELSE Given(args.endpoint, existing, "endpoint", Bad)
           environment == IF args.environment # None THEN EnvironmentAnswer(args.environment)
                          ELSE Given(None, existing, "environment", Bad)
           key == IF args.key # None /\ preset # Bad THEN KeyAnswer(args.key, preset)
                  ELSE KeptKey(existing)
           temperatures == Given(args.temperatures, existing, "temperatures", FALSE)
           protocol == Given(args.protocol, existing, "protocol", "grpc")
           dataset == Given(args.dataset, existing, "dataset", None)
           interval == Given(args.interval, existing, "interval", DefaultInterval)
           sensors == IF temperatures THEN Given(args.sensors, existing, "sensors", {}) ELSE {}
<1>1. Bad \notin {preset, endpoint, environment, key}
    BY DEF FromArguments
<1>2. FromArguments(args, existing) =
        [preset |-> preset, endpoint |-> endpoint, key |-> key, protocol |-> protocol,
         dataset |-> dataset, environment |-> environment, interval |-> interval,
         temperatures |-> temperatures, sensors |-> sensors]
    BY <1>1 DEF FromArguments
<1>3. preset \in Presets
    BY <1>1 DEF Given, Args, Config
<1>4. endpoint \in Endpoint
    BY <1>1, EndpointIsAnEndpoint DEF Given, Args, Config
<1>5. environment \in Text
    BY <1>1 DEF Given, Args, Config, EnvironmentAnswer
<1>6. key \in Text \cup {None} /\ MeantKey(key, args, None, existing)
    BY <1>1, KeyAnswerIs, KeptKeyIs DEF MeantKey, Args
<1>7. protocol \in Protocols /\ dataset \in Text \cup {None} /\ interval \in Nat
    BY DEF Given, Args, Config, Protocols, DefaultInterval
<1>8. temperatures \in BOOLEAN
    BY DEF Given, Args, Config
<1>9. sensors \in SUBSET Text
    BY DEF Given, Args, Config
<1> HIDE DEF preset, endpoint, environment, key, temperatures, protocol, dataset, interval,
             sensors
<1>10. QED BY <1>2, <1>3, <1>4, <1>5, <1>6, <1>7, <1>8, <1>9 DEF Answers

LEMMA TypedAnswersAreAnswers ==
    ASSUME NEW args \in Args, NEW typed \in TypedAnswers, typed # None,
           NEW existing \in Config \cup {None}, NEW offered,
           Asked(args, typed, existing, offered) # Bad
    PROVE  /\ Asked(args, typed, existing, offered) \in Answers
           /\ MeantKey(Asked(args, typed, existing, offered).key, args, typed, existing)
<1> DEFINE default(field, otherwise) == Given(None, existing, field, otherwise)
           preset == IF args.preset # None THEN args.preset
                     ELSE ParsePreset(Typed(typed.preset, default("preset", "signoz")))
           rawEndpoint == IF args.endpoint # None THEN args.endpoint
                          ELSE Typed(typed.endpoint, default("endpoint", Blank))
           endpoint == EndpointAnswer(rawEndpoint, preset)
           protocol == IF args.protocol # None THEN args.protocol
                       ELSE ParseProtocol(Typed(typed.protocol, default("protocol", "grpc")))
           key == IF args.key # None THEN KeyAnswer(args.key, preset)
                  ELSE IF typed.key = Blank /\ KeptKey(existing) # None THEN KeptKey(existing)
                  ELSE KeyAnswer(typed.key, preset)
           dataset == IF preset = "honeycomb" THEN Typed(typed.dataset, default("dataset", Bad))
                      ELSE default("dataset", None)
           rawEnvironment == IF args.environment # None THEN args.environment
                             ELSE Typed(typed.environment, default("environment", "production"))
           environment == EnvironmentAnswer(rawEnvironment)
           interval == IF args.interval # None THEN args.interval
                       ELSE IntervalAnswer(Typed(typed.interval,
                                                 default("interval", DefaultInterval)))
           wanted == IF args.temperatures # None THEN args.temperatures
                     ELSE offered # {} /\ Typed(typed.temperatures,
                                                default("temperatures", FALSE))
           kept == default("sensors", {})
           rawSensors == Typed(typed.sensors, IF kept = {} THEN Blank ELSE kept)
           sensors == IF ~wanted THEN {}
                      ELSE IF args.temperatures # None
                      THEN Given(args.sensors, existing, "sensors", {})
                      ELSE SensorsAnswer(rawSensors, offered)
<1>1. /\ None \notin {preset, protocol}
      /\ ~(preset = "honeycomb" /\ dataset \in {None, Bad})
      /\ Bad \notin {endpoint, key, environment, interval, sensors}
    BY DEF Asked
<1>2. Asked(args, typed, existing, offered) =
        [preset |-> preset, endpoint |-> endpoint, protocol |-> protocol, key |-> key,
         dataset |-> dataset, environment |-> environment, interval |-> interval,
         temperatures |-> wanted, sensors |-> sensors]
    BY <1>1 DEF Asked
<1>3. preset \in Presets
    BY <1>1 DEF ParsePreset, Args, Presets
<1>4. endpoint \in Endpoint
    <2>1. rawEndpoint \in Endpoint \cup {Blank}
        BY DEF Typed, Given, Args, TypedAnswers, Config
    <2> HIDE DEF rawEndpoint, preset
    <2>2. QED BY <1>1, <2>1, EndpointIsAnEndpoint
<1>5. protocol \in Protocols
    BY <1>1 DEF ParseProtocol, Args, Protocols
<1>6. key \in Text \cup {None} /\ MeantKey(key, args, typed, existing)
    <2>1. args.key \in Text \cup {None} /\ typed.key \in Text
        BY DEF Args, TypedAnswers
    <2> HIDE DEF preset
    <2>2. CASE args.key # None
        BY <1>1, <2>1, <2>2, KeyAnswerIs DEF MeantKey
    <2>3. CASE args.key = None /\ typed.key = Blank /\ KeptKey(existing) # None
        BY <1>1, <2>1, <2>3, KeptKeyIs DEF MeantKey
    <2>4. CASE args.key = None /\ ~(typed.key = Blank /\ KeptKey(existing) # None)
        BY <1>1, <2>1, <2>4, KeyAnswerIs DEF MeantKey
    <2>5. QED BY <2>2, <2>3, <2>4
<1>7. dataset \in Text \cup {None}
    BY <1>1 DEF Typed, Given, TypedAnswers, Config
<1>8. environment \in Text
    <2>1. rawEnvironment \in Text
        BY SettingsAssumption DEF Typed, Given, Args, TypedAnswers, Config
    <2> HIDE DEF rawEnvironment
    <2>2. QED BY <1>1, <2>1 DEF EnvironmentAnswer
<1>9. interval \in Nat
    BY <1>1 DEF IntervalAnswer, Typed, Given, Args, TypedAnswers, Config, DefaultInterval
<1>10. wanted \in BOOLEAN
    BY DEF Args
<1>11. sensors \in SUBSET Text
    BY <1>1 DEF SensorsAnswer, Typed, Given, Args, TypedAnswers, Config
<1> HIDE DEF preset, endpoint, protocol, key, dataset, environment, interval, wanted, sensors
<1>12. QED BY <1>2, <1>3, <1>4, <1>5, <1>6, <1>7, <1>8, <1>9, <1>10, <1>11 DEF Answers

(* What becomes of the answers: a configuration the agent accepts, that    *)
(* changes what was asked and keeps the rest of the one that was there.    *)
LEMMA DefaultsAreAConfig == Defaults \in Config
<1>1. "pessimal-agent" \in Text /\ "default" \in Text /\ "/" \in Text
    BY SettingsAssumption
<1>2. [scheme |-> "none", host |-> "", path |-> "", slash |-> FALSE] \in Endpoint
    BY SettingsAssumption DEF Endpoint
<1>3. "otlp" \in Presets /\ "grpc" \in Protocols /\ {"/"} \in SUBSET Text
    BY <1>1 DEF Presets, Protocols
<1>4. << >> \in HeaderMap /\ << >> \in AttributeMap
    BY SettingsAssumption
<1>5. DefaultInterval \in Nat /\ DefaultTimeout \in Nat
    BY DEF DefaultInterval, DefaultTimeout
<1>6. QED BY <1>1, <1>2, <1>3, <1>4, <1>5 DEF Defaults, Config

KeepsUnasked(config, existing) ==
    existing # None =>
        /\ \A field \in Unasked : config[field] = existing[field]
        /\ config.timeout <= existing.timeout

LEMMA AnswersMakeAConfig ==
    ASSUME NEW a \in Answers, NEW existing \in Config \cup {None},
           IntoConfig(a, existing) # None
    PROVE  /\ IntoConfig(a, existing) \in Config
           /\ Valid(IntoConfig(a, existing)) /\ ValidCredentials(IntoConfig(a, existing))
           /\ KeepsUnasked(IntoConfig(a, existing), existing)
           /\ IntoConfig(a, existing).key = IF a.key = Blank THEN None ELSE a.key
<1> DEFINE previous == IF existing = None THEN Defaults ELSE existing
           timeout == IF previous.timeout <= a.interval THEN previous.timeout ELSE a.interval
           key == IF a.key = Blank THEN None ELSE a.key
           dataset == IF a.dataset \in {None, Blank} THEN previous.dataset ELSE a.dataset
           config == [previous EXCEPT
               !.preset = a.preset, !.endpoint = a.endpoint, !.protocol = a.protocol,
               !.interval = a.interval, !.timeout = timeout, !.key = key,
               !.dataset = dataset, !.environment = a.environment,
               !.temperatures = a.temperatures, !.sensors = a.sensors]
<1>1. previous \in Config
    BY DefaultsAreAConfig
<1>2. IntoConfig(a, existing) = config /\ Valid(config) /\ ValidCredentials(config)
    BY DEF IntoConfig
<1>3. existing # None => previous = existing
    OBVIOUS
<1> HIDE DEF previous
<1>4. timeout \in Nat /\ timeout <= previous.timeout
    BY <1>1 DEF Config, Answers
<1>5. key \in Text \cup {None} /\ dataset \in Text \cup {None}
    BY <1>1 DEF Config, Answers
<1> HIDE DEF timeout, key, dataset
<1>6. config \in Config
    BY <1>1, <1>4, <1>5 DEF Config, Answers
<1>7. config.timeout = timeout /\ config.key = key
    BY <1>1 DEF Config
<1>8. ASSUME NEW field \in Unasked PROVE config[field] = previous[field]
    BY <1>1 DEF Config, Unasked
<1> HIDE DEF config
<1>9. QED BY <1>2, <1>3, <1>4, <1>6, <1>7, <1>8 DEF KeepsUnasked, key

-----------------------------------------------------------------------------
(***************************************************************************)
(* Files and environments.                                                 *)
(***************************************************************************)
LEMMA FromFileIs ==
    ASSUME NEW file \in File \cup {None}
    PROVE  /\ FromFile(file) \in Config \cup {None}
           /\ FromFile(file) # None =>
                  file # None /\ FromFile(file) = file.config /\ Valid(FromFile(file))
BY DEF FromFile, File

LEMMA ReadsWhatIsValid ==
    ASSUME NEW config \in Config, Valid(config), NEW mode \in {"0600", "0644"}
    PROVE  /\ [config |-> config, mode |-> mode] \in File
           /\ FromFile([config |-> config, mode |-> mode]) = config
           /\ [config |-> config, mode |-> mode] # None
<1>1. [config |-> config, mode |-> mode] \in File
    BY DEF File
<1>2. [config |-> config, mode |-> mode] # None
    BY <1>1, HostAgentAssumption
<1>3. config # None
    BY SettingsAssumption
<1>4. QED BY <1>1, <1>2, <1>3 DEF FromFile

LEMMA RecordOfConfig ==
    ASSUME NEW c \in Config
    PROVE  c = [preset |-> c.preset, endpoint |-> c.endpoint, protocol |-> c.protocol,
                interval |-> c.interval, timeout |-> c.timeout, key |-> c.key,
                dataset |-> c.dataset, headers |-> c.headers, service |-> c.service,
                environment |-> c.environment, hostName |-> c.hostName,
                attributes |-> c.attributes, filesystems |-> c.filesystems,
                perInterface |-> c.perInterface, temperatures |-> c.temperatures,
                sensors |-> c.sensors]
BY DEF Config

Fields ==
    {"preset", "endpoint", "protocol", "interval", "timeout", "key", "dataset", "headers",
     "service", "environment", "hostName", "attributes", "filesystems", "perInterface",
     "temperatures", "sensors"}

LEMMA FieldsOfConfig ==
    ASSUME NEW c \in Config
    PROVE  DOMAIN c = Fields /\ c = [field \in Fields |-> c[field]]
<1>1. DOMAIN c = Fields
    BY DEF Config, Fields
<1>2. c = [field \in DOMAIN c |-> c[field]]
    BY DEF Config
<1>3. QED BY <1>1, <1>2

(* What init renders reads back as what it meant: a key the file leaves    *)
(* out is one whose default it has.                                        *)
LEMMA RenderedReadsBack ==
    ASSUME NEW c \in Config
    PROVE  FromToml(RenderToml(c)) = c
<1> DEFINE document == RenderToml(c)
           rest == [Defaults EXCEPT
                       !.filesystems = IF DOMAIN document \cap Collection = {} THEN @ ELSE {}]
<1>1. /\ DOMAIN document = {field \in Fields :
              /\ field \in Options => c[field] # None
              /\ field \in {"headers", "attributes"} => c[field] # << >>}
      /\ \A field \in DOMAIN document : document[field] = c[field]
    BY FieldsOfConfig DEF RenderToml, Restrict
<1>2. DOMAIN document \subseteq Fields
    BY <1>1
<1>3. "sensors" \in DOMAIN document
    BY <1>1 DEF Fields, Options
<1>4. ASSUME NEW field \in Fields, field \notin DOMAIN document
      PROVE  rest[field] = c[field]
    <2>1. \/ field \in Options /\ c[field] = None
          \/ field \in {"headers", "attributes"} /\ c[field] = << >>
        BY <1>1, <1>4
    <2>2. /\ Defaults \in Config
          /\ Defaults["key"] = None /\ Defaults["dataset"] = None
          /\ Defaults["hostName"] = None /\ Defaults["headers"] = << >>
          /\ Defaults["attributes"] = << >>
        BY DefaultsAreAConfig DEF Defaults
    <2>3. rest[field] = Defaults[field]
        BY <2>1, <2>2 DEF Config, Options
    <2>4. QED BY <2>1, <2>2, <2>3 DEF Options
<1>5. DOMAIN rest = Fields
    BY DefaultsAreAConfig, FieldsOfConfig
<1> HIDE DEF document, rest
<1>6. Over(document, rest) =
          [field \in Fields |-> IF field \in DOMAIN document THEN document[field] ELSE rest[field]]
    BY <1>2, <1>5 DEF Over
<1>7. Over(document, rest) = [field \in Fields |-> c[field]]
    BY <1>1, <1>4, <1>6
<1>8. FromToml(RenderToml(c)) = Over(document, rest)
    BY DEF FromToml, document, rest
<1>9. QED BY <1>7, <1>8, FieldsOfConfig

LEMMA OverridingIs ==
    ASSUME NEW env, IsEnvironment(env),
           NEW suffix \in Overrides \ {"ENDPOINT", "INTERVAL_SECONDS"}
    PROVE  Overriding(env, suffix) \in Text \cup {None}
BY DEF Overriding, IsEnvironment

(* The environment overrides settings one by one.                          *)
LEMMA ApplyEnvIsAConfig ==
    ASSUME NEW c \in Config, NEW env, IsEnvironment(env), ApplyEnv(c, env) # None
    PROVE  ApplyEnv(c, env) \in Config /\ Valid(ApplyEnv(c, env))
<1> DEFINE get(suffix, old) == IF Overriding(env, suffix) = None THEN old
                               ELSE Overriding(env, suffix)
           preset == IF Overriding(env, "PRESET") = None THEN c.preset
                     ELSE ParsePreset(env["PRESET"])
           protocol == IF Overriding(env, "PROTOCOL") = None THEN c.protocol
                       ELSE ParseProtocol(env["PROTOCOL"])
           interval == get("INTERVAL_SECONDS", c.interval)
           endpoint == get("ENDPOINT", c.endpoint)
           key == get("API_KEY", c.key)
           dataset == get("DATASET", c.dataset)
           service == get("SERVICE_NAME", c.service)
           environment == get("ENVIRONMENT", c.environment)
           hostName == get("HOST_NAME", c.hostName)
           applied == [c EXCEPT !.endpoint = endpoint, !.preset = preset,
                                !.protocol = protocol, !.interval = interval,
                                !.key = key, !.dataset = dataset, !.service = service,
                                !.environment = environment, !.hostName = hostName]
<1>1. /\ None \notin {preset, protocol} /\ interval # NotANumber
      /\ ApplyEnv(c, env) = applied /\ Valid(applied)
    BY DEF ApplyEnv
<1>2. preset \in Presets /\ protocol \in Protocols
    <2>1. \A raw : ParsePreset(raw) # None => ParsePreset(raw) \in Presets
        BY DEF ParsePreset, Presets
    <2>2. \A raw : ParseProtocol(raw) # None => ParseProtocol(raw) \in Protocols
        BY DEF ParseProtocol, Protocols
    <2>3. c.preset \in Presets /\ c.protocol \in Protocols
        BY DEF Config
    <2>4. QED BY <1>1, <2>1, <2>2, <2>3
<1>3. interval \in Nat
    BY <1>1 DEF Overriding, IsEnvironment, Config
<1>4. endpoint \in Endpoint
    BY DEF Overriding, IsEnvironment, Config
<1>5. /\ key \in Text \cup {None} /\ dataset \in Text \cup {None} /\ service \in Text
      /\ environment \in Text /\ hostName \in Text \cup {None}
    <2>1. \A suffix \in {"API_KEY", "DATASET", "SERVICE_NAME", "ENVIRONMENT", "HOST_NAME"} :
              Overriding(env, suffix) \in Text \cup {None}
        <3>1. {"API_KEY", "DATASET", "SERVICE_NAME", "ENVIRONMENT", "HOST_NAME"}
                  \subseteq Overrides \ {"ENDPOINT", "INTERVAL_SECONDS"}
            BY DEF Overrides
        <3>2. QED BY <3>1, OverridingIs
    <2>2. /\ c.key \in Text \cup {None} /\ c.dataset \in Text \cup {None} /\ c.service \in Text
          /\ c.environment \in Text /\ c.hostName \in Text \cup {None}
        BY DEF Config
    <2>3. QED BY <2>1, <2>2
<1> HIDE DEF get, preset, protocol, interval, endpoint, key, dataset, service, environment,
             hostName
<1>6. applied \in Config
    BY <1>2, <1>3, <1>4, <1>5 DEF Config
<1>7. QED BY <1>1, <1>6

LEMMA LoadedIsAConfig ==
    ASSUME NEW file \in File \cup {None}, NEW env, IsEnvironment(env), Loaded(file, env) # None
    PROVE  Loaded(file, env) \in Config /\ Valid(Loaded(file, env))
<1>1. FromFile(file) # None /\ FromFile(file) \in Config
    BY FromFileIs DEF Loaded
<1>2. Loaded(file, env) = ApplyEnv(FromFile(file), env)
    BY <1>1 DEF Loaded
<1>3. QED BY <1>1, <1>2, ApplyEnvIsAConfig

(* An environment that overrides nothing, or the key alone, gives back a   *)
(* configuration that was sound with that key.                             *)
LEMMA ApplyEnvOfTheKey ==
    ASSUME NEW c \in Config, NEW d \in Config, Valid(d), ValidCredentials(d), NEW env,
           \/ c = d /\ Overrides \cap DOMAIN env = {}
           \/ /\ Overrides \cap DOMAIN env \subseteq {"API_KEY"}
              /\ c = [d EXCEPT !.key = None]
              /\ Overriding(env, "API_KEY") = d.key /\ d.key # None
    PROVE  ApplyEnv(c, env) = d
<1>1. \A suffix \in Overrides \ {"API_KEY"} : Overriding(env, suffix) = None
    BY DEF Overriding
<1>2. /\ Overriding(env, "PRESET") = None /\ Overriding(env, "PROTOCOL") = None
      /\ Overriding(env, "INTERVAL_SECONDS") = None /\ Overriding(env, "ENDPOINT") = None
      /\ Overriding(env, "DATASET") = None /\ Overriding(env, "SERVICE_NAME") = None
      /\ Overriding(env, "ENVIRONMENT") = None /\ Overriding(env, "HOST_NAME") = None
    BY <1>1 DEF Overrides
<1> DEFINE key == IF Overriding(env, "API_KEY") = None THEN c.key
                  ELSE Overriding(env, "API_KEY")
           applied == [c EXCEPT !.endpoint = c.endpoint, !.preset = c.preset,
                                !.protocol = c.protocol, !.interval = c.interval,
                                !.key = key, !.dataset = c.dataset, !.service = c.service,
                                !.environment = c.environment, !.hostName = c.hostName]
<1>3. key = d.key
    <2>1. CASE c = d /\ Overrides \cap DOMAIN env = {}
        BY <2>1 DEF Overriding, Overrides
    <2>2. CASE Overriding(env, "API_KEY") = d.key /\ d.key # None
        BY <2>2
    <2>3. QED BY <2>1, <2>2
<1>4. applied = [c EXCEPT !.key = d.key]
    BY <1>3, RecordOfConfig DEF Config
<1>5. applied = d
    BY <1>4, RecordOfConfig DEF Config
<1>6. c.preset \in Presets /\ c.protocol \in Protocols /\ c.interval \in Nat
    BY DEF Config
<1>7. ApplyEnv(c, env) =
        IF None \in {c.preset, c.protocol} \/ c.interval = NotANumber THEN None
        ELSE IF Valid(applied) /\ ValidCredentials(applied) THEN applied ELSE None
    BY <1>2 DEF ApplyEnv
<1> HIDE DEF applied
<1>8. None \notin {c.preset, c.protocol} /\ c.interval # NotANumber
    BY <1>6, SettingsAssumption
<1>9. QED BY <1>5, <1>7, <1>8

-----------------------------------------------------------------------------
(***************************************************************************)
(* Instruments, called back in the order of their positions.               *)
(***************************************************************************)
LEMMA LeastOf ==
    ASSUME NEW T \in SUBSET Nat, T # {}
    PROVE  Min(T) \in T /\ \A m \in T : Min(T) <= m
<1>1. PICK n \in T : \A m \in T : ~(<< m, n >> \in OpToRel(<, Nat))
    BY NatLessThanWellFounded, WFMin
<1>2. \A m \in T : ~(m < n)
    BY <1>1 DEF OpToRel
<1>3. \E i \in T : \A m \in T : i <= m
    BY <1>2
<1>4. QED BY <1>3 DEF Min

LEMMA PositionsAre ==
    /\ DOMAIN MetricKindOrder = 1 .. 13
    /\ MetricKindOrder[12] = "AgentHeartbeat"
    /\ MetricKindOrder[13] = "AgentCollectionFailures"
    /\ \A i \in 1 .. 13 : MetricKindOrder[i] \in MetricKinds
    /\ \A i, j \in 1 .. 13 : MetricKindOrder[i] = MetricKindOrder[j] => i = j
    /\ \A i \in 1 .. 13 : Own(MetricKindOrder[i]) <=> i >= 12
BY DEF MetricKindOrder, MetricKinds, Own

LEMMA RegisteredAre ==
    /\ Registered \subseteq 1 .. 13 /\ Registered \in SUBSET Nat
    /\ 12 \in Registered /\ 13 \in Registered
    /\ \A i \in Registered : i \in Int /\ 1 <= i /\ i <= 13 /\ i # None
<1>1. /\ Registered \subseteq 1 .. 13
      /\ 12 \in Registered /\ 13 \in Registered
    BY PositionsAre DEF Registered
<1>2. ASSUME NEW i \in Registered PROVE i \in Int /\ 1 <= i /\ i <= 13
    BY <1>1
<1>3. QED BY <1>1, <1>2, TelemetryAssumption

LEMMA FirstIs ==
    Min(Registered) \in Registered /\ Min(Registered) <= 12 /\ Min(Registered) \notin {13, None}
<1> DEFINE first == Min(Registered)
<1>1. first \in Registered /\ first <= 12
    BY LeastOf, RegisteredAre
<1> HIDE DEF first
<1>2. first # 13 /\ first # None
    BY <1>1, RegisteredAre
<1>3. QED BY <1>1, <1>2 DEF first

LEMMA FollowingIs ==
    ASSUME NEW i \in Registered
    PROVE  \/ i = 13 /\ Following(i) = None
           \/ /\ i # 13 /\ Following(i) \in Registered /\ i < Following(i)
              /\ Following(i) # None
              /\ i < 12 => Following(i) <= 12 /\ Following(i) # 13
              /\ i = 12 => Following(i) = 13
<1> DEFINE later == {j \in Registered : j > i}
<1>1. later \in SUBSET Nat /\ i \in 1 .. 13
    BY RegisteredAre
<1>2. CASE i = 13
    <2>1. later = {}
        <3>1. ASSUME NEW j \in Registered PROVE ~(j > 13)
            BY RegisteredAre
        <3>2. QED BY <1>2, <3>1
    <2>2. QED BY <1>2, <2>1 DEF Following
<1>3. CASE i # 13
    <2>1. 13 \in later /\ (i < 12 => 12 \in later)
        BY <1>1, <1>3, RegisteredAre
    <2>2. Min(later) \in later /\ \A j \in later : Min(later) <= j
        BY <1>1, <2>1, LeastOf
    <2>3. Following(i) = Min(later)
        BY <2>1 DEF Following
    <2> HIDE DEF later
    <2>4. Following(i) \in later /\ (i < 12 => Following(i) <= 12)
        BY <2>1, <2>2, <2>3
    <2>5. Following(i) \in Registered /\ Following(i) > i
        BY <2>4 DEF later
    <2>6. Following(i) # None
        BY <2>5, RegisteredAre
    <2>7. i < 12 => Following(i) # 13
        BY <2>4, <2>5, RegisteredAre
    <2>8. i = 12 => Following(i) = 13
        <3> DEFINE f == Following(i)
        <3>1. f \in Registered /\ f > i
            BY <2>5
        <3> HIDE DEF f
        <3>2. i = 12 => f = 13
            BY <3>1, RegisteredAre
        <3>3. QED BY <3>2 DEF f
    <2>9. i < Following(i)
        BY <2>5
    <2>10. QED BY <1>3, <2>4, <2>5, <2>6, <2>7, <2>8, <2>9
<1>4. QED BY <1>2, <1>3

-----------------------------------------------------------------------------
(***************************************************************************)
(* The process and its cycle are the records they are.                     *)
(***************************************************************************)
IsCache(k) ==
    k = [takenAt |-> k.takenAt, observations |-> k.observations, failing |-> k.failing,
         failures |-> k.failures]

IsCycle(c) ==
    c = [started |-> c.started, next |-> c.next, points |-> c.points, last |-> c.last,
         failed |-> c.failed]

IsAgent(a) ==
    /\ a = [config |-> a.config, identity |-> a.identity, os |-> a.os, cache |-> a.cache,
            beats |-> a.beats, due |-> a.due, cycle |-> a.cycle]
    /\ a.config \in Config /\ a.config.interval >= 1
    /\ IsCache(a.cache)

AgentIsWhole ==
    /\ Running => IsAgent(agent)
    /\ InCycle => IsCycle(agent.cycle)
    /\ Collecting => agent.cycle.next \in Registered

(* The process after a step of its cycle, and between its cycles.          *)
Carried(a, cache, beats, points, next) ==
    [config |-> a.config, identity |-> a.identity, os |-> a.os, cache |-> cache,
     beats |-> beats, due |-> a.due,
     cycle |-> [started |-> a.cycle.started, next |-> next, points |-> points,
                last |-> a.cycle.last, failed |-> a.cycle.failed]]

Turned(a, due, cycle) ==
    [config |-> a.config, identity |-> a.identity, os |-> a.os, cache |-> a.cache,
     beats |-> a.beats, due |-> due, cycle |-> cycle]

Opening(a, started, last) ==
    [started |-> started, next |-> Min(Registered), points |-> {}, last |-> last,
     failed |-> a.cache.failures]

LEMMA TurnedIs ==
    ASSUME NEW a, IsAgent(a), NEW c, NEW d, NEW b, b = [a EXCEPT !.cycle = c, !.due = d]
    PROVE  b = Turned(a, d, c)
BY DEF IsAgent, Turned

LEMMA BegunIs ==
    ASSUME Running, IsAgent(agent), NEW last
    PROVE  Begun(last) = Turned(agent, now + agent.config.interval * Second,
                                Opening(agent, now, last))
<1> DEFINE c == Opening(agent, now, last)
           d == now + agent.config.interval * Second
<1>1. Begun(last) = [agent EXCEPT !.cycle = c, !.due = d]
    BY DEF Begun, Opening
<1> HIDE DEF c, d
<1>2. Begun(last) = Turned(agent, d, c)
    BY <1>1, TurnedIs
<1>3. QED BY <1>2 DEF c, d

Settled(k) ==
    \/ IsFresh(agent.cache, now, MaxAge(agent.config)) /\ k = agent.cache
    \/ /\ ~IsFresh(agent.cache, now, MaxAge(agent.config))
       /\ \E m \in Machines : k = Sampled(agent.cache, now, Collect(agent.config, m))
    \/ ~IsFresh(agent.cache, now, MaxAge(agent.config)) /\ k = NotSampled(agent.cache, now)

(* The steps of a process, by what becomes of it.                          *)
Opens ==
    /\ Running /\ ~InCycle
    /\ \E last \in BOOLEAN :
           /\ last \/ now >= agent.due
           /\ agent' = Turned(agent, now + agent.config.interval * Second,
                             Opening(agent, now, last))
    /\ UNCHANGED << now, delivered, starts >>

Observes ==
    /\ Collecting /\ ~Own(Instrument) /\ agent.cycle.next \in Registered
    /\ agent.cycle.next < 12
    /\ \E k : /\ Settled(k)
              /\ agent' = Carried(agent, k, agent.beats,
                              Pointed(agent.cycle.points, Instrument,
                                      ObservationsOf(k, Instrument), k.takenAt),
                              Following(agent.cycle.next))
    /\ UNCHANGED << now, delivered, starts >>

Pulses ==
    /\ Collecting /\ agent.cycle.next = 12
    /\ agent' = Carried(agent, agent.cache, agent.beats + 1,
                        agent.cycle.points \cup {OwnPoint("AgentHeartbeat", agent.beats + 1)},
                        Following(12))
    /\ UNCHANGED << now, delivered, starts >>

Confesses ==
    /\ Collecting /\ agent.cycle.next = 13
    /\ agent' = Carried(agent, agent.cache, agent.beats,
                        agent.cycle.points
                            \cup {OwnPoint("AgentCollectionFailures", agent.cache.failures)},
                        None)
    /\ UNCHANGED << now, delivered, starts >>

Ends ==
    /\ Exporting
    /\ delivered' \in {delivered, BeatSent}
    /\ agent' \in {None, Turned(agent, agent.due, None)}
    /\ agent.cycle.last => agent' = None
    /\ UNCHANGED << now, starts >>

Stops == Running /\ ~InCycle /\ agent' = None /\ UNCHANGED << now, delivered, starts >>

Launches ==
    /\ agent = None /\ starts < scenario.starts
    /\ \E config \in Config :
           Valid(config) /\ agent' = Fresh(config, scenario.os, starts + 1)
    /\ starts' = starts + 1
    /\ UNCHANGED << now, delivered >>

LEMMA CallbackDoes ==
    ASSUME AgentIsWhole, Callback
    PROVE  Observes
<1>1. Collecting /\ ~Own(Instrument) /\ agent.cycle.next \in Registered
    BY DEF Callback, AgentIsWhole
<1>2. IsAgent(agent) /\ IsCycle(agent.cycle)
    BY <1>1 DEF AgentIsWhole, Collecting, InCycle
<1>3. \E k : Settled(k) /\ Observe(k)
    BY DEF Callback, Settled
<1>4. PICK k : Settled(k) /\ Observe(k)
    BY <1>3
<1> DEFINE points == Pointed(agent.cycle.points, Instrument, ObservationsOf(k, Instrument),
                             k.takenAt)
           next == Following(agent.cycle.next)
<1>5. agent' = [agent EXCEPT !.cache = k, !.cycle.points = points, !.cycle.next = next]
    BY <1>4 DEF Observe
<1> HIDE DEF points, next
<1>6. agent' = Carried(agent, k, agent.beats, points, next)
    BY <1>2, <1>5 DEF IsAgent, IsCycle, Carried
<1>7. agent.cycle.next < 12
    <2>1. agent.cycle.next \in 1 .. 13 /\ ~Own(MetricKindOrder[agent.cycle.next])
        BY <1>1, RegisteredAre DEF Instrument
    <2>2. QED BY <2>1, PositionsAre
<1>8. QED BY <1>1, <1>4, <1>6, <1>7 DEF points, next, Callback, Observes

LEMMA BeatDoes ==
    ASSUME AgentIsWhole, Beat
    PROVE  Pulses
<1>1. Collecting /\ Instrument = "AgentHeartbeat" /\ agent.cycle.next \in Registered
    BY DEF Beat, AgentIsWhole
<1>2. IsAgent(agent) /\ IsCycle(agent.cycle)
    BY <1>1 DEF AgentIsWhole, Collecting, InCycle
<1>3. agent.cycle.next = 12
    BY <1>1, PositionsAre, RegisteredAre DEF Instrument
<1> DEFINE point == OwnPoint("AgentHeartbeat", agent.beats + 1)
<1>4. agent' = [agent EXCEPT !.beats = @ + 1, !.cycle.next = Following(@),
                             !.cycle.points = @ \cup {point}]
    BY DEF Beat
<1> HIDE DEF point
<1>5. agent' = Carried(agent, agent.cache, agent.beats + 1, agent.cycle.points \cup {point},
                       Following(12))
    BY <1>2, <1>3, <1>4 DEF IsAgent, IsCycle, Carried
<1>6. QED BY <1>1, <1>3, <1>5 DEF point, Beat, Pulses

LEMMA ReportDoes ==
    ASSUME AgentIsWhole, ReportFailures
    PROVE  Confesses
<1>1. /\ Collecting /\ Instrument = "AgentCollectionFailures"
      /\ agent.cycle.next \in Registered
    BY DEF ReportFailures, AgentIsWhole
<1>2. IsAgent(agent) /\ IsCycle(agent.cycle)
    BY <1>1 DEF AgentIsWhole, Collecting, InCycle
<1>3. agent.cycle.next = 13 /\ Following(13) = None
    BY <1>1, PositionsAre, RegisteredAre, FollowingIs DEF Instrument
<1> DEFINE point == OwnPoint("AgentCollectionFailures", agent.cache.failures)
<1>4. agent' = [agent EXCEPT !.cycle.next = Following(@), !.cycle.points = @ \cup {point}]
    BY DEF ReportFailures
<1> HIDE DEF point
<1>5. agent' = Carried(agent, agent.cache, agent.beats, agent.cycle.points \cup {point}, None)
    BY <1>2, <1>3, <1>4 DEF IsAgent, IsCycle, Carried
<1>6. QED BY <1>1, <1>3, <1>5 DEF point, ReportFailures, Confesses

LEMMA EndDoes ==
    ASSUME AgentIsWhole, EndCycle
    PROVE  Ends
<1>1. Exporting /\ IsAgent(agent)
    BY DEF EndCycle, AgentIsWhole, Exporting, InCycle
<1>2. ASSUME NEW b, b = [agent EXCEPT !.cycle = None]
      PROVE  b = Turned(agent, agent.due, None)
    BY <1>1, <1>2 DEF IsAgent, Turned
<1>3. QED BY <1>1, <1>2 DEF EndCycle, Ends

-----------------------------------------------------------------------------
(***************************************************************************)
(* What init does to the host.                                             *)
(***************************************************************************)
HostTyped ==
    /\ scenario \in Scenarios
    /\ files \in [Paths -> File \cup {None}] /\ baks \in [Paths -> File \cup {None}]
    /\ IsEnvironment(envFile)
    /\ managers \subseteq ServiceManagers
    /\ setup \in Setups \cup {None} /\ found \in [Paths -> File \cup {None}]
    /\ tested \in [path : Paths, config : Config] \cup {None}
    /\ setups \in 0..MaxSetups

LEMMA HostIs ==
    ASSUME NEW s \in Scenarios
    PROVE  IsHost(s)
BY HostAgentAssumption

LEMMA LocationIs ==
    ASSUME NEW f \in Facts, LocationOf(f) # None
    PROVE  LocationOf(f) \in Paths
BY DEF LocationOf, Facts, Paths

LEMMA StepIs ==
    ASSUME NEW pc \in {"confirm", "key", "backup", "move", "verify", "start"},
           setup \in Setups, Step(pc)
    PROVE  /\ setup' \in Setups /\ setup'.pc = pc
           /\ setup'.request = setup.request /\ setup'.path = setup.path
           /\ setup'.config = setup.config
BY DEF Step, Setups

LEMMA AtIs ==
    ASSUME HostTyped, NEW pc, At(pc)
    PROVE  setup \in Setups /\ setup # None /\ setup.pc = pc
BY DEF HostTyped, At

(* The key may travel in the environment file; the rest is in the file.    *)
LEMMA OnDiskIs ==
    ASSUME setup \in Setups
    PROVE  /\ OnDisk \in Config
           /\ \A field \in Fields \ {"key"} : OnDisk[field] = setup.config[field]
           /\ OnDisk.key = IF KeyGoesOut THEN None ELSE setup.config.key
           /\ Valid(setup.config) => Valid(OnDisk)
           /\ ReadsBack
           /\ Written = [config |-> OnDisk, mode |-> ConfigMode]
           /\ Written \in File /\ Torn \in File
<1>1. setup.config \in Config
    BY DEF Setups
<1>2. OnDisk \in Config
    BY <1>1 DEF OnDisk, Config
<1>3. \A field \in Fields \ {"key"} : OnDisk[field] = setup.config[field]
    BY <1>1 DEF OnDisk, Config, Fields
<1>4. OnDisk.key = IF KeyGoesOut THEN None ELSE setup.config.key
    BY <1>1 DEF OnDisk, Config
<1>5. Valid(setup.config) => Valid(OnDisk)
    BY <1>1 DEF Valid, OnDisk, Config
<1>6. FromToml(RenderToml(OnDisk)) = OnDisk
    BY <1>2, RenderedReadsBack
<1>7. ConfigMode \in {"0600", "0644"}
    BY DEF ConfigMode
<1> HIDE DEF OnDisk, ConfigMode
<1>8. Written = [config |-> OnDisk, mode |-> ConfigMode]
    BY <1>6 DEF Written
<1>9. Written \in File /\ Torn \in File
    BY <1>2, <1>7, <1>8 DEF Torn, File
<1>10. QED BY <1>2, <1>3, <1>4, <1>5, <1>6, <1>8, <1>9 DEF ReadsBack

(* A run of init begins with a configuration that is sound and says what   *)
(* its user meant.                                                         *)
Meant(config, request, existing) ==
    /\ KeepsUnasked(config, existing)
    /\ \E key : /\ MeantKey(key, request.args, request.typed, existing)
                /\ config.key = IF key = Blank THEN None ELSE key

LEMMA BeginSetupDoes ==
    ASSUME HostTyped, NEW request \in scenario.requests, BeginSetup(request)
    PROVE  /\ request \in Requests
           /\ LocationOf(facts) \in Paths
           /\ setups' \in 0..MaxSetups
           /\ UNCHANGED << scenario, files, baks, envFile, managers, tested >>
           /\ found' = [found EXCEPT ![LocationOf(facts)] = files[LocationOf(facts)]]
           /\ \E config \in Config :
                  /\ setup' = [pc |-> "confirm", request |-> request, path |-> LocationOf(facts),
                               config |-> config]
                  /\ Valid(config) /\ ValidCredentials(config)
                  /\ Meant(config, request, FromFile(files[LocationOf(facts)]))
<1> DEFINE path == LocationOf(facts)
           existing == FromFile(files[path])
           answers(m) == IF request.typed = None THEN FromArguments(request.args, existing)
                         ELSE Asked(request.args, request.typed, existing, SensorsOffered(m))
           config(m) == IF answers(m) = Bad THEN None ELSE IntoConfig(answers(m), existing)
<1>1. request \in Requests
    BY HostIs DEF HostTyped, IsHost
<1>2. path \in Paths
    BY HostIs, LocationIs DEF HostTyped, IsHost, BeginSetup, facts
<1>3. existing \in Config \cup {None}
    <2>1. files[path] \in File \cup {None}
        BY <1>2 DEF HostTyped
    <2> HIDE DEF path
    <2>2. QED BY <2>1, FromFileIs
<1>4. setups' \in 0..MaxSetups
    BY HostAgentAssumption DEF BeginSetup, HostTyped
<1>5. PICK m \in Machines :
          /\ config(m) # None
          /\ setup' = [pc |-> "confirm", request |-> request, path |-> path,
                       config |-> config(m)]
    BY DEF BeginSetup
<1>6. answers(m) # Bad /\ config(m) = IntoConfig(answers(m), existing)
    BY <1>5
<1>7. request.args \in Args /\ request.typed \in TypedAnswers \cup {None}
    BY <1>1 DEF Requests
<1>8. /\ answers(m) \in Answers
      /\ MeantKey(answers(m).key, request.args, request.typed, existing)
    <2> DEFINE args == request.args
               typed == request.typed
    <2> HIDE DEF existing
    <2>1. CASE typed = None
        <3>1. answers(m) = FromArguments(args, existing)
            BY <2>1
        <3>2. QED BY <1>3, <1>6, <1>7, <2>1, <3>1, ArgumentsAreAnswers
    <2>2. CASE typed # None
        <3>1. answers(m) = Asked(args, typed, existing, SensorsOffered(m))
            BY <2>2
        <3>2. typed \in TypedAnswers /\ args \in Args
            BY <1>7, <2>2
        <3> HIDE DEF typed, args
        <3>3. /\ Asked(args, typed, existing, SensorsOffered(m)) \in Answers
              /\ MeantKey(Asked(args, typed, existing, SensorsOffered(m)).key, args, typed,
                          existing)
            BY <1>3, <1>6, <2>2, <3>1, <3>2, TypedAnswersAreAnswers
        <3>4. QED BY <3>1, <3>3 DEF args, typed
    <2>3. QED BY <2>1, <2>2
<1> HIDE DEF answers, existing
<1>9. /\ config(m) \in Config /\ Valid(config(m)) /\ ValidCredentials(config(m))
      /\ KeepsUnasked(config(m), existing)
      /\ config(m).key = IF answers(m).key = Blank THEN None ELSE answers(m).key
    BY <1>3, <1>5, <1>6, <1>8, AnswersMakeAConfig
<1> HIDE DEF config
<1>10. Meant(config(m), request, existing)
    BY <1>8, <1>9 DEF Meant
<1>11. /\ UNCHANGED << scenario, files, baks, envFile, managers, tested >>
       /\ found' = [found EXCEPT ![path] = files[path]]
    BY DEF BeginSetup
<1>12. QED BY <1>1, <1>2, <1>4, <1>5, <1>9, <1>10, <1>11 DEF existing

(* What a run of init, or a tested configuration, puts at its path.        *)
GoesOut(s, f) == KeyPlacement(s.path, f) = "EnvironmentFile" /\ s.config.key # None

Placed(s, f) ==
    [config |-> IF GoesOut(s, f) THEN [s.config EXCEPT !.key = None] ELSE s.config,
     mode |-> IF KeyPlacement(s.path, f) = "EnvironmentFile" THEN "0644" ELSE "0600"]

Carries(env, s, f) == GoesOut(s, f) => Overriding(env, "API_KEY") = s.config.key

IsSound(c) == Valid(c) /\ ValidCredentials(c)

(* What a run of init found is at its path until the move, which the backup *)
(* and the key precede.                                                    *)
SetupHolds ==
    setup # None =>
        /\ setup.path = LocationOf(facts)
        /\ IsSound(setup.config)
        /\ Meant(setup.config, setup.request, FromFile(found[setup.path]))
        /\ setup.pc \in {"confirm", "key", "backup", "move"} =>
               files[setup.path] = found[setup.path]
        /\ setup.pc \in {"move", "verify", "start"} =>
               found[setup.path] \in {None, baks[setup.path]}
        /\ setup.pc \in {"verify", "start"} => files[setup.path] = Placed(setup, facts)
        /\ setup.pc \in {"backup", "move", "verify"} => tested = None
        /\ setup.pc \in {"backup", "move", "verify", "start"} => Carries(envFile, setup, facts)

(* What init tested stays where it is until init writes again.             *)
TestedHolds ==
    tested # None =>
        /\ tested.path = LocationOf(facts)
        /\ IsSound(tested.config)
        /\ files[tested.path] = Placed(tested, facts)
        /\ Carries(envFile, tested, facts)

ManagersHold ==
    "LaunchAgentLoaded" \in managers =>
        managers = {"LaunchAgentLoaded"} /\ facts.launchAgent

(* It stays when the run is over, however it ended.                        *)
FoundHolds == \A p \in Paths : found[p] \in {files[p], baks[p], None}

HostInv == HostTyped /\ SetupHolds /\ FoundHolds /\ TestedHolds /\ ManagersHold

LEMMA PlacedIs ==
    ASSUME setup \in Setups
    PROVE  /\ Written = Placed(setup, facts)
           /\ KeyGoesOut <=> GoesOut(setup, facts)
BY OnDiskIs DEF Placed, OnDisk, ConfigMode, KeyGoesOut, GoesOut

LEMMA BeginSetupKeeps ==
    ASSUME HostInv, NEW request \in scenario.requests, BeginSetup(request)
    PROVE  HostInv'
<1> USE DEF HostInv
<1>1. /\ request \in Requests
      /\ LocationOf(facts) \in Paths
      /\ setups' \in 0..MaxSetups
      /\ UNCHANGED << scenario, files, baks, envFile, managers, tested >>
      /\ found' = [found EXCEPT ![LocationOf(facts)] = files[LocationOf(facts)]]
    BY BeginSetupDoes
<1>2. PICK config \in Config :
          /\ setup' = [pc |-> "confirm", request |-> request, path |-> LocationOf(facts),
                       config |-> config]
          /\ Valid(config) /\ ValidCredentials(config)
          /\ Meant(config, request, FromFile(files[LocationOf(facts)]))
    BY BeginSetupDoes
<1>3. files[LocationOf(facts)] \in File \cup {None}
    BY <1>1 DEF HostTyped
<1>4. HostTyped'
    <2>1. setup' \in Setups
        BY <1>1, <1>2, <1>3 DEF Setups
    <2>2. found' \in [Paths -> File \cup {None}]
        BY <1>1, <1>3 DEF HostTyped
    <2>3. QED BY <1>1, <2>1, <2>2 DEF HostTyped
<1>5. facts' = facts
    BY <1>1 DEF facts
<1>6. found'[LocationOf(facts)] = files[LocationOf(facts)]
    BY <1>1 DEF HostTyped
<1>7. SetupHolds'
    BY <1>1, <1>2, <1>5, <1>6 DEF SetupHolds, IsSound
<1>8. FoundHolds'
    BY <1>1, <1>6 DEF FoundHolds, HostTyped
<1>9. TestedHolds' /\ ManagersHold'
    BY <1>1, <1>5 DEF TestedHolds, ManagersHold
<1>10. QED BY <1>4, <1>7, <1>8, <1>9

LEMMA ConfirmKeeps ==
    ASSUME HostInv, Confirm
    PROVE  HostInv'
<1> USE DEF HostInv
<1>1. UNCHANGED << scenario, files, baks, envFile, managers, setups, found, tested >>
    BY DEF Confirm
<1>2. facts' = facts
    BY <1>1 DEF facts
<1>3. FoundHolds' /\ TestedHolds' /\ ManagersHold'
    BY <1>1, <1>2 DEF FoundHolds, TestedHolds, ManagersHold
<1>4. setup \in Setups /\ setup # None /\ setup.pc = "confirm"
    BY AtIs DEF Confirm
<1>5. CASE setup' = None
    BY <1>1, <1>3, <1>5 DEF HostTyped, SetupHolds
<1>6. CASE Step("key")
    <2>1. /\ setup' \in Setups /\ setup'.pc = "key"
          /\ setup'.request = setup.request /\ setup'.path = setup.path
          /\ setup'.config = setup.config
        BY <1>4, <1>6, StepIs
    <2>2. HostTyped'
        BY <1>1, <2>1 DEF HostTyped
    <2>3. SetupHolds'
        BY <1>1, <1>2, <1>4, <2>1 DEF SetupHolds
    <2>4. QED BY <1>3, <2>2, <2>3
<1>7. QED BY <1>5, <1>6 DEF Confirm

LEMMA MergedIs ==
    ASSUME NEW env, IsEnvironment(env), NEW key \in Text
    PROVE  /\ IsEnvironment(MergeEnvironmentFile(env, key))
           /\ key # Blank => Overriding(MergeEnvironmentFile(env, key), "API_KEY") = key
<1> DEFINE merged == MergeEnvironmentFile(env, key)
<1>1. /\ DOMAIN merged = {"API_KEY"} \cup DOMAIN env
      /\ \A n \in DOMAIN merged : merged[n] = IF n = "API_KEY" THEN key ELSE env[n]
    BY DEF MergeEnvironmentFile, Over, Only
<1> HIDE DEF merged
<1>2. IsEnvironment(merged)
    BY <1>1 DEF IsEnvironment
<1>3. key # Blank => Overriding(merged, "API_KEY") = key
    BY <1>1 DEF Overriding
<1>4. QED BY <1>2, <1>3 DEF merged

(* The key of a run of init is none, or a text that says something.        *)
LEMMA MeantKeysAreTexts ==
    ASSUME NEW config \in Config, NEW request, NEW existing, Meant(config, request, existing)
    PROVE  config.key # None => config.key \in Text /\ config.key # Blank
BY DEF Meant, Config

LEMMA WriteKeyKeeps ==
    ASSUME HostInv, WriteKey
    PROVE  HostInv'
<1> USE DEF HostInv
<1>1. /\ UNCHANGED << scenario, files, baks, managers, setups, found >>
      /\ tested' = None
      /\ envFile' = IF KeyGoesOut THEN MergeEnvironmentFile(envFile, setup.config.key)
                    ELSE envFile
    BY DEF WriteKey
<1>2. facts' = facts
    BY <1>1 DEF facts
<1>3. setup \in Setups /\ setup # None /\ setup.pc = "key"
    BY AtIs DEF WriteKey
<1>4. /\ setup' \in Setups /\ setup'.pc = "backup"
      /\ setup'.request = setup.request /\ setup'.path = setup.path
      /\ setup'.config = setup.config
    BY <1>3, StepIs DEF WriteKey
<1>5. setup.config \in Config /\ Meant(setup.config, setup.request, FromFile(found[setup.path]))
    BY <1>3 DEF SetupHolds, Setups
<1>6. KeyGoesOut <=> GoesOut(setup, facts)
    BY <1>3, PlacedIs
<1>7. IsEnvironment(envFile') /\ Carries(envFile', setup, facts)
    <2> DEFINE c == setup.config
               request == setup.request
               existing == FromFile(found[setup.path])
    <2>1. c.key # None => c.key \in Text /\ c.key # Blank
        <3> HIDE DEF c, request, existing
        <3>1. c \in Config /\ Meant(c, request, existing)
            BY <1>5 DEF c, request, existing
        <3>2. QED BY <3>1, MeantKeysAreTexts
    <2>2. CASE KeyGoesOut
        <3> DEFINE key == c.key
        <3>1. key \in Text /\ key # Blank
            BY <2>1, <2>2 DEF KeyGoesOut
        <3>2. envFile' = MergeEnvironmentFile(envFile, key) /\ IsEnvironment(envFile)
            BY <1>1, <2>2 DEF HostTyped
        <3> HIDE DEF key
        <3>3. IsEnvironment(envFile') /\ Overriding(envFile', "API_KEY") = key
            BY <3>1, <3>2, MergedIs
        <3>4. QED BY <3>3 DEF Carries, key
    <2>3. CASE ~KeyGoesOut
        BY <1>1, <1>6, <2>3 DEF Carries, HostTyped
    <2>4. QED BY <2>2, <2>3
<1>8. HostTyped'
    BY <1>1, <1>4, <1>7 DEF HostTyped
<1>9. SetupHolds'
    <2>1. GoesOut(setup', facts) <=> GoesOut(setup, facts)
        BY <1>4 DEF GoesOut
    <2>2. Carries(envFile', setup', facts')
        BY <1>2, <1>4, <1>7, <2>1 DEF Carries
    <2>3. QED BY <1>1, <1>2, <1>3, <1>4, <2>2 DEF SetupHolds
<1>10. FoundHolds' /\ TestedHolds' /\ ManagersHold'
    BY <1>1, <1>2 DEF FoundHolds, TestedHolds, ManagersHold
<1>11. QED BY <1>8, <1>9, <1>10

LEMMA BackupKeeps ==
    ASSUME HostInv, Backup
    PROVE  HostInv'
<1> USE DEF HostInv
<1>1. /\ UNCHANGED << scenario, files, envFile, managers, setups, found, tested >>
      /\ baks' = IF files[setup.path] = None THEN baks
                 ELSE [baks EXCEPT ![setup.path] = files[setup.path]]
    BY DEF Backup
<1>2. facts' = facts
    BY <1>1 DEF facts
<1>3. setup \in Setups /\ setup # None /\ setup.pc = "backup"
    BY AtIs DEF Backup
<1>4. /\ setup' \in Setups /\ setup'.pc = "move"
      /\ setup'.request = setup.request /\ setup'.path = setup.path
      /\ setup'.config = setup.config
    BY <1>3, StepIs DEF Backup
<1>5. setup.path \in Paths /\ files[setup.path] \in File \cup {None}
    BY <1>3 DEF Setups, HostTyped
<1>6. HostTyped'
    BY <1>1, <1>4, <1>5 DEF HostTyped
<1>7. found'[setup'.path] \in {None, baks'[setup'.path]} /\ FoundHolds'
    BY <1>1, <1>3, <1>4, <1>5 DEF SetupHolds, FoundHolds, HostTyped
<1>8. Carries(envFile', setup', facts')
    BY <1>1, <1>2, <1>3, <1>4 DEF SetupHolds, Carries, GoesOut
<1>9. SetupHolds'
    BY <1>1, <1>2, <1>3, <1>4, <1>7, <1>8 DEF SetupHolds
<1>10. TestedHolds' /\ ManagersHold'
    BY <1>1, <1>2 DEF TestedHolds, ManagersHold
<1>11. QED BY <1>6, <1>7, <1>9, <1>10

LEMMA MoveKeeps ==
    ASSUME HostInv, Move
    PROVE  HostInv'
<1> USE DEF HostInv
<1>1. /\ UNCHANGED << scenario, baks, envFile, managers, setups, found, tested >>
      /\ files' = [files EXCEPT ![setup.path] = Written]
    BY DEF Move
<1>2. facts' = facts
    BY <1>1 DEF facts
<1>3. setup \in Setups /\ setup # None /\ setup.pc = "move"
    BY AtIs DEF Move
<1>4. /\ setup' \in Setups /\ setup'.pc = "verify"
      /\ setup'.request = setup.request /\ setup'.path = setup.path
      /\ setup'.config = setup.config
    BY <1>3, StepIs DEF Move
<1>5. setup.path \in Paths /\ Written \in File /\ Written = Placed(setup, facts)
    BY <1>3, OnDiskIs, PlacedIs DEF Setups
<1>6. HostTyped'
    BY <1>1, <1>4, <1>5 DEF HostTyped
<1>7. files'[setup'.path] = Placed(setup', facts')
    <2>1. Placed(setup', facts) = Placed(setup, facts)
        BY <1>4 DEF Placed, GoesOut
    <2>2. QED BY <1>1, <1>2, <1>4, <1>5, <2>1 DEF HostTyped
<1>8. Carries(envFile', setup', facts')
    BY <1>1, <1>2, <1>3, <1>4 DEF SetupHolds, Carries, GoesOut
<1>9. SetupHolds'
    BY <1>1, <1>2, <1>3, <1>4, <1>7, <1>8 DEF SetupHolds
<1>10. TestedHolds' /\ ManagersHold'
    BY <1>1, <1>2, <1>3 DEF TestedHolds, ManagersHold, SetupHolds
<1>11. FoundHolds'
    BY <1>1, <1>3, <1>5 DEF SetupHolds, FoundHolds, HostTyped
<1>12. QED BY <1>6, <1>9, <1>10, <1>11

LEMMA VerifyKeeps ==
    ASSUME HostInv, Verify
    PROVE  HostInv'
<1> USE DEF HostInv
<1>1. UNCHANGED << scenario, files, baks, envFile, managers, setups, found >>
    BY DEF Verify
<1>2. facts' = facts
    BY <1>1 DEF facts
<1>3. setup \in Setups /\ setup # None /\ setup.pc = "verify"
    BY AtIs DEF Verify
<1>4. FoundHolds' /\ ManagersHold'
    BY <1>1, <1>2 DEF FoundHolds, ManagersHold
<1>5. CASE setup' = None /\ UNCHANGED tested
    BY <1>1, <1>2, <1>4, <1>5 DEF HostTyped, SetupHolds, TestedHolds
<1>6. CASE Step("start")
    <2>1. /\ setup' \in Setups /\ setup'.pc = "start"
          /\ setup'.request = setup.request /\ setup'.path = setup.path
          /\ setup'.config = setup.config
        BY <1>3, <1>6, StepIs
    <2>2. tested' \in {tested, [path |-> setup.path, config |-> setup.config]}
        BY DEF Verify
    <2>3. HostTyped'
        BY <1>1, <1>3, <2>1, <2>2 DEF HostTyped, Setups
    <2>4. Carries(envFile', setup', facts') /\ files'[setup'.path] = Placed(setup', facts')
        BY <1>1, <1>2, <1>3, <2>1 DEF SetupHolds, Carries, Placed, GoesOut
    <2>5. SetupHolds'
        BY <1>1, <1>2, <1>3, <2>1, <2>4 DEF SetupHolds
    <2>6. TestedHolds'
        <3>1. CASE tested' = tested
            BY <1>1, <1>2, <3>1 DEF TestedHolds
        <3>2. CASE tested' = [path |-> setup.path, config |-> setup.config]
            <4>1. tested'.path = setup'.path /\ tested'.config = setup'.config
                BY <2>1, <3>2
            <4>2. QED BY <1>1, <1>2, <1>3, <2>1, <2>4, <4>1
                      DEF SetupHolds, TestedHolds, Carries, Placed, GoesOut
        <3>3. QED BY <2>2, <3>1, <3>2
    <2>7. QED BY <1>4, <2>3, <2>5, <2>6
<1>7. QED BY <1>5, <1>6 DEF Verify

LEMMA StartServiceKeeps ==
    ASSUME HostInv, StartService
    PROVE  HostInv'
<1> USE DEF HostInv
<1>1. /\ UNCHANGED << scenario, files, baks, envFile, setups, found, tested >>
      /\ setup' = None
      /\ \/ UNCHANGED managers
         \/ Starts(ServicePlan(facts)) /\ managers' = managers \cup {ServicePlan(facts)}
    BY DEF StartService
<1>2. facts' = facts
    BY <1>1 DEF facts
<1>3. SetupHolds' /\ FoundHolds' /\ TestedHolds'
    BY <1>1, <1>2 DEF SetupHolds, FoundHolds, TestedHolds
<1>4. managers' \subseteq ServiceManagers
    BY <1>1 DEF HostTyped, Starts, ServiceManagers
<1>5. HostTyped'
    BY <1>1, <1>4 DEF HostTyped
<1>6. ManagersHold'
    <2>1. Starts(ServicePlan(facts)) =>
              ~facts.launchAgent /\ ServicePlan(facts) # "LaunchAgentLoaded"
        BY DEF Starts, ServicePlan
    <2>2. QED BY <1>1, <1>2, <2>1 DEF ManagersHold
<1>7. QED BY <1>3, <1>5, <1>6

LEMMA AbortKeeps ==
    ASSUME HostInv, Abort
    PROVE  HostInv'
<1> USE DEF HostInv
<1>1. /\ UNCHANGED << scenario, files, envFile, managers, setups, found, tested >>
      /\ setup # None /\ setup' = None
      /\ \/ baks' = baks
         \/ setup.pc = "backup" /\ baks' = [baks EXCEPT ![setup.path] = Torn]
    BY DEF Abort, At
<1>2. setup \in Setups /\ Torn \in File
    BY <1>1, OnDiskIs DEF HostTyped
<1>3. HostTyped'
    BY <1>1, <1>2 DEF HostTyped
<1>4. facts' = facts
    BY <1>1 DEF facts
<1>5. SetupHolds' /\ TestedHolds' /\ ManagersHold'
    BY <1>1, <1>4 DEF SetupHolds, TestedHolds, ManagersHold
<1>6. FoundHolds'
    BY <1>1 DEF SetupHolds, FoundHolds, HostTyped
<1>7. QED BY <1>3, <1>5, <1>6

LEMMA HostInit == Init => HostInv
<1> SUFFICES ASSUME Init PROVE HostInv
    OBVIOUS
<1>1. scenario \in Scenarios /\ IsHost(scenario)
    BY HostIs DEF Init
<1>2. files \in [Paths -> File \cup {None}]
    <2>1. DOMAIN scenario.files \subseteq Paths
          /\ \A p \in DOMAIN scenario.files : scenario.files[p] \in File
        BY <1>1 DEF IsHost
    <2>2. QED BY <2>1 DEF Init, Over
<1>3. HostTyped
    BY <1>1, <1>2, HostAgentAssumption DEF Init, IsHost, HostTyped
<1>4. SetupHolds /\ FoundHolds /\ TestedHolds /\ ManagersHold
    BY <1>1 DEF Init, IsHost, SetupHolds, FoundHolds, TestedHolds, ManagersHold, facts
<1>5. QED BY <1>3, <1>4 DEF HostInv

LEMMA HostStays ==
    ASSUME HostInv, UNCHANGED hostVars
    PROVE  HostInv'
<1>1. facts' = facts
    BY DEF facts, hostVars
<1>2. HostTyped'
    BY DEF hostVars, HostInv, HostTyped
<1>3. SetupHolds' /\ FoundHolds' /\ TestedHolds' /\ ManagersHold'
    BY <1>1 DEF hostVars, HostInv, SetupHolds, FoundHolds, TestedHolds, ManagersHold
<1>4. QED BY <1>2, <1>3 DEF HostInv

LEMMA HostNext ==
    ASSUME HostInv, [Next]_vars
    PROVE  HostInv'
<1>1. CASE SetupNext
    <2>1. CASE \E request \in scenario.requests : BeginSetup(request)
        BY <2>1, BeginSetupKeeps
    <2>2. QED BY <1>1, <2>1, ConfirmKeeps, WriteKeyKeeps, BackupKeeps, MoveKeeps, VerifyKeeps,
                 StartServiceKeeps, AbortKeeps DEF SetupNext
<1>2. CASE UNCHANGED hostVars
    BY <1>2, HostStays
<1>3. QED BY <1>1, <1>2 DEF Next, vars, hostVars

LEMMA HostAlways == Spec => []HostInv
<1>1. Init => HostInv
    BY HostInit
<1>2. HostInv /\ [Next]_vars => HostInv'
    BY HostNext
<1>3. QED BY <1>1, <1>2, PTL DEF Spec

-----------------------------------------------------------------------------
(***************************************************************************)
(* What that says of a host that is set up.                                *)
(***************************************************************************)
(* The configuration init found last is on the disk, at its path or as the *)
(* backup, whether init ended, was refused or was killed.                  *)
THEOREM NothingIsLost == Spec => []PreviousConfigSurvives
<1>1. HostInv => PreviousConfigSurvives
    BY DEF HostInv, FoundHolds, PreviousConfigSurvives
<1>2. QED BY <1>1, HostAlways, PTL

(* Only the move writes a configuration, and it writes the one that was    *)
(* meant.                                                                  *)
LEMMA OnlyMoveWrites ==
    ASSUME HostInv, [Next]_vars, files' # files
    PROVE  Move
BY DEF Next, vars, hostVars, SetupNext, BeginSetup, Confirm, WriteKey, Backup, Verify,
       StartService, Abort

LEMMA MoveWrites ==
    ASSUME HostInv, Move, NEW p \in Paths, files'[p] # files[p]
    PROVE  /\ p = setup.path /\ setup \in Setups /\ setup.pc = "move" /\ setup # None
           /\ files'[p] = Written /\ files[p] = found[setup.path]
<1>1. setup \in Setups /\ setup # None /\ setup.pc = "move"
    BY AtIs DEF Move, HostInv
<1>2. files[setup.path] = found[setup.path]
    BY <1>1 DEF HostInv, SetupHolds
<1>3. QED BY <1>1, <1>2 DEF Move, HostInv, HostTyped, Setups

LEMMA WrittenIsWhole ==
    ASSUME HostInv, [Next]_vars, NEW p \in Paths, files'[p] # files[p]
    PROVE  files'[p].config # None
<1>1. Move
    BY OnlyMoveWrites
<1>2. setup \in Setups /\ files'[p] = Written
    BY <1>1, MoveWrites
<1>3. Written.config \in Config
    BY <1>2, OnDiskIs
<1>4. QED BY <1>2, <1>3, SettingsAssumption

LEMMA UnaskedStays ==
    ASSUME HostInv, [Next]_vars, NEW p \in Paths, files'[p] # files[p],
           FromFile(files[p]) # None
    PROVE  /\ \A field \in Unasked : files'[p].config[field] = files[p].config[field]
           /\ files'[p].config.timeout <= files[p].config.timeout
           /\ Valid(files'[p].config)
<1>1. Move
    BY OnlyMoveWrites
<1>2. /\ p = setup.path /\ setup \in Setups /\ setup.pc = "move" /\ setup # None
      /\ files'[p] = Written /\ files[p] = found[setup.path]
    BY <1>1, MoveWrites
<1>3. files[p] \in File \cup {None}
    BY DEF HostInv, HostTyped
<1>4. FromFile(files[p]) = files[p].config
    BY <1>3, FromFileIs
<1>5. KeepsUnasked(setup.config, FromFile(files[p])) /\ Valid(setup.config)
    BY <1>2 DEF HostInv, SetupHolds, Meant, IsSound
<1>6. /\ files'[p].config = OnDisk /\ Valid(OnDisk)
      /\ \A field \in Fields \ {"key"} : OnDisk[field] = setup.config[field]
    BY <1>2, <1>5, OnDiskIs
<1>7. Unasked \subseteq Fields \ {"key"}
    BY DEF Unasked, Fields
<1>8. OnDisk["timeout"] = setup.config["timeout"]
    BY <1>6 DEF Fields
<1>9. QED BY <1>4, <1>5, <1>6, <1>7, <1>8 DEF KeepsUnasked

(* The key of a configuration is one the user gave, or that of the file.   *)
LEMMA TheKeyIsMeant ==
    ASSUME HostInv, setup \in Setups, setup # None,
           setup.pc \in {"confirm", "key", "backup", "move"}
    PROVE  /\ setup.config.key # None =>
                  \/ setup.config.key = KeyIn(setup.path)
                  \/ setup.config.key \in GivenKeys
           /\ KeyIn(setup.path) \notin {None, Blank} =>
                  \/ setup.config.key = KeyIn(setup.path)
                  \/ setup.config.key \in GivenKeys
<1> DEFINE existing == FromFile(found[setup.path])
           args == setup.request.args
           typed == setup.request.typed
<1>1. /\ setup.path \in Paths /\ setup.request \in Requests
      /\ args \in Args /\ typed \in TypedAnswers \cup {None}
    BY DEF Setups, Requests
<1>2. files[setup.path] = found[setup.path] /\ Meant(setup.config, setup.request, existing)
    BY DEF HostInv, SetupHolds
<1>3. PICK key : /\ MeantKey(key, args, typed, existing)
                 /\ setup.config.key = IF key = Blank THEN None ELSE key
    BY <1>2 DEF Meant
<1>4. files[setup.path] \in File \cup {None}
    BY <1>1 DEF HostInv, HostTyped
<1>5. KeyIn(setup.path) = KeptKey(existing)
    <2> DEFINE file == files[setup.path]
    <2>1. FromFile(file) # None => FromFile(file) = file.config
        <3> HIDE DEF file
        <3>1. file \in File \cup {None}
            BY <1>4 DEF file
        <3>2. QED BY <3>1, FromFileIs
    <2>2. QED BY <1>2, <2>1 DEF KeyIn, KeptKey
<1>6. args.key \notin {None, Blank} => args.key \in GivenKeys
    BY DEF GivenKeys
<1>7. args.key = Blank => None \in GivenKeys
    BY DEF GivenKeys
<1>8. typed # None /\ typed.key \notin {None, Blank} => typed.key \in GivenKeys
    BY DEF GivenKeys
<1>9. typed # None => typed.key # None
    BY <1>1, SettingsAssumption DEF TypedAnswers
<1> HIDE DEF existing, args, typed
<1>10. QED BY <1>3, <1>5, <1>6, <1>7, <1>8, <1>9 DEF MeantKey

LEMMA KeyStays ==
    ASSUME HostInv, [Next]_vars, NEW p \in Paths,
           p \in UnderEtc => p = LocationOf(facts),
           KeyAt(p) \notin {None, Blank},
           None \in {KeyIn(p), KeyOut(p)} \/ KeyIn(p) = KeyOut(p)
    PROVE  KeyAt(p)' \in {KeyAt(p)} \cup GivenKeys
<1>1. CASE files' = files /\ envFile' = envFile
    BY <1>1 DEF KeyAt, KeyIn, KeyOut
<1>2. CASE WriteKey
    <2>1. setup \in Setups /\ setup # None /\ setup.pc = "key"
        BY <1>2, AtIs DEF WriteKey, HostInv
    <2>2. /\ files' = files
          /\ envFile' = IF KeyGoesOut THEN MergeEnvironmentFile(envFile, setup.config.key)
                        ELSE envFile
        BY <1>2 DEF WriteKey
    <2>3. CASE ~(KeyGoesOut /\ p \in UnderEtc)
        BY <2>2, <2>3 DEF KeyAt, KeyIn, KeyOut
    <2>4. CASE KeyGoesOut /\ p \in UnderEtc
        <3>1. setup.path = p /\ setup.config.key # None
            BY <2>1, <2>4 DEF KeyGoesOut, HostInv, SetupHolds
        <3>2. KeyOut(p)' = setup.config.key
            <4> DEFINE c == setup.config
                       request == setup.request
                       existing == FromFile(found[setup.path])
                       key == c.key
            <4>1. c \in Config /\ Meant(c, request, existing) /\ IsEnvironment(envFile)
                BY <2>1 DEF HostInv, HostTyped, SetupHolds, Setups
            <4> HIDE DEF c, request, existing
            <4>2. key \in Text /\ key # Blank
                BY <3>1, <4>1, MeantKeysAreTexts DEF c
            <4>3. envFile' = MergeEnvironmentFile(envFile, key)
                BY <2>2, <2>4 DEF c
            <4> HIDE DEF key
            <4>4. Overriding(envFile', "API_KEY") = key
                BY <4>1, <4>2, <4>3, MergedIs
            <4>5. QED BY <2>4, <4>4 DEF KeyOut, key, c
        <3>3. KeyAt(p)' = setup.config.key
            BY <3>1, <3>2 DEF KeyAt
        <3>4. setup.config.key = KeyIn(p) \/ setup.config.key \in GivenKeys
            BY <2>1, <3>1, TheKeyIsMeant
        <3>5. QED BY <3>1, <3>3, <3>4 DEF KeyAt
    <2>5. QED BY <2>3, <2>4
<1>3. CASE Move
    <2>1. setup \in Setups /\ setup # None /\ setup.pc = "move"
        BY <1>3, AtIs DEF Move, HostInv
    <2>2. envFile' = envFile /\ files' = [files EXCEPT ![setup.path] = Written]
        BY <1>3 DEF Move
    <2>3. KeyOut(p)' = KeyOut(p)
        BY <2>2 DEF KeyOut
    <2>4. CASE p # setup.path \/ KeyOut(p) # None
        BY <2>2, <2>3, <2>4 DEF KeyAt, KeyIn, HostInv, HostTyped
    <2>5. CASE p = setup.path /\ KeyOut(p) = None
        <3>1. KeyAt(p) = KeyIn(p) /\ KeyAt(p)' = KeyIn(p)'
            BY <2>3, <2>5 DEF KeyAt
        <3>2. ~KeyGoesOut
            BY <2>1, <2>5, PlacedIs
               DEF KeyOut, HostInv, SetupHolds, Carries, KeyGoesOut, KeyPlacement
        <3>3. files'[p] = [config |-> setup.config, mode |-> ConfigMode]
            BY <2>1, <2>2, <2>5, <3>2, OnDiskIs DEF HostInv, HostTyped, OnDisk
        <3>4. FromFile(files'[p]) = setup.config /\ setup.config # None
            <4> DEFINE c == setup.config
                       mode == ConfigMode
            <4>1. c \in Config /\ Valid(c) /\ mode \in {"0600", "0644"}
                BY <2>1 DEF Setups, HostInv, SetupHolds, IsSound, ConfigMode
            <4> HIDE DEF c, mode
            <4>2. FromFile([config |-> c, mode |-> mode]) = c /\ c # None
                BY <4>1, ReadsWhatIsValid, SettingsAssumption
            <4>3. QED BY <3>3, <4>2 DEF c, mode
        <3>5. KeyIn(p)' = setup.config.key
            BY <3>3, <3>4 DEF KeyIn
        <3>6. QED BY <2>1, <2>5, <3>1, <3>5, TheKeyIsMeant
    <2>6. QED BY <2>4, <2>5
<1>4. QED
    BY <1>1, <1>2, <1>3 DEF Next, vars, hostVars, SetupNext, BeginSetup, Confirm, Backup, Verify,
       StartService, Abort

(* No step of init, and no kill between two, leaves half a configuration,  *)
(* changes what was not asked about, or takes the agent's key away.        *)
THEOREM InitKeepsTheHost == Spec => SetupKeepsTheHost
<1> DEFINE Whole == \A p \in Paths : files'[p] # files[p] => files'[p].config # None
           Kept == \A p \in Paths : files'[p] # files[p] /\ FromFile(files[p]) # None =>
                       /\ \A field \in Unasked :
                              files'[p].config[field] = files[p].config[field]
                       /\ files'[p].config.timeout <= files[p].config.timeout
                       /\ Valid(files'[p].config)
           Keyed == \A p \in Paths :
                        /\ p \in UnderEtc => p = LocationOf(facts)
                        /\ KeyAt(p) \notin {None, Blank}
                        /\ None \in {KeyIn(p), KeyOut(p)} \/ KeyIn(p) = KeyOut(p)
                        => KeyAt(p)' \in {KeyAt(p)} \cup GivenKeys
<1>1. HostInv /\ [Next]_vars => Whole
    BY WrittenIsWhole
<1>2. HostInv /\ [Next]_vars => Kept
    BY UnaskedStays
<1>3. HostInv /\ [Next]_vars => Keyed
    BY KeyStays
<1>4. HostInv /\ [Next]_vars => [Whole]_vars /\ [Kept]_vars /\ [Keyed]_vars
    BY <1>1, <1>2, <1>3
<1>5. SetupKeepsTheHost <=> [][Whole]_vars /\ [][Kept]_vars /\ [][Keyed]_vars
    BY DEF SetupKeepsTheHost, FilesAreWhole, UnaskedSettingsSurvive, KeySurvivesSetup
<1> HIDE DEF Whole, Kept, Keyed
<1>6. Spec => [][Whole]_vars /\ [][Kept]_vars /\ [][Keyed]_vars
    BY <1>4, HostAlways, PTL DEF Spec
<1>7. QED BY <1>5, <1>6

(* What init wrote is the first a bare --check comes upon.                 *)
LEMMA TestedIsFound == HostInv => SetupIsFound
<1> SUFFICES ASSUME HostInv, tested # None, facts.explicit = None,
                    \A p \in Paths \ {tested.path, "support"} : files[p] = None
             PROVE  FindConfig(facts, files) = tested.path
    BY DEF SetupIsFound
<1> DEFINE path == tested.path
           there == {i \in DOMAIN ConfigPaths :
                        IsCandidate(facts, ConfigPaths[i]) /\ files[ConfigPaths[i]] # None}
<1>1. path = LocationOf(facts) /\ files[path] = Placed(tested, facts) /\ path \in Paths
    BY DEF HostInv, HostTyped, TestedHolds
<1>2. path \in {"brew", "etc", "xdg", "home"} /\ IsCandidate(facts, path)
    BY <1>1, HostAgentAssumption DEF LocationOf, IsCandidate, Paths
<1>3. files[path] # None
    <2>1. tested.config \in Config
        BY DEF HostInv, HostTyped
    <2>2. Placed(tested, facts) \in File
        BY <2>1 DEF Placed, File, Config
    <2>3. QED BY <1>1, <2>2, HostAgentAssumption
<1>4. /\ DOMAIN ConfigPaths = 1 .. 5
      /\ ConfigPaths[1] = "cwd" /\ ConfigPaths[2] = "brew" /\ ConfigPaths[3] = "xdg"
      /\ ConfigPaths[4] = "home" /\ ConfigPaths[5] = "etc"
    BY DEF ConfigPaths
<1>5. PICK n \in 2 .. 5 : ConfigPaths[n] = path
    BY <1>2, <1>4
<1>6. \A i \in 1 .. 5 : i # n => files[ConfigPaths[i]] = None
    BY <1>4, <1>5 DEF Paths
<1>7. there = {n}
    BY <1>2, <1>3, <1>4, <1>5, <1>6
<1>8. Min(there) = n
    <2>1. there \in SUBSET Nat /\ there # {}
        BY <1>5, <1>7
    <2> HIDE DEF there
    <2>2. QED BY <1>7, <2>1, LeastOf
<1>9. QED BY <1>5, <1>7, <1>8 DEF FindConfig

(* The service reads what init tested, though another user runs it and its *)
(* key may come from another file.                                         *)
LEMMA TestedIsRun == HostInv => TestSpeaksForTheService
<1> SUFFICES ASSUME HostInv, NEW manager, manager = ServicePlan(facts),
                    manager # "Foreground", tested # None,
                    tested.path = ServicePath(manager),
                    Overrides \cap DOMAIN ServiceEnvironment(manager)
                        \subseteq IF manager = "Systemd" /\ tested.config.key # None
                                  THEN {"API_KEY"} ELSE {}
             PROVE  ServiceConfig(manager) = tested.config
    BY DEF TestSpeaksForTheService
<1> DEFINE d == tested.config
           path == tested.path
           placed == Placed(tested, facts)
           c == placed.config
<1>1. /\ d \in Config /\ Valid(d) /\ ValidCredentials(d) /\ path \in Paths
      /\ files[path] = placed /\ Carries(envFile, tested, facts)
    BY DEF HostInv, HostTyped, TestedHolds, IsSound
<1>2. /\ GoesOut(tested, facts) => c = [d EXCEPT !.key = None]
      /\ ~GoesOut(tested, facts) => c = d
      /\ placed = [config |-> c, mode |-> placed.mode]
      /\ placed.mode \in {"0600", "0644"}
      /\ KeyPlacement(path, facts) = "EnvironmentFile" => placed.mode = "0644"
    BY DEF Placed
<1>3. c \in Config /\ Valid(c)
    BY <1>1, <1>2 DEF Config, Valid
<1>4. FromFile(placed) = c /\ placed # None /\ c # None
    <2> DEFINE mode == placed.mode
    <2>1. mode \in {"0600", "0644"} /\ placed = [config |-> c, mode |-> mode]
        BY <1>2
    <2> HIDE DEF c, mode, placed
    <2>2. QED BY <1>3, <2>1, ReadsWhatIsValid, SettingsAssumption
<1>5. CASE manager = "Systemd"
    <2>1. path = "etc" /\ ~facts.macos
        <3>1. facts.systemctl /\ facts.unit => ~facts.macos
            BY HostIs DEF HostInv, HostTyped, IsHost, facts
        <3>2. facts.systemctl /\ facts.unit
            BY <1>5 DEF ServicePlan
        <3>3. QED BY <1>5, <3>1, <3>2 DEF ServicePath
    <2>2. KeyPlacement(path, facts) = "EnvironmentFile"
        BY <2>1 DEF KeyPlacement, UnderEtc
    <2>3. GoesOut(tested, facts) <=> d.key # None
        BY <2>2 DEF GoesOut
    <2>4. ServiceConfig(manager) = ApplyEnv(c, envFile)
        <3>1. files[ServicePath(manager)] = placed /\ placed.mode = "0644"
            BY <1>1, <1>2, <2>2
        <3> HIDE DEF placed, c
        <3>2. ServiceConfig(manager) = Loaded(placed, envFile)
            BY <1>5, <3>1 DEF ServiceConfig, ServiceEnvironment
        <3>3. QED BY <1>4, <3>2 DEF Loaded
    <2>5. \/ c = d /\ Overrides \cap DOMAIN envFile = {}
          \/ /\ Overrides \cap DOMAIN envFile \subseteq {"API_KEY"}
             /\ c = [d EXCEPT !.key = None]
             /\ Overriding(envFile, "API_KEY") = d.key /\ d.key # None
        BY <1>1, <1>2, <1>5, <2>3 DEF Carries, ServiceEnvironment
    <2> HIDE DEF c, d
    <2>6. QED BY <1>1, <1>3, <2>4, <2>5, ApplyEnvOfTheKey DEF d
<1>6. CASE manager # "Systemd"
    <2> DEFINE env == ServiceEnvironment(manager)
    <2>1. path \notin UnderEtc
        BY <1>6 DEF ServicePath, ServicePlan, UnderEtc
    <2>2. c = d
        BY <1>2, <2>1 DEF GoesOut, KeyPlacement
    <2>3. ServiceConfig(manager) = ApplyEnv(c, env)
        <3>1. files[ServicePath(manager)] = placed
            BY <1>1
        <3> HIDE DEF placed, c
        <3>2. ServiceConfig(manager) = Loaded(placed, env)
            BY <1>6, <3>1 DEF ServiceConfig
        <3>3. QED BY <1>4, <3>2 DEF Loaded
    <2>4. Overrides \cap DOMAIN env = {}
        BY <1>6
    <2> HIDE DEF c, d, env
    <2>5. QED BY <1>1, <2>2, <2>3, <2>4, ApplyEnvOfTheKey DEF d
<1>7. QED BY <1>5, <1>6

(* A host that has been set up is served.                                  *)
THEOREM InitServesTheHost == Spec => []SetupIsServed
<1>1. HostInv => InitCanWrite
    BY OnDiskIs DEF HostInv, HostTyped, InitCanWrite
<1>2. HostInv => HostReportsOnce
    BY FS_Singleton DEF HostInv, ManagersHold, HostReportsOnce
<1>3. HostInv => SetupIsServed
    BY <1>1, <1>2, TestedIsFound, TestedIsRun DEF SetupIsServed
<1>4. QED BY <1>3, HostAlways, PTL

-----------------------------------------------------------------------------
(***************************************************************************)
(* The steps of the agent.                                                 *)
(***************************************************************************)
LEMMA StartDoes ==
    ASSUME HostInv, StartAgent
    PROVE  Launches
<1>1. PICK manager \in managers :
          /\ ServiceConfig(manager) # None
          /\ agent' = Fresh(ServiceConfig(manager), scenario.os, starts + 1)
    BY DEF StartAgent
<1> DEFINE config == ServiceConfig(manager)
           file == files[ServicePath(manager)]
           env == ServiceEnvironment(manager)
<1>2. file \in File \cup {None}
    BY DEF HostInv, HostTyped, ServicePath, Paths
<1>3. IsEnvironment(env)
    <2>1. IsEnvironment(envFile) /\ IsEnvironment(scenario.plist)
        BY HostIs DEF HostInv, HostTyped, IsHost
    <2>2. IsEnvironment(<< >>)
        BY DEF IsEnvironment, Overrides
    <2>3. QED BY <2>1, <2>2 DEF ServiceEnvironment
<1>4. config = Loaded(file, env)
    <2> HIDE DEF file, env
    <2>1. QED BY <1>1 DEF ServiceConfig, file, env
<1>5. config \in Config /\ Valid(config)
    <2>1. config # None
        BY <1>1
    <2> HIDE DEF config, file, env
    <2>2. QED BY <1>2, <1>3, <1>4, <2>1, LoadedIsAConfig
<1>6. QED BY <1>1, <1>5 DEF StartAgent, Launches

LEMMA StepsAre ==
    ASSUME HostInv, AgentIsWhole, [Next]_vars
    PROVE  Opens \/ Observes \/ Pulses \/ Confesses \/ Ends \/ Stops \/ Tick \/ Launches
           \/ UNCHANGED exportVars
<1>1. CASE BeginCycle
    <2>1. Running /\ ~InCycle /\ IsAgent(agent) /\ now >= agent.due
        BY <1>1 DEF BeginCycle, AgentIsWhole
    <2>2. agent' = Turned(agent, now + agent.config.interval * Second,
                          Opening(agent, now, FALSE))
        BY <1>1, <2>1, BegunIs DEF BeginCycle
    <2>3. QED BY <1>1, <2>1, <2>2 DEF BeginCycle, Opens
<1>2. CASE Shutdown
    <2>1. Running /\ ~InCycle /\ IsAgent(agent)
        BY <1>2 DEF Shutdown, AgentIsWhole
    <2>2. CASE agent' = None
        BY <1>2, <2>1, <2>2 DEF Shutdown, Stops
    <2>3. CASE agent' = Begun(TRUE)
        <3>1. agent' = Turned(agent, now + agent.config.interval * Second,
                              Opening(agent, now, TRUE))
            BY <2>1, <2>3, BegunIs
        <3>2. QED BY <1>2, <2>1, <3>1 DEF Shutdown, Opens
    <2>4. QED BY <1>2, <2>2, <2>3 DEF Shutdown
<1>3. CASE StartAgent
    BY <1>3, StartDoes
<1>4. CASE Callback \/ Beat \/ ReportFailures \/ EndCycle
    BY <1>4, CallbackDoes, BeatDoes, ReportDoes, EndDoes
<1>5. QED BY <1>1, <1>2, <1>3, <1>4 DEF Next, ExportNext, vars, exportVars

LEMMA ScenarioStays ==
    ASSUME [Next]_vars
    PROVE  scenario' = scenario
BY DEF Next, vars, hostVars, SetupNext, BeginSetup, Confirm, WriteKey, Backup, Move, Verify,
       StartService, Abort

LEMMA SettledIs ==
    ASSUME Running, IsAgent(agent), NEW k, Settled(k)
    PROVE  /\ IsCache(k)
           /\ \/ IsFresh(agent.cache, now, MaxAge(agent.config)) /\ k = agent.cache
              \/ /\ ~IsFresh(agent.cache, now, MaxAge(agent.config))
                 /\ k.takenAt = now /\ k.failures = agent.cache.failures
                 /\ \E m \in Machines : k.observations = Collect(agent.config, m)
              \/ /\ k.takenAt = agent.cache.takenAt
                 /\ k.observations = agent.cache.observations
                 /\ k.failures = agent.cache.failures + 1
<1> DEFINE cache == agent.cache
<1>1. IsCache(cache)
    BY DEF IsAgent
<1> HIDE DEF cache
<1>2. ASSUME NEW obs, k = Sampled(cache, now, obs)
      PROVE  IsCache(k) /\ k.takenAt = now /\ k.failures = cache.failures
             /\ k.observations = obs
    BY <1>1, <1>2 DEF IsCache, Sampled
<1>3. ASSUME k = NotSampled(cache, now)
      PROVE  IsCache(k) /\ k.takenAt = cache.takenAt /\ k.failures = cache.failures + 1
             /\ k.observations = cache.observations
    BY <1>1, <1>3 DEF IsCache, NotSampled
<1>4. QED BY <1>1, <1>2, <1>3 DEF Settled, cache

AgentTyped ==
    /\ starts \in 0..scenario.starts /\ now \in 0..MaxClock
    /\ AgentIsWhole

LEMMA AgentKeeps ==
    ASSUME HostInv, AgentTyped, [Next]_vars
    PROVE  AgentTyped'
<1> USE DEF AgentTyped
<1>1. scenario' = scenario /\ scenario.starts \in Nat
    BY ScenarioStays, HostIs DEF HostInv, HostTyped, IsHost
<1>2. CASE Opens
    <2>1. PICK last \in BOOLEAN :
              agent' = Turned(agent, now + agent.config.interval * Second,
                              Opening(agent, now, last))
        BY <1>2 DEF Opens
    <2>2. IsAgent(agent) /\ Min(Registered) \in Registered
        BY <1>2, FirstIs DEF Opens, AgentIsWhole
    <2>3. IsAgent(agent')
        BY <2>1, <2>2 DEF IsAgent, Turned
    <2>4. IsCycle(agent'.cycle) /\ agent'.cycle.next \in Registered
        BY <2>1, <2>2 DEF IsCycle, Turned, Opening
    <2>5. AgentIsWhole'
        BY <2>3, <2>4 DEF AgentIsWhole
    <2>6. QED BY <1>1, <1>2, <2>5 DEF Opens
<1>3. ASSUME NEW cache, NEW beats, NEW points, NEW next, Collecting,
             IsCache(cache), next \in Registered \cup {None},
             agent' = Carried(agent, cache, beats, points, next)
      PROVE  AgentIsWhole'
    <2>1. IsAgent(agent)
        BY <1>3 DEF AgentIsWhole, Collecting, InCycle
    <2>2. IsAgent(agent')
        BY <1>3, <2>1 DEF IsAgent, Carried, IsCache
    <2>3. IsCycle(agent'.cycle) /\ agent'.cycle.next = next
        BY <1>3 DEF IsCycle, Carried
    <2>4. QED BY <1>3, <2>2, <2>3 DEF AgentIsWhole, Collecting
<1>4. CASE Observes
    <2>1. PICK k : /\ Settled(k)
                   /\ agent' = Carried(agent, k, agent.beats,
                                   Pointed(agent.cycle.points, Instrument,
                                           ObservationsOf(k, Instrument), k.takenAt),
                                   Following(agent.cycle.next))
        BY <1>4 DEF Observes
    <2>2. Collecting /\ Running /\ IsAgent(agent) /\ agent.cycle.next \in Registered
        BY <1>4 DEF Observes, AgentIsWhole, Collecting, InCycle
    <2>3. IsCache(k)
        BY <2>1, <2>2, SettledIs
    <2>4. Following(agent.cycle.next) \in Registered \cup {None}
        BY <2>2, FollowingIs
    <2>5. AgentIsWhole'
        BY <1>3, <2>1, <2>2, <2>3, <2>4
    <2>6. QED BY <1>1, <1>4, <2>5 DEF Observes
<1>5. CASE Pulses
    <2>1. IsAgent(agent) /\ Collecting
        BY <1>5 DEF Pulses, AgentIsWhole, Collecting, InCycle
    <2>2. IsCache(agent.cache)
        BY <2>1 DEF IsAgent
    <2>3. Following(12) \in Registered \cup {None}
        BY RegisteredAre, FollowingIs
    <2>4. AgentIsWhole'
        BY <1>3, <1>5, <2>1, <2>2, <2>3 DEF Pulses
    <2>5. QED BY <1>1, <1>5, <2>4 DEF Pulses
<1>6. CASE Confesses
    <2>1. IsAgent(agent) /\ Collecting
        BY <1>6 DEF Confesses, AgentIsWhole, Collecting, InCycle
    <2>2. IsCache(agent.cache)
        BY <2>1 DEF IsAgent
    <2>3. AgentIsWhole'
        BY <1>3, <1>6, <2>1, <2>2 DEF Confesses
    <2>4. QED BY <1>1, <1>6, <2>3 DEF Confesses
<1>7. CASE Ends
    <2>1. IsAgent(agent)
        BY <1>7 DEF Ends, AgentIsWhole, Exporting, InCycle
    <2>2. ASSUME agent' = None PROVE AgentIsWhole'
        BY <2>2 DEF AgentIsWhole, Running, InCycle, Collecting
    <2>3. ASSUME agent' = Turned(agent, agent.due, None) PROVE AgentIsWhole'
        <3>1. IsAgent(agent') /\ agent'.cycle = None
            BY <2>1, <2>3 DEF IsAgent, Turned
        <3>2. QED BY <3>1 DEF AgentIsWhole, InCycle, Collecting
    <2>4. QED BY <1>1, <1>7, <2>2, <2>3 DEF Ends
<1>8. CASE Stops
    BY <1>1, <1>8 DEF Stops, AgentIsWhole, Running, InCycle, Collecting
<1>9. CASE Tick
    BY <1>1, <1>9, AgentAssumption
       DEF Tick, AgentIsWhole, Running, InCycle, Collecting
<1>10. CASE Launches
    <2>1. PICK config \in Config :
              Valid(config) /\ agent' = Fresh(config, scenario.os, starts + 1)
        BY <1>10 DEF Launches
    <2>2. IsAgent(agent') /\ agent'.cycle = None
        BY <2>1 DEF IsAgent, Fresh, Valid, IsCache, EmptyCache
    <2>3. AgentIsWhole'
        BY <2>2 DEF AgentIsWhole, InCycle, Collecting
    <2>4. QED BY <1>1, <1>10, <2>3 DEF Launches
<1>11. CASE UNCHANGED exportVars
    BY <1>1, <1>11 DEF exportVars, AgentIsWhole, Running, InCycle, Collecting
<1>12. QED BY <1>2, <1>4, <1>5, <1>6, <1>7, <1>8, <1>9, <1>10, <1>11, StepsAre

LEMMA AgentInit == Init => AgentTyped
<1> SUFFICES ASSUME Init PROVE AgentTyped
    OBVIOUS
<1>1. scenario.starts \in Nat
    BY HostIs DEF Init, IsHost
<1>2. QED BY <1>1, AgentAssumption
          DEF Init, AgentTyped, AgentIsWhole, Running, InCycle, Collecting

LEMMA AgentAlways == Spec => []AgentTyped
<1>1. Init => AgentTyped
    BY AgentInit
<1>2. HostInv /\ AgentTyped /\ [Next]_vars => AgentTyped'
    BY AgentKeeps
<1>3. QED BY <1>1, <1>2, HostAlways, PTL DEF Spec

(* The host, init and the agent keep their types.                          *)
THEOREM HostTypeCorrect == Spec => []TypeOK
<1>1. HostInv /\ AgentTyped => TypeOK
    BY DEF HostInv, HostTyped, AgentTyped, AgentIsWhole, IsAgent, TypeOK
<1>2. QED BY <1>1, HostAlways, AgentAlways, PTL

-----------------------------------------------------------------------------
(***************************************************************************)
(* The heartbeat.                                                          *)
(***************************************************************************)
Beaten == InCycle /\ agent.cycle.next \in {13, None}

BeatsOf(points) == {p \in points : p.kind = "AgentHeartbeat"}

(* The beats of a process are ahead of what was delivered of it, and the   *)
(* batch carries them.                                                     *)
BeatsHold ==
    /\ starts \in Nat
    /\ delivered # None => delivered.instance \in Nat /\ delivered.instance <= starts
    /\ Running =>
           /\ agent.identity.instance = starts /\ agent.beats \in Nat
           /\ delivered # None /\ delivered.instance = starts =>
                  /\ delivered.beat \in Nat /\ delivered.beat <= agent.beats
                  /\ Beaten => delivered.beat < agent.beats
    /\ InCycle /\ ~Beaten => BeatsOf(agent.cycle.points) = {}
    /\ Beaten => BeatsOf(agent.cycle.points) = {OwnPoint("AgentHeartbeat", agent.beats)}

LEMMA BeatSentIs ==
    ASSUME BeatsHold, Exporting
    PROVE  BeatSent.instance = starts /\ BeatSent.beat = agent.beats
<1>1. Beaten /\ Running
    BY DEF Exporting, Beaten, InCycle
<1> DEFINE sent == {p.value : p \in BeatsOf(agent.cycle.points)}
<1>2. sent = {agent.beats}
    <2> DEFINE point == OwnPoint("AgentHeartbeat", agent.beats)
    <2>1. BeatsOf(agent.cycle.points) = {point}
        BY <1>1 DEF BeatsHold
    <2>2. point.value = agent.beats
        BY DEF OwnPoint
    <2> HIDE DEF point
    <2>3. QED BY <2>1, <2>2
<1>3. (CHOOSE b \in sent : TRUE) = agent.beats
    BY <1>2
<1>4. BeatSent.beat = CHOOSE b \in sent : TRUE
    BY DEF BeatSent, BeatsOf
<1>5. QED BY <1>1, <1>3, <1>4 DEF BeatsHold, BeatSent

LEMMA BeatsInit == Init => BeatsHold
BY DEF Init, BeatsHold, Running, InCycle, Beaten

LEMMA BeatsKeep ==
    ASSUME HostInv, AgentTyped, BeatsHold, [Next]_vars
    PROVE  BeatsHold'
<1> USE DEF BeatsHold
<1>1. CASE Opens
    <2>1. PICK last \in BOOLEAN :
              agent' = Turned(agent, now + agent.config.interval * Second,
                              Opening(agent, now, last))
        BY <1>1 DEF Opens
    <2>2. /\ agent'.identity = agent.identity /\ agent'.beats = agent.beats
          /\ agent'.cycle.next = Min(Registered) /\ agent'.cycle.points = {}
        BY <2>1 DEF Turned, Opening
    <2>3. Min(Registered) \notin {13, None}
        BY FirstIs, RegisteredAre
    <2>4. ~Beaten' /\ BeatsOf(agent'.cycle.points) = {}
        BY <2>2, <2>3 DEF Beaten, BeatsOf
    <2>5. QED BY <1>1, <2>2, <2>4 DEF Opens, Running, Beaten
<1>2. CASE Observes
    <2>1. PICK k : agent' = Carried(agent, k, agent.beats,
                                Pointed(agent.cycle.points, Instrument,
                                        ObservationsOf(k, Instrument), k.takenAt),
                                Following(agent.cycle.next))
        BY <1>2 DEF Observes
    <2> DEFINE readings == ObservationsOf(k, Instrument)
    <2> HIDE DEF readings
    <2>2. /\ agent'.identity = agent.identity /\ agent'.beats = agent.beats
          /\ agent'.cycle.next = Following(agent.cycle.next)
          /\ agent'.cycle.points = Pointed(agent.cycle.points, Instrument, readings, k.takenAt)
        BY <2>1 DEF Carried, readings
    <2>3. Following(agent.cycle.next) \notin {13, None} /\ agent.cycle.next \notin {13, None}
        <3> DEFINE i == agent.cycle.next
        <3>1. i \in Registered /\ i < 12
            BY <1>2 DEF Observes
        <3> HIDE DEF i
        <3>2. i # None /\ i # 13 /\ Following(i) # None /\ Following(i) # 13
            BY <3>1, FollowingIs, RegisteredAre
        <3>3. QED BY <3>2 DEF i
    <2>4. ~Beaten /\ ~Beaten' /\ InCycle /\ Running
        BY <1>2, <2>2, <2>3 DEF Beaten, Observes, Collecting, InCycle
    <2>5. BeatsOf(agent'.cycle.points) = {}
        <3>1. Instrument # "AgentHeartbeat"
            BY <1>2 DEF Observes, Own
        <3>2. QED BY <2>2, <2>4, <3>1 DEF BeatsOf, Pointed
    <2>6. QED BY <1>2, <2>2, <2>4, <2>5 DEF Observes, Running
<1>3. CASE Pulses
    <2> DEFINE point == OwnPoint("AgentHeartbeat", agent.beats + 1)
    <2>1. /\ agent'.identity = agent.identity /\ agent'.beats = agent.beats + 1
          /\ agent'.cycle.next = Following(12)
          /\ agent'.cycle.points = agent.cycle.points \cup {point}
        BY <1>3 DEF Carried, Pulses
    <2>2. Following(12) = 13
        <3> DEFINE i == 12
        <3>1. i \in Registered
            BY RegisteredAre
        <3> HIDE DEF i
        <3>2. i = 12 => Following(i) = 13
            BY <3>1, FollowingIs
        <3>3. QED BY <3>2 DEF i
    <2>3. ~Beaten /\ InCycle /\ Running
        BY <1>3, RegisteredAre DEF Beaten, Pulses, Collecting, InCycle
    <2>4. BeatsOf(agent'.cycle.points) = {point}
        BY <2>1, <2>3 DEF BeatsOf, OwnPoint
    <2> HIDE DEF point
    <2>5. /\ delivered' = delivered /\ starts' = starts
          /\ agent.beats \in Nat /\ agent.beats + 1 \in Nat
        BY <1>3, <2>3 DEF Pulses
    <2>6. delivered # None /\ delivered.instance = starts =>
              /\ delivered.beat \in Nat /\ delivered.beat < agent.beats + 1
        BY <2>3, <2>5
    <2>7. agent'.identity.instance = starts
        BY <2>1, <2>3
    <2>8. Beaten' => BeatsOf(agent'.cycle.points) = {OwnPoint("AgentHeartbeat", agent'.beats)}
        BY <2>1, <2>4 DEF point
    <2>9. InCycle' => Beaten'
        BY <2>1, <2>2 DEF Beaten
    <2>10. /\ starts' \in Nat
           /\ delivered' # None => delivered'.instance \in Nat /\ delivered'.instance <= starts'
        BY <2>5
    <2>11. agent'.identity.instance = starts' /\ agent'.beats \in Nat
        BY <2>1, <2>5, <2>7
    <2>12. delivered' # None /\ delivered'.instance = starts' =>
               delivered'.beat \in Nat /\ delivered'.beat < agent'.beats
        BY <2>1, <2>5, <2>6
    <2>13. delivered' # None /\ delivered'.instance = starts' =>
               delivered'.beat \in Nat /\ delivered'.beat <= agent'.beats
        BY <2>11, <2>12
    <2>14. QED BY <2>8, <2>9, <2>10, <2>11, <2>12, <2>13
<1>4. CASE Confesses
    <2> DEFINE point == OwnPoint("AgentCollectionFailures", agent.cache.failures)
    <2>1. /\ agent'.identity = agent.identity /\ agent'.beats = agent.beats
          /\ agent'.cycle.next = None
          /\ agent'.cycle.points = agent.cycle.points \cup {point}
        BY <1>4 DEF Carried, Confesses
    <2>2. Beaten /\ Running
        BY <1>4 DEF Beaten, Confesses, Collecting, InCycle
    <2>3. BeatsOf(agent'.cycle.points) = BeatsOf(agent.cycle.points)
        BY <2>1 DEF BeatsOf, OwnPoint
    <2>4. QED BY <1>4, <2>1, <2>2, <2>3 DEF Confesses, Running, Beaten
<1>5. CASE Ends
    <2>1. Running /\ Beaten /\ Exporting
        BY <1>5 DEF Ends, Exporting, InCycle, Beaten
    <2>2. BeatSent.instance = starts /\ BeatSent.beat = agent.beats
        BY <2>1, BeatSentIs
    <2>3. delivered' # None =>
              /\ delivered'.instance \in Nat /\ delivered'.instance <= starts
              /\ delivered'.instance = starts =>
                     delivered'.beat \in Nat /\ delivered'.beat <= agent.beats
        BY <1>5, <2>1, <2>2 DEF Ends
    <2>4. CASE agent' = None
        BY <1>5, <2>3, <2>4 DEF Ends, Running, InCycle, Beaten
    <2>5. CASE agent' = Turned(agent, agent.due, None)
        <3>1. /\ agent'.identity = agent.identity /\ agent'.beats = agent.beats
              /\ agent'.cycle = None
            BY <2>5 DEF Turned
        <3>2. QED BY <1>5, <2>1, <2>3, <3>1 DEF Ends, Running, InCycle, Beaten
    <2>6. QED BY <1>5, <2>4, <2>5 DEF Ends
<1>6. CASE Stops
    BY <1>6 DEF Stops, Running, InCycle, Beaten
<1>7. CASE Tick
    BY <1>7 DEF Tick, Running, InCycle, Beaten
<1>8. CASE Launches
    <2>1. PICK config \in Config : agent' = Fresh(config, scenario.os, starts + 1)
        BY <1>8 DEF Launches
    <2>2. agent'.identity.instance = starts + 1 /\ agent'.beats = 0 /\ agent'.cycle = None
        BY <2>1 DEF Fresh, FromConfig
    <2>3. QED BY <1>8, <2>2 DEF Launches, InCycle, Beaten, Running
<1>9. CASE UNCHANGED exportVars
    BY <1>9 DEF exportVars, Running, InCycle, Beaten
<1>10. QED BY <1>1, <1>2, <1>3, <1>4, <1>5, <1>6, <1>7, <1>8, <1>9, StepsAre DEF AgentTyped

LEMMA BeatsAlways == Spec => []BeatsHold
<1>1. Init => BeatsHold
    BY BeatsInit
<1>2. HostInv /\ AgentTyped /\ BeatsHold /\ [Next]_vars => BeatsHold'
    BY BeatsKeep
<1>3. QED BY <1>1, <1>2, HostAlways, AgentAlways, PTL DEF Spec

(* A batch that arrives carries a higher beat than the one before it, or   *)
(* is of a newer process.                                                  *)
THEOREM BeatsAreCounted == Spec => HeartbeatsGrow
<1> DEFINE Grows == delivered' # delivered /\ delivered # None =>
                        \/ delivered'.instance > delivered.instance
                        \/ /\ delivered'.instance = delivered.instance
                           /\ delivered'.beat > delivered.beat
<1>1. ASSUME HostInv, AgentTyped, BeatsHold, [Next]_vars PROVE Grows
    <2>1. CASE Ends
        <3>1. Running /\ Beaten /\ Exporting
            BY <2>1 DEF Ends, Exporting, InCycle, Beaten
        <3>2. BeatSent.instance = starts /\ BeatSent.beat = agent.beats
            BY <1>1, <3>1, BeatSentIs
        <3>3. QED BY <1>1, <2>1, <3>1, <3>2 DEF Ends, BeatsHold
    <2>2. CASE UNCHANGED delivered
        BY <2>2
    <2>3. QED BY <1>1, <2>1, <2>2, StepsAre
              DEF AgentTyped, Opens, Observes, Pulses, Confesses, Stops, Tick, Launches,
                  exportVars
<1>2. HostInv /\ AgentTyped /\ BeatsHold /\ [Next]_vars => [Grows]_exportVars
    BY <1>1
<1>3. HeartbeatsGrow <=> [][Grows]_exportVars
    BY DEF HeartbeatsGrow
<1> HIDE DEF Grows
<1>4. Spec => [][Grows]_exportVars
    BY <1>2, HostAlways, AgentAlways, BeatsAlways, PTL DEF Spec
<1>5. QED BY <1>3, <1>4

-----------------------------------------------------------------------------
(***************************************************************************)
(* A batch is one picture of the host.                                     *)
(***************************************************************************)
Interval(c) == c.interval * Second

LEMMA IntervalIs ==
    ASSUME NEW c \in Config
    PROVE  Interval(c) \in Nat
BY TelemetryAssumption DEF Interval, Config

(* A sample outlives the callbacks of a cycle and not the interval.        *)
LEMMA MaxAgeIs ==
    ASSUME NEW c \in Config
    PROVE  /\ MaxAge(c) \in Nat /\ Second <= MaxAge(c)
           /\ c.interval >= 2 => MaxAge(c) + Second <= Interval(c)
<1> DEFINE i == c.interval
           h == i \div 2
<1>1. i \in Nat /\ Second \in Nat /\ h \in Nat /\ (i >= 2 => h + 1 <= i)
    BY TelemetryAssumption DEF Config
<1>2. h * Second \in Nat
    BY <1>1
<1>3. MaxAge(c) = IF h * Second < Second THEN Second ELSE h * Second
    BY DEF MaxAge
<1>4. ASSUME i >= 2 PROVE h * Second + Second <= i * Second /\ Second + Second <= i * Second
    <2> HIDE DEF h, i
    <2>1. i - h - 1 \in Nat /\ i - 2 \in Nat
        BY <1>1, <1>4
    <2>2. (i - h - 1) * Second \in Nat /\ (i - 2) * Second \in Nat
        BY <1>1, <2>1
    <2>3. /\ i * Second = h * Second + Second + (i - h - 1) * Second
          /\ i * Second = Second + Second + (i - 2) * Second
        BY <1>1
    <2>4. QED BY <1>1, <1>2, <2>2, <2>3
<1>5. Interval(c) = i * Second
    BY DEF Interval
<1> HIDE DEF h, i
<1>6. MaxAge(c) \in Nat /\ Second <= MaxAge(c)
    BY <1>1, <1>2, <1>3
<1>7. i >= 2 => MaxAge(c) + Second <= Interval(c)
    BY <1>3, <1>4, <1>5
<1>8. QED BY <1>6, <1>7 DEF i

(* The clock: a sample is of the past, and one that a cycle finds is as    *)
(* old as an interval, but for the callbacks that took it.                 *)
SampleHolds(a, n) ==
    /\ a.due \in Int /\ a.cache.failures \in Nat
    /\ a.cache.takenAt # None => a.cache.takenAt \in Int /\ a.cache.takenAt <= n
    /\ a.cycle = None /\ a.cache.takenAt # None =>
           a.cache.takenAt + Interval(a.config) <= a.due + CycleTime

CycleHolds(a, n) ==
    /\ a.cycle.started \in Int /\ a.cycle.started <= n
    /\ a.due = a.cycle.started + Interval(a.config)
    /\ a.cycle.failed \in Nat /\ a.cycle.failed <= a.cache.failures
    /\ a.cycle.next # None => n <= a.cycle.started + CycleTime
    /\ a.cache.takenAt # None => a.cache.takenAt <= a.cycle.started + CycleTime
    /\ ~a.cycle.last /\ a.cache.takenAt # None /\ a.cache.takenAt < a.cycle.started =>
           a.cache.takenAt + Interval(a.config) <= a.cycle.started + CycleTime

ClockHolds ==
    /\ Running => SampleHolds(agent, now)
    /\ InCycle => CycleHolds(agent, now)

LEMMA ClockInit == Init => ClockHolds
BY DEF Init, ClockHolds, Running, InCycle

LEMMA ClockKeeps ==
    ASSUME HostInv, AgentTyped, ClockHolds, [Next]_vars
    PROVE  ClockHolds'
<1> USE DEF ClockHolds
<1>1. now \in Int /\ CycleTime \in Nat /\ None \notin Int
    BY AgentAssumption, TelemetryAssumption DEF AgentTyped
<1>2. Running => agent.config \in Config /\ Interval(agent.config) \in Nat
    BY IntervalIs DEF AgentTyped, AgentIsWhole, IsAgent
<1>3. CASE Opens
    <2>1. PICK last \in BOOLEAN :
              /\ last \/ now >= agent.due
              /\ agent' = Turned(agent, now + agent.config.interval * Second,
                                 Opening(agent, now, last))
        BY <1>3 DEF Opens
    <2>2. /\ agent'.cache = agent.cache /\ agent'.config = agent.config
          /\ agent'.due = now + Interval(agent.config) /\ agent'.cycle.started = now
          /\ agent'.cycle.last = last /\ agent'.cycle.failed = agent.cache.failures
          /\ agent'.cycle = Opening(agent, now, last)
        BY <2>1 DEF Turned, Opening, Interval
    <2>3. Running /\ agent.cycle = None /\ now' = now /\ SampleHolds(agent, now)
        BY <1>3 DEF Opens, InCycle
    <2>4. agent'.cycle # None => SampleHolds(agent', now')
        BY <1>1, <1>2, <2>2, <2>3 DEF SampleHolds
    <2>5. agent'.cycle = None => SampleHolds(agent', now')
        <3>1. PICK i \in Nat : i = Interval(agent.config)
            BY <1>2, <2>3
        <3>2. agent.cache.takenAt # None => agent.cache.takenAt + i <= now + i + CycleTime
            BY <1>1, <2>3, <3>1 DEF SampleHolds
        <3>3. QED BY <1>1, <2>2, <2>3, <3>1, <3>2 DEF SampleHolds
    <2>6. CycleHolds(agent', now')
        <3>1. PICK i \in Nat : i = Interval(agent.config)
            BY <1>2, <2>3
        <3>2. ~last /\ agent.cache.takenAt # None => agent.cache.takenAt + i <= now + CycleTime
            BY <1>1, <2>1, <2>3, <3>1 DEF SampleHolds
        <3>3. agent.cache.takenAt # None => agent.cache.takenAt <= now + CycleTime
            BY <1>1, <2>3 DEF SampleHolds
        <3>4. QED BY <1>1, <2>2, <2>3, <3>1, <3>2, <3>3 DEF SampleHolds, CycleHolds
    <2>7. QED BY <2>4, <2>5, <2>6
<1>4. ASSUME NEW cache, NEW beats, NEW points, NEW next, Collecting, now' = now,
             cache.failures \in Nat, agent.cache.failures <= cache.failures,
             cache.takenAt \in {agent.cache.takenAt, now},
             agent' = Carried(agent, cache, beats, points, next)
      PROVE  ClockHolds'
    <2>1. /\ agent'.cache = cache /\ agent'.config = agent.config /\ agent'.due = agent.due
          /\ agent'.cycle.started = agent.cycle.started
          /\ agent'.cycle.last = agent.cycle.last /\ agent'.cycle.failed = agent.cycle.failed
          /\ agent'.cycle # None => agent'.cycle.next = next
        BY <1>4 DEF Carried
    <2>2. /\ Running /\ agent.cycle.next # None
          /\ SampleHolds(agent, now) /\ CycleHolds(agent, now)
        BY <1>4 DEF Collecting, InCycle
    <2>3. CycleHolds(agent', now')
        <3>1. PICK i \in Nat : i = Interval(agent.config)
            BY <1>2, <2>2
        <3>2. now <= agent.cycle.started + CycleTime /\ agent.cycle.started <= now
            BY <2>2 DEF CycleHolds
        <3>3. cache.takenAt # None => cache.takenAt <= agent.cycle.started + CycleTime
            BY <1>1, <1>4, <2>2, <3>2 DEF CycleHolds
        <3>4. ~agent.cycle.last /\ cache.takenAt # None /\ cache.takenAt < agent.cycle.started =>
                  cache.takenAt + i <= agent.cycle.started + CycleTime
            BY <1>1, <1>4, <2>2, <3>1, <3>2 DEF CycleHolds
        <3>5. agent.cycle.failed \in Nat /\ agent.cycle.failed <= cache.failures
            BY <1>4, <2>2 DEF CycleHolds, SampleHolds
        <3>6. QED BY <1>4, <2>1, <2>2, <3>1, <3>2, <3>3, <3>4, <3>5 DEF CycleHolds
    <2>4. SampleHolds(agent', now')
        <3>1. PICK i \in Nat : i = Interval(agent.config)
            BY <1>2, <2>2
        <3>2. agent.due = agent.cycle.started + i /\ agent.cycle.started \in Int
            BY <2>2, <3>1 DEF CycleHolds
        <3>3. cache.takenAt # None => cache.takenAt \in Int /\ cache.takenAt <= now
            BY <1>1, <1>4, <2>2 DEF SampleHolds
        <3>4. cache.takenAt # None => cache.takenAt <= agent.cycle.started + CycleTime
            BY <2>1, <2>3 DEF CycleHolds
        <3>5. cache.takenAt # None => cache.takenAt + i <= agent.due + CycleTime
            BY <1>1, <3>1, <3>2, <3>3, <3>4
        <3>6. QED BY <1>4, <2>1, <2>2, <3>1, <3>3, <3>5 DEF SampleHolds
    <2>5. QED BY <2>3, <2>4
<1>5. CASE Observes
    <2>1. PICK k : /\ Settled(k)
                   /\ agent' = Carried(agent, k, agent.beats,
                                   Pointed(agent.cycle.points, Instrument,
                                           ObservationsOf(k, Instrument), k.takenAt),
                                   Following(agent.cycle.next))
        BY <1>5 DEF Observes
    <2>2. Collecting /\ Running /\ IsAgent(agent) /\ now' = now
        BY <1>5 DEF Observes, AgentTyped, AgentIsWhole, Collecting, InCycle
    <2>3. agent.cache.failures \in Nat
        BY <2>2 DEF SampleHolds
    <2>4. /\ k.failures \in {agent.cache.failures, agent.cache.failures + 1}
          /\ k.takenAt \in {agent.cache.takenAt, now}
        BY <2>1, <2>2, SettledIs
    <2>5. k.failures \in Nat /\ agent.cache.failures <= k.failures
        BY <2>3, <2>4
    <2>6. QED BY <1>4, <2>1, <2>2, <2>4, <2>5
<1>6. CASE Pulses \/ Confesses
    <2>1. Collecting /\ Running /\ now' = now
        BY <1>6 DEF Pulses, Confesses, Collecting, InCycle
    <2>2. agent.cache.failures \in Nat /\ agent.cache.failures <= agent.cache.failures
        BY <2>1 DEF SampleHolds
    <2>3. \E beats, points, next : agent' = Carried(agent, agent.cache, beats, points, next)
        BY <1>6 DEF Pulses, Confesses
    <2>4. QED BY <1>4, <2>1, <2>2, <2>3
<1>7. CASE Ends
    <2>1. Running /\ InCycle /\ now' = now
        BY <1>7 DEF Ends, Exporting, InCycle
    <2>2. CASE agent' = None
        BY <2>2 DEF Running, InCycle
    <2>3. CASE agent' = Turned(agent, agent.due, None)
        <3>1. /\ agent'.cache = agent.cache /\ agent'.config = agent.config
              /\ agent'.due = agent.due /\ agent'.cycle = None
            BY <2>3 DEF Turned
        <3>2. SampleHolds(agent, now) /\ CycleHolds(agent, now)
            BY <2>1
        <3>3. PICK i \in Nat : i = Interval(agent.config)
            BY <1>2, <2>1
        <3>4. agent.cache.takenAt # None => agent.cache.takenAt + i <= agent.due + CycleTime
            BY <1>1, <3>2, <3>3 DEF SampleHolds, CycleHolds
        <3>5. SampleHolds(agent', now')
            BY <2>1, <3>1, <3>2, <3>3, <3>4 DEF SampleHolds
        <3>6. QED BY <3>1, <3>5 DEF InCycle
    <2>4. QED BY <1>7, <2>2, <2>3 DEF Ends
<1>8. CASE Stops
    BY <1>8 DEF Stops, Running, InCycle
<1>9. CASE Tick
    <2>1. now' = now + 1 /\ agent' = agent
        BY <1>9 DEF Tick
    <2>2. Running => SampleHolds(agent, now + 1)
        BY <1>1 DEF SampleHolds
    <2>3. InCycle => CycleHolds(agent, now + 1)
        <3>1. Collecting => now + 1 <= agent.cycle.started + CycleTime
            BY <1>1, <1>9 DEF Tick, CycleHolds, Collecting
        <3>2. QED BY <1>1, <3>1 DEF CycleHolds, Collecting
    <2>4. QED BY <2>1, <2>2, <2>3 DEF Running, InCycle
<1>10. CASE Launches
    <2>1. PICK config \in Config :
              Valid(config) /\ agent' = Fresh(config, scenario.os, starts + 1)
        BY <1>10 DEF Launches
    <2>2. /\ agent'.cache.takenAt = None /\ agent'.cache.failures = 0 /\ agent'.cycle = None
          /\ agent'.due = now + Interval(config)
        BY <2>1 DEF Fresh, EmptyCache, Interval
    <2>3. Interval(config) \in Nat
        BY IntervalIs
    <2>4. QED BY <1>1, <2>2, <2>3 DEF SampleHolds, InCycle
<1>11. CASE UNCHANGED exportVars
    BY <1>11 DEF exportVars, Running, InCycle
<1>12. QED BY <1>3, <1>5, <1>6, <1>7, <1>8, <1>9, <1>10, <1>11, StepsAre DEF AgentTyped

LEMMA ClockAlways == Spec => []ClockHolds
<1>1. Init => ClockHolds
    BY ClockInit
<1>2. HostInv /\ AgentTyped /\ ClockHolds /\ [Next]_vars => ClockHolds'
    BY ClockKeeps
<1>3. QED BY <1>1, <1>2, HostAlways, AgentAlways, PTL DEF Spec

(* The points of the host in a batch are of the sample in the cache, taken *)
(* in this cycle, unless a pass failed; and the failures in it are those.  *)
UpToDate(a) ==
    ~a.cycle.last /\ ~(a.cache.failures > a.cycle.failed) /\ a.config.interval >= 2

IsPictured(a, p) ==
    /\ ~Own(p.kind) => p.takenAt \in Int
    /\ ~Own(p.kind) /\ UpToDate(a) =>
           p.takenAt = a.cache.takenAt /\ a.cycle.started <= p.takenAt
    /\ p.kind = "AgentCollectionFailures" =>
           a.cycle.next = None /\ p.value = a.cache.failures

Unsampled(k) == k.takenAt = None => \A kind \in MetricKinds : k.observations[kind] = {}

PictureHolds ==
    /\ Running => Unsampled(agent.cache)
    /\ InCycle => \A p \in agent.cycle.points : IsPictured(agent, p)

LEMMA PictureInit == Init => PictureHolds
BY DEF Init, PictureHolds, Running, InCycle

(* A sample that is fresh is of the cycle; and one that a cycle took, or   *)
(* used, stays fresh to its end.                                           *)
LEMMA FreshIs ==
    ASSUME CycleTime < Second, AgentTyped, ClockHolds, Collecting,
           UpToDate(agent), agent.cache.takenAt # None
    PROVE  IsFresh(agent.cache, now, MaxAge(agent.config))
               <=> agent.cycle.started <= agent.cache.takenAt
<1> DEFINE c == agent.config
           t == agent.cache.takenAt
           s == agent.cycle.started
<1>1. Running /\ InCycle /\ SampleHolds(agent, now) /\ CycleHolds(agent, now)
    BY DEF Collecting, InCycle, ClockHolds
<1>2. c \in Config /\ c.interval >= 2 /\ ~agent.cycle.last
    BY <1>1 DEF AgentTyped, AgentIsWhole, IsAgent, UpToDate
<1>3. /\ now \in Int /\ CycleTime \in Int /\ Second \in Int /\ t \in Int /\ s \in Int
      /\ s <= now /\ now <= s + CycleTime
      /\ t < s => t + Interval(c) <= s + CycleTime
    BY <1>1, <1>2, AgentAssumption, TelemetryAssumption
       DEF AgentTyped, Collecting, SampleHolds, CycleHolds
<1>4. IsFresh(agent.cache, now, MaxAge(c)) <=> now - t < MaxAge(c)
    BY DEF IsFresh
<1> HIDE DEF c, t, s
<1>5. /\ MaxAge(c) \in Int /\ Interval(c) \in Int
      /\ Second <= MaxAge(c) /\ MaxAge(c) + Second <= Interval(c)
    BY <1>2, MaxAgeIs, IntervalIs
<1>6. ASSUME s <= t PROVE now - t < MaxAge(c)
    BY <1>3, <1>5, <1>6
<1>7. ASSUME t < s PROVE ~(now - t < MaxAge(c))
    BY <1>3, <1>5, <1>7
<1>8. QED BY <1>3, <1>4, <1>6, <1>7 DEF c, t, s

LEMMA PictureKeeps ==
    ASSUME CycleTime < Second, HostInv, AgentTyped, ClockHolds, PictureHolds, [Next]_vars
    PROVE  PictureHolds'
<1> USE DEF PictureHolds
<1>1. now \in Int /\ None \notin Int
    BY TelemetryAssumption DEF AgentTyped
<1>2. CASE Opens
    <2>1. PICK last \in BOOLEAN :
              agent' = Turned(agent, now + agent.config.interval * Second,
                              Opening(agent, now, last))
        BY <1>2 DEF Opens
    <2>2. agent'.cache = agent.cache /\ agent'.cycle.points = {}
        BY <2>1 DEF Turned, Opening
    <2>3. QED BY <1>2, <2>2 DEF Opens
<1>3. CASE Observes
    <2>1. PICK k : /\ Settled(k)
                   /\ agent' = Carried(agent, k, agent.beats,
                                   Pointed(agent.cycle.points, Instrument,
                                           ObservationsOf(k, Instrument), k.takenAt),
                                   Following(agent.cycle.next))
        BY <1>3 DEF Observes
    <2> DEFINE readings == ObservationsOf(k, Instrument)
               kind == Instrument
               cache == agent.cache
    <2>2. /\ Collecting /\ Running /\ InCycle /\ IsAgent(agent) /\ ~Own(kind)
          /\ kind \in MetricKinds /\ kind # "AgentCollectionFailures"
        BY <1>3, PositionsAre, RegisteredAre
           DEF Observes, AgentTyped, AgentIsWhole, Collecting, InCycle, Own, Instrument
    <2>3. readings = k.observations[kind]
        BY DEF ObservationsOf
    <2>4. \/ IsFresh(cache, now, MaxAge(agent.config)) /\ k = cache
          \/ /\ ~IsFresh(cache, now, MaxAge(agent.config))
             /\ k.takenAt = now /\ k.failures = cache.failures
          \/ /\ k.takenAt = cache.takenAt /\ k.observations = cache.observations
             /\ k.failures = cache.failures + 1
        BY <2>1, <2>2, SettledIs
    <2> HIDE DEF readings, kind
    <2>5. /\ agent'.cache = k /\ agent'.config = agent.config
          /\ agent'.cycle.started = agent.cycle.started
          /\ agent'.cycle.last = agent.cycle.last /\ agent'.cycle.failed = agent.cycle.failed
          /\ agent'.cycle.points = Pointed(agent.cycle.points, kind, readings, k.takenAt)
        BY <2>1 DEF Carried, readings, kind
    <2>6. SampleHolds(agent, now) /\ CycleHolds(agent, now) /\ Unsampled(cache)
        BY <2>2 DEF ClockHolds
    <2>7. Unsampled(k)
        BY <1>1, <2>4, <2>6 DEF Unsampled
    <2>8. k.takenAt # None => k.takenAt \in Int
        BY <1>1, <2>4, <2>6 DEF SampleHolds
    <2>9. UpToDate(agent') =>
              /\ UpToDate(agent)
              /\ \/ IsFresh(cache, now, MaxAge(agent.config)) /\ k = cache
                 \/ ~IsFresh(cache, now, MaxAge(agent.config)) /\ k.takenAt = now
        BY <2>4, <2>5, <2>6 DEF UpToDate, SampleHolds, CycleHolds
    <2>10. ASSUME UpToDate(agent'), k.takenAt # None
           PROVE  agent.cycle.started <= k.takenAt
        <3>1. CASE IsFresh(cache, now, MaxAge(agent.config)) /\ k = cache
            BY <2>2, <2>9, <2>10, <3>1, FreshIs
        <3>2. CASE k.takenAt = now
            BY <2>6, <3>2 DEF CycleHolds
        <3>3. QED BY <2>9, <2>10, <3>1, <3>2
    <2>11. ASSUME NEW p \in agent.cycle.points PROVE IsPictured(agent', p)
        <3>1. IsPictured(agent, p) /\ agent.cycle.next # None
            BY <2>2 DEF Collecting
        <3>2. p.kind # "AgentCollectionFailures"
            BY <3>1 DEF IsPictured
        <3>3. ASSUME ~Own(p.kind), UpToDate(agent')
              PROVE  p.takenAt = k.takenAt /\ agent.cycle.started <= p.takenAt
            <4>1. /\ UpToDate(agent) /\ p.takenAt = cache.takenAt /\ cache.takenAt # None
                  /\ agent.cycle.started <= cache.takenAt
                BY <1>1, <2>9, <3>1, <3>3 DEF IsPictured
            <4>2. IsFresh(cache, now, MaxAge(agent.config))
                BY <2>2, <4>1, FreshIs
            <4>3. QED BY <2>9, <3>3, <4>1, <4>2
        <3>4. QED BY <2>5, <3>1, <3>2, <3>3 DEF IsPictured
    <2>12. ASSUME NEW p \in agent'.cycle.points, p \notin agent.cycle.points
           PROVE  IsPictured(agent', p)
        <3>1. PICK r \in readings :
                  p = [kind |-> kind, attributes |-> r.attributes, value |-> r.value,
                       takenAt |-> k.takenAt]
            BY <2>5, <2>12 DEF Pointed
        <3>2. p.kind = kind /\ p.takenAt = k.takenAt
            BY <3>1
        <3>3. k.takenAt # None
            BY <2>2, <2>3, <2>7 DEF Unsampled
        <3>4. QED BY <2>2, <2>5, <2>8, <2>10, <3>2, <3>3 DEF IsPictured
    <2>13. QED BY <2>5, <2>7, <2>11, <2>12
<1>4. ASSUME NEW beats, NEW next, NEW kind, NEW value, Collecting, Own(kind),
             kind = "AgentCollectionFailures" => next = None /\ value = agent.cache.failures,
             agent' = Carried(agent, agent.cache, beats,
                              agent.cycle.points \cup {OwnPoint(kind, value)}, next)
      PROVE  PictureHolds'
    <2> DEFINE point == OwnPoint(kind, value)
    <2>1. point.kind = kind /\ point.value = value
        BY DEF OwnPoint
    <2> HIDE DEF point
    <2>2. /\ agent'.cache = agent.cache /\ agent'.config = agent.config
          /\ agent'.cycle.started = agent.cycle.started
          /\ agent'.cycle.last = agent.cycle.last /\ agent'.cycle.failed = agent.cycle.failed
          /\ agent'.cycle.points = agent.cycle.points \cup {point}
          /\ agent'.cycle.next = next
        BY <1>4 DEF Carried, point
    <2>3. Running /\ InCycle /\ agent.cycle.next # None
        BY <1>4 DEF Collecting, InCycle
    <2>4. UpToDate(agent') <=> UpToDate(agent)
        BY <2>2 DEF UpToDate
    <2>5. ASSUME NEW p \in agent.cycle.points PROVE IsPictured(agent', p)
        <3>1. IsPictured(agent, p)
            BY <2>3
        <3>2. QED BY <2>2, <2>3, <2>4, <3>1 DEF IsPictured
    <2>6. IsPictured(agent', point)
        BY <1>4, <2>1, <2>2 DEF IsPictured
    <2>7. QED BY <2>2, <2>3, <2>5, <2>6
<1>5. CASE Pulses
    BY <1>4, <1>5 DEF Pulses, Own
<1>6. CASE Confesses
    BY <1>4, <1>6 DEF Confesses, Own
<1>7. CASE Ends
    <2>1. CASE agent' = None
        BY <2>1 DEF Running, InCycle
    <2>2. CASE agent' = Turned(agent, agent.due, None)
        <3>1. agent'.cache = agent.cache /\ agent'.cycle = None
            BY <2>2 DEF Turned
        <3>2. QED BY <1>7, <3>1 DEF Ends, Exporting, InCycle
    <2>3. QED BY <1>7, <2>1, <2>2 DEF Ends
<1>8. CASE Stops
    BY <1>8 DEF Stops, Running, InCycle
<1>9. CASE Tick \/ UNCHANGED exportVars
    BY <1>9 DEF Tick, exportVars, Running, InCycle
<1>10. CASE Launches
    <2>1. PICK config \in Config : agent' = Fresh(config, scenario.os, starts + 1)
        BY <1>10 DEF Launches
    <2>2. agent'.cache = EmptyCache /\ agent'.cycle = None
        BY <2>1 DEF Fresh
    <2>3. QED BY <2>2 DEF Unsampled, EmptyCache, InCycle
<1>11. QED BY <1>2, <1>3, <1>5, <1>6, <1>7, <1>8, <1>9, <1>10, StepsAre DEF AgentTyped

(* The points of a batch are of one sampling pass of its own cycle, or its *)
(* count of failures says that they may not be, where the callbacks of a   *)
(* cycle take less than the second a sample lives at least.                *)
THEOREM BatchesAreOnePicture ==
    ASSUME CycleTime < Second
    PROVE  Spec => []BatchIsOnePicture
<1>1. HostInv /\ AgentTyped /\ ClockHolds /\ PictureHolds /\ [Next]_vars => PictureHolds'
    BY PictureKeeps
<1>2. Spec => []PictureHolds
    BY <1>1, PictureInit, HostAlways, AgentAlways, ClockAlways, PTL DEF Spec
<1>3. ASSUME AgentTyped, ClockHolds, PictureHolds PROVE BatchIsOnePicture
    <2>1. CycleIsOneSample
        <3> SUFFICES ASSUME InCycle, ~agent.cycle.last, ~Failed, agent.config.interval >= 2
                     PROVE  \A p \in HostPoints(agent.cycle.points) :
                                /\ p.takenAt = agent.cache.takenAt
                                /\ p.takenAt >= agent.cycle.started
            BY DEF CycleIsOneSample
        <3>1. UpToDate(agent)
            BY DEF UpToDate, Failed
        <3>2. agent.cycle.started \in Int
            BY <1>3 DEF ClockHolds, CycleHolds
        <3>3. ASSUME NEW p \in HostPoints(agent.cycle.points)
              PROVE  p.takenAt = agent.cache.takenAt /\ p.takenAt >= agent.cycle.started
            <4>1. IsPictured(agent, p) /\ ~Own(p.kind)
                BY <1>3 DEF PictureHolds, HostPoints
            <4>2. QED BY <3>1, <3>2, <4>1 DEF IsPictured
        <3>4. QED BY <3>3
    <2>2. StaleReadingsAreCounted
        <3> SUFFICES ASSUME Exporting, ~agent.cycle.last, agent.config.interval >= 2,
                            NEW p \in HostPoints(agent.cycle.points),
                            p.takenAt < agent.cycle.started,
                            NEW count \in CountIn(agent.cycle.points,
                                                  "AgentCollectionFailures")
                     PROVE  count > agent.cycle.failed
            BY DEF StaleReadingsAreCounted
        <3>1. InCycle /\ p \in agent.cycle.points /\ ~Own(p.kind)
            BY DEF Exporting, HostPoints
        <3>2. IsPictured(agent, p) /\ CycleHolds(agent, now)
            BY <1>3, <3>1 DEF PictureHolds, ClockHolds
        <3>3. ~UpToDate(agent)
            BY <3>1, <3>2 DEF IsPictured, CycleHolds
        <3>4. agent.cache.failures > agent.cycle.failed
            BY <3>3 DEF UpToDate
        <3>5. PICK q \in agent.cycle.points :
                  q.kind = "AgentCollectionFailures" /\ count = q.value
            BY DEF CountIn
        <3>6. count = agent.cache.failures
            BY <1>3, <3>1, <3>5 DEF PictureHolds, IsPictured
        <3>7. QED BY <3>4, <3>6
    <2>3. QED BY <2>1, <2>2 DEF BatchIsOnePicture
<1>4. QED BY <1>2, <1>3, AgentAlways, ClockAlways, PTL

-----------------------------------------------------------------------------
(***************************************************************************)
(* What differs stays apart.                                               *)
(***************************************************************************)
LEMMA LastIsOne ==
    ASSUME NEW f, DOMAIN f \subseteq Int,
           NEW r \in LastOfEach(f), NEW s \in LastOfEach(f), r.attributes = s.attributes
    PROVE  r = s
<1>1. PICK i \in DOMAIN f : /\ r = f[i]
                            /\ \A k \in DOMAIN f : f[k].attributes = f[i].attributes => k <= i
    BY DEF LastOfEach
<1>2. PICK j \in DOMAIN f : /\ s = f[j]
                            /\ \A k \in DOMAIN f : f[k].attributes = f[j].attributes => k <= j
    BY DEF LastOfEach
<1>3. i <= j /\ j <= i /\ i \in Int /\ j \in Int
    BY <1>1, <1>2
<1>4. QED BY <1>1, <1>2, <1>3

LEMMA GroupedAt ==
    ASSUME NEW kind, NEW a, NEW b, NEW name \in ToSet(ExtraDimensions(kind)),
           name \in DOMAIN a, name \in DOMAIN b, AsGrouped(kind, a) = AsGrouped(kind, b)
    PROVE  a[name] = b[name]
<1> DEFINE D == ToSet(ExtraDimensions(kind))
<1>1. /\ AsGrouped(kind, a) = [n \in DOMAIN a \cap D |-> a[n]]
      /\ AsGrouped(kind, b) = [n \in DOMAIN b \cap D |-> b[n]]
    BY DEF AsGrouped, Restrict
<1> HIDE DEF D
<1>2. name \in D
    BY DEF D
<1>3. AsGrouped(kind, a)[name] = a[name] /\ AsGrouped(kind, b)[name] = b[name]
    BY <1>1, <1>2
<1>4. QED BY <1>3

LEMMA DimensionsAre ==
    /\ Mountpoint \in ToSet(ExtraDimensions("FilesystemUsage"))
    /\ Mountpoint \in ToSet(ExtraDimensions("FilesystemUtilization"))
    /\ IoDirection \in ToSet(ExtraDimensions("NetworkIo"))
    /\ InterfaceName \in ToSet(ExtraDimensions("NetworkIo"))
    /\ HwId \in ToSet(ExtraDimensions("Temperature"))
<1>1. ASSUME NEW x, NEW y
      PROVE  x \in ToSet(<< x >>) /\ x \in ToSet(<< x, y >>) /\ y \in ToSet(<< x, y >>)
    BY DEF ToSet
<1>2. /\ ExtraDimensions("FilesystemUsage") = << Mountpoint >>
      /\ ExtraDimensions("FilesystemUtilization") = << Mountpoint >>
      /\ ExtraDimensions("NetworkIo") = << IoDirection, InterfaceName >>
      /\ ExtraDimensions("Temperature") = << HwId, HwName >>
    BY DEF ExtraDimensions, Mountpoint, IoDirection, InterfaceName, HwId, HwName
<1>3. QED BY <1>1, <1>2

LEMMA NamesDiffer ==
    /\ IoDirection # InterfaceName
    /\ HostName \notin {Environment, OsType, ServiceName, ServiceVersion, ServiceInstance}
    /\ Environment \notin {OsType, ServiceName, ServiceVersion, ServiceInstance}
    /\ OsType \notin {ServiceName, ServiceVersion, ServiceInstance}
<1>1. /\ IoDirection.words[2] = "io" /\ InterfaceName.words[2] = "interface"
    BY DEF IoDirection, InterfaceName, Dotted, Named
<1>2. /\ HostName.words[1] = "host" /\ OsType.words[1] = "os"
      /\ Environment.words[1] = "deployment" /\ ServiceName.words[1] = "service"
      /\ ServiceVersion.words[1] = "service" /\ ServiceInstance.words[1] = "service"
    BY DEF HostName, OsType, Environment, ServiceName, ServiceVersion, ServiceInstance, Dotted, Named
<1>3. QED BY <1>1, <1>2

(* A metric of a pass has no two readings a client would group as one.     *)
Apart(kind, readings) ==
    \A r, s \in readings :
        AsGrouped(kind, r.attributes) = AsGrouped(kind, s.attributes) => r = s

LEMMA AloneIsApart ==
    ASSUME NEW kind, NEW r
    PROVE  Apart(kind, {r}) /\ Apart(kind, {})
BY DEF Apart

LEMMA OnlyAt ==
    ASSUME NEW name, NEW value
    PROVE  DOMAIN Only(name, value) = {name} /\ Only(name, value)[name] = value
BY DEF Only

(* Readings of devices, whose attributes a client sees and which say all.  *)
LEMMA DevicesAreApart ==
    ASSUME NEW kind, NEW f, DOMAIN f \subseteq Int,
           NEW name \in ToSet(ExtraDimensions(kind)),
           \A i \in DOMAIN f : name \in DOMAIN f[i].attributes,
           \A i, j \in DOMAIN f :
               f[i].attributes[name] = f[j].attributes[name] =>
                   f[i].attributes = f[j].attributes
    PROVE  Apart(kind, LastOfEach(f))
<1> SUFFICES ASSUME NEW r \in LastOfEach(f), NEW s \in LastOfEach(f),
                    AsGrouped(kind, r.attributes) = AsGrouped(kind, s.attributes)
             PROVE  r = s
    BY DEF Apart
<1>1. PICK i \in DOMAIN f : r = f[i]
    BY DEF LastOfEach
<1>2. PICK j \in DOMAIN f : s = f[j]
    BY DEF LastOfEach
<1>3. r.attributes[name] = s.attributes[name]
    <2> DEFINE a == r.attributes
               b == s.attributes
    <2>1. name \in DOMAIN a /\ name \in DOMAIN b /\ AsGrouped(kind, a) = AsGrouped(kind, b)
        BY <1>1, <1>2
    <2> HIDE DEF a, b
    <2>2. a[name] = b[name]
        BY <2>1, GroupedAt
    <2>3. QED BY <2>2 DEF a, b
<1>4. r.attributes = s.attributes
    BY <1>1, <1>2, <1>3
<1>5. QED BY <1>4, LastIsOne

LEMMA FilesystemsAreApart ==
    ASSUME NEW c, NEW m \in Machines
    PROVE  /\ Apart("FilesystemUsage", FilesystemUsage(c, m))
           /\ Apart("FilesystemUtilization", FilesystemUtilization(c, m))
<1> DEFINE D == {j \in DOMAIN m.disks : Reports(c, m.disks[j])}
           mount(i) == m.disks[i].mount
           usage == [i \in D |-> Reading(UsedOf(m.disks[i]),
                         Over(Only(Mountpoint, m.disks[i].mount), Only(FilesystemState, "used")))]
           ratio == [i \in D |-> Reading(Ratio(UsedOf(m.disks[i]), m.disks[i].total),
                                         Only(Mountpoint, m.disks[i].mount))]
<1>1. D \subseteq Int
    BY AgentAssumption
<1> HIDE DEF D
<1>2. /\ DOMAIN usage = D
      /\ \A i \in D : usage[i].attributes = Over(Only(Mountpoint, mount(i)),
                                                 Only(FilesystemState, "used"))
    BY DEF Reading
<1>3. /\ DOMAIN ratio = D
      /\ \A i \in D : ratio[i].attributes = Only(Mountpoint, mount(i))
    BY DEF Reading
<1>4. /\ FilesystemUsage(c, m) = LastOfEach(usage)
      /\ FilesystemUtilization(c, m) = LastOfEach(ratio)
    BY DEF FilesystemUsage, FilesystemUtilization, D
<1> HIDE DEF usage, ratio, mount
<1>5. \A i \in D : /\ Mountpoint \in DOMAIN usage[i].attributes
                   /\ usage[i].attributes[Mountpoint] = mount(i)
    <2> SUFFICES ASSUME NEW i \in D
                 PROVE  /\ Mountpoint \in DOMAIN usage[i].attributes
                        /\ usage[i].attributes[Mountpoint] = mount(i)
        OBVIOUS
    <2> DEFINE at == usage[i].attributes
               x == mount(i)
    <2>1. at = Over(Only(Mountpoint, x), Only(FilesystemState, "used"))
        BY <1>2
    <2> HIDE DEF at, x
    <2>2. Mountpoint \in DOMAIN at /\ at[Mountpoint] = x
        BY <2>1 DEF Over, Only
    <2>3. QED BY <2>2 DEF at, x
<1>6. \A i \in D : /\ Mountpoint \in DOMAIN ratio[i].attributes
                   /\ ratio[i].attributes[Mountpoint] = mount(i)
    <2> SUFFICES ASSUME NEW i \in D
                 PROVE  /\ Mountpoint \in DOMAIN ratio[i].attributes
                        /\ ratio[i].attributes[Mountpoint] = mount(i)
        OBVIOUS
    <2> DEFINE at == ratio[i].attributes
               x == mount(i)
    <2>1. at = Only(Mountpoint, x)
        BY <1>3
    <2> HIDE DEF at, x
    <2>2. Mountpoint \in DOMAIN at /\ at[Mountpoint] = x
        BY <2>1 DEF Only
    <2>3. QED BY <2>2 DEF at, x
<1>7. Apart("FilesystemUsage", LastOfEach(usage))
    <2>1. \A i, j \in DOMAIN usage :
              usage[i].attributes[Mountpoint] = usage[j].attributes[Mountpoint] =>
                  usage[i].attributes = usage[j].attributes
        BY <1>2, <1>5
    <2>2. DOMAIN usage \subseteq Int
          /\ \A i \in DOMAIN usage : Mountpoint \in DOMAIN usage[i].attributes
        BY <1>1, <1>2, <1>5
    <2>3. QED BY <2>1, <2>2, DimensionsAre, DevicesAreApart
<1>8. Apart("FilesystemUtilization", LastOfEach(ratio))
    <2>1. \A i, j \in DOMAIN ratio :
              ratio[i].attributes[Mountpoint] = ratio[j].attributes[Mountpoint] =>
                  ratio[i].attributes = ratio[j].attributes
        BY <1>3, <1>6
    <2>2. DOMAIN ratio \subseteq Int
          /\ \A i \in DOMAIN ratio : Mountpoint \in DOMAIN ratio[i].attributes
        BY <1>1, <1>3, <1>6
    <2>3. QED BY <2>1, <2>2, DimensionsAre, DevicesAreApart
<1>9. QED BY <1>4, <1>7, <1>8

LEMMA TemperaturesAreApart ==
    ASSUME NEW c, NEW m \in Machines
    PROVE  Apart("Temperature", Temperatures(c, m))
<1> DEFINE D == {j \in DOMAIN m.sensors : Says(c, m.sensors[j], SensorsOffered(m))}
           label(i) == m.sensors[i].label
           degrees == [i \in D |-> Reading(m.sensors[i].celsius,
                           Over(Only(HwId, m.sensors[i].label), Only(HwName, m.sensors[i].label)))]
<1>1. D \subseteq Int
    BY AgentAssumption
<1> HIDE DEF D
<1>2. /\ DOMAIN degrees = D
      /\ \A i \in D : degrees[i].attributes = Over(Only(HwId, label(i)), Only(HwName, label(i)))
    BY DEF Reading
<1>3. Temperatures(c, m) \in {{}, LastOfEach(degrees)}
    BY DEF Temperatures, D
<1> HIDE DEF degrees, label
<1>4. \A i \in D : /\ HwId \in DOMAIN degrees[i].attributes
                   /\ degrees[i].attributes[HwId] = label(i)
    <2> SUFFICES ASSUME NEW i \in D
                 PROVE  /\ HwId \in DOMAIN degrees[i].attributes
                        /\ degrees[i].attributes[HwId] = label(i)
        OBVIOUS
    <2> DEFINE at == degrees[i].attributes
               x == label(i)
    <2>1. at = Over(Only(HwId, x), Only(HwName, x))
        BY <1>2
    <2> HIDE DEF at, x
    <2>2. HwId \in DOMAIN at /\ at[HwId] = x
        BY <2>1 DEF Over, Only
    <2>3. QED BY <2>2 DEF at, x
<1>5. Apart("Temperature", LastOfEach(degrees))
    <2>1. \A i, j \in DOMAIN degrees :
              degrees[i].attributes[HwId] = degrees[j].attributes[HwId] =>
                  degrees[i].attributes = degrees[j].attributes
        BY <1>2, <1>4
    <2>2. DOMAIN degrees \subseteq Int
          /\ \A i \in DOMAIN degrees : HwId \in DOMAIN degrees[i].attributes
        BY <1>1, <1>2, <1>4
    <2>3. QED BY <2>1, <2>2, DimensionsAre, DevicesAreApart
<1>6. QED BY <1>3, <1>5, AloneIsApart

LEMMA NetworkIsApart ==
    ASSUME NEW c, NEW m
    PROVE  Apart("NetworkIo", Network(c, m))
<1> SUFFICES ASSUME NEW r \in Network(c, m), NEW s \in Network(c, m),
                    AsGrouped("NetworkIo", r.attributes) = AsGrouped("NetworkIo", s.attributes)
             PROVE  r = s
    BY DEF Apart
<1> DEFINE a == r.attributes
           b == s.attributes
<1>1. CASE c.perInterface
    <2> DEFINE of(n, d) == Over(Only(InterfaceName, n), Only(IoDirection, d))
               value(n, d) == m.interfaces[n][d]
    <2>1. PICK at \in (DOMAIN m.interfaces) \X Directions :
              r = Reading(value(at[1], at[2]), of(at[1], at[2]))
        BY <1>1 DEF Network
    <2>2. PICK to \in (DOMAIN m.interfaces) \X Directions :
              s = Reading(value(to[1], to[2]), of(to[1], to[2]))
        BY <1>1 DEF Network
    <2>3. a = of(at[1], at[2]) /\ b = of(to[1], to[2])
        BY <2>1, <2>2 DEF Reading
    <2>4. ASSUME NEW n, NEW d
          PROVE  /\ DOMAIN of(n, d) = {InterfaceName, IoDirection}
                 /\ of(n, d)[InterfaceName] = n /\ of(n, d)[IoDirection] = d
        BY NamesDiffer DEF Over, Only
    <2> HIDE DEF of, value, a, b
    <2>5. /\ a[InterfaceName] = at[1] /\ a[IoDirection] = at[2]
          /\ b[InterfaceName] = to[1] /\ b[IoDirection] = to[2]
          /\ DOMAIN a = {InterfaceName, IoDirection} /\ DOMAIN b = {InterfaceName, IoDirection}
        BY <2>3, <2>4
    <2>6. AsGrouped("NetworkIo", a) = AsGrouped("NetworkIo", b)
        BY DEF a, b
    <2>7. a[InterfaceName] = b[InterfaceName]
        BY <2>5, <2>6, DimensionsAre, GroupedAt
    <2>8. a[IoDirection] = b[IoDirection]
        BY <2>5, <2>6, DimensionsAre, GroupedAt
    <2>9. QED BY <2>1, <2>2, <2>5, <2>7, <2>8
<1>2. CASE ~c.perInterface
    <2> DEFINE of(d) == Only(IoDirection, d)
               value(d) == FoldFunction(+, 0, [n \in DOMAIN m.interfaces |-> m.interfaces[n][d]])
    <2>1. PICK d \in Directions : r = Reading(value(d), of(d))
        BY <1>2 DEF Network
    <2>2. PICK e \in Directions : s = Reading(value(e), of(e))
        BY <1>2 DEF Network
    <2>3. a = of(d) /\ b = of(e)
        BY <2>1, <2>2 DEF Reading
    <2> HIDE DEF value, a, b
    <2>4. /\ a[IoDirection] = d /\ b[IoDirection] = e
          /\ IoDirection \in DOMAIN a /\ IoDirection \in DOMAIN b
        BY <2>3, OnlyAt
    <2>5. AsGrouped("NetworkIo", a) = AsGrouped("NetworkIo", b)
        BY DEF a, b
    <2>6. a[IoDirection] = b[IoDirection]
        BY <2>4, <2>5, DimensionsAre, GroupedAt
    <2>7. QED BY <2>1, <2>2, <2>4, <2>6
<1>3. QED BY <1>1, <1>2

LEMMA CollectIsApart ==
    ASSUME NEW c, NEW m \in Machines, NEW kind \in MetricKinds
    PROVE  Apart(kind, Collect(c, m)[kind])
<1> DEFINE readings == Collect(c, m)[kind]
<1>1. \/ kind = "FilesystemUsage" /\ readings = FilesystemUsage(c, m)
      \/ kind = "FilesystemUtilization" /\ readings = FilesystemUtilization(c, m)
      \/ kind = "NetworkIo" /\ readings = Network(c, m)
      \/ kind = "Temperature" /\ readings = Temperatures(c, m)
      \/ readings = {} \/ \E r : readings = {r}
    BY DEF Collect, Cpu, MemoryUtilization, MemoryUsage, LoadAverage, Alone, LoadAverages
<1> HIDE DEF readings
<1>2. Apart(kind, readings)
    BY <1>1, FilesystemsAreApart, NetworkIsApart, TemperaturesAreApart, AloneIsApart
<1>3. QED BY <1>2 DEF readings

(* The points of a batch are of instruments called back so far, each once. *)
IsSpread(cycle) ==
    /\ \A p \in cycle.points : \E i \in Registered :
           p.kind = MetricKindOrder[i] /\ (cycle.next # None => i < cycle.next)
    /\ \A p, q \in cycle.points :
           p.kind = q.kind /\ AsGrouped(p.kind, p.attributes) = AsGrouped(q.kind, q.attributes)
               => p = q

IsNamed(a) ==
    /\ a.identity = FromConfig(a.config, DetectedName, a.identity.instance)
    /\ a.os \in {"linux", "darwin", "windows"}

ApartHolds ==
    /\ Running =>
           /\ IsNamed(agent)
           /\ \A kind \in MetricKinds : Apart(kind, agent.cache.observations[kind])
    /\ InCycle => IsSpread(agent.cycle)

LEMMA ApartInit == Init => ApartHolds
BY DEF Init, ApartHolds, Running, InCycle

LEMMA ApartKeeps ==
    ASSUME HostInv, AgentTyped, ApartHolds, [Next]_vars
    PROVE  ApartHolds'
<1> USE DEF ApartHolds
<1>1. CASE Opens
    <2>1. PICK last \in BOOLEAN :
              agent' = Turned(agent, now + agent.config.interval * Second,
                              Opening(agent, now, last))
        BY <1>1 DEF Opens
    <2>2. /\ agent'.cache = agent.cache /\ agent'.config = agent.config
          /\ agent'.identity = agent.identity /\ agent'.os = agent.os
          /\ agent'.cycle.points = {}
        BY <2>1 DEF Turned, Opening
    <2>3. Running
        BY <1>1 DEF Opens
    <2>4. QED BY <2>2, <2>3 DEF IsNamed, IsSpread
<1>2. ASSUME NEW cache, NEW beats, NEW more, Collecting,
             \A kind \in MetricKinds : Apart(kind, cache.observations[kind]),
             \A p \in more : p.kind = Instrument,
             \A p, q \in more :
                 AsGrouped(p.kind, p.attributes) = AsGrouped(q.kind, q.attributes) => p = q,
             agent' = Carried(agent, cache, beats, agent.cycle.points \cup more,
                              Following(agent.cycle.next))
      PROVE  ApartHolds'
    <2>1. /\ agent'.cache = cache /\ agent'.config = agent.config
          /\ agent'.identity = agent.identity /\ agent'.os = agent.os
          /\ agent'.cycle.points = agent.cycle.points \cup more
          /\ agent'.cycle.next = Following(agent.cycle.next)
        BY <1>2 DEF Carried
    <2>2. Running /\ InCycle /\ agent.cycle.next \in Registered
        BY <1>2 DEF Collecting, InCycle, AgentTyped, AgentIsWhole
    <2> DEFINE n == agent.cycle.next
    <2>3. n \in Registered /\ n # None /\ (Following(n) # None => n < Following(n))
          /\ (Following(n) # None => Following(n) \in Registered)
        <3>1. n \in Registered
            BY <2>2
        <3> HIDE DEF n
        <3>2. QED BY <3>1, FollowingIs, RegisteredAre
    <2>4. ASSUME NEW p \in agent'.cycle.points
          PROVE  \E i \in Registered : p.kind = MetricKindOrder[i]
                                       /\ (Following(n) # None => i < Following(n))
        <3>1. CASE p \in agent.cycle.points
            <4>1. PICK i \in Registered : p.kind = MetricKindOrder[i] /\ i < n
                BY <2>2, <2>3, <3>1 DEF IsSpread
            <4> DEFINE next == Following(n)
            <4>2. next # None => n < next /\ next \in Registered
                BY <2>3
            <4> HIDE DEF n, next
            <4>3. i < n /\ n \in Int /\ i \in Int
                BY <2>3, <4>1, RegisteredAre
            <4>4. next # None => next \in Int
                BY <4>2, RegisteredAre
            <4>5. next # None => i < next
                BY <4>2, <4>3, <4>4
            <4>6. QED BY <4>1, <4>5 DEF next
        <3>2. CASE p \in more
            BY <1>2, <2>3, <3>2 DEF Instrument
        <3>3. QED BY <2>1, <3>1, <3>2
    <2>5. ASSUME NEW p \in agent.cycle.points, NEW q \in more
          PROVE  p.kind # q.kind
        <3>1. PICK i \in Registered : p.kind = MetricKindOrder[i] /\ i < n
            BY <2>2, <2>3 DEF IsSpread
        <3> HIDE DEF n
        <3>2. i \in 1 .. 13 /\ n \in 1 .. 13 /\ i # n
            BY <2>3, <3>1, RegisteredAre
        <3>3. MetricKindOrder[i] # MetricKindOrder[n]
            BY <3>2, PositionsAre
        <3>4. q.kind = MetricKindOrder[n]
            BY <1>2 DEF Instrument, n
        <3>5. QED BY <3>1, <3>3, <3>4
    <2>6. ASSUME NEW p \in agent'.cycle.points, NEW q \in agent'.cycle.points,
                 p.kind = q.kind,
                 AsGrouped(p.kind, p.attributes) = AsGrouped(q.kind, q.attributes)
          PROVE  p = q
        <3>1. CASE p \in agent.cycle.points /\ q \in agent.cycle.points
            BY <2>2, <2>6, <3>1 DEF IsSpread
        <3>2. CASE p \in more /\ q \in more
            BY <1>2, <2>6, <3>2
        <3>3. QED BY <2>1, <2>5, <2>6, <3>1, <3>2
    <2>7. IsSpread(agent'.cycle)
        BY <2>1, <2>4, <2>6 DEF IsSpread
    <2>8. IsNamed(agent')
        BY <2>1, <2>2 DEF IsNamed
    <2>9. QED BY <1>2, <2>1, <2>7, <2>8
<1>3. CASE Observes
    <2>1. PICK k : /\ Settled(k)
                   /\ agent' = Carried(agent, k, agent.beats,
                                   Pointed(agent.cycle.points, Instrument,
                                           ObservationsOf(k, Instrument), k.takenAt),
                                   Following(agent.cycle.next))
        BY <1>3 DEF Observes
    <2>2. Collecting /\ Running /\ IsAgent(agent) /\ Instrument \in MetricKinds
        BY <1>3, PositionsAre, RegisteredAre
           DEF Observes, AgentTyped, AgentIsWhole, Collecting, InCycle, Instrument
    <2>3. \A kind \in MetricKinds : Apart(kind, k.observations[kind])
        <3>1. \/ k = agent.cache
              \/ \E m \in Machines : k.observations = Collect(agent.config, m)
              \/ k.observations = agent.cache.observations
            BY <2>1, <2>2, SettledIs
        <3>2. ASSUME NEW m \in Machines, k.observations = Collect(agent.config, m)
              PROVE  \A kind \in MetricKinds : Apart(kind, k.observations[kind])
            <4>1. PICK c : c = agent.config
                OBVIOUS
            <4>2. QED BY <3>2, <4>1, CollectIsApart
        <3>3. QED BY <2>2, <3>1, <3>2
    <2> DEFINE kind == Instrument
               readings == ObservationsOf(k, kind)
               more == {[kind |-> kind, attributes |-> r.attributes, value |-> r.value,
                         takenAt |-> k.takenAt] : r \in readings}
    <2>4. Apart(kind, readings)
        BY <2>2, <2>3 DEF ObservationsOf
    <2>5. agent' = Carried(agent, k, agent.beats, agent.cycle.points \cup more,
                           Following(agent.cycle.next))
        BY <2>1 DEF Pointed
    <2> HIDE DEF kind, readings
    <2>6. \A p \in more : p.kind = kind
        OBVIOUS
    <2>7. ASSUME NEW p \in more, NEW q \in more,
                 AsGrouped(p.kind, p.attributes) = AsGrouped(q.kind, q.attributes)
          PROVE  p = q
        <3>1. PICK r \in readings :
                  p = [kind |-> kind, attributes |-> r.attributes, value |-> r.value,
                       takenAt |-> k.takenAt]
            OBVIOUS
        <3>2. PICK s \in readings :
                  q = [kind |-> kind, attributes |-> s.attributes, value |-> s.value,
                       takenAt |-> k.takenAt]
            OBVIOUS
        <3>3. AsGrouped(kind, r.attributes) = AsGrouped(kind, s.attributes)
            BY <2>7, <3>1, <3>2
        <3>4. r = s
            BY <2>4, <3>3 DEF Apart
        <3>5. QED BY <3>1, <3>2, <3>4
    <2> HIDE DEF more
    <2>8. QED BY <1>2, <2>2, <2>3, <2>5, <2>6, <2>7 DEF kind
<1>4. ASSUME NEW beats, NEW kind, NEW value, Collecting, Instrument = kind,
             agent' = Carried(agent, agent.cache, beats,
                              agent.cycle.points \cup {OwnPoint(kind, value)},
                              Following(agent.cycle.next))
      PROVE  ApartHolds'
    <2> DEFINE more == {OwnPoint(kind, value)}
    <2>1. \A p \in more : p.kind = Instrument
        BY <1>4 DEF OwnPoint
    <2>2. \A p, q \in more : p = q
        OBVIOUS
    <2>3. \A k \in MetricKinds : Apart(k, agent.cache.observations[k])
        BY <1>4 DEF Collecting, InCycle
    <2>4. agent' = Carried(agent, agent.cache, beats, agent.cycle.points \cup more,
                           Following(agent.cycle.next))
        BY <1>4
    <2> HIDE DEF more
    <2>5. QED BY <1>2, <1>4, <2>1, <2>2, <2>3, <2>4
<1>5. CASE Pulses
    <2>1. Instrument = "AgentHeartbeat"
        BY <1>5, PositionsAre DEF Pulses, Instrument
    <2>2. QED BY <1>4, <1>5, <2>1 DEF Pulses
<1>6. CASE Confesses
    <2>1. Instrument = "AgentCollectionFailures"
        BY <1>6, PositionsAre DEF Confesses, Instrument
    <2>2. Following(13) = None
        BY FollowingIs, RegisteredAre
    <2>3. QED BY <1>4, <1>6, <2>1, <2>2 DEF Confesses
<1>7. CASE Ends
    <2>1. CASE agent' = None
        BY <2>1 DEF Running, InCycle
    <2>2. CASE agent' = Turned(agent, agent.due, None)
        <3>1. /\ agent'.cache = agent.cache /\ agent'.config = agent.config
              /\ agent'.identity = agent.identity /\ agent'.os = agent.os
              /\ agent'.cycle = None
            BY <2>2 DEF Turned
        <3>2. QED BY <1>7, <3>1 DEF Ends, Exporting, InCycle, IsNamed
    <2>3. QED BY <1>7, <2>1, <2>2 DEF Ends
<1>8. CASE Stops
    BY <1>8 DEF Stops, Running, InCycle
<1>9. CASE Tick \/ UNCHANGED exportVars
    BY <1>9 DEF Tick, exportVars, Running, InCycle
<1>10. CASE Launches
    <2>1. PICK config \in Config : agent' = Fresh(config, scenario.os, starts + 1)
        BY <1>10 DEF Launches
    <2>2. /\ agent'.cache = EmptyCache /\ agent'.cycle = None /\ agent'.config = config
          /\ agent'.os = scenario.os
          /\ agent'.identity = FromConfig(config, DetectedName, starts + 1)
        BY <2>1 DEF Fresh
    <2>3. scenario.os \in {"linux", "darwin", "windows"}
        BY HostIs DEF HostInv, HostTyped, IsHost
    <2>4. agent'.identity.instance = starts + 1
        BY <2>2 DEF FromConfig
    <2>5. IsNamed(agent')
        BY <2>2, <2>3, <2>4 DEF IsNamed
    <2>6. \A kind \in MetricKinds : Apart(kind, agent'.cache.observations[kind])
        BY <2>2 DEF EmptyCache, Apart
    <2>7. QED BY <2>2, <2>5, <2>6 DEF InCycle
<1>11. QED BY <1>1, <1>3, <1>5, <1>6, <1>7, <1>8, <1>9, <1>10, StepsAre DEF AgentTyped

(* The points of a batch stay apart under what a client groups by, and the *)
(* batch under the name, the environment and the system of its host.       *)
THEOREM ReportsAreToldApart == Spec => []ReportsStayApart
<1>1. HostInv /\ AgentTyped /\ ApartHolds /\ [Next]_vars => ApartHolds'
    BY ApartKeeps
<1>2. Spec => []ApartHolds
    BY <1>1, ApartInit, HostAlways, AgentAlways, PTL DEF Spec
<1>3. ASSUME ApartHolds PROVE ReportsStayApart
    <2>1. ClientsCanTellApart
        BY <1>3 DEF ApartHolds, IsSpread, ClientsCanTellApart, Exporting
    <2>2. HostKeepsItsName
        <3> SUFFICES ASSUME Exporting
                     PROVE  /\ Batch.resource[HostName] =
                                   IF agent.config.hostName = None THEN DetectedName
                                   ELSE agent.config.hostName
                            /\ Batch.resource[Environment] = agent.config.environment
                            /\ OsType \in DOMAIN Batch.resource
                            /\ FromOtelValue(Batch.resource[OsType]) # "Other"
            BY DEF HostKeepsItsName
        <3> DEFINE resource == Attributes(agent.identity, agent.os)
        <3>1. IsNamed(agent)
            BY <1>3 DEF ApartHolds, Exporting, InCycle
        <3>2. /\ agent.identity.hostName = IF agent.config.hostName = None THEN DetectedName
                                           ELSE agent.config.hostName
              /\ agent.identity.environment = agent.config.environment
            BY <3>1 DEF IsNamed, FromConfig
        <3>3. /\ resource[HostName] = agent.identity.hostName
              /\ resource[Environment] = agent.identity.environment
              /\ OsType \in DOMAIN resource /\ resource[OsType] = agent.os
            <4> DEFINE id == agent.identity
                       base == [name \in Reserved |->
                                   CASE name = HostName -> id.hostName
                                     [] name = ServiceName -> id.service
                                     [] name = Environment -> id.environment
                                     [] name = OsType -> agent.os
                                     [] name = ServiceVersion -> "v1"
                                     [] name = ServiceInstance -> id.instance]
            <4>1. HostName \in Reserved /\ Environment \in Reserved /\ OsType \in Reserved
                BY DEF Reserved
            <4>2. /\ base[HostName] = id.hostName /\ base[Environment] = id.environment
                  /\ base[OsType] = agent.os
                BY <4>1, NamesDiffer
            <4>3. DOMAIN base = Reserved
                OBVIOUS
            <4>4. resource = Over(base, id.extra)
                BY DEF Attributes
            <4> HIDE DEF base, resource
            <4>5. QED BY <4>1, <4>2, <4>3, <4>4 DEF Over
        <3>4. FromOtelValue(agent.os) # "Other"
            BY <3>1 DEF IsNamed, FromOtelValue
        <3>5. Batch.resource = resource
            BY DEF Batch
        <3> HIDE DEF resource
        <3>6. QED BY <3>2, <3>3, <3>4, <3>5
    <2>3. QED BY <2>1, <2>2 DEF ReportsStayApart
<1>4. QED BY <1>2, <1>3, PTL
=============================================================================
