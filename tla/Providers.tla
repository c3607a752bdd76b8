----------------------------- MODULE Providers ------------------------------
(***************************************************************************)
(* The provider registry of the API (ProviderService over the tables       *)
(* provider_configs and app_settings): profiles of local model servers,    *)
(* the default among them, the LLM switch, seeding from the environment at *)
(* every start, the adapters built from the profiles and the health cache. *)
(*                                                                         *)
(* Database calls are synchronous and made on the event loop, so a handler *)
(* runs in one step up to its first await; only healthcheck() awaits.  The *)
(* rows survive a restart, everything else is rebuilt.  Each row is a      *)
(* commit of its own, so the process may die between any two of them.      *)
(*                                                                         *)
(* An endpoint stands for a base_url together with the model asked of it.  *)
(***************************************************************************)
EXTENDS Naturals, Sequences

CONSTANTS
    Provider,    \* lmstudio, vllm and llamacpp
    SeedOrder,   \* the order _seed_defaults goes through them
    Endpoint,    \* endpoints anybody may configure
    Remote,      \* those _is_local_provider_url turns down
    NoEndpoint,  \* base_url left empty
    Env,         \* environments the process may be started with
    Task,        \* the requests that may probe a provider at the same time
    NoRow, NoAdapter, NoHealth, NoProbe

Address == Endpoint \union {NoEndpoint}

ASSUME ProviderAssumption ==
    /\ SeedOrder \in Seq(Provider)
    /\ \A n \in Provider : \E i \in DOMAIN SeedOrder : SeedOrder[i] = n
ASSUME EndpointAssumption == Remote \subseteq Endpoint /\ NoEndpoint \notin Endpoint
ASSUME EnvAssumption ==
    \A e \in Env : e.llm \in BOOLEAN /\ \A n \in Provider : e.endpoint[n] \in Address
ASSUME SentinelAssumption ==
    /\ NoRow \notin [endpoint : Address, enabled : BOOLEAN, default : BOOLEAN]
    /\ NoRow \notin BOOLEAN \union Provider /\ NoAdapter \notin Address
    /\ NoHealth \notin [endpoint : Address, ok : BOOLEAN]
    /\ NoProbe \notin [name : Provider, endpoint : Address]

VARIABLES
    up,       \* the process: "down", "settings", "profiles" (seeding) or "running"
    env,      \* the environment it was started with
    todo,     \* profiles _seed_defaults still has to look at
    wanted,   \* its local current_default
    profile,  \* table provider_configs
    llm,      \* row llm_enabled of app_settings
    adapter,  \* _providers: the endpoint each adapter was built with
    health,   \* _health_cache
    probe,    \* the health check each task awaits, with the adapter it took
    raced     \* history: providers that were being probed when the registry was last rebuilt

vars == <<up, env, todo, wanted, profile, llm, adapter, health, probe, raced>>
memory == <<adapter, health, probe, raced>>
seeding == <<env, todo, wanted>>

Row == [endpoint : Address, enabled : BOOLEAN, default : BOOLEAN]

\* No remote endpoint is ever enabled.
LocalRow == {row \in Row : row.enabled => row.endpoint \notin Remote}

\* Types, with what the table promises of every row: an enabled profile is a local one.
TypeOK ==
    /\ up \in {"down", "settings", "profiles", "running"}
    /\ env \in Env
    /\ todo \in Seq(Provider)
    /\ profile \in [Provider -> LocalRow \union {NoRow}]
    /\ llm \in BOOLEAN \union {NoRow}
    /\ adapter \in [Provider -> Address \union {NoAdapter}]
    /\ health \in [Provider -> [endpoint : Address, ok : BOOLEAN] \union {NoHealth}]
    /\ probe \in [Task -> [name : Provider, endpoint : Address] \union {NoProbe}]
    /\ raced \subseteq Provider

Init ==
    /\ up = "down"
    /\ env \in Env
    /\ todo = <<>>
    /\ wanted = NoRow
    /\ profile = [n \in Provider |-> NoRow]
    /\ llm = NoRow
    /\ adapter = [n \in Provider |-> NoAdapter]
    /\ health = [n \in Provider |-> NoHealth]
    /\ probe = [t \in Task |-> NoProbe]
    /\ raced = {}

-----------------------------------------------------------------------------
\* The table of profiles.

Default(n) == profile[n] # NoRow /\ profile[n].default

\* get_default_provider_name, or NoRow.
StoredDefault == IF \E n \in Provider : Default(n) THEN CHOOSE n \in Provider : Default(n) ELSE NoRow

\* upsert_provider_config: a new default takes the flag from all other rows.
Upsert(n, row) ==
    profile' = [m \in Provider |->
        IF m = n THEN row
        ELSE IF row.default /\ profile[m] # NoRow THEN [profile[m] EXCEPT !.default = FALSE]
        ELSE profile[m]]

\* Mutant: what was probed before is kept when the adapters are rebuilt.
ReloadKeepsHealth(rows) ==
    /\ adapter' = [n \in Provider |-> IF rows[n] = NoRow THEN NoAdapter ELSE rows[n].endpoint]
    /\ raced' = {n \in Provider : \E t \in Task : probe[t] # NoProbe /\ probe[t].name = n}
    /\ UNCHANGED health

\* _reload: new adapters and an empty health cache.  Probes under way still hold the old adapter.
Reload(rows) ==
    /\ adapter' = [n \in Provider |-> IF rows[n] = NoRow THEN NoAdapter ELSE rows[n].endpoint]
    /\ health' = [n \in Provider |-> NoHealth]
    /\ raced' = {n \in Provider : \E t \in Task : probe[t] # NoProbe /\ probe[t].name = n}

-----------------------------------------------------------------------------
\* Start and stop.

Start(e) ==
    /\ up = "down"
    /\ up' = "settings"
    /\ env' = e
    /\ UNCHANGED <<todo, wanted, profile, llm, memory>>

\* Mutant: seeding takes the default from the environment without reading the stored one.
SeedLlmForgetsDefault ==
    /\ up = "settings"
    /\ llm' = IF llm = NoRow THEN env.llm ELSE llm
    /\ wanted' = env.default
    /\ todo' = SeedOrder
    /\ up' = "profiles"
    /\ UNCHANGED <<env, profile, memory>>

\* seed_app_setting leaves an existing row alone; _seed_defaults begins by reading the default.
SeedLlm ==
    /\ up = "settings"
    /\ llm' = IF llm = NoRow THEN env.llm ELSE llm
    /\ wanted' = IF StoredDefault = NoRow THEN env.default ELSE StoredDefault
    /\ todo' = SeedOrder
    /\ up' = "profiles"
    /\ UNCHANGED <<env, profile, memory>>

\* Mutant: every profile with an endpoint is enabled.
SeedProfileOpen ==
    /\ up = "profiles" /\ todo # <<>>
    /\ LET n == Head(todo)
           address == env.endpoint[n]
       IN  IF profile[n] # NoRow THEN UNCHANGED profile
           ELSE Upsert(n, [endpoint |-> address,
                           enabled |-> address \in Endpoint,
                           default |-> n = wanted])
    /\ todo' = Tail(todo)
    /\ UNCHANGED <<up, env, wanted, llm, memory>>

\* One turn of the loop of _seed_defaults: a missing profile is inserted from the environment.
SeedProfile ==
    /\ up = "profiles" /\ todo # <<>>
    /\ LET n == Head(todo)
           address == env.endpoint[n]
       IN  IF profile[n] # NoRow THEN UNCHANGED profile
           ELSE Upsert(n, [endpoint |-> address,
                           enabled |-> address \in Endpoint \ Remote,
                           default |-> n = wanted])
    /\ todo' = Tail(todo)
    /\ UNCHANGED <<up, env, wanted, llm, memory>>

Ready ==
    /\ up = "profiles" /\ todo = <<>>
    /\ Reload(profile)
    /\ up' = "running"
    /\ UNCHANGED <<seeding, profile, llm, probe>>

\* The process ends, in good order or not: what is not in the database is gone.
Stop ==
    /\ up # "down"
    /\ up' = "down"
    /\ todo' = <<>>
    /\ adapter' = [n \in Provider |-> NoAdapter]
    /\ health' = [n \in Provider |-> NoHealth]
    /\ probe' = [t \in Task |-> NoProbe]
    /\ raced' = {}
    /\ UNCHANGED <<env, wanted, profile, llm>>

-----------------------------------------------------------------------------
\* Requests.

\* set_default_provider: only a disabled or unknown provider is turned down.
SetDefault(n) ==
    /\ up = "running"
    /\ profile[n] # NoRow /\ profile[n].enabled
    /\ Upsert(n, [profile[n] EXCEPT !.default = TRUE])
    /\ Reload(profile')
    /\ UNCHANGED <<up, seeding, llm, probe>>

\* Mutant: the adapters are rebuilt only when the profile is switched on or off.
UpdateProfileLazily(n, row) ==
    /\ up = "running"
    /\ profile[n] # NoRow
    /\ row.endpoint \notin Remote
    /\ row.default => row.enabled /\ row.endpoint # NoEndpoint
    /\ Upsert(n, row)
    /\ IF row.enabled # profile[n].enabled THEN Reload(profile') ELSE UNCHANGED <<adapter, health, raced>>
    /\ UNCHANGED <<up, seeding, llm, probe>>

\* update_provider_profile: the endpoint must be local, a default enabled and configured.
UpdateProfile(n, row) ==
    /\ up = "running"
    /\ profile[n] # NoRow
    /\ row.endpoint \notin Remote
    /\ row.default => row.enabled /\ row.endpoint # NoEndpoint
    /\ Upsert(n, row)
    /\ Reload(profile')
    /\ UNCHANGED <<up, seeding, llm, probe>>

\* set_llm_settings
SetLlm(enabled) ==
    /\ up = "running"
    /\ llm' = enabled
    /\ UNCHANGED <<up, seeding, profile, memory>>

\* _provider_health up to its await.  The listing probes enabled providers the cache knows
\* nothing of; a test or a verification probes any.
ProbeStart(t, n) ==
    /\ up = "running" /\ probe[t] = NoProbe
    /\ adapter[n] # NoAdapter
    /\ probe' = [probe EXCEPT ![t] = [name |-> n, endpoint |-> adapter[n]]]
    /\ UNCHANGED <<up, seeding, profile, llm, adapter, health, raced>>

\* The check answers and its result is cached under the provider's name.
ProbeEnd(t) ==
    /\ probe[t] # NoProbe
    /\ \E ok \in BOOLEAN :
           health' = [health EXCEPT ![probe[t].name] = [endpoint |-> probe[t].endpoint, ok |-> ok]]
    /\ probe' = [probe EXCEPT ![t] = NoProbe]
    /\ UNCHANGED <<up, seeding, profile, llm, adapter, raced>>

\* Sixty seconds pass.
ExpireHealth(n) ==
    /\ health[n] # NoHealth
    /\ health' = [health EXCEPT ![n] = NoHealth]
    /\ UNCHANGED <<up, seeding, profile, llm, adapter, probe, raced>>

\* The client that asked for the check goes away.
ProbeCancelled(t) ==
    /\ probe[t] # NoProbe
    /\ probe' = [probe EXCEPT ![t] = NoProbe]
    /\ UNCHANGED <<up, seeding, profile, llm, adapter, health, raced>>

Next ==
    \/ \E e \in Env : Start(e)
    \/ SeedLlm \/ SeedProfile \/ Ready \/ Stop
    \/ \E n \in Provider : SetDefault(n) \/ ExpireHealth(n) \/ \E row \in Row : UpdateProfile(n, row)
    \/ \E enabled \in BOOLEAN : SetLlm(enabled)
    \/ \E t \in Task : ProbeEnd(t) \/ ProbeCancelled(t) \/ \E n \in Provider : ProbeStart(t, n)

Spec == Init /\ [][Next]_vars

-----------------------------------------------------------------------------
\* Properties.

\* At most one provider is the default, whatever is updated, seeded half-way or restarted.
OneDefault == \A m, n \in Provider : Default(m) /\ Default(n) => m = n

\* While requests are served, every profile has an adapter and it talks to the stored endpoint.
AdaptersMatch ==
    up = "running" => \A n \in Provider : profile[n] # NoRow /\ adapter[n] = profile[n].endpoint

\* A cached health result is about the endpoint now configured, unless the provider was being
\* probed while the registry was rebuilt.
HealthIsCurrent ==
    \A n \in Provider \ raced : health[n] # NoHealth => health[n].endpoint = adapter[n]

\* A start never undoes a choice among the providers: the rows that exist, and with them the
\* stored default, stay as they are, whatever the environment names by then and wherever an
\* earlier start was interrupted.  (The LLM switch is left out: its stored row wins in the same
\* way, but docs/deployment.md promises that the environment's wins.)
ChoicesSurvive ==
    [][up # "running" => \A n \in Provider : profile[n] # NoRow => profile'[n] = profile[n]]_vars

\* What keeps HealthIsCurrent true: a probe that holds an old adapter is of a raced provider.
ProbesKnown ==
    \A t \in Task :
        probe[t] # NoProbe /\ probe[t].name \notin raced => probe[t].endpoint = adapter[probe[t].name]

\* No probe outlives the process, and seeding has covered what it is done with.
Seeded ==
    /\ up # "running" =>
           \A n \in Provider : health[n] = NoHealth /\ adapter[n] = NoAdapter
    /\ up # "running" => \A t \in Task : probe[t] = NoProbe
    /\ up = "profiles" =>
           \A n \in Provider : profile[n] # NoRow \/ \E i \in DOMAIN todo : todo[i] = n

\* The provider _seed_defaults will make the default is the one that is it, if any is.
WantedIsDefault ==
    up = "profiles" => \A n \in Provider : Default(n) => wanted = n

IInv ==
    TypeOK /\ OneDefault /\ AdaptersMatch /\ HealthIsCurrent /\ ProbesKnown /\ Seeded /\ WantedIsDefault
=============================================================================
