------------------------------ MODULE Assembly ------------------------------
(***************************************************************************)
(* From the configuration file to the runtime and back: resolve_config     *)
(* (config.py) accepts or refuses one table after the other, the daemon    *)
(* hides the secrets from its log, Runtime.build (runtime.py) makes gates, *)
(* clients, runners and adapters of what was accepted, and aclose closes   *)
(* the clients one after the other.                                        *)
(*                                                                         *)
(* The file is chosen table by table.  A value is only what the code tells *)
(* apart: absent, bad (of the wrong kind, blank, out of range) or good; an *)
(* environment variable it names is unset or set.                          *)
(***************************************************************************)
EXTENDS Naturals, FiniteSetsExt

CONSTANTS
  WebNames, AcademicNames, ResolverNames, LLMs, Agents,  \* names in the file
  Registry,   \* per web, academic or resolver name: its registration, or None
  Stages,     \* the stages of the fetch LLM
  None

ASSUME AssemblyAssumption ==
  /\ \A n \in WebNames : Registry[n] # None =>
       /\ Registry[n].roles \subseteq {"search", "fetch"}
       /\ Registry[n].key \in {"none", "required"}
  /\ \A n \in AcademicNames \cup ResolverNames : Registry[n] # None =>
       {Registry[n].key, Registry[n].contact} \subseteq {"none", "optional", "required"}
  /\ None # "check"

VARIABLES
  part,          \* the part of the file that is resolved, or what comes after
  seen,          \* the names of this part that have been dealt with
  scopes,        \* the tables fetch_llm and global_default_llm
  invocations,   \* which LLM or agent each stage and each search uses
  resolved,      \* the enabled providers of the resolved configuration
  hidden,        \* the secrets the log does not show, None without a log
  opened,        \* the providers whose HTTP client is open
  failure        \* why there is no runtime, or what aclose raised

assemblyVars == <<part, seen, scopes, invocations, resolved, hidden, opened, failure>>

After == [academic |-> "resolver", resolver |-> "web", web |-> "llm", llm |-> "llm_providers",
          llm_providers |-> "retry", retry |-> "agent", agent |-> "agent_providers",
          agent_providers |-> "hide"]

AssemblyInit ==
  /\ part = "academic" /\ seen = {} /\ scopes = None /\ invocations = {}
  /\ resolved = {} /\ hidden \in {{}, None} /\ opened = {} /\ failure = None

Refuse ==
  /\ part' = "failed" /\ failure' = "config"
  /\ UNCHANGED <<seen, scopes, invocations, resolved, hidden, opened>>

\* The table of a name is accepted, with the providers and the invocations it
\* adds, or refuses the whole file.
TableVerdict(name, ok, providers, uses) ==
  /\ name \notin seen
  /\ IF ok THEN /\ seen' = seen \cup {name} /\ resolved' = resolved \cup providers
                /\ invocations' = invocations \cup uses
                /\ UNCHANGED <<part, scopes, hidden, opened, failure>>
     ELSE Refuse

Provider(family, name, roles, secrets, limit, reserved) ==
  [family |-> family, name |-> name, roles |-> roles, secrets |-> secrets,
   limit |-> limit, reserved |-> reserved, harness |-> None]

InUse(family) == {i.provider : i \in {j \in invocations : j.family = family}}
Configured(family) == {r.name : r \in {x \in resolved : x.family = family}}

-----------------------------------------------------------------------------
(* Web, academic and resolver tables. *)

Flags == {"absent", "true", "false", "bad"}
Limits == {"absent", "good", "bad"}
EnvValues == {"absent", "bad", "unset", "set"}
Options == {"none", "api_url", "bad_url", "unknown", "reserved"}

Limit(value) == IF value = "absent" THEN "good" ELSE value

\* _resolve_one_web_provider: an unknown provider may be there if it is disabled;
\* the value of api_url is left to the adapter.
WebAccepted(name, t) ==
  LET on == {role \in {"search", "fetch"} : t[role] = "true"}
      known == Registry[name] # None
  IN /\ t.search # "bad" /\ t.fetch # "bad" /\ t.limit # "bad"
     /\ known => t.options \in {"none", "api_url", "bad_url"}
     /\ on # {} =>
          /\ known /\ on \subseteq Registry[name].roles
          /\ t.key = IF Registry[name].key = "none" THEN "absent" ELSE "set"

ResolveWeb(name, t) ==
  LET on == {role \in {"search", "fetch"} : t[role] = "true"}
      provider == Provider("web", name, on, IF t.key = "set" THEN {"key"} ELSE {},
                           Limit(t.limit), t.options = "reserved")
  IN /\ part = "web"
     /\ TableVerdict(name, WebAccepted(name, t), IF on = {} THEN {} ELSE {provider}, {})

\* _validate_academic_options
OptionsAccepted(options) == options \in {"none", "api_url"}

\* _resolve_environment_value
EnvAccepted(requirement, value) ==
  CASE requirement = "none"     -> value = "absent"
    [] requirement = "optional" -> value \in {"absent", "set"}
    [] requirement = "required" -> value = "set"

\* Of a disabled provider only the form of the table is checked.
EnvWellFormed(requirement, value) ==
  IF requirement = "none" THEN value = "absent" ELSE value # "bad"

Secrets(t) == {secret \in {"key", "contact"} : t[secret] = "set"}

AcademicAccepted(name, t) ==
  LET r == Registry[name]
  IN /\ r # None
     /\ t.enabled # "bad" /\ t.limit # "bad" /\ OptionsAccepted(t.options)
     /\ IF t.enabled = "true"
        THEN EnvAccepted(r.key, t.key) /\ EnvAccepted(r.contact, t.contact)
        ELSE EnvWellFormed(r.key, t.key) /\ EnvWellFormed(r.contact, t.contact)

ResolveAcademic(name, t) ==
  LET provider == Provider("academic", name, {"search"}, Secrets(t), Limit(t.limit),
                           t.options = "reserved")
  IN /\ part = "academic"
     /\ TableVerdict(name, AcademicAccepted(name, t),
                IF t.enabled = "true" THEN {provider} ELSE {}, {})

\* resolve_oa_resolver_config: at most one is enabled, and limits are not read.
ResolverAccepted(name, t) ==
  LET r == Registry[name]
  IN /\ r # None /\ t.enabled # "bad" /\ OptionsAccepted(t.options)
     /\ t.enabled = "true" =>
          /\ Configured("resolver") = {}
          /\ EnvAccepted(r.key, t.key) /\ EnvAccepted(r.contact, t.contact)

ResolveResolver(name, t) ==
  LET provider == Provider("resolver", name, {}, Secrets(t), "good", t.options = "reserved")
  IN /\ part = "resolver"
     /\ TableVerdict(name, ResolverAccepted(name, t),
                IF t.enabled = "true" THEN {provider} ELSE {}, {})

-----------------------------------------------------------------------------
(* LLM and agent tables. *)

\* The part of an LLM table that can be inherited.
LLMTables == [provider : LLMs \cup {"absent", "bad"}, model : {"absent", "good", "bad"}]

\* The value in the first table that has the key.
FirstDefined(key, tables) ==
  LET has == {i \in DOMAIN tables : tables[i][key] # "absent"}
  IN IF has = {} THEN "absent" ELSE tables[Min(has)][key]

ReadScopes(fetch, global) ==
  /\ part = "llm" /\ scopes = None
  /\ scopes' = [fetch |-> fetch, global |-> global]
  /\ UNCHANGED <<part, seen, invocations, resolved, hidden, opened, failure>>

\* A stage inherits from fetch_llm and then from global_default_llm.
ResolveStage(stage, t, extra_body) ==
  LET tables == <<t, scopes.fetch, scopes.global>>
      provider == FirstDefined("provider", tables)
  IN /\ part = "llm" /\ scopes # None
     /\ TableVerdict(stage,
                provider \in LLMs /\ FirstDefined("model", tables) = "good" /\ extra_body # "bad",
                {}, {[family |-> "llm", by |-> stage, provider |-> provider]})

\* A search names its provider and inherits its model.
ResolveSearch(entry, t, extra_body) ==
  /\ part = "llm" /\ scopes # None
  /\ TableVerdict(entry,
             /\ t.provider \in LLMs /\ extra_body # "bad"
             /\ FirstDefined("model", <<t, scopes.global>>) = "good",
             {}, {[family |-> "llm", by |-> entry, provider |-> t.provider]})

\* _resolve_referenced_llm_providers: a table that nothing refers to is not read.
ResolveLLM(name, t) ==
  /\ part = "llm_providers" /\ name \in InUse("llm")
  /\ TableVerdict(name,
             t.protocol = "good" /\ t.url = "good" /\ t.key = "set" /\ t.limit # "bad",
             {Provider("llm", name, {}, {"key"}, Limit(t.limit), FALSE)}, {})

ResolveAgentEntry(entry, t) ==
  /\ part = "agent"
  /\ TableVerdict(entry, t.provider \in Agents /\ t.model # "bad" /\ t.fields = "good",
             {}, {[family |-> "agent", by |-> entry, provider |-> t.provider]})

\* settings: command, timeout_seconds and pass_env.
ResolveAgent(name, t) ==
  /\ part = "agent_providers" /\ name \in InUse("agent")
  /\ TableVerdict(name,
             t.fields = "good" /\ t.harness = "good" /\ t.settings # "bad" /\ t.limit # "bad",
             {[Provider("agent", name, {}, {}, Limit(t.limit), FALSE) EXCEPT
                 !.harness = t.harness]}, {})

ResolveRetry(value) ==
  /\ part = "retry"
  /\ TableVerdict("retry", value # "bad", {}, {})

\* Mutant of Complete: that a provider is referred to is enough.
CompleteTrusting == TRUE

\* Every LLM and every agent that is referred to has its table.
Complete ==
  /\ part = "llm_providers" => InUse("llm") \subseteq Configured("llm")
  /\ part = "agent_providers" => InUse("agent") \subseteq Configured("agent")

\* Names that are not in the file are passed over; no stage is.
NextPart ==
  /\ part \in DOMAIN After
  /\ part = "llm" => scopes # None /\ Stages \subseteq seen
  /\ IF Complete
     THEN /\ part' = After[part] /\ seen' = {} /\ scopes' = None
          /\ UNCHANGED <<invocations, resolved, hidden, opened, failure>>
     ELSE Refuse

-----------------------------------------------------------------------------
(* _create_runtime, Runtime.build and Runtime.aclose *)

SecretsOf(providers) == UNION {{<<r.family, r.name, s>> : s \in r.secrets} : r \in providers}

\* Only a daemon started with --debug has a logging session to give them to.
HideSecrets ==
  /\ part = "hide"
  /\ hidden' = (IF hidden = None THEN None ELSE SecretsOf(resolved)) /\ part' = "runners"
  /\ UNCHANGED <<seen, scopes, invocations, resolved, opened, failure>>

\* An agent has a runner and no client.
Runners == {r \in resolved : r.family = "agent"}

Rank == [web |-> 1, academic |-> 2, resolver |-> 3, llm |-> 4]

\* The providers that have a client, and of them the next ones in the order of
\* the code.
WithClient == {r \in resolved : r.family \in DOMAIN Rank}
First(providers) == {r \in providers : \A x \in providers : Rank[r.family] <= Rank[x.family]}

\* What build checks for itself before it makes a runner or opens a client.
PassesChecks(r) ==
  /\ ~r.reserved
  /\ r.family = "agent" => r.harness = "good"
  /\ r.family \notin {"llm", "agent"} => Registry[r.name] # None
  /\ r.family = "web" => (Registry[r.name].key = "required" => "key" \in r.secrets)

\* The runners come first, for all agents.
BuildRunners ==
  /\ part = "runners"
  /\ IF \A r \in Runners : PassesChecks(r)
     THEN part' = "build" /\ UNCHANGED failure
     ELSE part' = "failed" /\ failure' = "check"
  /\ UNCHANGED <<seen, scopes, invocations, resolved, hidden, opened>>

\* The client is opened before the adapter's factory is called, which may raise.
BuildProvider(r) ==
  /\ part = "build" /\ r \in First(WithClient \ opened)
  /\ IF PassesChecks(r)
     THEN /\ opened' = opened \cup {r}
          /\ \/ UNCHANGED <<part, failure>>
             \/ r.family # "llm" /\ part' = "failed" /\ failure' = "factory"
     ELSE part' = "failed" /\ failure' = "check" /\ UNCHANGED opened
  /\ UNCHANGED <<seen, scopes, invocations, resolved, hidden>>

RuntimeReady ==
  /\ part = "build" /\ opened = WithClient
  /\ part' = "open"
  /\ UNCHANGED <<seen, scopes, invocations, resolved, hidden, opened, failure>>

\* aclose: one client after the other; what the first one raises ends it.
CloseClient(r) ==
  /\ part \in {"open", "closing"} /\ r \in First(opened)
  /\ \/ opened' = opened \ {r} /\ part' = "closing" /\ UNCHANGED failure
     \/ part' = "closed" /\ failure' = "close" /\ UNCHANGED opened
  /\ UNCHANGED <<seen, scopes, invocations, resolved, hidden>>

Closed ==
  /\ part \in {"open", "closing"} /\ opened = {}
  /\ part' = "closed"
  /\ UNCHANGED <<seen, scopes, invocations, resolved, hidden, opened, failure>>

AssemblyNext ==
  \/ /\ part = "web"
     /\ \E n \in WebNames, t \in [search : Flags, fetch : Flags, key : EnvValues, limit : Limits,
                                  options : Options] : ResolveWeb(n, t)
  \/ /\ part \in {"academic", "resolver"}
     /\ \E t \in [enabled : Flags, key : EnvValues, contact : EnvValues, limit : Limits,
                  options : Options] :
          \/ \E n \in AcademicNames : ResolveAcademic(n, t)
          \/ \E n \in ResolverNames : ResolveResolver(n, t)
  \/ \E fetch, global \in LLMTables : ReadScopes(fetch, global)
  \/ \E t \in LLMTables, extra_body \in Limits :
       \/ \E stage \in Stages : ResolveStage(stage, t, extra_body)
       \/ \E entry \in {"search 1", "search 2"} : ResolveSearch(entry, t, extra_body)
  \/ \E n \in LLMs, t \in [protocol : Limits, url : Limits, key : EnvValues, limit : Limits] :
       ResolveLLM(n, t)
  \/ \E t \in [provider : Agents \cup {"absent", "bad"}, model : Limits, fields : Limits] :
       ResolveAgentEntry("agent 1", t)
  \/ \E n \in Agents, t \in [fields : Limits, harness : Limits, settings : Limits, limit : Limits] :
       ResolveAgent(n, t)
  \/ \E value \in Limits : ResolveRetry(value)
  \/ NextPart \/ HideSecrets \/ BuildRunners
  \/ \E r \in resolved : BuildProvider(r) \/ CloseClient(r)
  \/ RuntimeReady \/ Closed

AssemblySpec == AssemblyInit /\ [][AssemblyNext]_assemblyVars

-----------------------------------------------------------------------------
\* What resolve_config accepts Runtime.build can assemble: none of the checks
\* build makes for itself can fail, only an adapter's own factory; and in a
\* running gateway every stage and every search has a client or runner under a
\* quota that admits somebody, and there is at most one resolver.  From the first
\* client on, the log, if there is one, knows every secret a client was given.
AcceptedIsBuildable ==
  /\ failure # "check"
  /\ hidden # None => SecretsOf(opened) \subseteq hidden
  /\ part = "open" =>
       /\ \A stage \in Stages : \E i \in invocations : i.family = "llm" /\ i.by = stage
       /\ \A i \in invocations : \E r \in opened \cup Runners :
            r.family = i.family /\ r.name = i.provider
       /\ \A r \in resolved : r.limit = "good"
       /\ Cardinality(Configured("resolver")) <= 1

\* What docs/designs/plans/agent-search-gateway-cli-v0.md asks of the cleanup:
\* it goes on with the rest even if the close of one client fails, so at most
\* that client stays open.
CleanupContinues == part = "closed" => Cardinality(opened) <= 1
=============================================================================
