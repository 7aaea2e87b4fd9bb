---------------------------- MODULE Credentials ----------------------------
(***************************************************************************)
(* Which credentials a pull sends (docker/Auth.cpp): the registry of the   *)
(* image's name, the hub prefix, the docker config that is read anew for   *)
(* each pull, and the process-wide cache in front of the credential        *)
(* helpers, which is looked up under its lock and filled after the lock    *)
(* was given up for the helper's run. The helpers' stores and the user who *)
(* edits the config are the environment.                                   *)
(***************************************************************************)
EXTENDS Naturals, FiniteSets

CONSTANTS
  Threads,
  Hosts,     \* registry hosts that a name may start with
  HubPrefixes,  \* values of TESTCONTAINERS_HUB_IMAGE_NAME_PREFIX: some of them, or Unset
  Helpers,
  Configs,   \* the docker configs: see ConfigType
  Ttl,       \* kCredentialHelperCacheTtl
  Slow,      \* bound: how long a helper runs
  Tokens,    \* servers for which a helper keeps an identity token, not a password
  Anonymous, \* no credentials, and no helper
  Unset

Hub        == "index.docker.io"
HubAuthKey == "https://index.docker.io/v1/"
Registries == Hosts \cup {Hub}
Keys       == Registries \cup {HubAuthKey}

\* An entry of "auths": its identitytoken, or the user and password of its "auth" or
\* of its own fields; "empty" is what is left of one whose secret a helper keeps.
Entries == {"absent", "empty", "token", "password"}
ConfigType == [auths : [Keys -> Entries], credHelpers : [Keys -> Helpers \cup {Anonymous}],
               credsStore : Helpers \cup {Anonymous}]

CredentialsAssumption ==
  /\ Hub \notin Hosts /\ HubAuthKey \notin Hosts /\ HubPrefixes \subseteq Hosts \cup {Unset}
  /\ Configs \subseteq ConfigType /\ Helpers \cap {Anonymous, "config", "caller"} = {}
  /\ Ttl \in Nat \ {0} /\ Slow \in Nat /\ Tokens \subseteq Keys

VARIABLES
  prefix,   \* the hub prefix
  config,   \* the docker config
  cache,    \* of a helper and a registry: [auth, age, told], or Anonymous: no entry
  pulls     \* of a thread: [pc, name, helper, auth, age, told]

\* For the times of the code there are ages: age is the time since an entry's fetched_at
\* and since a helper was started, told (a ghost) that since a helper gave the outcome.
\* Beyond Ttl + Slow they make no difference.

vars == <<prefix, config, cache, pulls>>

-----------------------------------------------------------------------------
(* Names. An image is named by the host in front, Hub for none or for a    *)
(* namespace; prefixed: the user has written the host of the prefix.       *)

Images == [host : Registries, prefixed : BOOLEAN]

\* resolve_registry: the first segment, if it looks like a host.
ResolveRegistry(image) == image.host

\* apply_hub_image_prefix: only what comes from the hub, and only once.
Substitute(image) ==
  IF prefix = Unset \/ ResolveRegistry(image) # Hub \/ image.prefixed
  THEN image ELSE [host |-> prefix, prefixed |-> TRUE]

-----------------------------------------------------------------------------
(* The config and the helpers.                                             *)

\* Mutant: any registry falls back to the key of the hub.
AliasOfAll(map, registry, none) == IF map[registry] # none THEN registry ELSE HubAuthKey

\* The registry's own key, else for the hub its legacy alias.
EntryKey(map, registry, none) ==
  IF map[registry] = none /\ registry = Hub THEN HubAuthKey ELSE registry

Auth(kind, source, for) == [kind |-> kind, source |-> source, for |-> for]

\* auth_from_docker_config
Plain(registry) ==
  LET key == EntryKey(config.auths, registry, "absent")
  IN  IF config.auths[key] \in {"token", "password"}
      THEN Auth(config.auths[key], "config", key) ELSE Anonymous

\* select_credential_helper: that of the registry, else the store of all.
SelectHelper(registry) ==
  LET key == EntryKey(config.credHelpers, registry, Anonymous)
  IN  IF config.credHelpers[key] # Anonymous THEN config.credHelpers[key] ELSE config.credsStore

\* What the helper is asked for, on its stdin.
ServerUrl(registry) == IF registry = Hub THEN HubAuthKey ELSE registry

\* Mutant: the user name is not looked at.
AlwaysPassword(helper, server) == Auth("password", helper, server)

\* parse_credential_helper_output: the user "<token>" announces an identity token.
HelperOutput(helper, server) ==
  Auth(IF server \in Tokens THEN "token" ELSE "password", helper, server)

-----------------------------------------------------------------------------
Ages == 0..Ttl + Slow
Auths == [kind : {"token", "password"}, source : Helpers \cup {"config", "caller"}, for : Keys] \cup {Anonymous}

TypeOK ==
  /\ prefix \in HubPrefixes /\ config \in Configs
  /\ \A k \in Helpers \X Registries :
       cache[k] # Anonymous => cache[k].auth \in Auths /\ {cache[k].age, cache[k].told} \subseteq Ages
  /\ \A t \in Threads :
       /\ pulls[t].pc \in {"idle", "asking", "storing", "pulling"} /\ pulls[t].name \in Registries
       /\ pulls[t].auth \in Auths /\ {pulls[t].age, pulls[t].told} \subseteq Ages

Idle == [pc |-> "idle", name |-> Hub, helper |-> Anonymous, auth |-> Anonymous,
         age |-> 0, told |-> 0]

Init ==
  /\ prefix \in HubPrefixes /\ config \in Configs
  /\ cache = [k \in Helpers \X Registries |-> Anonymous]
  /\ pulls = [t \in Threads |-> Idle]

Set(t, p) == pulls' = [pulls EXCEPT ![t] = p]

\* Mutant: an entry is served at its age of Ttl, too.
ServedAtTtl(key) == IF cache[key] = Anonymous THEN FALSE ELSE cache[key].age <= Ttl

Hit(key) == IF cache[key] = Anonymous THEN FALSE ELSE cache[key].age < Ttl

\* Mutant: one entry for a helper.
HelperOnly(helper, registry) == <<helper, Hub>>

CacheKey(helper, registry) == <<helper, registry>>

\* pull_image(image): the credentials of its name. A plain entry wins; the helper's come
\* from the cache, looked up under its lock, or the helper is to be asked.
Resolve(t) ==
  /\ pulls[t].pc = "idle"
  /\ \E image \in Images :
       LET registry == ResolveRegistry(Substitute(image))
           helper   == SelectHelper(registry)
           key      == CacheKey(helper, registry)
           To(pc, auth, told) == Set(t, [pc |-> pc, name |-> registry, helper |-> helper,
                                         auth |-> auth, age |-> 0, told |-> told])
       IN  /\ image.prefixed => image.host = prefix
           /\ IF Plain(registry) # Anonymous THEN To("pulling", Plain(registry), 0)
              ELSE IF helper = Anonymous     THEN To("pulling", Anonymous, 0)
              ELSE IF Hit(key)               THEN To("pulling", cache[key].auth, cache[key].told)
              ELSE To("asking", Anonymous, 0)
  /\ UNCHANGED <<prefix, config, cache>>

\* pull_image(image, auth): the caller's credentials, whatever is configured.
Explicit(t) ==
  /\ pulls[t].pc = "idle"
  /\ \E host \in Registries :
       Set(t, [Idle EXCEPT !.pc = "pulling", !.name = host, !.auth = Auth("password", "caller", host)])
  /\ UNCHANGED <<prefix, config, cache>>

\* The helper runs, while the lock is free; that it fails or has nothing means none.
Ask(t) ==
  /\ pulls[t].pc = "asking"
  /\ \E auth \in {HelperOutput(pulls[t].helper, ServerUrl(pulls[t].name)), Anonymous} :
       Set(t, [pulls[t] EXCEPT !.pc = "storing", !.auth = auth])
  /\ UNCHANGED <<prefix, config, cache>>

\* Under the lock again: the later insert wins, with the time it is made.
Store(t) ==
  /\ pulls[t].pc = "storing"
  /\ cache' = [cache EXCEPT ![CacheKey(pulls[t].helper, pulls[t].name)] =
                 [auth |-> pulls[t].auth, age |-> 0, told |-> pulls[t].told]]
  /\ Set(t, [pulls[t] EXCEPT !.pc = "pulling", !.age = 0])
  /\ UNCHANGED <<prefix, config>>

\* The pull itself (SessionClient has its retries).
Pulled(t) ==
  /\ pulls[t].pc = "pulling" /\ Set(t, Idle)
  /\ UNCHANGED <<prefix, config, cache>>

-----------------------------------------------------------------------------
(* The environment: docker login and logout, and time.      *)

Login ==
  /\ config' \in Configs \ {config}
  /\ UNCHANGED <<prefix, cache, pulls>>

Older(age) == IF age < Ttl + Slow THEN age + 1 ELSE age
Busy(p) == p.pc \in {"asking", "storing"}
Tick ==
  /\ \A t \in Threads : Busy(pulls[t]) => pulls[t].age < Slow
  /\ cache' = [k \in DOMAIN cache |->
                 IF cache[k] = Anonymous THEN Anonymous
                 ELSE [cache[k] EXCEPT !.age = Older(@), !.told = Older(@)]]
  /\ pulls' = [t \in Threads |->
                 LET p == pulls[t]
                 IN  CASE p.pc = "asking"  -> [p EXCEPT !.age = @ + 1]
                       [] p.pc = "storing" -> [p EXCEPT !.age = @ + 1, !.told = @ + 1]
                       [] OTHER            -> p]
  /\ UNCHANGED <<prefix, config>>

Next ==
  \/ \E t \in Threads : Resolve(t) \/ Explicit(t) \/ Ask(t) \/ Store(t) \/ Pulled(t)
  \/ Login \/ Tick

Spec == Init /\ [][Next]_vars

-----------------------------------------------------------------------------
(* Properties.                                                             *)

\* No secret goes to another registry than its own, and it goes as what it is: the alias
\* of the hub, the mirror that replaces the hub in a name and the entries that other
\* threads put into the cache included.
SecretScoped ==
  \A t \in Threads :
    LET a == pulls[t].auth
    IN  pulls[t].pc = "pulling" /\ a # Anonymous =>
          /\ a.for = pulls[t].name \/ (pulls[t].name = Hub /\ a.for = HubAuthKey)
          /\ a.source \in Helpers => (a.kind = "token" <=> a.for \in Tokens)

\* What a helper is taken to have answered (that it has nothing, too) it has answered
\* less than Ttl and one run of it ago, however the fetches of several threads overlap:
\* a secret that it has rotated is not sent for longer.
SecretFresh ==
  \A t \in Threads : pulls[t].pc = "pulling" => pulls[t].told < Ttl + Slow

\* Both: a pull sends the credentials of its own registry, and none that are out of date.
SecretsInPlace == SecretScoped /\ SecretFresh
=============================================================================
