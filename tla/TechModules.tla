---------------------------- MODULE TechModules ----------------------------
(***************************************************************************)
(* The technology modules: fourteen builders (PostgreSQLImage, ...) that   *)
(* render their settings into a GenericImage, start it, and hand back      *)
(* getters that are to describe the server in the container.  The servers  *)
(* are the environment: what they read from the container's environment,   *)
(* command and files, the phases of their boot (a first boot often runs a  *)
(* temporary server), and in which of them a probe passes.                 *)
(*                                                                         *)
(* The keys of the environment are named for their role ("user" for        *)
(* POSTGRES_USER, MYSQL_USER, ...), "name" is the database, vhost, data    *)
(* center, replica set or cluster id, and "extras" the buckets, topics or  *)
(* plugins that a started hook makes.  A value a server reads is the last  *)
(* of its key (bash) unless it says otherwise.  Customizers are the user's *)
(* own code and are left out.                                              *)
(***************************************************************************)
EXTENDS Naturals, Sequences, SequencesExt

CONSTANTS Modules,    \* the modules that are started, names of the ones below
          MaxSets,    \* bound: calls of setters
          MaxStarts   \* bound: calls of start()

VARIABLES mod,     \* the module
          config,  \* its builder
          sets,    \* setter calls so far
          starts,  \* start() calls so far
          pc,      \* "idle", "wait" or "hook" in start(), "ready" with a handle
          spec,    \* what was rendered for this start
          step,    \* the wait or the step of the hook that is next
          adopted, \* this start has found a reuse container
          server   \* the container: its body, phase, and what has been done in it

ModulesAssumption ==
  /\ MaxSets \in Nat /\ MaxStarts \in Nat
  /\ Modules \subseteq {"PostgreSQL", "MySQL", "MariaDB", "ClickHouse", "RabbitMQ", "MinIO", "RustFS",
                         "Kafka", "OpenSearch", "MongoDB", "ScyllaDB", "Redis", "NATS", "Mosquitto"}

vars == <<mod, config, sets, starts, pc, spec, step, adopted, server>>

-----------------------------------------------------------------------------
(* Setters: a field is assigned or appended to; some throw instead.        *)

Call(field, values) == {<<field, v>> : v \in values}
Shared == Call("reuse", {TRUE})                  \* with_reuse
Credentials(user, pass, name) == Call("user", user) \cup Call("pass", pass) \cup Call("name", name)
Raw(keys) == {<<"env", <<k, "raw">>>> : k \in keys}
Scripts(exts) == {<<"scripts", [name |-> n, ext |-> e]>> : n \in 1..2, e \in exts}
OwnWait == Call("waits", {"own"})

Blank == [user |-> "", pass |-> "", name |-> "", env |-> <<>>, args |-> <<>>, scripts |-> <<>>,
          extras |-> <<>>, waits |-> <<>>, reuse |-> FALSE]

\* is_root_username: in any case of its letters.
IsRoot(user) == user \in {"root", "Root"}

\* The extensions a staged script may have: those the entrypoint runs.
DefaultExtensions(m) == {"sql", "sql.xz", "sh"}
InitExtensions(m) ==
  CASE m = "ClickHouse" -> {"sql", "sh"}
    [] m = "ScyllaDB"   -> {"cql"}
    [] m = "RabbitMQ"   -> {"json"}
    [] OTHER            -> DefaultExtensions(m)

\* The setter throws, and the builder stays as it was.
SetterThrows(m, c) == c[1] = "scripts" /\ c[2].ext \notin InitExtensions(m)

NotNormalized(m, c) == c[2]
Value(m, c) == IF c[1] = "user" /\ m \in {"MySQL", "MariaDB"} /\ IsRoot(c[2]) THEN "root" ELSE c[2]

Set(b, m, c) ==
  IF c[1] \in {"user", "pass", "name", "reuse"} THEN [b EXCEPT ![c[1]] = Value(m, c)]
                                                 ELSE [b EXCEPT ![c[1]] = Append(@, Value(m, c))]

-----------------------------------------------------------------------------
(* Rendering.                                                              *)

LastOf(env, key) ==   \* bash: the last duplicate
  LET is == {j \in DOMAIN env : env[j][1] = key}
  IN  IF is = {} THEN "" ELSE env[CHOOSE j \in is : \A k \in is : k <= j][2]
FirstOf(env, key) ==  \* getenv of an exec'd process: the first
  LET is == {j \in DOMAIN env : env[j][1] = key}
  IN  IF is = {} THEN "" ELSE env[CHOOSE j \in is : \A k \in is : j <= k][2]

Pair(key, value)  == <<<<key, value>>>>
Given(key, value) == IF value = "" THEN <<>> ELSE Pair(key, value)
Has(env, key)     == \E j \in DOMAIN env : env[j][1] = key

\* Rendering starts from a copy of the embedded image.
Copy(c) == [ok |-> TRUE, env |-> c.env, cmd |-> <<>>, files |-> <<>>, label |-> <<>>,
            ports |-> {"client"}, waits |-> <<>>, hook |-> <<>>]

\* What the reuse hash is taken of.
Body(r) == [env |-> r.env, cmd |-> r.cmd, files |-> r.files, label |-> r.label, ports |-> r.ports]

\* with_wait replaces the module's own probes.
Default(c, probes) == IF c.waits = <<>> THEN probes ELSE c.waits
Each(s) == [j \in DOMAIN s |-> <<"make", s[j]>>]
Sorted(s) == SortSeq(s, <)

\* The label that shows the hash what only the hook knows.
NoLabel(s) == <<>>
HookLabel(s) == Sorted(s)
TopicsLabel(s) == s

\* stage_init_script: the index is the prefix of the name in the container.
TargetByName(i, script) == [at |-> 0, name |-> script.name, ext |-> script.ext]
Target(i, script) == [at |-> i, name |-> script.name, ext |-> script.ext]
Staged(scripts, from) == [i \in DOMAIN scripts |-> Target(from + i - 1, scripts[i])]

Trio(c) == Pair("user", c.user) \o Pair("pass", c.pass) \o Pair("name", c.name)
PutFirst(env, own) == own \o env
PutLast(env, own) == env \o own

\* Only the real server listens on TCP.
SocketProbe(c) == <<"socket">>
ReadyProbe(c) == <<"tcp">>

PostgreSQLSetters ==
  Credentials({"", "u"}, {"", "p"}, {"", "d"}) \cup Scripts({"sql", "cql"}) \cup OwnWait
    \cup Raw({"user", "pass", "name"}) \cup Call("env", {<<"auth", "trust">>, <<"auth", "md5">>})
PostgreSQL(c) ==
  [Copy(c) EXCEPT
     !.ok    = c.user # "" /\ c.name # "" /\ (c.pass # "" \/ LastOf(c.env, "auth") = "trust"),
     !.env   = PutLast(@, Pair("user", c.user) \o Given("pass", c.pass) \o Pair("name", c.name)),
     !.cmd   = c.args,
     !.files = Staged(c.scripts, 0),
     !.waits = Default(c, ReadyProbe(c))]
PostgreSQLHandle(c) == [user |-> c.user, pass |-> c.pass, name |-> c.name, ports |-> {"client"}]

MySQLSetters ==
  Credentials({"", "u", "Root"}, {"", "p"}, {"", "d"}) \cup Scripts({"sql", "cql"})
    \cup Raw({"user", "pass", "rootpass"}) \cup Call("args", {<<"charset", "utf8">>}) \cup OwnWait
MariaDBSetters == MySQLSetters   \* the same, for MARIADB_... keys
MySqlFamily(c) ==
  LET account ==
        IF ~IsRoot(c.user)
        THEN Pair("user", c.user) \o Pair("pass", c.pass) \o Pair("rootpass", c.pass)
        ELSE IF c.pass # "" THEN Pair("rootpass", c.pass) ELSE Pair("empty", "yes")
  IN  [Copy(c) EXCEPT
         !.ok    = c.user # "" /\ (IsRoot(c.user) \/ c.pass # ""),
         !.env   = PutLast(@, account \o Given("name", c.name)),
         !.cmd   = c.args,
         !.files = Staged(c.scripts, 0),
         !.waits = Default(c, ReadyProbe(c))]
MySQLHandle(c)   == [user |-> c.user, pass |-> c.pass, name |-> c.name, ports |-> {"client"}]
MariaDBHandle(c) == [user |-> c.user, pass |-> c.pass, name |-> c.name, ports |-> {"client"}]

ClickHouseSetters ==
  Credentials({"", "u"}, {"", "p"}, {"", "d"}) \cup Scripts({"sql", "sql.xz"}) \cup OwnWait
    \cup Raw({"user", "pass"})
\* The temporary server answers /ping too: first init has to be over.
PingOnly == <<"ping">>
ClickHouseProbes == <<"comm", "ping", "native">>
ClickHouse(c) ==
  [Copy(c) EXCEPT
     !.ports = {"http", "native"},
     !.ok    = c.user # "" /\ c.name # "" /\ c.pass # "",
     !.env   = PutLast(@, Trio(c)),
     !.files = Staged(c.scripts, 0),
     !.waits = Default(c, ClickHouseProbes)]
ClickHouseHandle(c) == [user |-> c.user, pass |-> c.pass, name |-> c.name, ports |-> {"http", "native"}]

RabbitMQSetters ==
  Credentials({"", "u"}, {"", "p"}, {"", "v"}) \cup Scripts({"json", "sql"})
    \cup Call("extras", {1, 2}) \cup Raw({"user", "pass"})
Seed(c) == [at |-> 10, name |-> 0, ext |-> "json", user |-> c.user, pass |-> c.pass, vhost |-> c.name]
\* An exec before the log line would leave the node with a cookie it cannot read.
ExecFirst == <<"check", "completed">>
BrokerWaits == <<"completed", "check">>
RabbitMQ(c) ==
  [Copy(c) EXCEPT
     !.ports = {"amqp", "management"},
     !.ok    = c.user # "" /\ c.pass # "" /\ c.name # "",
     !.env   = PutLast(@, Trio(c)),
     !.files = IF c.scripts = <<>> THEN <<>> ELSE <<Seed(c)>> \o Staged(c.scripts, 500),
     !.waits = BrokerWaits,
     !.label = HookLabel(c.extras),
     !.hook  = IF c.extras = <<>> THEN <<>> ELSE <<<<"enable", c.extras>>>>]
RabbitMQHandle(c) == [user |-> c.user, pass |-> c.pass, name |-> c.name, ports |-> {"amqp", "management"}]

MinIOSetters ==
  Call("user", {"ab", "key"}) \cup Call("pass", {"short", "longenough"}) \cup OwnWait
    \cup Call("extras", {0, 1, 2}) \cup Raw({"user", "pass"})
MinIO(c) ==
  [Copy(c) EXCEPT
     !.ports = {"s3", "console"},
     !.ok    = c.user # "ab" /\ c.pass # "short" /\ \A j \in DOMAIN c.extras : c.extras[j] # 0,
     !.cmd   = Pair("console", "9001"),
     !.env   = PutLast(@, Pair("user", c.user) \o Pair("pass", c.pass)),
     !.waits = Default(c, <<"cluster">>),
     !.label = HookLabel(c.extras),
     !.hook  = IF c.extras = <<>> THEN <<>> ELSE <<<<"alias">>>> \o Each(c.extras)]
MinIOHandle(c) == [user |-> c.user, pass |-> c.pass, name |-> "", ports |-> {"s3", "console"}]

RustFSSetters == Call("user", {"", "key"}) \cup Call("pass", {"", "secret"}) \cup OwnWait \cup Raw({"user", "pass"})
RustFS(c) ==
  [Copy(c) EXCEPT
     !.ports = {"s3", "console"},
     !.ok    = c.user # "" /\ c.pass # "",
     !.env   = PutLast(@, Pair("user", c.user) \o Pair("pass", c.pass)),
     !.waits = Default(c, <<"health">>)]
RustFSHandle(c) == [user |-> c.user, pass |-> c.pass, name |-> "", ports |-> {"s3", "console"}]

\* What the user adds to the environment of Kafka and OpenSearch wins.
KafkaSetters == Call("name", {"bad", "id2"}) \cup Call("extras", {0, 1, 2}) \cup Raw({"tuning"})
KafkaEnv(c) == Pair("name", c.name) \o Pair("tuning", "default")
Kafka(c) ==
  [Copy(c) EXCEPT
     !.ok    = c.name # "bad" /\ \A j \in DOMAIN c.extras : c.extras[j] # 0,
     !.env   = PutFirst(@, KafkaEnv(c)),
     !.cmd   = Pair("await", "starter"),
     !.waits = <<"sentinel">>,
     !.label = TopicsLabel(c.extras),
     !.hook  = <<<<"copy">>, <<"follow">>>> \o Each(c.extras)]
KafkaHandle(c) == [user |-> "", pass |-> "", name |-> c.name, ports |-> {"client"}]

OpenSearchSetters == Call("env", {<<"security", "on">>, <<"tuning", "raw">>}) \cup OwnWait
OpenSearch(c) == [Copy(c) EXCEPT !.waits = Default(c, <<"elected">>)]
OpenSearchHandle(c) == [user |-> "", pass |-> "", name |-> "", ports |-> {"client"}]

MongoDBSetters == Call("name", {"bad", "rs1"}) \cup Raw({"user", "tuning"})
MongoDB(c) ==
  [Copy(c) EXCEPT
     !.ok    = c.name # "bad" /\ ~Has(c.env, "user") /\ ~Has(c.env, "pass"),
     !.cmd   = Pair("name", c.name),
     !.waits = <<"listening", "port">>,
     !.hook  = <<<<"initiate">>, <<"primary">>>>]
MongoDBHandle(c) == [user |-> "", pass |-> "", name |-> c.name, ports |-> {"client"}]

ScyllaDBSetters ==
  Call("args", {<<"smp", "2">>}) \cup Call("name", {"", "dc1"}) \cup Scripts({"cql", "sql"}) \cup OwnWait
ScyllaDB(c) ==
  [Copy(c) EXCEPT
     !.ok    = c.name # "",
     !.cmd   = Pair("smp", "1") \o (IF c.name = "unset" THEN <<>> ELSE Pair("name", c.name)) \o c.args,
     !.files = Staged(c.scripts, 0),
     !.waits = Default(c, <<"cql", "query">>),
     !.hook  = Each([j \in DOMAIN c.scripts |-> c.scripts[j].name])]
ScyllaDBHandle(c) ==
  [user |-> "", pass |-> "", name |-> IF c.name = "unset" THEN "datacenter1" ELSE c.name,
   ports |-> {"client"}]

RedisSetters ==
  Call("pass", {"", "p"}) \cup Call("args", {<<"maxmemory", "64mb">>}) \cup Raw({"cli", "tuning"})
Redis(c) ==
  [Copy(c) EXCEPT
     !.ok    = c.pass # "" => ~Has(c.env, "cli"),
     !.cmd   = Given("pass", c.pass) \o c.args,
     !.env   = @ \o Given("cli", c.pass),
     !.waits = <<"pong">>]
RedisHandle(c) == [user |-> "", pass |-> c.pass, name |-> "", ports |-> {"client"}]

NATSSetters ==
  Call("user", {"", "u"}) \cup Call("pass", {"", "p"}) \cup Call("args", {<<"user", "raw">>, <<"tuning", "raw">>})
ManagedFlags == {"user", "pass", "jetstream", "http_port", "port", "addr", "config"}
FlagsPass(c) == TRUE
NoManagedFlag(c) == \A f \in ManagedFlags : ~Has(c.args, f)
NATS(c) ==
  [Copy(c) EXCEPT
     !.ports = {"client", "monitoring"},
     !.ok    = ((c.user = "") <=> (c.pass = "")) /\ NoManagedFlag(c),
     !.cmd   = Pair("http_port", "8222") \o Given("user", c.user) \o Given("pass", c.pass) \o c.args,
     !.waits = <<"ready", "healthz">>]
NATSHandle(c) == [user |-> c.user, pass |-> c.pass, name |-> "", ports |-> {"client", "monitoring"}]

\* Its own configuration with options, or a replacement, not both.
MosquittoSetters == Call("args", {<<"max", "1">>}) \cup {<<"scripts", [name |-> n, ext |-> "sh"]>> : n \in 1..2}
Mosquitto(c) ==
  [Copy(c) EXCEPT
     !.ok    = c.scripts = <<>> \/ c.args = <<>>,
     !.files = IF c.scripts = <<>> THEN <<[at |-> 0, options |-> c.args]>>
                                   ELSE <<Target(0, Last(c.scripts))>>,
     !.waits = <<"running">>]
MosquittoHandle(c) == [user |-> "", pass |-> "", name |-> "", ports |-> {"client"}]

-----------------------------------------------------------------------------
(* One module or another.                                                  *)

Setters(m) ==
  CASE m = "PostgreSQL" -> PostgreSQLSetters [] m = "MySQL" -> MySQLSetters [] m = "MariaDB" -> MariaDBSetters
    [] m = "ClickHouse" -> ClickHouseSetters [] m = "RabbitMQ" -> RabbitMQSetters
    [] m = "MinIO" -> MinIOSetters [] m = "RustFS" -> RustFSSetters [] m = "Kafka" -> KafkaSetters
    [] m = "OpenSearch" -> OpenSearchSetters [] m = "MongoDB" -> MongoDBSetters
    [] m = "ScyllaDB" -> ScyllaDBSetters [] m = "Redis" -> RedisSetters [] m = "NATS" -> NATSSetters
    [] m = "Mosquitto" -> MosquittoSetters

Rendered(m, c) ==
  CASE m = "PostgreSQL" -> PostgreSQL(c) [] m \in {"MySQL", "MariaDB"} -> MySqlFamily(c)
    [] m = "ClickHouse" -> ClickHouse(c) [] m = "RabbitMQ" -> RabbitMQ(c) [] m = "MinIO" -> MinIO(c)
    [] m = "RustFS" -> RustFS(c) [] m = "Kafka" -> Kafka(c) [] m = "OpenSearch" -> OpenSearch(c)
    [] m = "MongoDB" -> MongoDB(c) [] m = "ScyllaDB" -> ScyllaDB(c) [] m = "Redis" -> Redis(c)
    [] m = "NATS" -> NATS(c) [] m = "Mosquitto" -> Mosquitto(c)

Handle(m, c) ==
  CASE m = "PostgreSQL" -> PostgreSQLHandle(c) [] m = "MySQL" -> MySQLHandle(c)
    [] m = "MariaDB" -> MariaDBHandle(c) [] m = "ClickHouse" -> ClickHouseHandle(c)
    [] m = "RabbitMQ" -> RabbitMQHandle(c) [] m = "MinIO" -> MinIOHandle(c)
    [] m = "RustFS" -> RustFSHandle(c) [] m = "Kafka" -> KafkaHandle(c)
    [] m = "OpenSearch" -> OpenSearchHandle(c) [] m = "MongoDB" -> MongoDBHandle(c)
    [] m = "ScyllaDB" -> ScyllaDBHandle(c) [] m = "Redis" -> RedisHandle(c)
    [] m = "NATS" -> NATSHandle(c) [] m = "Mosquitto" -> MosquittoHandle(c)

\* The builder as its constructor makes it.
Fresh(m) ==
  LET trio(u, p, n) == [Blank EXCEPT !.user = u, !.pass = p, !.name = n]
  IN  CASE m \in {"PostgreSQL", "MySQL", "MariaDB", "ClickHouse"} -> trio("test", "test", "test")
        [] m = "RabbitMQ"   -> trio("guest", "guest", "/")
        [] m = "MinIO"      -> trio("minioadmin", "minioadmin", "")
        [] m = "RustFS"     -> trio("rustfsadmin", "rustfsadmin", "")
        [] m = "Kafka"      -> trio("", "", "id1")
        [] m = "MongoDB"    -> trio("", "", "rs0")
        [] m = "ScyllaDB"   -> trio("", "", "unset")
        [] m = "OpenSearch" -> [Blank EXCEPT !.env = Pair("security", "off") \o Pair("tuning", "default")]
        [] OTHER            -> Blank

-----------------------------------------------------------------------------
(* The servers.                                                            *)

\* No container: before start(), and once it is removed.
NoServer == [phase |-> "none"]

Phases(m) ==
  CASE m \in {"PostgreSQL", "MySQL", "MariaDB"} -> <<"init", "gap", "up">>
    [] m = "ClickHouse" -> <<"init", "gap", "http", "up">>
    [] m = "Kafka"      -> <<"placeholder", "booting", "up">>
    [] m = "RabbitMQ"   -> <<"boot", "cookie", "up">>
    [] OTHER            -> <<"boot", "serving", "up">>

\* The phases in which a probe passes; the temporary server of "init" is on the
\* socket and, of ClickHouse, on the loopback that a proxy reaches.
PassesIn ==
  [tcp |-> {"up"}, socket |-> {"init", "up"},
   comm |-> {"http", "up"}, ping |-> {"init", "http", "up"}, native |-> {"init", "up"},
   completed |-> {"up"}, check |-> {"up"}, cluster |-> {"up"}, live |-> {"serving", "up"},
   health |-> {"up"}, sentinel |-> {"placeholder", "booting", "up"}, elected |-> {"up"},
   listening |-> {"serving", "up"}, port |-> {"boot", "serving", "up"}, cql |-> {"serving", "up"},
   query |-> {"up"}, pong |-> {"up"}, ready |-> {"serving", "up"}, healthz |-> {"up"},
   running |-> {"up"}, own |-> {"boot", "init", "gap", "http", "cookie", "serving", "up"}]

\* redis-cli answers only with the password of the server, in the first REDISCLI_AUTH.
Passes(w) ==
  /\ server.phase \in PassesIn[w]
  /\ w = "elected" => LastOf(server.body.env, "security") = "off"
  /\ w = "pong" => LET p == LastOf(server.body.cmd, "pass")
                   IN  p # "" => FirstOf(server.body.env, "cli") = p

\* A host-side client with the handle's values is let in, to what they name.
LetsIn(m, h, b) ==
  LET e(k) == LastOf(b.env, k)
  IN  CASE m = "PostgreSQL" ->
             /\ h.user = e("user") /\ h.name = e("name")
             /\ e("auth") = "trust" \/ h.pass = e("pass")
        [] m \in {"MySQL", "MariaDB"} ->
             /\ h.name # "" => h.name = e("name")
             /\ IF h.user = "root" THEN h.pass = e("rootpass")
                                   ELSE h.user = e("user") /\ h.pass = e("pass")
        [] m = "RabbitMQ" ->
             \/ b.files = <<>> /\ h.user = e("user") /\ h.pass = e("pass") /\ h.name = e("name")
             \/ \E j \in DOMAIN b.files :
                  b.files[j].name = 0 /\ b.files[j].user = h.user /\ b.files[j].pass = h.pass
        [] m = "ClickHouse" -> h.user = e("user") /\ h.pass = e("pass") /\ h.name = e("name")
        [] m \in {"MinIO", "RustFS"} -> h.user = e("user") /\ h.pass = e("pass")
        [] m = "Kafka"    -> h.name = e("name")
        [] m = "ScyllaDB" -> h.name = IF Has(b.cmd, "name") THEN LastOf(b.cmd, "name") ELSE "datacenter1"
        [] m = "MongoDB"  -> h.name = LastOf(b.cmd, "name")
        [] m \in {"Redis", "NATS"} -> h.user = LastOf(b.cmd, "user") /\ h.pass = LastOf(b.cmd, "pass")
        [] OTHER -> TRUE

\* The entrypoint runs the scripts it knows, in the order of their names.
KnownTo(m) == IF m = "ClickHouse" THEN {"sql", "sh"} ELSE {"sql", "sql.xz", "sh"}
Before(f, g) == f.at < g.at \/ (f.at = g.at /\ f.name < g.name)
Initdb(m) == m \in {"PostgreSQL", "MySQL", "MariaDB", "ClickHouse"}
RunsScripts(m, files) ==
  LET known == {files[j] : j \in {k \in DOMAIN files : files[k].ext \in KnownTo(m)}}
  IN  CHOOSE run \in [1..Cardinality(known) -> known] :
        \A i, j \in DOMAIN run : i < j => Before(run[i], run[j])

-----------------------------------------------------------------------------
TypeOK ==
  /\ mod \in Modules /\ sets \in 0..MaxSets /\ starts \in 0..MaxStarts
  /\ pc \in {"idle", "wait", "hook", "ready"} /\ adopted \in BOOLEAN
  /\ pc = "wait" => step \in 1..Len(spec.waits)
  /\ pc = "hook" => step \in 1..Len(spec.hook) /\ ~adopted
  /\ pc # "idle" => spec.ok /\ server # NoServer /\ server.body = Body(spec)

Init ==
  /\ mod \in Modules /\ config = Fresh(mod) /\ sets = 0 /\ starts = 0
  /\ pc = "idle" /\ spec = Copy(Blank) /\ step = 0 /\ adopted = FALSE /\ server = NoServer

\* A with_... call; one that throws changes nothing.
Configure ==
  /\ pc = "idle" /\ sets < MaxSets
  /\ \E c \in Setters(mod) \cup Shared :
       ~SetterThrows(mod, c) /\ config' = Set(config, mod, c)
  /\ sets' = sets + 1
  /\ UNCHANGED <<mod, starts, pc, spec, step, adopted, server>>

\* start(): a configuration that cannot work is refused before any container is made.
\* A reuse container of the same body is adopted: waited for, but its hooks are not run.
Adopts(r) ==
  config.reuse /\ server # NoServer /\ server.reuse /\ server.phase # "dead" /\ server.body = Body(r)
Start ==
  /\ pc = "idle" /\ starts < MaxStarts
  /\ LET r == Rendered(mod, config)
     IN  /\ r.ok
         /\ spec' = r /\ adopted' = Adopts(r)
         /\ server' = IF Adopts(r) THEN server
                      ELSE [body |-> Body(r), reuse |-> config.reuse, phase |-> Phases(mod)[1],
                            told |-> FALSE, seeded |-> <<>>, made |-> <<>>]
  /\ starts' = starts + 1 /\ pc' = "wait" /\ step' = 1
  /\ UNCHANGED <<mod, config, sets>>

\* The first CLI of RabbitMQ in a booting container leaves its cookie to root.
Probed(w) ==
  IF w = "check" /\ server.phase = "boot" THEN [server EXCEPT !.phase = "poisoned"] ELSE server

\* One attempt of a wait; they go in the order they were given; then, of a new container,
\* the hook.
Probe ==
  /\ pc = "wait" /\ server' = Probed(spec.waits[step])
  /\ IF ~Passes(spec.waits[step]) THEN UNCHANGED <<step, pc>>
     ELSE IF step < Len(spec.waits) THEN step' = step + 1 /\ UNCHANGED pc
     ELSE step' = 1 /\ pc' = IF adopted \/ spec.hook = <<>> THEN "ready" ELSE "hook"
  /\ UNCHANGED <<mod, config, sets, starts, spec, adopted>>

\* The hooks. An exec that fails or a phase that outlasts its budget throws (Throw).
Makes(what) == server.phase = "up" /\ server' = [server EXCEPT !.made = @ \o what]
Tells == server.phase # "dead" /\ server' = [server EXCEPT !.told = TRUE]
IsUp == server.phase = "up" /\ UNCHANGED server

\* The starter script with the mapped port, the broker's ready line, the topics.
KafkaBoot(h) ==
  CASE h[1] = "copy" -> Tells [] h[1] = "follow" -> IsUp [] h[1] = "make" -> Makes(<<h[2]>>)
\* rs.initiate, then polls until the node is the writable primary.
MongoInit(h) == CASE h[1] = "initiate" -> Tells [] h[1] = "primary" -> IsUp
CreateBuckets(h) ==
  CASE h[1] = "alias" -> IsUp /\ LetsIn(mod, Handle(mod, config), server.body)
    [] h[1] = "make" -> Makes(<<h[2]>>)
EnablePlugins(h) == Makes(h[2])
RunCql(h) == Makes(<<h[2]>>)

HookStep ==
  /\ pc = "hook"
  /\ LET h == spec.hook[step]
     IN  CASE mod = "Kafka" -> KafkaBoot(h)
           [] mod = "MongoDB" -> MongoInit(h)
           [] mod = "MinIO" -> CreateBuckets(h)
           [] mod = "RabbitMQ" -> EnablePlugins(h)
           [] mod = "ScyllaDB" -> RunCql(h)
  /\ IF step < Len(spec.hook) THEN step' = step + 1 /\ UNCHANGED pc ELSE step' = 1 /\ pc' = "ready"
  /\ UNCHANGED <<mod, config, sets, starts, spec, adopted>>

\* A timeout, a dead container, a failed exec: start() throws, and removes what it made.
Throw ==
  /\ pc \in {"wait", "hook"}
  /\ pc' = "idle" /\ step' = 0 /\ server' = IF adopted THEN server ELSE NoServer
  /\ UNCHANGED <<mod, config, sets, starts, spec, adopted>>

\* The handle goes; a reuse container stays.
Release ==
  /\ pc = "ready"
  /\ pc' = "idle" /\ step' = 0 /\ server' = IF server.reuse THEN server ELSE NoServer
  /\ UNCHANGED <<mod, config, sets, starts, spec, adopted>>

\* Kafka boots with the starter script, a MongoDB node is elected once initiated.
MayAdvance ==
  /\ mod = "Kafka" /\ server.phase = "placeholder" => server.told
  /\ mod = "MongoDB" /\ server.phase = "serving" => server.told
Advance ==
  /\ server # NoServer /\ MayAdvance
  /\ \E i \in 1..Len(Phases(mod)) - 1 :
       /\ server.phase = Phases(mod)[i]
       /\ server' = [server EXCEPT !.phase = Phases(mod)[i + 1],
                                   !.seeded = IF Initdb(mod) /\ i = 1 THEN RunsScripts(mod, server.body.files)
                                                                     ELSE @]
  /\ UNCHANGED <<mod, config, sets, starts, pc, spec, step, adopted>>

\* A script that fails ends the boot, and a server may end at any time.
Dies ==
  /\ server # NoServer /\ server.phase # "dead"
  /\ server' = [server EXCEPT !.phase = "dead"]
  /\ UNCHANGED <<mod, config, sets, starts, pc, spec, step, adopted>>

Next ==
  \/ Configure \/ Start \/ Probe \/ HookStep \/ Throw \/ Release
  \/ Advance \/ Dies
Spec == Init /\ [][Next]_vars

-----------------------------------------------------------------------------
(* Properties.                                                             *)

\* With the module's own probes, start() returns the real server, never the temporary
\* one of the first boot nor one that is still coming up (to_generic of every module).
ReadyIsReal == pc = "ready" /\ config.waits = <<>> => server.phase \in {"up", "dead"}

\* No probe of a module harms the server it waits for (RabbitMQ.cpp:135).
ProbesHarmless == server # NoServer => server.phase # "poisoned"

\* A passwordless root writes no root password (MySqlFamily.cpp:119-123), so a raw one stays in
\* force, where MySQL.hpp:134-136 and MariaDB.hpp:122-124 say the module's own come last and win.
RawRootInForce ==
  /\ mod \in {"MySQL", "MariaDB"} /\ config.user = "root" /\ config.pass = ""
  /\ Has(config.env, "rootpass")

\* The getters of the handle describe the server: their ports are published, and whatever keys
\* of the module were added raw, in whatever order, their credentials log in. Exempt is one raw
\* key, that of the root password next to a passwordless root; no inputs are the keys that a
\* header leaves to the user's own risk (CLUSTER_ID, --dc, --requirepass).
HandleTrue ==
  pc = "ready" => LET h == Handle(mod, config)
                  IN  /\ h.ports \subseteq server.body.ports
                      /\ RawRootInForce \/ LetsIn(mod, h, server.body)

\* What was asked for has been done when start() returns, in the order it was asked for,
\* in an adopted container as in a new one (the labels that make the hash see the hooks).
Listed(s) == [j \in DOMAIN s |-> s[j].name]
AllApplied ==
  pc = "ready" =>
    /\ Initdb(mod) /\ config.waits = <<>> => Listed(server.seeded) = Listed(config.scripts)
    /\ mod = "ScyllaDB" => server.made = Listed(config.scripts)
    /\ mod = "Kafka" => server.made = config.extras
    /\ mod \in {"MinIO", "RabbitMQ"} => Sorted(server.made) = Sorted(config.extras)
=============================================================================
