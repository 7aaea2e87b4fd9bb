---------------------------- MODULE MCResources ----------------------------
(***************************************************************************)
(* Small instances of the components of Resources, for TLC.                *)
(***************************************************************************)
EXTENDS Resources, TLC

CONSTANTS
  c1, c2, x,                \* containers
  n1, n2, d1, d2, p1, p2    \* networks, daemons and ports of HostAccess

MCStarted == {c1, c2}
MCAdopted == {x}

Plain(k) == [NoWait EXCEPT !.kind = k]
Nap      == [Plain("duration") EXCEPT !.value = 2]
Exit0    == [Plain("exit") EXCEPT !.code = "0"]
Twice    == [Plain("log") EXCEPT !.times = 2, !.source = "out"]
Stderr   == [Plain("log") EXCEPT !.source = "err"]
Firsts   == {Nap, Twice, Plain("http"), Plain("command")}
MCChains == {<<a>> : a \in {Nap, Exit0, Twice, Stderr}}
              \cup {<<Plain(k)>> : k \in {"none", "health", "http", "port", "command"}}
              \cup {<<a, b>> : a \in Firsts, b \in {Nap, Stderr, Plain("port")}}

\* Two networks of one name on two daemons, and the default bridge.
MCRequests == {[daemon |-> d1, net |-> n1, ports |-> {p1}],
               [daemon |-> d1, net |-> n1, ports |-> {p1, p2}],
               [daemon |-> d2, net |-> Bridge, ports |-> {p2}]}

MCDaemonOf == (n1 :> d1) @@ (n2 :> d2)
MCNameOf   == [n \in {n1, n2} |-> "net"]

\* Two services that share a network, with and without a second one.
MCPlacements == {[a |-> {"n"}, b |-> {"n", "m"}], [a |-> {"n"}, b |-> {"m"}]}

MCModules == {"PostgreSQL", "MySQL", "MariaDB", "ClickHouse", "RabbitMQ", "MinIO", "RustFS",
              "Kafka", "OpenSearch", "MongoDB", "ScyllaDB", "Redis", "NATS", "Mosquitto"}
=============================================================================
