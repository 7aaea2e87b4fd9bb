---------------------------- MODULE MCWaitChain ----------------------------
EXTENDS WaitChain
Plain(k) == [kind |-> k, source |-> "both", times |-> 1, value |-> 0, code |-> "any"]
Nap      == [Plain("duration") EXCEPT !.value = 2]
Exit0    == [Plain("exit") EXCEPT !.code = "0"]
Twice    == [Plain("log") EXCEPT !.times = 2, !.source = "out"]
Stderr   == [Plain("log") EXCEPT !.source = "err"]
Firsts   == {Nap, Twice, Plain("http"), Plain("command")}
MCChains == {<<c>> : c \in {Nap, Exit0, Twice, Stderr} \cup {Plain(k) : k \in Kinds \ {"duration", "exit", "log"}}}
              \cup {<<a, b>> : a \in Firsts, b \in {Nap, Stderr, Plain("port")}}
=============================================================================
