---------------------------- MODULE CrashSafety ----------------------------
(***************************************************************************)
(* What crash-safe reaping promises to the users of the library, without   *)
(* saying how: a resource exists only on a daemon that already watches for *)
(* one of its labels; while the process lives nothing is swept; once it    *)
(* has died each daemon sweeps everything it watches for.                  *)
(***************************************************************************)
CONSTANTS Daemons, Labels,
          Unwatchable   \* daemons that cannot run a reaper

VARIABLES off,       \* the reaper is disabled
          alive,     \* the process lives
          watched,   \* which labels each daemon watches for
          resources  \* what the process has created: a daemon and its labels

vars == <<off, alive, watched, resources>>

Covered(x) == x.labels \cap watched[x.ep] # {}
Exempt(x)  == off \/ x.labels = {} \/ x.ep \in Unwatchable

Init ==
  /\ off \in BOOLEAN /\ alive = TRUE
  /\ watched = [d \in Daemons |-> {}]
  /\ resources = {}

\* A daemon starts to watch for a label; it may complete after a death.
Watch(d, l) ==
  /\ watched' = [watched EXCEPT ![d] = @ \cup {l}]
  /\ UNCHANGED <<off, alive, resources>>

Create(x) ==
  /\ alive /\ (Exempt(x) \/ Covered(x))
  /\ resources' = resources \cup {x}
  /\ UNCHANGED <<off, alive, watched>>

Die == alive' = FALSE /\ UNCHANGED <<off, watched, resources>>

Sweep(d) ==
  /\ ~alive
  /\ resources' = {x \in resources : x.ep # d \/ ~Covered(x)}
  /\ UNCHANGED <<off, alive, watched>>

Next ==
  \/ \E d \in Daemons : Sweep(d) \/ \E l \in Labels : Watch(d, l)
  \/ \E x \in [ep : Daemons, labels : SUBSET Labels] : Create(x)
  \/ Die

Spec == Init /\ [][Next]_vars /\ \A d \in Daemons : WF_vars(Sweep(d))
=============================================================================
