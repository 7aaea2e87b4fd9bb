-------------------------------- MODULE Glob --------------------------------
(***************************************************************************)
(* match_component of docker/DockerIgnore.cpp: one component of a          *)
(* .dockerignore pattern against one of a path, in one loop that goes back *)
(* to the last '*' on a mismatch. An element of a pattern is the set of    *)
(* characters it accepts: one for a literal or an escaped character, all   *)
(* for '?', the members for a class, none for a class that is not closed.  *)
(***************************************************************************)
EXTENDS Naturals, Sequences

CONSTANTS Chars, MaxPattern, MaxName  \* bounds: lengths of the pattern and the name

GlobAssumption == "*" \notin Chars /\ MaxPattern \in Nat /\ MaxName \in Nat

VARIABLES
  pattern, name,
  p, n,          \* the positions reached
  starP, starN,  \* where to go on after the most recent '*', 0: there is none
  verdict

vars == <<pattern, name, p, n, starP, starN, verdict>>

Star     == {"*"}
Elements == {Star} \cup SUBSET Chars
UpTo(S, max) == UNION {[1..k -> S] : k \in 0..max}

TypeOK ==
  /\ pattern \in Seq(Elements) /\ name \in Seq(Chars) /\ verdict \in {"none", "yes", "no"}
  /\ p \in 1..Len(pattern) + 1 /\ n \in 1..Len(name) + 1
  /\ starP \in 0..Len(pattern) + 1 /\ starN \in 0..Len(name) + 1
  /\ starP > 0 => pattern[starP - 1] = Star /\ starP <= p /\ starN <= n

Init ==
  /\ pattern \in UpTo(Elements, MaxPattern) /\ name \in UpTo(Chars, MaxName)
  /\ p = 1 /\ n = 1 /\ starP = 0 /\ starN = 0 /\ verdict = "none"

Running == verdict = "none" /\ n <= Len(name)
At(element) == p <= Len(pattern) /\ pattern[p] = element

\* Zero characters first.
SeesStar ==
  /\ Running /\ At(Star)
  /\ p' = p + 1 /\ starP' = p + 1 /\ starN' = n
  /\ UNCHANGED <<pattern, name, n, verdict>>

Accepts ==
  /\ Running /\ p <= Len(pattern) /\ pattern[p] # Star /\ name[n] \in pattern[p]
  /\ p' = p + 1 /\ n' = n + 1
  /\ UNCHANGED <<pattern, name, starP, starN, verdict>>

\* Mutant: the name goes on from where the mismatch was.
FromHere == n + 1

\* The last '*' takes one character more.
OneMore == starN + 1

Mismatch ==
  /\ Running
  /\ p <= Len(pattern) => pattern[p] # Star /\ name[n] \notin pattern[p]
  /\ IF starP = 0 THEN verdict' = "no" /\ UNCHANGED <<p, n, starN>>
                  ELSE p' = starP /\ n' = OneMore /\ starN' = OneMore /\ UNCHANGED verdict
  /\ UNCHANGED <<pattern, name, starP>>

\* Mutant: the pattern has to be at its end, too.
NothingLeft(from) == from > Len(pattern)

\* What is left of the pattern is all '*'.
OnlyStars(from) == \A i \in from..Len(pattern) : pattern[i] = Star

Finish ==
  /\ verdict = "none" /\ n > Len(name)
  /\ verdict' = IF OnlyStars(p) THEN "yes" ELSE "no"
  /\ UNCHANGED <<pattern, name, p, n, starP, starN>>

Next == SeesStar \/ Accepts \/ Mismatch \/ Finish
Spec == Init /\ [][Next]_vars

-----------------------------------------------------------------------------
\* Which positions match what is left of the name, element by element: the definition of
\* the pattern's language.
Language ==
  LET M[i \in 1..Len(pattern) + 1, j \in 1..Len(name) + 1] ==
        IF i > Len(pattern) THEN j > Len(name)
        ELSE IF pattern[i] = Star THEN M[i + 1, j] \/ (j <= Len(name) /\ M[i, j + 1])
        ELSE j <= Len(name) /\ name[j] \in pattern[i] /\ M[i + 1, j + 1]
  IN  M[1, 1]

\* Going back to the last '*' alone, never to one before, loses no match and finds none
\* that there is not (match_component).
VerdictTrue == verdict # "none" => (verdict = "yes") = Language
=============================================================================
