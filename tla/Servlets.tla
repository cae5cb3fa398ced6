------------------------------ MODULE Servlets ------------------------------
(***************************************************************************)
(* ServletDispatch (http/http_servlet.cc): the exact map servlets_ and the *)
(* vector globals_ of patterns under one read-write lock, changed by any   *)
(* thread while requests are dispatched.  A servlet is the number of the   *)
(* call that registered it; 0 is the default one, NoFoundServlet.          *)
(***************************************************************************)
EXTENDS Naturals, Sequences, FiniteSets, SequencesExt, FiniteSetsExt

CONSTANTS
  Uris,     \* paths that servlets are registered for
  Patterns, \* patterns that global servlets are registered for
  Matches   \* fnmatch: the paths each pattern matches

ASSUME ServletsAssumption == DOMAIN Matches = Patterns

VARIABLES
  servlets, \* servlets_: servlet per path, 0 when there is none
  globals,  \* globals_
  calls,    \* calls made so far
  latest,   \* the servlet last registered for a pattern
  crashed   \* undefined behaviour was met

dispatchVars == <<servlets, globals, calls, latest, crashed>>

InitServlets ==
  /\ servlets = [u \in Uris |-> 0]
  /\ globals = <<>>
  /\ calls = 0
  /\ latest = [g \in Patterns |-> 0]
  /\ crashed = FALSE

Admin == ~crashed /\ calls' = calls + 1

addServlet(u) ==
  /\ Admin
  /\ servlets' = [servlets EXCEPT ![u] = calls + 1]
  /\ UNCHANGED <<globals, latest, crashed>>

delServlet(u) ==
  /\ Admin
  /\ servlets' = [servlets EXCEPT ![u] = 0]
  /\ UNCHANGED <<globals, latest, crashed>>

\* Where a pattern is in globals_.
At(g) == {i \in DOMAIN globals : globals[i].uri = g}

\* Mutant of Erased: the old entry stays.
NotErased(g) == globals

\* globals_ without the entry of the pattern.
Erased(g) == IF At(g) = {} THEN globals ELSE RemoveAt(globals, Min(At(g)))

\* The loop erases the entry and goes on from behind it.  When it was the last one
\* the iterator steps past end(), which the loop then never meets.
addGlobalServlet(g) ==
  /\ Admin
  /\ crashed' = (Len(globals) \in At(g))
  /\ globals' = Append(Erased(g), [uri |-> g, servlet |-> calls + 1])
  /\ latest' = [latest EXCEPT ![g] = calls + 1]
  /\ UNCHANGED servlets

delGlobalServlet(g) ==
  /\ Admin
  /\ globals' = Erased(g)
  /\ UNCHANGED <<servlets, latest, crashed>>

\* The exact path first, then the first pattern that matches, then the default.
getMatchServlet(u) ==
  LET matching == {i \in DOMAIN globals : u \in Matches[globals[i].uri]} IN
  IF u \in Uris /\ servlets[u] # 0 THEN servlets[u]
  ELSE IF matching # {} THEN globals[Min(matching)].servlet
  ELSE 0

AdminStep ==
  \/ \E u \in Uris : addServlet(u) \/ delServlet(u)
  \/ \E g \in Patterns : addGlobalServlet(g) \/ delGlobalServlet(g)

\* Whatever calls register and remove patterns, globals_ holds a pattern at most
\* once, with the servlet registered last: a replaced servlet answers no more.
GlobalsCurrent ==
  ~crashed =>
    /\ \A i \in DOMAIN globals : globals[i].servlet = latest[globals[i].uri]
    /\ \A i, j \in DOMAIN globals : globals[i].uri = globals[j].uri => i = j
=============================================================================
