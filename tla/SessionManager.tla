--------------------------- MODULE SessionManager ---------------------------
(***************************************************************************)
(* Proton's session manager (csrc/lib/Session/Session.cpp), with the state *)
(* its calls keep elsewhere: what a profiler is registered to yield data   *)
(* to (Profiler.h), how often an interface is registered, and the stacks   *)
(* of the shadow context sources (Shadow.cpp).                             *)
(*                                                                         *)
(* The bindings of Proton.cpp hold the interpreter lock from start to end, *)
(* so each of them is one step.                                            *)
(***************************************************************************)
EXTENDS Naturals, Sequences, FiniteSets

CONSTANTS
  Paths,        \* what sessions are named by
  Names,        \* names of scopes
  Profilers,    \* the profilers that exist: singletons, shared by sessions
  Backends,     \* the profiler names a caller may pass
  MaxSessions,  \* bound: the sessions ever started
  MaxDepth,     \* bound: the depth of a context stack
  NoId,         \* a path that is not in sessionPaths
  Absent        \* a session that is not in the map `sessions`

SessionIds == 0 .. MaxSessions - 1

ASSUME BackendsAssumption == Profilers \subseteq Backends
ASSUME BoundsAssumption == MaxSessions \in Nat \ {0} /\ MaxDepth \in Nat
ASSUME NoIdAssumption == NoId \notin Nat
ASSUME AbsentAssumption ==
  Absent \notin [path : Paths, profiler : Profilers]

VARIABLES
  nextSessionId,
  sessionPaths,    \* path -> id
  sessions,        \* id -> the session
  activeSessions,  \* id -> active
  counts,          \* how often a session's context source and data are
                   \* registered (scopeInterfaceCounts, opInterfaceCounts)
  opCounts,        \* how often a profiler is, in opInterfaceCounts
  started,         \* Profiler::isInitialized
  dataSet,         \* Profiler::dataSet, a session standing for its data
  contexts,        \* id -> contextStack of its shadow context source
  raised,          \* the error the last call raised
  crashed          \* a session that is not there was dereferenced

registry == <<nextSessionId, sessionPaths, sessions>>
activity == <<activeSessions, counts, opCounts, dataSet>>
vars == <<registry, activity, started, contexts, raised, crashed>>

Session(path, p) == [path |-> path, profiler |-> p]

Live(i) == sessions[i] # Absent

Init ==
  /\ nextSessionId = 0
  /\ sessionPaths = [path \in Paths |-> NoId]
  /\ sessions = [i \in SessionIds |-> Absent]
  /\ activeSessions = [i \in SessionIds |-> FALSE]
  /\ counts = [i \in SessionIds |-> 0]
  /\ opCounts = [p \in Profilers |-> 0]
  /\ started = [p \in Profilers |-> FALSE]
  /\ dataSet = [p \in Profilers |-> {}]
  /\ contexts = [i \in SessionIds |-> <<>>]
  /\ raised = "nothing"
  /\ crashed = FALSE

Crash == crashed' = TRUE /\ UNCHANGED <<registry, activity, started, contexts, raised>>

Nothing ==
  /\ raised' = "nothing"
  /\ UNCHANGED <<registry, activity, started, contexts, crashed>>

-----------------------------------------------------------------------------
\* Session::activate of session i, which runs profiler p, and the registration
\* of its interfaces.
TurnOn(i, p) ==
  /\ activeSessions' = [activeSessions EXCEPT ![i] = TRUE]
  /\ started' = [started EXCEPT ![p] = TRUE]
  /\ dataSet' = [dataSet EXCEPT ![p] = @ \cup {i}]
  /\ counts' = [counts EXCEPT ![i] = @ + 1]
  /\ opCounts' = [opCounts EXCEPT ![p] = @ + 1]

\* Mutant: the interfaces are unregistered without asking for `active`.
TurnOffAlways(S) ==
  /\ activeSessions' = [i \in SessionIds |-> activeSessions[i] /\ i \notin S]
  /\ dataSet' = [p \in Profilers |-> dataSet[p] \ S]
  /\ counts' = [i \in SessionIds |-> IF i \in S THEN counts[i] - 1 ELSE counts[i]]
  /\ opCounts' = [p \in Profilers |-> opCounts[p] - Cardinality(dataSet[p] \cap S)]

\* deActivateSessionImpl of the active sessions of S.
TurnOff(S) ==
  LET On(p) == {i \in S : activeSessions[i] /\ sessions[i].profiler = p}
  IN  /\ activeSessions' = [i \in SessionIds |-> activeSessions[i] /\ i \notin S]
      /\ dataSet' = [p \in Profilers |-> dataSet[p] \ On(p)]
      /\ counts' = [i \in SessionIds |->
                      IF i \in S /\ activeSessions[i] THEN counts[i] - 1 ELSE counts[i]]
      /\ opCounts' = [p \in Profilers |-> opCounts[p] - Cardinality(On(p))]

\* activateSession: sessions[i] of a session that is not there is a null pointer.
Activate(i) ==
  \/ activeSessions[i] /\ Nothing
  \/ ~activeSessions[i] /\ ~Live(i) /\ Crash
  \/ /\ ~activeSessions[i] /\ Live(i)
     /\ TurnOn(i, sessions[i].profiler)
     /\ raised' = "nothing"
     /\ UNCHANGED <<registry, contexts, crashed>>

Deactivate(i) ==
  /\ TurnOff({i})
  /\ raised' = "nothing"
  /\ UNCHANGED <<registry, started, contexts, crashed>>

\* libproton.start: addSession, then activateSession.  A new session takes its
\* id and its path before makeSession looks for the profiler.
StartKnown(path) == sessionPaths[path] # NoId /\ Activate(sessionPaths[path])

StartNew(path, p) ==
  /\ sessionPaths[path] = NoId
  /\ nextSessionId < MaxSessions
  /\ p \in Profilers
  /\ nextSessionId' = nextSessionId + 1
  /\ sessionPaths' = [sessionPaths EXCEPT ![path] = nextSessionId]
  /\ sessions' = [sessions EXCEPT ![nextSessionId] = Session(path, p)]
  /\ TurnOn(nextSessionId, p)
  /\ raised' = "nothing"
  /\ UNCHANGED <<contexts, crashed>>

StartFails(path, backend) ==
  /\ sessionPaths[path] = NoId
  /\ nextSessionId < MaxSessions
  /\ backend \notin Profilers
  /\ nextSessionId' = nextSessionId + 1
  /\ sessionPaths' = [sessionPaths EXCEPT ![path] = nextSessionId]
  /\ raised' = "Unknown profiler"
  /\ UNCHANGED <<sessions, activity, started, contexts, crashed>>

Start(path, backend) ==
  \/ StartKnown(path)
  \/ StartNew(path, backend)
  \/ StartFails(path, backend)

\* Mutant: the path stays in sessionPaths.
RemoveKeepPath(S) ==
  /\ sessions' = [i \in SessionIds |-> IF i \in S THEN Absent ELSE sessions[i]]
  /\ contexts' = [i \in SessionIds |-> IF i \in S THEN <<>> ELSE contexts[i]]
  /\ UNCHANGED <<nextSessionId, sessionPaths>>

\* removeSession of the sessions of S.
Remove(S) ==
  /\ sessions' = [i \in SessionIds |-> IF i \in S THEN Absent ELSE sessions[i]]
  /\ sessionPaths' = [path \in Paths |->
       IF \E i \in S : sessions[i].path = path THEN NoId ELSE sessionPaths[path]]
  /\ contexts' = [i \in SessionIds |-> IF i \in S THEN <<>> ELSE contexts[i]]
  /\ UNCHANGED nextSessionId

\* Mutant: a session is finalized without being deactivated.
FinishActive(S) ==
  /\ started' = [p \in Profilers |->
                   started[p] /\ \A i \in S : sessions[i].profiler # p]
  /\ Remove(S)
  /\ raised' = "nothing"
  /\ UNCHANGED <<activity, crashed>>

\* Session::finalize stops the profiler, whoever else uses it.
Finish(S) ==
  /\ TurnOff(S)
  /\ started' = [p \in Profilers |->
                   started[p] /\ \A i \in S : sessions[i].profiler # p]
  /\ Remove(S)
  /\ raised' = "nothing"
  /\ UNCHANGED crashed

Finalize(i) == IF Live(i) THEN Finish({i}) ELSE Nothing

FinalizeAll == Finish({i \in SessionIds : Live(i)})

-----------------------------------------------------------------------------
\* Mutant: the counters are not looked at.
RegisteredEver == {i \in SessionIds : Live(i)}

Registered == {i \in SessionIds : counts[i] > 0}

EnterScope(name) ==
  /\ \A i \in Registered : Len(contexts[i]) < MaxDepth
  /\ contexts' = [i \in SessionIds |->
       IF i \in Registered THEN Append(contexts[i], name) ELSE contexts[i]]
  /\ raised' = "nothing"
  /\ UNCHANGED <<registry, activity, started, crashed>>

\* Mutant: the outermost scope is compared.
BalancedFront(i, name) == contexts[i] # <<>> /\ contexts[i][1] = name

\* ShadowContextSource::exitScope checks the name and not the id of the scope.
Balanced(i, name) == contexts[i] # <<>> /\ contexts[i][Len(contexts[i])] = name

\* Mutant: the stack is left as it is.
PopNothing(S) == UNCHANGED contexts

Pop(S) ==
  contexts' = [i \in SessionIds |->
    IF i \in S THEN SubSeq(contexts[i], 1, Len(contexts[i]) - 1) ELSE contexts[i]]

\* The interfaces are visited in the order of their addresses: the first that
\* throws leaves those after it as they are.
ExitScope(name) ==
  LET fine == {i \in Registered : Balanced(i, name)}
  IN  /\ \/ /\ fine = Registered
            /\ Pop(fine)
            /\ raised' = "nothing"
         \/ /\ fine # Registered
            /\ \E before \in SUBSET fine : Pop(before)
            /\ \E i \in Registered \ fine :
                 raised' = IF contexts[i] = <<>> THEN "Context stack is empty"
                           ELSE "Context stack is not balanced"
      /\ UNCHANGED <<registry, activity, started, crashed>>

-----------------------------------------------------------------------------
\* Any calls of the bindings, in any order.
Next ==
  /\ ~crashed
  /\ \/ \E path \in Paths, backend \in Backends : Start(path, backend)
     \/ \E i \in SessionIds : Activate(i) \/ Deactivate(i) \/ Finalize(i)
     \/ FinalizeAll
     \/ \E name \in Names : EnterScope(name) \/ ExitScope(name)

Spec == Init /\ [][Next]_vars
-----------------------------------------------------------------------------
TypeOK ==
  /\ nextSessionId \in 0 .. MaxSessions
  /\ sessionPaths \in [Paths -> SessionIds \cup {NoId}]
  /\ sessions \in [SessionIds -> [path : Paths, profiler : Profilers] \cup {Absent}]
  /\ activeSessions \in [SessionIds -> BOOLEAN]
  /\ counts \in [SessionIds -> Nat]
  /\ opCounts \in [Profilers -> Nat]
  /\ started \in [Profilers -> BOOLEAN]
  /\ dataSet \in [Profilers -> SUBSET SessionIds]
  /\ contexts \in [SessionIds -> Seq(Names)]
  /\ raised \in {"nothing", "Unknown profiler", "Context stack is empty",
                 "Context stack is not balanced"}
  /\ crashed \in BOOLEAN

ActiveOf(p) ==
  {i \in SessionIds : activeSessions[i] /\ sessions[i].profiler = p}

(***************************************************************************)
(* An active session is there (addMetrics and deActivateSessionImpl        *)
(* dereference it unasked), and the session that has a path is the one the *)
(* path leads to, so that a second start of a path finds it.               *)
(***************************************************************************)
ActiveIsLive ==
  /\ \A i \in SessionIds : activeSessions[i] => Live(i)
  /\ \A i \in SessionIds : Live(i) => sessionPaths[sessions[i].path] = i

(***************************************************************************)
(* What the manager calls active is exactly what the profilers yield data  *)
(* to and what scopes and ops are told to: the three registrations of      *)
(* activateSessionImpl never come apart, whatever the order of the calls.  *)
(* The counters are unsigned and keyed by addresses that outlive the       *)
(* object: one that is wrong means a call on memory that was given back.   *)
(***************************************************************************)
ActiveIsRegistered ==
  /\ \A p \in Profilers : dataSet[p] = ActiveOf(p)
  /\ \A p \in Profilers : opCounts[p] = Cardinality(dataSet[p])
  /\ \A i \in SessionIds : counts[i] = IF activeSessions[i] THEN 1 ELSE 0

(***************************************************************************)
(* An id is given once: sessions at or above nextSessionId are absent, and *)
(* a path leads below it.                                                  *)
(***************************************************************************)
IdsAreFresh ==
  /\ \A i \in SessionIds : i >= nextSessionId => ~Live(i)
  /\ \A path \in Paths : sessionPaths[path] # NoId => sessionPaths[path] < nextSessionId

SessionInv == TypeOK /\ ActiveIsLive /\ ActiveIsRegistered /\ IdsAreFresh

(***************************************************************************)
(* A finalized session stays finalized, and is never written to again: its *)
(* data was dumped and destroyed.                                          *)
(***************************************************************************)
FinalizedForGood ==
  [][\A i \in SessionIds : i < nextSessionId /\ ~Live(i) =>
       /\ ~Live(i)'
       /\ \A p \in Profilers : i \notin dataSet'[p]]_vars

(***************************************************************************)
(* "No more data will be recorded" (profile.py:92-94): what happens while  *)
(* a session is deactivated does not reach its contexts.                   *)
(***************************************************************************)
SkippedIsSkipped ==
  [][\A i \in SessionIds : ~activeSessions[i] =>
       contexts'[i] = contexts[i] \/ ~Live(i)']_vars
=============================================================================
