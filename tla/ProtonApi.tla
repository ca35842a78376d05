----------------------------- MODULE ProtonApi ------------------------------
(***************************************************************************)
(* Proton as a Python program uses it: the functions of profile.py and the *)
(* scopes of scope.py, on top of the session manager.  The program nests   *)
(* its scopes properly in every thread; `rules` says what else it keeps    *)
(* to, so that a property can tell what a program has to know.             *)
(***************************************************************************)
EXTENDS SessionManager

CONSTANTS
  Threads,
  RuleSets    \* the sets of rules, of RuleNames, a program may keep to

RuleNames == {"known backend", "live session", "outside scopes", "one thread",
              "no one else"}

ASSUME RulesAssumption == RuleSets \subseteq SUBSET RuleNames
ASSUME ThreadsAssumption == Threads # {}

VARIABLES
  rules,        \* the rules this program keeps to
  profilingOn,  \* flags.profiling_on
  blocks,       \* thread -> the scopes it is in, outermost first
  local,        \* thread -> _local.scopes
  pyRaised      \* the error the last call raised in Python itself

pyVars == <<rules, profilingOn, blocks, local, pyRaised>>
allVars == <<vars, pyVars>>

\* How a scope is written: `with proton.scope(name)` (and the decorator), or
\* enter_scope(name) ... exit_scope().
Styles == {"with", "call"}

Block(style, name) == [style |-> style, name |-> name, entered |-> profilingOn]

Keeps(rule, condition) == rule \in rules => condition

OutsideScopes == Keeps("outside scopes", \A t \in Threads : blocks[t] = <<>>)

PyInit ==
  /\ Init
  /\ rules \in RuleSets
  /\ profilingOn = FALSE
  /\ blocks = [t \in Threads |-> <<>>]
  /\ local = [t \in Threads |-> <<>>]
  /\ pyRaised = "nothing"

Returns == pyRaised' = "nothing"

-----------------------------------------------------------------------------
PyStart(path, backend) ==
  /\ OutsideScopes
  /\ Keeps("known backend", backend \in Profilers)
  /\ profilingOn' = TRUE
  /\ Start(path, backend)
  /\ Returns
  /\ UNCHANGED <<blocks, local>>

PyActivate(i) ==
  /\ OutsideScopes
  /\ Keeps("live session", Live(i))
  /\ Activate(i)
  /\ Returns
  /\ UNCHANGED <<profilingOn, blocks, local>>

PyDeactivate(i) ==
  /\ OutsideScopes
  /\ Deactivate(i)
  /\ Returns
  /\ UNCHANGED <<profilingOn, blocks, local>>

\* finalize(session) leaves the flag on, finalize() turns it off.
PyFinalize(i) ==
  /\ OutsideScopes
  /\ Keeps("no one else",
           Live(i) => ActiveOf(sessions[i].profiler) \subseteq {i})
  /\ Finalize(i)
  /\ Returns
  /\ UNCHANGED <<profilingOn, blocks, local>>

PyFinalizeAll ==
  /\ OutsideScopes
  /\ profilingOn' = FALSE
  /\ FinalizeAll
  /\ Returns
  /\ UNCHANGED <<blocks, local>>

-----------------------------------------------------------------------------
\* scope.__enter__, and enter_scope.
Enter(t, style, name) ==
  /\ Len(blocks[t]) < MaxDepth
  /\ Keeps("one thread", \A u \in Threads \ {t} : blocks[u] = <<>>)
  /\ blocks' = [blocks EXCEPT ![t] = Append(@, Block(style, name))]
  /\ IF profilingOn THEN EnterScope(name) ELSE Nothing
  /\ local' = IF profilingOn /\ style = "call"
              THEN [local EXCEPT ![t] = Append(@, name)] ELSE local
  /\ Returns
  /\ UNCHANGED profilingOn

Innermost(t) == blocks[t][Len(blocks[t])]

\* scope.__exit__ uses the _id that __enter__ has set, had profiling been on.
ExitWith(t) ==
  /\ Innermost(t).style = "with"
  /\ \/ ~profilingOn /\ Nothing /\ Returns
     \/ profilingOn /\ Innermost(t).entered /\ ExitScope(Innermost(t).name) /\ Returns
     \/ /\ profilingOn /\ ~Innermost(t).entered
        /\ Nothing
        /\ pyRaised' = "AttributeError"
  /\ UNCHANGED local

\* exit_scope takes the last of _local.scopes, whatever it is.
ExitCall(t) ==
  /\ Innermost(t).style = "call"
  /\ \/ ~profilingOn /\ Nothing /\ Returns /\ UNCHANGED local
     \/ /\ profilingOn /\ local[t] # <<>>
        /\ ExitScope(local[t][Len(local[t])])
        /\ local' = [local EXCEPT ![t] = SubSeq(@, 1, Len(@) - 1)]
        /\ Returns
     \/ /\ profilingOn /\ local[t] = <<>>
        /\ Nothing
        /\ pyRaised' = "IndexError"
        /\ UNCHANGED local

Exit(t) ==
  /\ blocks[t] # <<>>
  /\ ExitWith(t) \/ ExitCall(t)
  /\ blocks' = [blocks EXCEPT ![t] = SubSeq(@, 1, Len(@) - 1)]
  /\ UNCHANGED profilingOn

PyNext ==
  /\ ~crashed
  /\ UNCHANGED rules
  /\ \/ \E path \in Paths, backend \in Backends : PyStart(path, backend)
     \/ \E i \in SessionIds : PyActivate(i) \/ PyDeactivate(i) \/ PyFinalize(i)
     \/ PyFinalizeAll
     \/ \E t \in Threads, style \in Styles, name \in Names : Enter(t, style, name)
     \/ \E t \in Threads : Exit(t)

PySpec == PyInit /\ [][PyNext]_allVars
-----------------------------------------------------------------------------
\* The program keeps to every rule.
Lawful == rules = RuleNames

(***************************************************************************)
(* No call of profile.py dereferences a session that is not there          *)
(* (activateSessionImpl, Session.cpp:78-85).                               *)
(***************************************************************************)
NoCrash == Lawful => ~crashed

(***************************************************************************)
(* Leaving a scope that was entered never raises, wherever a program       *)
(* starts, skips and resumes profiling outside its scopes.                 *)
(***************************************************************************)
ScopesExitCleanly ==
  Lawful =>
    /\ raised \notin {"Context stack is empty", "Context stack is not balanced"}
    /\ pyRaised = "nothing"

\* Only thread t may have a scope open.
Alone(t) == \A u \in Threads \ {t} : blocks[u] = <<>>

NamesOf(s) == [k \in 1 .. Len(s) |-> s[k].name]

(***************************************************************************)
(* A shadow context source "shadows the stack with user-defined scopes"    *)
(* (Shadow.h): the profiler of an active session runs, and what the        *)
(* session attributes an operation to is where the program is, however     *)
(* often it was deactivated in between.                                    *)
(***************************************************************************)
ContextIsProgram ==
  Lawful =>
    \A i \in SessionIds : activeSessions[i] =>
      /\ started[sessions[i].profiler]
      /\ \E t \in Threads : Alone(t) /\ contexts[i] = NamesOf(blocks[t])
=============================================================================
