-------------------------- MODULE ModuleAllocation --------------------------
(***************************************************************************)
(* ModuleAllocation (Analysis/Allocation.h): the walk of the call graph    *)
(* with the placement of every function's buffers in it.  The post-order   *)
(* callback runs AllocationAnalysis on a function that is not in funcMap   *)
(* yet; a call there is one more buffer, as large as all the memory of its *)
(* callee, which must be known by then.                                    *)
(***************************************************************************)
EXTENDS CallGraph, Allocation

CONSTANTS
  Modules,      \* the modules: calls, own buffers and where calls stand
  ScratchAlign, \* scratchAlignment
  NoFunction

\* What a module is: every call has an operation id of its function.
IsModule(m) ==
  /\ \A f \in Funcs : IsInstance(m.buffers[f])
  /\ \A f \in Funcs : \A i \in 1 .. Len(m.calls[f]) :
       m.callIds[f][i] \in 0 .. m.buffers[f].maxId - 1

ASSUME ModulesAssumption == \A m \in Modules : IsModule(m)
ASSUME ScratchAssumption == ScratchAlign \in Nat \ {0}
ASSUME NoFunctionAssumption == NoFunction \notin Funcs

VARIABLES
  buffers,    \* per function: its own buffers; it never changes
  callIds,    \* per function: the operation ids of its calls; it never changes
  running     \* the function that is being allocated

moduleVars == <<cgVars, vars, buffers, callIds, running>>

\* Mutant: the virtual buffers come from an analysis that ran before the walk.
WithMemoryAlone(f) == <<>>

\* The elements of a set of numbers, in their order.
InOrder(S) == [k \in 1 .. Cardinality(S) |->
                 CHOOSE i \in S : Cardinality({j \in S : j <= i}) = k]

\* maybeAddScratchBuffer: a callee without shared memory needs no buffer.
WithMemory(f) == InOrder({i \in 1 .. Len(calls[f]) : size[calls[f][i]] > 0})

\* Mutant: a virtual buffer has the size of a base address.
InstanceOfBases(f) ==
  LET b == buffers[f]
      v == WithMemory(f)
      n == b.n + Len(v)
      Id(x) == callIds[f][v[x - b.n]]
  IN  [n     |-> n,
       maxId |-> b.maxId,
       live  |-> [x \in 1 .. n |-> IF x <= b.n THEN b.live[x] ELSE <<Id(x), Id(x) + 1>>],
       size  |-> [x \in 1 .. n |-> IF x <= b.n THEN b.size[x] ELSE 1],
       align |-> [x \in 1 .. n |-> IF x <= b.n THEN b.align[x] ELSE ScratchAlign]]

\* What getValuesAndSizes and resolveLiveness find in f: its own buffers, and a
\* virtual buffer for every call, live while the call runs.
InstanceOf(f) ==
  LET b == buffers[f]
      v == WithMemory(f)
      n == b.n + Len(v)
      Id(x) == callIds[f][v[x - b.n]]
  IN  [n     |-> n,
       maxId |-> b.maxId,
       live  |-> [x \in 1 .. n |-> IF x <= b.n THEN b.live[x] ELSE <<Id(x), Id(x) + 1>>],
       size  |-> [x \in 1 .. n |-> IF x <= b.n THEN b.size[x]
                                   ELSE size[calls[f][v[x - b.n]]]],
       align |-> [x \in 1 .. n |-> IF x <= b.n THEN b.align[x] ELSE ScratchAlign]]

\* No function is being allocated.
Nothing == [n |-> 0, maxId |-> 0, live |-> <<>>, size |-> <<>>, align |-> <<>>]

\* AllocationAnalysis has just been constructed for the instance p.
Fresh(p) ==
  /\ inst' = p
  /\ phase' = "starts"
  /\ offset' = [x \in 1 .. p.n |-> 0]
  /\ triples' = {Triple(0, <<0, p.maxId>>, 0)}
  /\ stamp' = 1
  /\ left' = 1 .. p.n
  /\ edges' = {}
  /\ colors' = [x \in 1 .. p.n |-> 0]
  /\ next' = 1
  /\ smem' = 0

\* The least memory a function can do with: its largest buffer.
OwnNeed(b) == CHOOSE s \in {0} \cup {b.size[x] : x \in 1 .. b.n} :
                \A x \in 1 .. b.n : b.size[x] <= s

ModuleInit ==
  /\ \E m \in Modules :
       /\ calls = m.calls
       /\ buffers = m.buffers
       /\ callIds = m.callIds
       /\ own = [f \in Funcs |-> OwnNeed(m.buffers[f])]
  /\ CallGraphInit
  /\ inst = Nothing
  /\ Init
  /\ running = NoFunction

WalkStep ==
  /\ (\E f \in Funcs : WalkRoot(f)) \/ EnterCallee
  /\ UNCHANGED <<vars, buffers, callIds, running>>

\* The callback of a node, for a function that try_emplace has just inserted.
BeginFunction ==
  /\ stack # <<>>
  /\ AfterEdges
  /\ Top.fn \notin done
  /\ running # Top.fn
  /\ running' = Top.fn
  /\ Fresh(InstanceOf(Top.fn))
  /\ UNCHANGED <<cgVars, buffers, callIds>>

RunStep ==
  /\ running # NoFunction
  /\ Next
  /\ UNCHANGED <<cgVars, buffers, callIds, running>>

\* The analysis is done: doWalk returns, with the memory of the function known.
EndFunction ==
  /\ running # NoFunction
  /\ phase = "done"
  /\ done' = done \cup {running}
  /\ size' = [size EXCEPT ![running] = smem]
  /\ Return
  /\ running' = NoFunction
  /\ UNCHANGED <<vars, buffers, callIds>>

\* A function that is in funcMap keeps what it has.
SkipFunction ==
  /\ stack # <<>>
  /\ AfterEdges
  /\ Top.fn \in done
  /\ Return
  /\ UNCHANGED <<done, size, vars, buffers, callIds, running>>

ModuleNext ==
  \/ WalkStep
  \/ BeginFunction
  \/ RunStep
  \/ EndFunction
  \/ SkipFunction

\* The walk and the analyses are one thread that nothing blocks.
ModuleSpec == ModuleInit /\ [][ModuleNext]_moduleVars /\ WF_moduleVars(ModuleNext)
-----------------------------------------------------------------------------
(***************************************************************************)
(* Every function is allocated, and so every rerun of the colouring for    *)
(* every function ends: "we will eventually reach a fixed point"           *)
(* (Allocation.cpp:519-520), although a bump can create conflicts that     *)
(* were not there before.                                                  *)
(***************************************************************************)
AllAllocated == <>(Walked /\ done = Funcs)

(***************************************************************************)
(* The walk with real placements is a walk of CallGraph, in which the      *)
(* memory of a function is any amount that holds its largest buffer and    *)
(* each of its callees: the sizes that ModuleAllocation reports can be     *)
(* reasoned about without the placement (Allocation.cpp:357-363).          *)
(***************************************************************************)
ImplementsWalk == CallGraphSpec
=============================================================================
