----------------------------- MODULE CallGraph ------------------------------
(***************************************************************************)
(* The walk of the call graph, CallGraph::walk in Analysis/Utility.h, with *)
(* the post-order callback of ModuleAllocation: a function is allocated    *)
(* when all it calls was, and a call counts as a buffer of the size of its *)
(* callee's memory (Allocation.cpp:357-363).  ModuleMembarAnalysis walks   *)
(* the same way and reads its callees' summaries.                          *)
(***************************************************************************)
EXTENDS Naturals, Sequences

CONSTANTS
  Funcs,      \* the functions of the module
  Graphs,     \* the call graphs: the calls of every function, in order
  Sizes,      \* amounts of shared memory
  MaxDepth    \* bound: the recursion depth the process survives

ASSUME GraphsAssumption == \A g \in Graphs : g \in [Funcs -> Seq(Funcs)]
ASSUME SizesAssumption == Sizes \subseteq Nat
ASSUME MaxDepthAssumption == MaxDepth \in Nat \ {0}

VARIABLES
  calls,      \* graph; it never changes
  own,        \* the memory of a function's own buffers; it never changes
  walked,     \* the roots walk() has begun with
  stack,      \* the active calls of doWalk: a function and its next edge
  visited,    \* the set that doWalk tests and erases from
  done,       \* the keys of funcMap
  size        \* sharedMemorySize of the functions in funcMap

cgVars == <<calls, own, walked, stack, visited, done, size>>

Callees(f) == {calls[f][i] : i \in 1 .. Len(calls[f])}

\* build(): a root is a function that no function calls.
Roots == {f \in Funcs : \A g \in Funcs : f \notin Callees(g)}

Frame(f, i) == [fn |-> f, next |-> i]

Top == stack[Len(stack)]

CallGraphInit ==
  /\ calls \in Graphs
  /\ own \in [Funcs -> Sizes]
  /\ walked = {}
  /\ stack = <<>>
  /\ visited = {}
  /\ done = {}
  /\ size = [f \in Funcs |-> 0]

\* The next iteration of the loop of walk().
WalkRoot(f) ==
  /\ stack = <<>>
  /\ f \in Roots \ walked
  /\ f \notin visited
  /\ walked' = walked \cup {f}
  /\ stack' = <<Frame(f, 1)>>
  /\ UNCHANGED <<calls, own, visited, done, size>>

\* The loop over the edges of the function at the top is over.
AfterEdges == Top.next > Len(calls[Top.fn])

\* doWalk recurses into the next callee.  Were the callee in `visited` it would
\* report a cycle, but nothing ever inserts into that set.
EnterCallee ==
  /\ stack # <<>>
  /\ Top.next <= Len(calls[Top.fn])
  /\ Len(stack) < MaxDepth
  /\ calls[Top.fn][Top.next] \notin visited
  /\ stack' = Append([stack EXCEPT ![Len(stack)] = Frame(Top.fn, Top.next + 1)],
                     Frame(calls[Top.fn][Top.next], 1))
  /\ UNCHANGED <<calls, own, walked, visited, done, size>>

\* What the buffers of a function end at or below: its own and a virtual buffer
\* for every call (module Allocation, property Placed).
Need(f) == {own[f]} \cup {size[g] : g \in Callees(f)}

\* The post-order callback, for a function that is not in funcMap yet.
Update(f) ==
  IF f \in done
  THEN UNCHANGED <<done, size>>
  ELSE /\ done' = done \cup {f}
       /\ \E s \in Sizes :
            /\ \A m \in Need(f) : m <= s
            /\ size' = [size EXCEPT ![f] = s]

\* doWalk returns.
Return ==
  /\ visited' = visited \ {Top.fn}
  /\ stack' = SubSeq(stack, 1, Len(stack) - 1)
  /\ UNCHANGED <<calls, own, walked>>

\* All edges are done: update the node and return.
LeaveFunction ==
  /\ stack # <<>>
  /\ AfterEdges
  /\ Update(Top.fn)
  /\ Return

CallGraphNext ==
  \/ \E f \in Funcs : WalkRoot(f)
  \/ EnterCallee
  \/ LeaveFunction

CallGraphSpec == CallGraphInit /\ [][CallGraphNext]_cgVars

Walked == walked = Roots /\ stack = <<>>
-----------------------------------------------------------------------------
CallGraphTypeOK ==
  /\ calls \in [Funcs -> Seq(Funcs)]
  /\ own \in [Funcs -> Nat]
  /\ walked \subseteq Funcs
  /\ stack \in Seq([fn : Funcs, next : Nat \ {0}])
  /\ visited \subseteq Funcs
  /\ done \subseteq Funcs
  /\ size \in [Funcs -> Nat]

(***************************************************************************)
(* A function enters funcMap after everything it calls, through however    *)
(* many paths it is reached: Allocation.cpp:360 takes the address of       *)
(* funcAllocMap[callee] while its caller's own entry is being filled in,   *)
(* which an insertion could move, and Membar.cpp:126 takes a summary that  *)
(* is not there for an empty one.                                          *)
(***************************************************************************)
CalleesFirst == \A f \in done : Callees(f) \subseteq done

(***************************************************************************)
(* A caller's memory has room for each of its callees', at every level     *)
(* (the virtual buffer of Allocation.cpp:357-363).                         *)
(***************************************************************************)
SizesNested == \A f \in done : \A g \in Callees(f) : size[g] <= size[f]

(***************************************************************************)
(* getSharedMemorySize looks at the roots only (Allocation.h:259-266): no  *)
(* function, at any depth, needs more than some root, and every function   *)
(* was allocated.                                                          *)
(***************************************************************************)
RootsSuffice == Walked =>
  \A f \in Funcs : f \in done /\ \E r \in Roots : size[f] <= size[r]
-----------------------------------------------------------------------------
\* The edges an active call is past lead to functions that are in funcMap, the
\* one under way excepted.
EdgesDone ==
  \A k \in 1 .. Len(stack) :
    /\ stack[k].next <= Len(calls[stack[k].fn]) + 1
    /\ \A j \in 1 .. stack[k].next - 1 :
         \/ calls[stack[k].fn][j] \in done
         \/ /\ j = stack[k].next - 1 /\ k < Len(stack)
            /\ stack[k + 1].fn = calls[stack[k].fn][j]

(***************************************************************************)
(* At every point of the recursion of doWalk (Utility.h:366-392): what     *)
(* makes the post-order work for shared callees.                           *)
(***************************************************************************)
CallGraphInv == CallGraphTypeOK /\ EdgesDone /\ CalleesFirst /\ SizesNested
=============================================================================
