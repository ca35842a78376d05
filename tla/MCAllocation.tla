---------------------------- MODULE MCAllocation ----------------------------
(* Kernels whose buffers are any combination of live ranges over a few      *)
(* operation ids, for all sizes and alignments of up to three buffers and   *)
(* for size profiles of five in which a bump can create a conflict that was *)
(* not there; and every acyclic call graph of three functions with up to    *)
(* two calls each, shared callees and repeated calls included, the buffer   *)
(* of a caller being live over its first call and not over its second.      *)
EXTENDS ModuleAllocation

CONSTANTS MCLastOp, MCSizes, MCAligns, MCProfiles

MCNothing == {Nothing}

Ranges == {r \in (0 .. MCLastOp) \X (0 .. MCLastOp) : r[1] < r[2]}

MCSmall ==
  UNION {[n : {k}, maxId : {MCLastOp}, live : [1 .. k -> Ranges],
          size : [1 .. k -> MCSizes], align : [1 .. k -> MCAligns]] : k \in 1 .. 3}

MCFive ==
  UNION {[n : {5}, maxId : {MCLastOp}, live : [1 .. 5 -> Ranges],
          size : {p.size}, align : {p.align}] : p \in MCProfiles}

MCProfilesDef ==
  {[size |-> <<2, 2, 2, 1, 2>>, align |-> <<1, 1, 1, 1, 1>>],
   [size |-> <<3, 2, 2, 3, 2>>, align |-> <<1, 2, 1, 2, 4>>]}

\* A function with at most one buffer, live over the first of its two calls.
Own(s) == IF s = 0 THEN [Nothing EXCEPT !.maxId = 3]
          ELSE [n |-> 1, maxId |-> 3, live |-> <<<<0, 2>>>>, size |-> <<s>>, align |-> <<1>>]

Module(g, b) == [calls |-> g, buffers |-> b, callIds |-> [f \in Funcs |-> <<1, 2>>]]

\* The kernel calls functions that need no shared memory.  Its buffers are in
\* the order of the program: the first one's range starts at the first operation.
MCKernels ==
  {Module(<<<<>>, <<1>>, <<2>>>>, <<Own(0), Own(0), b>>) :
     b \in {i \in MCSmall \cup MCFive : i.live[1][1] = 0}}

UpTo2(S) == {<<>>} \cup {<<f>> : f \in S} \cup {<<f, g>> : f, g \in S}

MCAcyclic ==
  {g \in [Funcs -> UpTo2(Funcs)] :
     \A f \in Funcs : \A i \in 1 .. Len(g[f]) : g[f][i] < f}

MCCallers ==
  {Module(g, [f \in Funcs |-> Own(s[f])]) : g \in MCAcyclic, s \in [Funcs -> 0 .. 2]}

MCModules == MCKernels \cup MCCallers

MCGraphs == MCAcyclic

MCSizesOfMemory == 0 .. 30
=============================================================================
