---------------------------- MODULE MembarKernel ----------------------------
(***************************************************************************)
(* What the barriers of module Membar are for: the kernel they are         *)
(* inserted into.  When the analysis of every function is done, one of the *)
(* functions is executed along any path of its control-flow graph.  The    *)
(* threads of a block run without an order between two barriers, so all    *)
(* the accesses made since the last barrier are pending and race with a    *)
(* conflicting access.                                                     *)
(*                                                                         *)
(* A call is one operation that makes the accesses of its callee's         *)
(* summary; module MembarCalls enters the callee instead.                  *)
(***************************************************************************)
EXTENDS Membar

VARIABLES
  at,         \* <<block, operation>> about to be executed, or Idle
  pend        \* the accesses made since the last barrier

kvars == <<at, pend>>

Idle == <<NoBlock, 0>>

Accesses(op) == IF op.kind = "barrier" THEN {} ELSE AccessesOf(CurInfo(op))

AfterBarrier(p, b, i) == IF <<b, i>> \in bars THEN {} ELSE p
-----------------------------------------------------------------------------
Launch ==
  /\ Done
  /\ at = Idle
  /\ \E f \in 1 .. prog.nfuncs : at' = <<prog.entry[f], 1>>
  /\ pend' = {}

Execute ==
  /\ at # Idle
  /\ at[2] < Terminator(at[1])
  /\ LET op   == OpAt(at[1], at[2])
         here == AfterBarrier(pend, at[1], at[2])
     IN  pend' = IF op.kind = "barrier" THEN {} ELSE here \cup Accesses(op)
  /\ at' = <<at[1], at[2] + 1>>

Branch ==
  /\ at # Idle
  /\ at[2] = Terminator(at[1])
  /\ \E s \in Successors(at[1]) : at' = <<s, 1>>
  /\ pend' = AfterBarrier(pend, at[1], at[2])

Return ==
  /\ at # Idle
  /\ at[2] = Terminator(at[1])
  /\ Successors(at[1]) = {}
  /\ at' = Idle
  /\ pend' = {}

Kernel == Launch \/ Execute \/ Branch \/ Return

KInit == Init /\ at = Idle /\ pend = {}

KNext ==
  \/ Next /\ UNCHANGED kvars
  \/ Kernel /\ UNCHANGED vars

KSpec == KInit /\ [][KNext]_<<vars, kvars>>

\* The pass is one thread that nothing blocks; the kernel may never be run.
KFairSpec == KSpec /\ WF_vars(Next)
-----------------------------------------------------------------------------
KTypeOK ==
  /\ TypeOK
  /\ at \in Position \cup {Idle}
  /\ pend \subseteq (Interval \X {"R", "W"})

(***************************************************************************)
(* Soundness (the promise of Membar.h:85-93): on no path through a         *)
(* function, taken as the pass leaves it, does an operation access a byte  *)
(* of shared memory that conflicts with an access since the last barrier.  *)
(***************************************************************************)
NoRace ==
  (at # Idle /\ at[2] < Terminator(at[1])) =>
    \A x \in AfterBarrier(pend, at[1], at[2]), y \in Accesses(OpAt(at[1], at[2])) :
       ~Race(x, y)

(***************************************************************************)
(* The summary of a function (Membar.h:138-140, "includes all potential    *)
(* buffers after returning") has every access that is still pending on any *)
(* path to a return.                                                       *)
(***************************************************************************)
SummaryCoversReturn ==
  (at # Idle /\ at[2] = Terminator(at[1]) /\ prog.succ[at[1]] = <<>>) =>
    AfterBarrier(pend, at[1], at[2]) \subseteq AccessesOf(funcInfo[prog.fnOf[at[1]]])
-----------------------------------------------------------------------------
(***************************************************************************)
(* Whatever is pending when the kernel reaches a position, along any path, *)
(* was in the BlockInfo with which update() last visited that position     *)
(* (Membar.cpp:47-54), although that visit may be older than the last      *)
(* barrier inserted.                                                       *)
(***************************************************************************)
KernelInv ==
  /\ KTypeOK
  /\ at # Idle =>
       /\ Done
       /\ at[1] \in seen
       /\ AfterBarrier(pend, at[1], at[2]) \subseteq AccessesOf(Before(at[1], at[2]))

(***************************************************************************)
(* The worklist keeps its own invariant (Membar.cpp:42-70) all the while,  *)
(* and with it the kernel never gets ahead of what was analysed.           *)
(***************************************************************************)
MembarInv == AnalysisInv /\ KernelInv
=============================================================================
