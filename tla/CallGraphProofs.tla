-------------------------- MODULE CallGraphProofs ---------------------------
(***************************************************************************)
(* Proofs about the walk of the call graph, for every call graph, cyclic   *)
(* ones included, and every amount of memory.                              *)
(***************************************************************************)
EXTENDS ModuleAllocation, AllocationProofs, SequenceTheorems, FiniteSetTheorems,
        WellFoundedInduction, TLAPS

FrameSet == [fn : Funcs, next : Nat \ {0}]

\* What an active call knows of the edges before its next one.
PastEdges(k) ==
  /\ stack[k].next <= Len(calls[stack[k].fn]) + 1
  /\ \A j \in 1 .. stack[k].next - 1 :
       \/ calls[stack[k].fn][j] \in done
       \/ /\ j = stack[k].next - 1 /\ k < Len(stack)
          /\ stack[k + 1].fn = calls[stack[k].fn][j]

\* The first active call has no past edge (doWalk's loop is at its begin).
LEMMA WalkInitInv == CallGraphInit => CallGraphInv
<1> SUFFICES ASSUME CallGraphInit PROVE CallGraphInv
  OBVIOUS
<1>1. calls \in [Funcs -> Seq(Funcs)]
  BY GraphsAssumption DEF CallGraphInit
<1>2. own \in [Funcs -> Nat] /\ size \in [Funcs -> Nat]
  BY SizesAssumption DEF CallGraphInit
<1>3. stack \in Seq(FrameSet) /\ Len(stack) = 0
  BY EmptySeq DEF CallGraphInit
<1>4. CallGraphTypeOK
  BY <1>1, <1>2, <1>3 DEF CallGraphInit, CallGraphTypeOK, FrameSet
<1>5. EdgesDone
  BY <1>3 DEF EdgesDone
<1>6. CalleesFirst /\ SizesNested
  BY DEF CallGraphInit, CalleesFirst, SizesNested
<1> QED
  BY <1>4, <1>5, <1>6 DEF CallGraphInv

\* Entering the loop of walk() for a root keeps the invariant.
LEMMA WalkRootInv ==
  ASSUME CallGraphInv, NEW f \in Funcs, WalkRoot(f) PROVE CallGraphInv'
<1>1. stack' = <<Frame(f, 1)>> /\ UNCHANGED <<calls, own, visited, done, size>>
  BY DEF WalkRoot
<1>2. Frame(f, 1) \in FrameSet
  BY DEF Frame, FrameSet
<1>3. stack' \in Seq(FrameSet) /\ Len(stack') = 1 /\ stack'[1] = Frame(f, 1)
  BY <1>1, <1>2
<1>4. CallGraphTypeOK'
  BY <1>1, <1>3 DEF CallGraphInv, CallGraphTypeOK, WalkRoot, FrameSet
<1>5. Len(calls[f]) \in Nat
  BY DEF CallGraphInv, CallGraphTypeOK
<1>6. EdgesDone'
  BY <1>1, <1>3, <1>5 DEF EdgesDone, Frame
<1>7. CalleesFirst' /\ SizesNested'
  BY <1>1 DEF CallGraphInv, CalleesFirst, SizesNested, Callees
<1> QED
  BY <1>4, <1>6, <1>7 DEF CallGraphInv

\* The edges before the top frame's next one lead into funcMap.
LEMMA TopEdges ==
  ASSUME CallGraphInv, stack # <<>>
  PROVE  /\ Len(stack) \in Nat \ {0}
         /\ Top \in FrameSet
         /\ Top.fn \in Funcs /\ Top.next \in Nat \ {0}
         /\ calls[Top.fn] \in Seq(Funcs)
         /\ Top.next <= Len(calls[Top.fn]) + 1
         /\ \A j \in 1 .. Top.next - 1 : calls[Top.fn][j] \in done
<1>1. stack \in Seq(FrameSet) /\ calls \in [Funcs -> Seq(Funcs)]
  BY DEF CallGraphInv, CallGraphTypeOK, FrameSet
<1>2. Len(stack) \in Nat \ {0} /\ Len(stack) \in 1 .. Len(stack)
  BY <1>1
<1>3. Top \in FrameSet
  BY <1>1, <1>2 DEF Top
<1>4. Top.fn \in Funcs /\ Top.next \in Nat \ {0} /\ calls[Top.fn] \in Seq(Funcs)
  BY <1>1, <1>3 DEF FrameSet
<1>5. PastEdges(Len(stack))
  BY <1>2 DEF CallGraphInv, EdgesDone, PastEdges
<1>6. /\ Top.next <= Len(calls[Top.fn]) + 1
      /\ \A j \in 1 .. Top.next - 1 : calls[Top.fn][j] \in done
  BY <1>2, <1>5 DEF PastEdges, Top
<1> QED
  BY <1>2, <1>3, <1>4, <1>6

\* Recursing into a callee: the edge taken is the one under way.
LEMMA EnterCalleeInv ==
  ASSUME CallGraphInv, EnterCallee PROVE CallGraphInv'
<1> DEFINE n == Len(stack)
           t == Top
           g == calls[t.fn][t.next]
           s == [stack EXCEPT ![n] = Frame(t.fn, t.next + 1)]
<1>1. /\ stack # <<>> /\ t.next <= Len(calls[t.fn])
      /\ stack' = Append(s, Frame(g, 1))
      /\ UNCHANGED <<calls, own, walked, visited, done, size>>
  BY DEF EnterCallee
<1>2. /\ n \in Nat \ {0} /\ t.fn \in Funcs /\ t.next \in Nat \ {0}
      /\ calls[t.fn] \in Seq(Funcs)
      /\ \A j \in 1 .. t.next - 1 : calls[t.fn][j] \in done
  BY <1>1, TopEdges
<1>3. g \in Funcs
  BY <1>1, <1>2
<1>4. stack \in Seq(FrameSet)
  BY DEF CallGraphInv, CallGraphTypeOK, FrameSet
<1>5. Frame(t.fn, t.next + 1) \in FrameSet /\ Frame(g, 1) \in FrameSet
  BY <1>2, <1>3 DEF Frame, FrameSet
<1>6. /\ s \in Seq(FrameSet) /\ Len(s) = n
      /\ s[n] = Frame(t.fn, t.next + 1)
      /\ \A k \in 1 .. n - 1 : s[k] = stack[k]
  <2>1. n \in 1 .. n /\ \A k \in 1 .. n - 1 : k \in 1 .. n /\ k # n
    BY <1>2
  <2>2. s \in Seq(FrameSet) /\ Len(s) = n
    BY <1>4, <1>5, <2>1, ExceptSeq
  <2>3. s[n] = Frame(t.fn, t.next + 1)
    BY <1>4, <2>1
  <2>4. \A k \in 1 .. n - 1 : s[k] = stack[k]
    BY <1>4, <2>1
  <2> QED
    BY <2>2, <2>3, <2>4
<1> HIDE DEF s
<1>7. /\ stack' \in Seq(FrameSet) /\ Len(stack') = n + 1
      /\ stack'[n + 1] = Frame(g, 1)
      /\ \A k \in 1 .. n : stack'[k] = s[k]
  <2>1. stack' = Append(s, Frame(g, 1))
    BY <1>1 DEF s
  <2> QED
    BY <2>1, <1>5, <1>6, AppendProperties
<1>8. CallGraphTypeOK'
  BY <1>1, <1>7 DEF CallGraphInv, CallGraphTypeOK, FrameSet
<1>9. EdgesDone'
  <2> SUFFICES ASSUME NEW k \in 1 .. n + 1 PROVE PastEdges(k)'
    BY <1>7 DEF EdgesDone, PastEdges
  <2>1. CASE k = n + 1
    <3>1. stack'[k].fn = g /\ stack'[k].next = 1
      BY <1>7, <2>1 DEF Frame
    <3>2. Len(calls[g]) \in Nat
      BY <1>3 DEF CallGraphInv, CallGraphTypeOK
    <3> QED
      BY <3>1, <3>2, <1>1 DEF PastEdges
  <2>2. CASE k = n
    <3>1. stack'[k].fn = t.fn /\ stack'[k].next = t.next + 1
      BY <1>2, <1>6, <1>7, <2>2 DEF Frame
    <3>2. stack'[k + 1].fn = g /\ k < Len(stack')
      BY <1>2, <1>7, <2>2 DEF Frame
    <3>3. calls'[t.fn] = calls[t.fn] /\ done' = done /\ Len(calls[t.fn]) \in Nat
      BY <1>1, <1>2
    <3>4. t.next + 1 <= Len(calls[t.fn]) + 1
      BY <1>1, <1>2, <3>3
    <3>5. ASSUME NEW j \in 1 .. t.next PROVE calls[t.fn][j] \in done \/ j = t.next
      BY <1>2
    <3> QED
      BY <3>1, <3>2, <3>3, <3>4, <3>5, <1>2 DEF PastEdges
  <2>3. CASE k < n
    <3>1. k \in 1 .. n - 1 /\ k \in 1 .. n /\ k + 1 \in 1 .. n
      BY <1>2, <2>3
    <3>2. stack'[k] = stack[k]
      BY <1>6, <1>7, <3>1
    <3>3. stack'[k + 1].fn = stack[k + 1].fn
      <4>1. CASE k + 1 = n
        BY <1>6, <1>7, <3>1, <4>1 DEF Top, Frame
      <4>2. CASE k + 1 # n
        BY <1>6, <1>7, <3>1, <4>2
      <4> QED
        BY <4>1, <4>2
    <3>4. PastEdges(k)
      BY <3>1 DEF CallGraphInv, EdgesDone, PastEdges
    <3>5. calls' = calls /\ done' = done /\ k < Len(stack')
      BY <1>1, <1>2, <1>7, <3>1
    <3> QED
      BY <3>2, <3>3, <3>4, <3>5 DEF PastEdges
  <2> QED
    BY <1>2, <2>1, <2>2, <2>3
<1>10. CalleesFirst' /\ SizesNested'
  BY <1>1 DEF CallGraphInv, CalleesFirst, SizesNested, Callees
<1> QED
  BY <1>8, <1>9, <1>10 DEF CallGraphInv

\* The callback of a node: its callees are in funcMap, so no one's size that a
\* member of funcMap was computed from changes.
LEMMA UpdateInv ==
  ASSUME CallGraphInv, NEW f \in Funcs, Callees(f) \subseteq done, Update(f),
         calls' = calls
  PROVE  /\ done' = done \cup {f} /\ size' \in [Funcs -> Nat]
         /\ CalleesFirst' /\ SizesNested'
<1>1. /\ CalleesFirst /\ SizesNested /\ done \subseteq Funcs
      /\ size \in [Funcs -> Nat]
  BY DEF CallGraphInv, CallGraphTypeOK
<1>2. CASE f \in done
  BY <1>1, <1>2 DEF Update, CalleesFirst, SizesNested, Callees
<1>3. CASE f \notin done
  <2>1. PICK s \in Sizes : (\A m \in Need(f) : m <= s) /\ size' = [size EXCEPT ![f] = s]
    BY <1>3 DEF Update
  <2>2. done' = done \cup {f} /\ s \in Nat
    BY <1>3, SizesAssumption DEF Update
  <2>3. \A g \in Funcs : Callees(g)' = Callees(g)
    BY DEF Callees
  <2>4. CalleesFirst'
    BY <1>1, <2>2 DEF CalleesFirst, Callees
  <2>5. \A g \in done : size'[g] = size[g]
    BY <1>1, <1>3, <2>1
  <2>6. size'[f] = s /\ size' \in [Funcs -> Nat]
    BY <1>1, <2>1, <2>2
  <2>7. ASSUME NEW h \in done, NEW g \in Callees(h) PROVE size'[g] <= size'[h]
    <3>1. g \in done
      BY <1>1, <2>7 DEF CalleesFirst
    <3> QED
      BY <1>1, <2>5, <2>7, <3>1 DEF SizesNested
  <2>8. ASSUME NEW g \in Callees(f) PROVE size'[g] <= size'[f]
    <3>1. g \in done /\ size[g] \in Need(f)
      BY <2>8 DEF Need
    <3> QED
      BY <2>1, <2>5, <2>6, <3>1
  <2>9. SizesNested'
    <3> SUFFICES ASSUME NEW h \in done \cup {f}, NEW g \in Callees(h)
                 PROVE  size'[g] <= size'[h]
      BY <2>2 DEF SizesNested, Callees
    <3> QED
      BY <2>7, <2>8
  <2> QED
    BY <2>2, <2>4, <2>6, <2>9
<1> QED
  BY <1>2, <1>3

\* Returning from doWalk: the edge that was under way is done.
LEMMA LeaveFunctionInv ==
  ASSUME CallGraphInv, LeaveFunction PROVE CallGraphInv'
<1> DEFINE n == Len(stack)
           f == Top.fn
<1>1. /\ stack # <<>> /\ Top.next > Len(calls[f]) /\ Update(f)
      /\ visited' = visited \ {f}
      /\ stack' = SubSeq(stack, 1, n - 1)
      /\ UNCHANGED <<calls, own, walked>>
  BY DEF LeaveFunction, AfterEdges, Return
<1>2. /\ n \in Nat \ {0} /\ f \in Funcs /\ Top.next \in Nat \ {0}
      /\ calls[f] \in Seq(Funcs)
      /\ \A j \in 1 .. Top.next - 1 : calls[f][j] \in done
  BY <1>1, TopEdges
<1>3. Callees(f) \subseteq done
  <2>1. \A j \in 1 .. Len(calls[f]) : j \in 1 .. Top.next - 1
    BY <1>1, <1>2
  <2> QED
    BY <1>2, <2>1 DEF Callees
<1>4. /\ done' = done \cup {f} /\ size' \in [Funcs -> Nat]
      /\ CalleesFirst' /\ SizesNested'
  BY <1>1, <1>2, <1>3, UpdateInv
<1>5. stack \in Seq(FrameSet)
  BY DEF CallGraphInv, CallGraphTypeOK, FrameSet
<1>6. /\ stack' \in Seq(FrameSet) /\ Len(stack') = n - 1
      /\ \A k \in 1 .. n - 1 : stack'[k] = stack[k]
  <2>1. n - 1 \in Nat /\ n - 1 <= n /\ stack' = SubSeq(stack, 1, n - 1)
    BY <1>1, <1>2
  <2> HIDE DEF n
  <2>2. Len(stack) = n
    BY DEF n
  <2> QED
    BY <2>1, <2>2, <1>5
<1>7. CallGraphTypeOK'
  BY <1>1, <1>2, <1>4, <1>6 DEF CallGraphInv, CallGraphTypeOK, FrameSet
<1>8. EdgesDone'
  <2> SUFFICES ASSUME NEW k \in 1 .. n - 1 PROVE PastEdges(k)'
    BY <1>6 DEF EdgesDone, PastEdges
  <2>1. k \in 1 .. n /\ stack'[k] = stack[k] /\ calls' = calls
    BY <1>1, <1>2, <1>6
  <2>2. PastEdges(k)
    BY <2>1 DEF CallGraphInv, EdgesDone, PastEdges
  <2>3. stack[k + 1].fn = f \/ (k < n - 1 /\ stack'[k + 1] = stack[k + 1])
    <3>1. CASE k = n - 1
      BY <1>2, <3>1 DEF Top
    <3>2. CASE k < n - 1
      BY <1>2, <1>6, <3>2
    <3> QED
      BY <1>2, <3>1, <3>2
  <2>4. k < n - 1 => k < Len(stack')
    BY <1>6
  <2> QED
    BY <1>4, <2>1, <2>2, <2>3, <2>4 DEF PastEdges
<1> QED
  BY <1>4, <1>7, <1>8 DEF CallGraphInv

\* Every step of the walk keeps the invariant.
LEMMA WalkNextInv == CallGraphInv /\ [CallGraphNext]_cgVars => CallGraphInv'
<1> SUFFICES ASSUME CallGraphInv, [CallGraphNext]_cgVars PROVE CallGraphInv'
  OBVIOUS
<1>1. CASE \E f \in Funcs : WalkRoot(f)
  BY <1>1, WalkRootInv
<1>2. CASE EnterCallee
  BY <1>2, EnterCalleeInv
<1>3. CASE LeaveFunction
  BY <1>3, LeaveFunctionInv
<1>4. CASE UNCHANGED cgVars
  BY <1>4 DEF CallGraphInv, CallGraphTypeOK, EdgesDone, CalleesFirst, SizesNested,
    Callees, cgVars
<1> QED
  BY <1>1, <1>2, <1>3, <1>4 DEF CallGraphNext

(***************************************************************************)
(* The invariant of doWalk's recursion (Utility.h:366-392), whatever the   *)
(* call graph: shared callees, repeated calls and cycles included.         *)
(***************************************************************************)
THEOREM WalkCorrect == CallGraphSpec => []CallGraphInv
<1>1. CallGraphInit => CallGraphInv
  BY WalkInitInv
<1>2. CallGraphInv /\ [CallGraphNext]_cgVars => CallGraphInv'
  BY WalkNextInv
<1> QED
  BY <1>1, <1>2, PTL DEF CallGraphSpec

(***************************************************************************)
(* Allocation.cpp:360 and Membar.cpp:126 find every callee in funcMap.     *)
(***************************************************************************)
THEOREM CalleesBeforeCallers == CallGraphSpec => []CalleesFirst
<1>1. CallGraphInv => CalleesFirst
  BY DEF CallGraphInv
<1> QED
  BY <1>1, WalkCorrect, PTL

(***************************************************************************)
(* A caller's memory holds that of each of its callees                     *)
(* (Allocation.cpp:357-363).                                               *)
(***************************************************************************)
THEOREM CallersHoldCallees == CallGraphSpec => []SizesNested
<1>1. CallGraphInv => SizesNested
  BY DEF CallGraphInv
<1> QED
  BY <1>1, WalkCorrect, PTL

-----------------------------------------------------------------------------
\* What stands in for induction: a set of numbers has a least one.
LEMMA LeastNumber ==
  ASSUME NEW S \in SUBSET Nat, S # {}
  PROVE  \E n \in S : \A m \in S : n <= m
<1> DEFINE R == {ss \in Nat \X Nat : ss[1] < ss[2]}
<1>1. IsWellFoundedOn(R, Nat)
  BY NatLessThanWellFounded DEF OpToRel
<1> HIDE DEF R
<1>2. PICK n \in S : \A m \in S : ~(<<m, n>> \in R)
  BY <1>1, WFMin, Zenon
<1>3. \A m \in S : ~(m < n)
  BY <1>2 DEF R
<1> QED
  BY <1>3

\* A call graph without a cycle, as doWalk assumes (Utility.h:372-375): functions
\* have a depth, which grows along every call.
NoCycle(g) ==
  \E depth \in [Funcs -> Nat] :
    \A f \in Funcs : \A i \in 1 .. Len(g[f]) : depth[f] < depth[g[f][i]]

\* A root that was begun with is being walked, or is done.
RootsWalked ==
  /\ walked \subseteq Roots
  /\ \A r \in walked : r \in done \/ (stack # <<>> /\ stack[1].fn = r)

RootsInv == CallGraphInv /\ RootsWalked /\ calls \in Graphs

LEMMA RootsInitInv == CallGraphInit => RootsInv
  BY WalkInitInv DEF CallGraphInit, RootsInv, RootsWalked

LEMMA RootsNextInv == RootsInv /\ [CallGraphNext]_cgVars => RootsInv'
<1> SUFFICES ASSUME RootsInv, [CallGraphNext]_cgVars PROVE RootsInv'
  OBVIOUS
<1>1. CallGraphInv' /\ CallGraphInv
  BY WalkNextInv DEF RootsInv
<1>2. calls' = calls
  BY DEF CallGraphNext, WalkRoot, EnterCallee, LeaveFunction, Return, cgVars
<1>3. Roots' = Roots
  BY <1>2 DEF Roots, Callees
<1>4. stack \in Seq(FrameSet)
  BY <1>1 DEF CallGraphInv, CallGraphTypeOK, FrameSet
<1>5. CASE \E f \in Funcs : WalkRoot(f)
  <2>1. PICK f \in Funcs : WalkRoot(f)
    BY <1>5
  <2>2. stack' # <<>> /\ stack'[1].fn = f /\ done' = done /\ walked' = walked \cup {f}
    BY <2>1 DEF WalkRoot, Frame
  <2>3. f \in Roots /\ walked \subseteq done
    BY <2>1 DEF RootsInv, RootsWalked, WalkRoot
  <2> QED
    BY <1>1, <1>2, <1>3, <2>2, <2>3 DEF RootsInv, RootsWalked
<1>6. CASE EnterCallee
  <2> DEFINE n == Len(stack)
             s == [stack EXCEPT ![n] = Frame(Top.fn, Top.next + 1)]
             e == Frame(calls[Top.fn][Top.next], 1)
  <2>1. stack # <<>> /\ stack' = Append(s, e) /\ done' = done /\ walked' = walked
    BY <1>6 DEF EnterCallee
  <2>2. n \in Nat \ {0} /\ Top.fn \in Funcs
    BY <1>1, <2>1, TopEdges
  <2>3. Len(s) = n /\ s[1].fn = stack[1].fn /\ s \in Seq(FrameSet)
    <3>1. Frame(Top.fn, Top.next + 1) \in FrameSet
      BY <1>1, <2>1, <2>2, TopEdges DEF Frame, FrameSet
    <3>2. 1 \in 1 .. n /\ n \in 1 .. n
      BY <2>2
    <3>3. Len(s) = n /\ s \in Seq(FrameSet)
      BY <1>4, <3>1, <3>2, ExceptSeq
    <3>4. s[1] = IF n = 1 THEN Frame(Top.fn, Top.next + 1) ELSE stack[1]
      BY <1>4, <3>2
    <3>5. s[1].fn = stack[1].fn
      BY <3>4 DEF Top, Frame
    <3> QED
      BY <3>3, <3>5
  <2>4. stack' # <<>> /\ stack'[1] = s[1]
    BY <2>1, <2>2, <2>3
  <2> QED
    BY <1>1, <1>2, <1>3, <2>1, <2>3, <2>4 DEF RootsInv, RootsWalked
<1>7. CASE LeaveFunction
  <2>1. PICK n \in Nat \ {0} : /\ Len(stack) = n /\ stack # <<>> /\ walked' = walked
                              /\ stack' = SubSeq(stack, 1, n - 1)
    BY <1>1, <1>7, TopEdges DEF LeaveFunction, Return
  <2>2. done' = done \cup {Top.fn}
    BY <1>7 DEF LeaveFunction, Update
  <2>3. CASE n = 1
    BY <1>1, <1>2, <1>3, <2>1, <2>2, <2>3 DEF RootsInv, RootsWalked, Top
  <2>4. CASE n # 1
    <3>1. n - 1 \in Nat /\ 1 <= n - 1 /\ n - 1 <= n /\ 1 \in 1 .. n - 1
      BY <2>1, <2>4
    <3>2. Len(stack') = n - 1 /\ stack'[1] = stack[1]
      BY <1>4, <2>1, <3>1
    <3>3. stack' # <<>>
      BY <3>1, <3>2
    <3> QED
      BY <1>1, <1>2, <1>3, <2>1, <2>2, <3>2, <3>3 DEF RootsInv, RootsWalked
  <2> QED
    BY <2>3, <2>4
<1>8. CASE UNCHANGED cgVars
  BY <1>1, <1>3, <1>8 DEF RootsInv, RootsWalked, cgVars
<1> QED
  BY <1>5, <1>6, <1>7, <1>8 DEF CallGraphNext

(***************************************************************************)
(* getSharedMemorySize may look at the roots only (Allocation.h:259-266):  *)
(* in a call graph without a cycle, when the walk is over every function   *)
(* is allocated, and none needs more than some root.  Of the functions     *)
(* that would not, one of least depth is no root, so it has a caller, of   *)
(* which it holds, and whose memory has room for it.                       *)
(***************************************************************************)
THEOREM RootsAreEnough ==
  ASSUME \A g \in Graphs : NoCycle(g)
  PROVE  CallGraphSpec => []RootsSuffice
<1> DEFINE Held(f) == f \in done /\ \E r \in Roots : size[f] <= size[r]
<1>1. RootsInv => RootsSuffice
  <2> SUFFICES ASSUME RootsInv, Walked, NEW h \in Funcs, ~Held(h) PROVE FALSE
    BY DEF RootsSuffice
  <2>1. PICK depth \in [Funcs -> Nat] :
          \A f \in Funcs : \A i \in 1 .. Len(calls[f]) : depth[f] < depth[calls[f][i]]
    BY DEF RootsInv, NoCycle
  <2> DEFINE S == {depth[f] : f \in {g \in Funcs : ~Held(g)}}
  <2>2. PICK n \in S : \A m \in S : n <= m
    <3>1. S \in SUBSET Nat /\ S # {}
      OBVIOUS
    <3> QED
      BY <3>1, LeastNumber
  <2>3. PICK f \in Funcs : ~Held(f) /\ depth[f] = n
    BY <2>2
  <2>4. CallGraphTypeOK /\ CalleesFirst /\ SizesNested
    BY DEF RootsInv, CallGraphInv
  <2>5. \A r \in Roots : r \in done /\ size[r] \in Nat
    BY <2>4 DEF RootsInv, RootsWalked, Walked, CallGraphTypeOK, Roots
  <2>6. f \notin Roots
    BY <2>3, <2>4, <2>5 DEF CallGraphTypeOK
  <2>7. PICK g \in Funcs : f \in Callees(g)
    BY <2>6 DEF Roots
  <2>8. depth[g] < depth[f]
    BY <2>1, <2>7 DEF Callees
  <2>9. Held(g)
    <3>1. ~Held(g) => depth[g] \in S
      OBVIOUS
    <3>2. depth[f] \in Nat /\ depth[g] \in Nat /\ ~(depth[f] <= depth[g])
      BY <2>1, <2>8
    <3> HIDE DEF S, Held
    <3> QED
      BY <2>2, <2>3, <3>1, <3>2
  <2>10. f \in done /\ size[f] <= size[g]
    BY <2>4, <2>7, <2>9 DEF CalleesFirst, SizesNested
  <2>11. PICK r \in Roots : size[g] <= size[r]
    BY <2>9
  <2>12. size[f] \in Nat /\ size[g] \in Nat /\ size[r] \in Nat
    BY <2>4, <2>5 DEF CallGraphTypeOK
  <2>13. size[f] <= size[r]
    BY <2>10, <2>11, <2>12
  <2> QED
    BY <2>3, <2>10, <2>13
<1> QED
  BY <1>1, RootsInitInv, RootsNextInv, PTL DEF CallGraphSpec

-----------------------------------------------------------------------------
(* The walk with real placements.                                           *)

\* Numbers in order: as many as there are, each of them, and none else.
LEMMA InOrderFacts ==
  ASSUME NEW n \in Nat, NEW S \in SUBSET (1 .. n)
  PROVE  /\ Cardinality(S) \in Nat
         /\ Len(InOrder(S)) = Cardinality(S)
         /\ \A k \in 1 .. Cardinality(S) : InOrder(S)[k] \in S
         /\ \A i \in S : \E k \in 1 .. Cardinality(S) : InOrder(S)[k] = i
<1> DEFINE UpTo(i) == {j \in S : j <= i}
           R == [i \in S |-> Cardinality(UpTo(i))]
           N == Cardinality(S)
<1>1. IsFiniteSet(S)
  <2>1. 1 \in Int /\ n \in Int
    OBVIOUS
  <2>2. IsFiniteSet(1 .. n)
    BY <2>1, FS_Interval
  <2> QED
    BY <2>2, FS_Subset
<1>2. N \in Nat
  BY <1>1, FS_CardinalityType
<1>3. \A i \in S : /\ UpTo(i) \in SUBSET S /\ IsFiniteSet(UpTo(i)) /\ i \in UpTo(i)
                   /\ Cardinality(UpTo(i)) \in Nat /\ Cardinality(UpTo(i)) <= N
  <2> TAKE i \in S
  <2>1. UpTo(i) \in SUBSET S /\ i \in UpTo(i)
    OBVIOUS
  <2> QED
    BY <1>1, <2>1, FS_Subset, FS_CardinalityType
<1>4. R \in [S -> 1 .. N]
  <2> SUFFICES ASSUME NEW i \in S PROVE Cardinality(UpTo(i)) \in 1 .. N
    OBVIOUS
  <2>1. Cardinality(UpTo(i)) # 0
    BY <1>3, FS_EmptySet
  <2> QED
    BY <1>2, <1>3, <2>1
<1>5. \A i, j \in S : i < j => R[i] # R[j]
  <2> TAKE i, j \in S
  <2>1. i < j => UpTo(i) \in SUBSET UpTo(j) /\ j \notin UpTo(i) /\ j \in UpTo(j)
    <3>1. \A k \in S : k \in Int
      OBVIOUS
    <3>2. i < j => ~(j <= i) /\ j <= j /\ \A k \in S : k <= i => k <= j
      BY <3>1
    <3> QED
      BY <3>2
  <2>2. i < j => Cardinality(UpTo(i)) # Cardinality(UpTo(j))
    BY <1>3, <2>1, FS_Subset
  <2> QED
    BY <2>2
<1>6. \A i, j \in S : R[i] = R[j] => i = j
  BY <1>5
<1>7. R \in Injection(S, 1 .. N)
  <2> HIDE DEF R, N
  <2> QED
    BY <1>4, <1>6 DEF Injection, IsInjective
<1>8. IsFiniteSet(1 .. N) /\ Cardinality(1 .. N) = N
  BY <1>2, FS_Interval
<1>9. R \in Surjection(S, 1 .. N)
  BY <1>7, <1>8, FS_Injection
<1>10. \A k \in 1 .. N : \E i \in S : R[i] = k
  BY <1>9 DEF Surjection
<1>11. \A k \in 1 .. N : InOrder(S)[k] \in S /\ R[InOrder(S)[k]] = k
  <2> TAKE k \in 1 .. N
  <2>1. InOrder(S)[k] = CHOOSE i \in S : Cardinality(UpTo(i)) = k
    BY DEF InOrder
  <2>2. \E i \in S : Cardinality(UpTo(i)) = k
    BY <1>10
  <2>3. InOrder(S)[k] \in S /\ Cardinality(UpTo(InOrder(S)[k])) = k
    BY <2>1, <2>2
  <2> QED
    BY <2>3
<1>12. \A i \in S : \E k \in 1 .. N : InOrder(S)[k] = i
  BY <1>4, <1>6, <1>11
<1>13. Len(InOrder(S)) = N
  BY <1>2 DEF InOrder
<1> QED
  BY <1>2, <1>11, <1>12, <1>13

\* What a function's own buffers need is no more than what they all end below.
LEMMA OwnNeedFits ==
  ASSUME NEW b, IsInstance(b), NEW m \in Nat, \A x \in 1 .. b.n : b.size[x] <= m
  PROVE  OwnNeed(b) \in Nat /\ OwnNeed(b) <= m
<1> DEFINE S == {0} \cup {b.size[x] : x \in 1 .. b.n}
           D == {k \in Nat : \E s \in S : s + k = m}
<1>1. \A s \in S : s \in Nat /\ s <= m
  BY DEF IsInstance
<1>2. m \in D
  OBVIOUS
<1>3. PICK k \in D : \A l \in D : k <= l
  BY <1>2, LeastNumber
<1>4. PICK s \in S : s + k = m
  BY <1>3
<1>5. \A u \in S : u <= s
  <2> TAKE u \in S
  <2>1. m - u \in Nat /\ u + (m - u) = m
    BY <1>1
  <2>2. m - u \in D
    BY <2>1
  <2>3. k <= m - u
    BY <1>3, <2>2
  <2> QED
    BY <1>1, <1>3, <1>4, <2>3
<1>6. \E u \in S : \A x \in 1 .. b.n : b.size[x] <= u
  BY <1>5
<1>7. OwnNeed(b) \in S
  BY <1>6 DEF OwnNeed
<1> QED
  BY <1>1, <1>7

\* While a function is allocated the walk stands behind its edges, and what its
\* callees need does not change.
AtItsEnd ==
  running # NoFunction =>
    /\ running \in Funcs \ done
    /\ stack # <<>> /\ AfterEdges /\ Top.fn = running
    /\ inst = InstanceOf(running)

ModuleInv ==
  /\ CallGraphInv
  /\ AllocationInv
  /\ IsModule([calls |-> calls, buffers |-> buffers, callIds |-> callIds])
  /\ own = [f \in Funcs |-> OwnNeed(buffers[f])]
  /\ AtItsEnd

\* The virtual buffers of a function are those of its callees with memory.
LEMMA WithMemoryFacts ==
  ASSUME CallGraphTypeOK, NEW f \in Funcs
  PROVE  /\ Len(WithMemory(f)) \in Nat
         /\ \A k \in 1 .. Len(WithMemory(f)) : WithMemory(f)[k] \in 1 .. Len(calls[f])
         /\ \A i \in 1 .. Len(calls[f]) : size[calls[f][i]] > 0 =>
              \E k \in 1 .. Len(WithMemory(f)) : WithMemory(f)[k] = i
<1> DEFINE S == {i \in 1 .. Len(calls[f]) : size[calls[f][i]] > 0}
<1>1. Len(calls[f]) \in Nat /\ S \in SUBSET (1 .. Len(calls[f]))
  BY DEF CallGraphTypeOK
<1>2. WithMemory(f) = InOrder(S)
  BY DEF WithMemory
<1>3. /\ Cardinality(S) \in Nat /\ Len(InOrder(S)) = Cardinality(S)
      /\ \A k \in 1 .. Cardinality(S) : InOrder(S)[k] \in S
      /\ \A i \in S : \E k \in 1 .. Cardinality(S) : InOrder(S)[k] = i
  <2> HIDE DEF S
  <2> QED
    BY <1>1, InOrderFacts
<1> QED
  BY <1>2, <1>3

LEMMA InstanceOfFacts ==
  ASSUME ModuleInv, NEW f \in Funcs
  PROVE  /\ IsInstance(InstanceOf(f))
         /\ buffers[f].n <= InstanceOf(f).n
         /\ \A x \in 1 .. buffers[f].n : InstanceOf(f).size[x] = buffers[f].size[x]
         /\ \A g \in Callees(f) : size[g] > 0 =>
              \E x \in 1 .. InstanceOf(f).n : InstanceOf(f).size[x] = size[g]
<1>1. PICK b : b = buffers[f]
  OBVIOUS
<1>2. PICK v : v = WithMemory(f)
  OBVIOUS
<1>3. IsInstance(b) /\ \A i \in 1 .. Len(calls[f]) : callIds[f][i] \in 0 .. b.maxId - 1
  BY <1>1 DEF ModuleInv, IsModule
<1>4. CallGraphTypeOK
  BY DEF ModuleInv, CallGraphInv
<1>5. /\ Len(v) \in Nat
      /\ \A k \in 1 .. Len(v) : v[k] \in 1 .. Len(calls[f])
      /\ \A i \in 1 .. Len(calls[f]) : size[calls[f][i]] > 0 => \E k \in 1 .. Len(v) : v[k] = i
  BY <1>2, <1>4, WithMemoryFacts
<1>6. PICK n \in Nat : n = b.n + Len(v)
  BY <1>3, <1>5 DEF IsInstance
<1>7. PICK p : p = InstanceOf(f)
  OBVIOUS
<1>8. p = [n     |-> n,
           maxId |-> b.maxId,
           live  |-> [x \in 1 .. n |-> IF x <= b.n THEN b.live[x]
                                      ELSE <<callIds[f][v[x - b.n]], callIds[f][v[x - b.n]] + 1>>],
           size  |-> [x \in 1 .. n |-> IF x <= b.n THEN b.size[x]
                                      ELSE size[calls[f][v[x - b.n]]]],
           align |-> [x \in 1 .. n |-> IF x <= b.n THEN b.align[x] ELSE ScratchAlign]]
  BY <1>1, <1>2, <1>6, <1>7 DEF InstanceOf
<1>9. b.n \in Nat /\ \A x \in 1 .. n : x <= b.n => x \in 1 .. b.n
  BY <1>3 DEF IsInstance
<1>10. \A x \in 1 .. n : ~(x <= b.n) => x - b.n \in 1 .. Len(v)
  BY <1>5, <1>6, <1>9
<1>11. \A i \in 1 .. Len(calls[f]) : size[calls[f][i]] \in Nat
  BY <1>4 DEF CallGraphTypeOK
<1>12. p.live \in [1 .. n -> Nat \X Nat]
       /\ \A x \in 1 .. n : p.live[x][1] < p.live[x][2] /\ p.live[x][2] <= p.maxId
  <2> SUFFICES ASSUME NEW x \in 1 .. n
               PROVE  /\ p.live[x] \in Nat \X Nat
                      /\ p.live[x][1] < p.live[x][2] /\ p.live[x][2] <= b.maxId
    BY <1>8
  <2>1. CASE x <= b.n
    <3>1. x \in 1 .. b.n /\ p.live[x] = b.live[x]
      BY <1>8, <1>9, <2>1
    <3> QED
      BY <1>3, <3>1 DEF IsInstance
  <2>2. CASE ~(x <= b.n)
    <3>1. PICK i \in 1 .. Len(calls[f]) : i = v[x - b.n]
      BY <1>5, <1>10, <2>2
    <3>2. p.live[x] = <<callIds[f][i], callIds[f][i] + 1>>
      BY <1>8, <2>2, <3>1
    <3>3. b.maxId \in Nat /\ callIds[f][i] \in 0 .. b.maxId - 1
      BY <1>3 DEF IsInstance
    <3> QED
      BY <3>2, <3>3
  <2> QED
    BY <2>1, <2>2
<1>13. p.size \in [1 .. n -> Nat]
  <2> SUFFICES ASSUME NEW x \in 1 .. n PROVE p.size[x] \in Nat
    BY <1>8
  <2>1. CASE x <= b.n
    BY <1>3, <1>8, <1>9, <2>1 DEF IsInstance
  <2>2. CASE ~(x <= b.n)
    BY <1>5, <1>8, <1>10, <1>11, <2>2
  <2> QED
    BY <2>1, <2>2
<1>14. p.align \in [1 .. n -> Nat \ {0}]
  BY <1>3, <1>8, <1>9, ScratchAssumption DEF IsInstance
<1>15. p.n = n /\ p.maxId = b.maxId /\ b.maxId \in Nat
  BY <1>3, <1>8 DEF IsInstance
<1>16. IsInstance(p)
  BY <1>12, <1>13, <1>14, <1>15 DEF IsInstance
<1>17. b.n <= n /\ \A x \in 1 .. b.n : x \in 1 .. n /\ p.size[x] = b.size[x]
  BY <1>5, <1>6, <1>8, <1>9
<1>18. ASSUME NEW g \in Callees(f), size[g] > 0 PROVE \E x \in 1 .. n : p.size[x] = size[g]
  <2>1. PICK i \in 1 .. Len(calls[f]) : g = calls[f][i]
    BY DEF Callees
  <2>2. PICK k \in 1 .. Len(v) : v[k] = i
    BY <1>5, <1>18, <2>1
  <2>3. b.n + k \in 1 .. n /\ ~(b.n + k <= b.n) /\ (b.n + k) - b.n = k
    BY <1>5, <1>6, <1>9
  <2>4. p.size[b.n + k] = size[calls[f][v[k]]]
    BY <1>8, <2>3
  <2> QED
    BY <2>1, <2>2, <2>3, <2>4
<1> QED
  BY <1>1, <1>7, <1>15, <1>16, <1>17, <1>18

\* An analysis begins where its invariant holds.
LEMMA FreshInv ==
  ASSUME NEW p, IsInstance(p), Fresh(p)
  PROVE  AllocationInv'
<1>1. p.n \in Nat /\ p.maxId \in Nat
  BY DEF IsInstance
<1>2. TypeOK'
  <2>1. inst' = p /\ phase' = "starts" /\ stamp' = 1 /\ smem' = 0 /\ next' = 1 /\ edges' = {}
        /\ left' = 1 .. p.n
    BY DEF Fresh
  <2>2. offset' \in [1 .. p.n -> Nat] /\ colors' \in [1 .. p.n -> 0 .. p.n + 1]
    BY <1>1 DEF Fresh
  <2>3. \A t \in triples' : IsTriple(t)
    BY <1>1 DEF Fresh, Triple, IsTriple
  <2>4. next' \in 1 .. p.n + 1
    BY <1>1, <2>1
  <2> QED
    BY <2>1, <2>2, <2>3, <2>4 DEF TypeOK, Buffers, NoColor
<1>3. NoEmptyTripleMap'
  <2> SUFFICES ASSUME NEW x \in 1 .. p.n
               PROVE  Intersects(<<0, p.maxId>>, p.live[x])
    BY DEF NoEmptyTripleMap, Fresh, Triple
  <2>1. p.live[x] \in Nat \X Nat /\ p.live[x][1] < p.live[x][2] /\ p.live[x][2] <= p.maxId
    BY DEF IsInstance
  <2> QED
    BY <1>1, <2>1 DEF Intersects
<1>4. EdgesSymmetric' /\ OneStays'
  BY DEF Fresh, EdgesSymmetric, OneStays
<1>5. SeparatedSoFar' /\ SizeSoFar' /\ Placed'
  BY DEF Fresh, SeparatedSoFar, SizeSoFar, Placed
<1> QED
  BY <1>2, <1>3, <1>4, <1>5 DEF AllocationInv

\* When the placement of a function is done its memory has room for its own
\* buffers and for each of its callees.
LEMMA NeedMet ==
  ASSUME ModuleInv, running # NoFunction, phase = "done"
  PROVE  smem \in Nat /\ \A m \in Need(running) : m <= smem
<1>1. PICK f \in Funcs : f = running
  BY DEF ModuleInv, AtItsEnd
<1>2. inst = InstanceOf(f)
  BY <1>1 DEF ModuleInv, AtItsEnd
<1>3. smem \in Nat
  BY DEF ModuleInv, AllocationInv, TypeOK
<1>4. \A x \in 1 .. inst.n : inst.size[x] \in Nat /\ inst.size[x] <= smem
  <2> TAKE x \in 1 .. inst.n
  <2>1. offset[x] \in Nat /\ inst.size[x] \in Nat
    BY DEF ModuleInv, AllocationInv, TypeOK, IsInstance, Buffers
  <2>2. offset[x] + inst.size[x] <= smem
    BY DEF ModuleInv, AllocationInv, Placed, Buffers
  <2> QED
    BY <1>3, <2>1, <2>2
<1>5. IsInstance(buffers[f]) /\ own[f] = OwnNeed(buffers[f])
  BY DEF ModuleInv, IsModule
<1>6. buffers[f].n \in Nat /\ inst.n \in Nat /\ buffers[f].n <= inst.n
  BY <1>2, <1>5, InstanceOfFacts DEF IsInstance
<1>7. \A x \in 1 .. buffers[f].n : buffers[f].size[x] <= smem
  <2> TAKE x \in 1 .. buffers[f].n
  <2>1. x \in 1 .. inst.n /\ inst.size[x] = buffers[f].size[x]
    BY <1>2, <1>6, InstanceOfFacts
  <2> QED
    BY <1>4, <2>1
<1>8. own[f] <= smem
  BY <1>3, <1>5, <1>7, OwnNeedFits
<1>9. \A g \in Callees(f) : size[g] <= smem
  <2> TAKE g \in Callees(f)
  <2>1. g \in Funcs /\ size[g] \in Nat
    BY DEF ModuleInv, CallGraphInv, CallGraphTypeOK, Callees
  <2>2. CASE size[g] > 0
    BY <1>2, <1>4, <2>2, InstanceOfFacts
  <2> QED
    BY <1>3, <2>1, <2>2
<1> QED
  BY <1>1, <1>3, <1>8, <1>9 DEF Need

LEMMA InstanceStays ==
  ASSUME UNCHANGED <<calls, size, buffers, callIds>>, NEW f
  PROVE  InstanceOf(f)' = InstanceOf(f)
<1>1. WithMemory(f)' = WithMemory(f)
  BY DEF WithMemory
<1> QED
  BY <1>1 DEF InstanceOf

LEMMA InstanceKept == [Next]_vars => inst' = inst
  BY DEF Next, vars, PlaceBuffer, DropTriple, FinishStarts, ColorBuffer, FinishColoring,
         BumpBuffer, Again, Finish

LEMMA ModuleInitInv == ModuleInit => ModuleInv
<1> SUFFICES ASSUME ModuleInit PROVE ModuleInv
  OBVIOUS
<1>1. CallGraphInv /\ AllocationInv
  BY WalkInitInv, InitInv DEF ModuleInit
<1>2. PICK m \in Modules : /\ calls = m.calls /\ buffers = m.buffers /\ callIds = m.callIds
                          /\ own = [f \in Funcs |-> OwnNeed(m.buffers[f])]
  BY DEF ModuleInit
<1>3. IsModule(m)
  BY ModulesAssumption
<1> QED
  BY <1>1, <1>2, <1>3 DEF ModuleInit, ModuleInv, IsModule, AtItsEnd

\* A step that leaves the function under way alone, in the walk too.
LEMMA StepAside ==
  ASSUME ModuleInv, UNCHANGED <<cgVars, buffers, callIds, running>>, [Next]_vars
  PROVE  ModuleInv'
<1>1. /\ UNCHANGED <<calls, own, walked, stack, visited, done, size>>
      /\ UNCHANGED <<buffers, callIds, running>>
  BY DEF cgVars
<1>2. CallGraphInv'
  BY WalkNextInv DEF ModuleInv
<1>3. AllocationInv' /\ inst' = inst
  BY NextInv, InstanceKept DEF ModuleInv
<1>4. AtItsEnd'
  <2>1. PICK f : f = running
    OBVIOUS
  <2>2. InstanceOf(f)' = InstanceOf(f)
    BY <1>1, InstanceStays
  <2> QED
    BY <1>1, <1>3, <2>1, <2>2 DEF ModuleInv, AtItsEnd, AfterEdges, Top
<1> QED
  BY <1>1, <1>2, <1>3, <1>4 DEF ModuleInv, IsModule

\* No function is allocated but the one at the top, when its edges are done.
LEMMA NoneRunning ==
  ASSUME ModuleInv, ~(stack # <<>> /\ AfterEdges /\ Top.fn \notin done /\ running = Top.fn)
  PROVE  running = NoFunction
  BY DEF ModuleInv, AtItsEnd

LEMMA WalkStepWalks ==
  ASSUME ModuleInv, WalkStep PROVE CallGraphNext /\ ModuleInv'
<1>1. CallGraphNext
  BY DEF WalkStep, CallGraphNext
<1>2. CallGraphInv' /\ AllocationInv'
  BY <1>1, WalkNextInv, NextInv DEF WalkStep, ModuleInv
<1>3. calls' = calls /\ own' = own
  BY DEF WalkStep, WalkRoot, EnterCallee
<1>4. running = NoFunction
  <2>1. CASE \E f \in Funcs : WalkRoot(f)
    BY <2>1, NoneRunning DEF WalkRoot
  <2>2. CASE EnterCallee
    <3>1. stack # <<>> /\ Top.next <= Len(calls[Top.fn])
      BY <2>2 DEF EnterCallee
    <3>2. Top.next \in Nat /\ Len(calls[Top.fn]) \in Nat
      BY <3>1, TopEdges DEF ModuleInv
    <3>3. ~AfterEdges
      BY <3>1, <3>2 DEF AfterEdges
    <3> QED
      BY <3>3, NoneRunning
  <2> QED
    BY <2>1, <2>2 DEF WalkStep
<1>5. AtItsEnd'
  BY <1>4 DEF WalkStep, AtItsEnd
<1> QED
  BY <1>1, <1>2, <1>3, <1>5 DEF ModuleInv, WalkStep, IsModule

LEMMA BeginWalks ==
  ASSUME ModuleInv, BeginFunction PROVE ModuleInv'
<1>1. /\ stack # <<>> /\ AfterEdges /\ Top.fn \notin done /\ running' = Top.fn
      /\ UNCHANGED <<calls, own, walked, stack, visited, done, size, buffers, callIds>>
  BY DEF BeginFunction, cgVars
<1>2. PICK f \in Funcs : f = Top.fn
  BY <1>1, TopEdges DEF ModuleInv
<1>3. CallGraphInv'
  BY <1>1, WalkNextInv DEF ModuleInv, cgVars
<1>4. AllocationInv' /\ inst' = InstanceOf(f)
  <2>1. PICK p : p = InstanceOf(f)
    OBVIOUS
  <2>2. IsInstance(p) /\ Fresh(p)
    BY <1>2, <2>1, InstanceOfFacts DEF BeginFunction
  <2> QED
    BY <2>1, <2>2, FreshInv DEF Fresh
<1>5. InstanceOf(f)' = InstanceOf(f)
  BY <1>1, InstanceStays
<1>6. AtItsEnd'
  BY <1>1, <1>2, <1>4, <1>5 DEF AtItsEnd, AfterEdges, Top
<1> QED
  BY <1>1, <1>3, <1>4, <1>6 DEF ModuleInv, IsModule

LEMMA EndWalks ==
  ASSUME Sizes = Nat, ModuleInv, EndFunction PROVE CallGraphNext /\ ModuleInv'
<1>1. /\ running \in Funcs \ done /\ stack # <<>> /\ AfterEdges /\ Top.fn = running
  BY DEF EndFunction, ModuleInv, AtItsEnd
<1>2. smem \in Sizes /\ \A m \in Need(running) : m <= smem
  BY NeedMet DEF EndFunction
<1>3. Update(Top.fn)
  BY <1>1, <1>2 DEF EndFunction, Update
<1>4. LeaveFunction
  BY <1>1, <1>3 DEF EndFunction, LeaveFunction
<1>5. CallGraphInv' /\ AllocationInv'
  BY <1>4, WalkNextInv, NextInv DEF EndFunction, ModuleInv, CallGraphNext
<1>6. calls' = calls /\ own' = own
  BY DEF EndFunction, Return
<1>7. AtItsEnd'
  BY DEF EndFunction, AtItsEnd
<1> QED
  BY <1>4, <1>5, <1>6, <1>7 DEF ModuleInv, EndFunction, IsModule, CallGraphNext

LEMMA SkipWalks ==
  ASSUME ModuleInv, SkipFunction PROVE CallGraphNext /\ ModuleInv'
<1>1. LeaveFunction
  BY DEF SkipFunction, LeaveFunction, Update
<1>2. CallGraphInv' /\ AllocationInv'
  BY <1>1, WalkNextInv, NextInv DEF SkipFunction, ModuleInv, CallGraphNext
<1>3. calls' = calls /\ own' = own
  BY DEF SkipFunction, Return
<1>4. running = NoFunction
  BY NoneRunning DEF SkipFunction
<1>5. AtItsEnd'
  BY <1>4 DEF SkipFunction, AtItsEnd
<1> QED
  BY <1>1, <1>2, <1>3, <1>5 DEF ModuleInv, SkipFunction, IsModule, CallGraphNext

LEMMA StepWalks ==
  ASSUME Sizes = Nat
  PROVE  ModuleInv /\ [ModuleNext]_moduleVars => [CallGraphNext]_cgVars /\ ModuleInv'
<1> SUFFICES ASSUME ModuleInv, [ModuleNext]_moduleVars
             PROVE  [CallGraphNext]_cgVars /\ ModuleInv'
  OBVIOUS
<1>1. CASE RunStep \/ UNCHANGED moduleVars
  BY <1>1, StepAside DEF RunStep, moduleVars
<1>2. CASE BeginFunction
  BY <1>2, BeginWalks DEF BeginFunction
<1>3. CASE WalkStep \/ EndFunction \/ SkipFunction
  BY <1>3, WalkStepWalks, EndWalks, SkipWalks
<1> QED
  BY <1>1, <1>2, <1>3 DEF ModuleNext

(***************************************************************************)
(* The walk with real placements (Allocation.h:207-224) is the walk of     *)
(* CallGraph, for every module and every amount of memory: what a          *)
(* function's placement ends at has room for its largest buffer and for    *)
(* each of its callees (Allocation.cpp:357-363).                           *)
(***************************************************************************)
THEOREM PlacementsImplementWalk ==
  ASSUME Sizes = Nat
  PROVE  ModuleSpec => ImplementsWalk
<1>1. ModuleInit => CallGraphInit
  BY DEF ModuleInit
<1> QED
  BY <1>1, ModuleInitInv, StepWalks, PTL DEF ModuleSpec, ImplementsWalk, CallGraphSpec

(***************************************************************************)
(* In a module each function's buffers are placed apart, virtual ones of   *)
(* its calls included, whose sizes are those that the walk came by.        *)
(***************************************************************************)
THEOREM ModulesArePlaced ==
  ASSUME Sizes = Nat
  PROVE  ModuleSpec => [](AllocationInv /\ Placed)
<1>1. ModuleInv => AllocationInv /\ Placed
  BY DEF ModuleInv, AllocationInv
<1> QED
  BY <1>1, ModuleInitInv, StepWalks, PTL DEF ModuleSpec

(***************************************************************************)
(* So in a module without a cycle, the roots' real sizes are enough        *)
(* (Allocation.h:259-266).                                                 *)
(***************************************************************************)
THEOREM ModuleRootsAreEnough ==
  ASSUME Sizes = Nat, \A g \in Graphs : NoCycle(g)
  PROVE  ModuleSpec => []RootsSuffice
  BY PlacementsImplementWalk, RootsAreEnough, PTL DEF ImplementsWalk
=============================================================================
