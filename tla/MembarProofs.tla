---------------------------- MODULE MembarProofs ----------------------------
(***************************************************************************)
(* Proofs about Membar, MembarKernel and MembarCalls: type correctness of  *)
(* the analysis, its inductive invariant, race freedom of the kernel it    *)
(* leaves, and what a caller may still find pending when a call returns.   *)
(***************************************************************************)
EXTENDS MembarKernel, MembarCalls, SequenceTheorems, TLAPS

LEMMA InfoMember ==
  ASSUME NEW x PROVE x \in Info <=> /\ x = [r |-> x.r, w |-> x.w]
                                    /\ x.r \subseteq Interval
                                    /\ x.w \subseteq Interval
  BY DEF Info

LEMMA EmptyInfoType == EmptyInfo \in Info
  BY DEF EmptyInfo, Info

LEMMA JoinType ==
  ASSUME NEW x \in Info, NEW y \in Info PROVE Join(x, y) \in Info
  BY DEF Join, Info

LEMMA PositionMember ==
  ASSUME NEW b, NEW i
  PROVE  <<b, i>> \in Position <=> b \in Blocks /\ i \in 1 .. Terminator(b)
  BY DEF Position

LEMMA OpType ==
  ASSUME TypeOK, NEW b \in Blocks, NEW i \in 1 .. Len(prog.body[b])
  PROVE  /\ OpAt(b, i) \in Op
         /\ OpAt(b, i).kind = "call" => OpAt(b, i).callee \in 1 .. prog.nfuncs
<1>1. WellFormed(prog)
  BY DEF TypeOK
<1>2. prog.body[b] \in Seq(Op)
  BY <1>1 DEF WellFormed
<1>3. prog.body[b][i] \in Op
  BY <1>2
<1>4. prog.fnOf[b] \in 1 .. prog.nfuncs /\ prog.nfuncs \in Nat
  BY <1>1 DEF WellFormed
<1>5. prog.body[b][i].kind = "call" => prog.body[b][i].callee \in 1 .. (prog.fnOf[b] - 1)
  BY <1>1 DEF WellFormed
<1> QED
  BY <1>3, <1>4, <1>5 DEF OpAt

LEMMA TerminatorType ==
  ASSUME TypeOK, NEW b \in Blocks
  PROVE  Len(prog.body[b]) \in Nat /\ Terminator(b) \in Nat \ {0}
<1>1. prog.body[b] \in Seq(Op)
  BY DEF TypeOK, WellFormed
<1>2. Len(prog.body[b]) \in Nat
  BY <1>1
<1> QED
  BY <1>2 DEF Terminator

LEMMA CurInfoType ==
  ASSUME TypeOK, NEW b \in Blocks, NEW i \in 1 .. Len(prog.body[b])
  PROVE  CurInfo(OpAt(b, i)) \in Info
<1> DEFINE op == OpAt(b, i)
<1>1. op \in Op /\ (op.kind = "call" => op.callee \in 1 .. prog.nfuncs)
  BY OpType
<1>2. prog.alloc \in [Buffers -> Interval]
  BY DEF TypeOK, WellFormed
<1>3. CASE op.kind = "access"
  <2>1. op.reads \subseteq Buffers /\ op.writes \subseteq Buffers /\ op.scratch \subseteq Buffers
    BY <1>1, <1>3 DEF Op
  <2>2. \A x \in Buffers : prog.alloc[x] \in Interval
    BY <1>2
  <2> QED
    BY <1>3, <2>1, <2>2 DEF CurInfo, Info
<1>4. CASE op.kind = "call"
  BY <1>1, <1>4 DEF CurInfo, TypeOK
<1>5. CASE op.kind \notin {"access", "call"}
  BY <1>5, EmptyInfoType DEF CurInfo
<1> QED
  BY <1>3, <1>4, <1>5
-----------------------------------------------------------------------------
LEMMA InitType == Init => TypeOK
<1> SUFFICES ASSUME Init PROVE TypeOK
  OBVIOUS
<1>1. WellFormed(prog)
  BY ProgramsAssumption DEF Init
<1>2. prog.nfuncs \in Nat \ {0} /\ prog.entry[1] \in Blocks
  <2>1. prog.nfuncs \in Nat \ {0} /\ prog.entry \in [1 .. prog.nfuncs -> Blocks]
    BY <1>1 DEF WellFormed
  <2> QED
    BY <2>1
<1> QED
  BY <1>1, <1>2, EmptyInfoType, NoBlockAssumption DEF Init, TypeOK

\* The state after the operation at pos was visited with outcome x.
LEMMA AdvanceType ==
  ASSUME TypeOK, AtOp, NEW x \in Info, Advance(x), bars' \subseteq Position
  PROVE  TypeOK'
<1>1. cur \in Blocks /\ pos \in 1 .. Len(prog.body[cur])
  BY TerminatorType DEF TypeOK, AtOp, Terminator
<1>2. <<cur, pos>> \in Position
  BY <1>1, PositionMember, TerminatorType DEF Terminator
<1>3. Position' = Position
  BY DEF Advance, Position, Terminator
<1>4. pre' \in [Position -> Info]
  BY <1>2 DEF Advance, TypeOK
<1>5. pos' \in Nat \ {0} /\ (cur' # NoBlock => pos' <= Terminator(cur)')
  BY <1>1 DEF Advance, AtOp, Terminator, TypeOK
<1> QED
  BY <1>3, <1>4, <1>5 DEF Advance, TypeOK

LEMMA NextType == TypeOK /\ [Next]_vars => TypeOK'
<1> SUFFICES ASSUME TypeOK, [Next]_vars PROVE TypeOK'
  OBVIOUS
<1>p. (prog' = prog) => Position' = Position
  BY DEF Position, Terminator
<1>1. CASE PopBlock
  <2>1. Head(work) \in Blocks /\ Tail(work) \in Seq(Blocks)
    BY <1>1 DEF PopBlock, TypeOK
  <2>2. inMap[Head(work)] \in Info
    BY <2>1 DEF TypeOK
  <2>3. cur' \in Blocks /\ pos' = 1 /\ prog' = prog /\ Terminator(cur') = Terminator(cur)'
    BY <1>1, <2>1 DEF PopBlock, Terminator
  <2>4. 1 <= Terminator(cur')
    BY <2>3, TerminatorType
  <2> QED
    BY <1>1, <1>p, <2>1, <2>2, <2>3, <2>4 DEF PopBlock, TypeOK
<1>2. CASE VisitBarrier
  <2>1. AtOp /\ Advance(EmptyInfo) /\ bars' = bars
    BY <1>2 DEF VisitBarrier
  <2> QED
    BY <2>1, AdvanceType, EmptyInfoType DEF TypeOK
<1>3. CASE VisitAsyncWait
  <2>1. AtOp /\ Advance(EmptyInfo) /\ bars' = bars \cup {<<cur, pos + 1>>}
    BY <1>3 DEF VisitAsyncWait
  <2>2. <<cur, pos + 1>> \in Position
    <3>1. cur \in Blocks /\ pos \in Nat \ {0} /\ pos < Terminator(cur)
      BY <2>1 DEF AtOp, TypeOK
    <3>2. pos + 1 \in 1 .. Terminator(cur)
      BY <3>1, TerminatorType
    <3> QED
      BY <3>1, <3>2, PositionMember
  <2> QED
    BY <2>1, <2>2, AdvanceType, EmptyInfoType DEF TypeOK
<1>4. CASE VisitAccess
  <2> DEFINE own == CurInfo(OpAt(cur, pos))
             here == After(info, cur, pos)
  <2>1. AtOp /\ cur \in Blocks /\ pos \in 1 .. Len(prog.body[cur])
    BY <1>4, TerminatorType DEF VisitAccess, AtOp, TypeOK, Terminator
  <2>2. own \in Info
    BY <2>1, CurInfoType
  <2>3. here \in Info
    BY EmptyInfoType DEF After, TypeOK
  <2>4. <<cur, pos>> \in Position
    BY <2>1, PositionMember, TerminatorType DEF Terminator
  <2>5. /\ Advance(own) \/ Advance(Join(here, own))
        /\ bars' \subseteq Position
    BY <1>4, <2>4 DEF VisitAccess, TypeOK
  <2> HIDE DEF own, here
  <2> QED
    BY <2>1, <2>2, <2>3, <2>5, JoinType, AdvanceType
<1>5. ASSUME AtTerminator, pre' = [pre EXCEPT ![<<cur, pos>>] = info], prog' = prog
      PROVE  pre' \in [Position' -> Info] /\ cur \in Blocks
  BY <1>5, <1>p DEF TypeOK, AtTerminator
<1>6. CASE SkipSuccessors
  BY <1>6, <1>5, <1>p DEF SkipSuccessors, TypeOK
<1>7. CASE UpdateSuccessors
  <2> DEFINE here == After(info, cur, pos)
             out  == Join(outMap[cur], here)
  <2>1. pre' \in [Position' -> Info] /\ cur \in Blocks
    BY <1>7, <1>5 DEF UpdateSuccessors
  <2>2. out \in Info
    BY <2>1, EmptyInfoType, JoinType DEF After, TypeOK
  <2>3. outMap' \in [Blocks -> Info]
    BY <1>7, <2>2 DEF UpdateSuccessors, TypeOK
  <2>4. \A b \in Blocks : Join(inMap[b], out) \in Info
    BY <2>2, JoinType DEF TypeOK
  <2>5. inMap' \in [Blocks -> Info]
    <3> HIDE DEF out
    <3>1. inMap' = [b \in Blocks |-> IF b \in Successors(cur)
                                     THEN Join(inMap[b], out) ELSE inMap[b]]
      BY <1>7 DEF UpdateSuccessors, out
    <3> QED
      BY <3>1, <2>4 DEF TypeOK
  <2>6. work' \in Seq(Blocks)
    BY <1>7, <2>1 DEF UpdateSuccessors, TypeOK, WellFormed
  <2> QED
    BY <1>7, <1>p, <2>1, <2>3, <2>5, <2>6 DEF UpdateSuccessors, TypeOK
<1>8. CASE FinishFunction
  <2>1. fn \in 1 .. prog.nfuncs /\ prog.nfuncs \in Nat
    BY <1>8 DEF FinishFunction, TypeOK, Done, WellFormed
  <2>2. work' \in Seq(Blocks)
    <3>1. prog.entry \in [1 .. prog.nfuncs -> Blocks]
      BY DEF TypeOK, WellFormed
    <3>2. CASE fn < prog.nfuncs
      <4>1. prog.entry[fn + 1] \in Blocks
        BY <2>1, <3>1, <3>2
      <4>2. work' = <<prog.entry[fn + 1]>>
        BY <1>8, <3>2 DEF FinishFunction
      <4> QED
        BY <4>1, <4>2
    <3>3. CASE ~(fn < prog.nfuncs)
      BY <1>8, <3>3 DEF FinishFunction
    <3> QED
      BY <3>2, <3>3
  <2> DEFINE sum == [r |-> UNION {outMap[b].r : b \in Returns(fn)},
                     w |-> UNION {outMap[b].w : b \in Returns(fn)}]
  <2>3. \A b \in Returns(fn) : outMap[b].r \subseteq Interval /\ outMap[b].w \subseteq Interval
    BY DEF Returns, TypeOK, Info
  <2>4. sum \in Info
    BY <2>3 DEF Info
  <2>5. funcInfo' \in [1 .. prog.nfuncs -> Info]
    <3> HIDE DEF sum
    <3>1. funcInfo' = [funcInfo EXCEPT ![fn] = sum]
      BY <1>8 DEF FinishFunction, sum
    <3> QED
      BY <3>1, <2>4 DEF TypeOK
  <2> QED
    BY <1>8, <1>p, <2>1, <2>2, <2>5 DEF FinishFunction, TypeOK
<1>9. CASE UNCHANGED vars
  BY <1>9, <1>p DEF vars, TypeOK, Terminator
<1> QED
  BY <1>1, <1>2, <1>3, <1>4, <1>6, <1>7, <1>8, <1>9 DEF Next

(***************************************************************************)
(* The state of the analysis keeps its type for every module of functions  *)
(* whose branches stay inside their function and whose calls go to         *)
(* functions analysed before (MembarAnalysis::resolve and update).         *)
(***************************************************************************)
THEOREM TypeCorrect == Spec => []TypeOK
<1>1. Spec => Init /\ [][Next]_vars
  BY DEF Spec
<1> QED
  BY <1>1, InitType, NextType, PTL
-----------------------------------------------------------------------------
(* The invariant of the analysis: what a step must leave alone. *)

LEMMA CoversFacts ==
  /\ \A x : Covers(x, x)
  /\ \A x, y : Covers(Join(x, y), x) /\ Covers(Join(x, y), y)
  /\ \A x, y, z : Covers(x, y) /\ Covers(y, z) => Covers(x, z)
  BY DEF Covers, Join

LEMMA EmptyFacts ==
  /\ \A x : ~IsIntersected(EmptyInfo, x)
  /\ \A x : ~IsIntersected(x, EmptyInfo)
  /\ \A x : Covers(x, Join(EmptyInfo, x))
  BY DEF IsIntersected, SetsIntersect, EmptyInfo, Covers, Join

LEMMA ChainFrame ==
  ASSUME NEW b, NEW n \in Nat \ {0}, Chain(b, n), prog' = prog,
         inMap'[b] = inMap[b],
         \A i \in 1 .. n : At(b, i)' = At(b, i),
         \A i \in 1 .. n : <<b, i>> \in bars' <=> <<b, i>> \in bars,
         \A i \in 1 .. n - 1 : CurInfo(OpAt(b, i))' = CurInfo(OpAt(b, i))
  PROVE  Chain(b, n)'
<1>1. Covers(At(b, 1), inMap[b])'
  <2>1. Covers(At(b, 1), inMap[b])
    BY DEF Chain
  <2>2. At(b, 1)' = At(b, 1)
    OBVIOUS
  <2> QED
    BY <2>1, <2>2 DEF Covers
<1>2. ASSUME NEW i \in 1 .. n - 1 PROVE Link(b, i)'
  <2>1. Link(b, i)
    BY DEF Chain
  <2>2. i \in 1 .. n /\ i + 1 \in 1 .. n
    OBVIOUS
  <2>3. At(b, i)' = At(b, i) /\ At(b, i + 1)' = At(b, i + 1)
    BY <2>2
  <2>4. Before(b, i)' = Before(b, i)
    BY <2>2, <2>3 DEF Before, After
  <2>5. OpAt(b, i)' = OpAt(b, i)
    BY DEF OpAt
  <2>6. <<b, i + 1>> \in bars' <=> <<b, i + 1>> \in bars
    BY <2>2
  <2>7. CurInfo(OpAt(b, i))' = CurInfo(OpAt(b, i))
    OBVIOUS
  <2> HIDE DEF Before, At, CurInfo
  <2> QED
    BY <2>1, <2>3, <2>4, <2>5, <2>6, <2>7 DEF Link, IsIntersected, SetsIntersect, Covers, Join
<1>3. (\A i \in 1 .. n - 1 : Link(b, i))'
  BY <1>2
<1> QED
  BY <1>1, <1>3 DEF Chain

LEMMA SettledFrame ==
  ASSUME TypeOK, NEW b \in Blocks, Settled(b), prog' = prog,
         inMap'[b] = inMap[b], outMap'[b] = outMap[b],
         \A i \in 1 .. Terminator(b) : At(b, i)' = At(b, i),
         \A i \in 1 .. Terminator(b) : <<b, i>> \in bars' <=> <<b, i>> \in bars,
         \A i \in 1 .. Len(prog.body[b]) : CurInfo(OpAt(b, i))' = CurInfo(OpAt(b, i))
  PROVE  Settled(b)'
<1>1. Terminator(b) \in Nat \ {0} /\ Terminator(b) - 1 = Len(prog.body[b])
  BY TerminatorType DEF Terminator
<1>2. Terminator(b)' = Terminator(b)
  BY DEF Terminator
<1>3. Chain(b, Terminator(b))
  BY DEF Settled
<1> DEFINE n == Terminator(b)
<1>4. ASSUME NEW m, m = n PROVE Chain(b, m)'
  BY <1>1, <1>3, <1>4, ChainFrame
<1>5. Chain(b, Terminator(b))'
  BY <1>2, <1>4
<1>6. Before(b, Terminator(b))' = Before(b, Terminator(b))
  BY <1>1, <1>2 DEF Before, After
<1>7. Covers(outMap[b], Before(b, Terminator(b)))'
  BY <1>6 DEF Settled, Covers
<1> QED
  BY <1>5, <1>7 DEF Settled
-----------------------------------------------------------------------------
(* Visiting one operation. *)

LEMMA AtOpType ==
  ASSUME TypeOK, AtOp
  PROVE  cur \in Blocks /\ pos \in 1 .. Len(prog.body[cur]) /\ pos \in Nat \ {0}
  BY TerminatorType DEF TypeOK, AtOp, Terminator

LEMMA VisitChain ==
  ASSUME TypeOK, AtOp, NEW c, NEW n, c = cur, n = pos, Chain(c, n), NEW x, Advance(x),
         \A b, i : <<b, i>> \in bars => <<b, i>> \in bars',
         \A b, i : <<b, i>> \in bars' => <<b, i>> \in bars \/ (b = c /\ i \in {n, n + 1}),
         Link(c, n)'
  PROVE  Chain(c, n + 1)'
<1>1. c \in Blocks /\ n \in Nat \ {0} /\ <<c, n>> \in Position
  BY AtOpType, TerminatorType, PositionMember DEF Terminator
<1>2. /\ prog' = prog /\ cur' = c /\ pos' = n + 1 /\ inMap' = inMap /\ funcInfo' = funcInfo
      /\ pre' = [pre EXCEPT ![<<c, n>>] = info]
  BY DEF Advance
<1>3. pre'[<<c, n>>] = info
  BY <1>1, <1>2 DEF TypeOK
<1>4. \A i \in 1 .. n : At(c, i)' = At(c, i)
  <2>1. TAKE i \in 1 .. n
  <2>2. CASE i = n
    BY <1>1, <1>2, <1>3, <2>2 DEF At
  <2>3. CASE i # n
    <3>1. pre'[<<c, i>>] = pre[<<c, i>>]
      BY <1>1, <1>2, <2>3 DEF TypeOK
    <3> QED
      BY <1>1, <1>2, <2>3, <3>1 DEF At
  <2> QED
    BY <2>2, <2>3
<1>5. \A i : CurInfo(OpAt(c, i))' = CurInfo(OpAt(c, i))
  BY <1>2 DEF CurInfo, OpAt
<1>6. Covers(At(c, 1), inMap[c])'
  <2>1. Covers(At(c, 1), inMap[c])
    BY DEF Chain
  <2>2. At(c, 1)' = At(c, 1)
    BY <1>1, <1>4
  <2> QED
    BY <1>2, <2>1, <2>2 DEF Covers
<1>7. ASSUME NEW i \in 1 .. n - 1 PROVE Link(c, i)'
  <2>1. Link(c, i)
    BY <1>1, <1>7 DEF Chain
  <2>2. i \in 1 .. n /\ i + 1 \in 1 .. n /\ i # n /\ i # n + 1
    BY <1>1
  <2>3. At(c, i)' = At(c, i) /\ At(c, i + 1)' = At(c, i + 1)
    BY <1>4, <2>2
  <2>4. Before(c, i)' = Before(c, i)
    BY <1>2, <2>2, <2>3 DEF Before, After
  <2>5. OpAt(c, i)' = OpAt(c, i)
    BY <1>2 DEF OpAt
  <2>6. <<c, i + 1>> \in bars => <<c, i + 1>> \in bars'
    OBVIOUS
  <2>7. CurInfo(OpAt(c, i))' = CurInfo(OpAt(c, i))
    BY <1>5
  <2> HIDE DEF Before, At, CurInfo
  <2> QED
    BY <1>2, <2>1, <2>3, <2>4, <2>5, <2>6, <2>7
    DEF Link, IsIntersected, SetsIntersect, Covers, Join
<1>8. \A i \in 1 .. (n + 1) - 1 : Link(c, i)'
  <2>1. TAKE i \in 1 .. (n + 1) - 1
  <2>2. i \in 1 .. n - 1 \/ i = n
    BY <1>1
  <2> QED
    BY <1>7, <2>2
<1> QED
  BY <1>2, <1>6, <1>8 DEF Chain

\* What every visit of an operation preserves.
LEMMA VisitInv ==
  ASSUME AnalysisInv, TypeOK', AtOp, NEW c, NEW n, c = cur, n = pos,
         NEW x, Advance(x), Chain(c, n + 1)',
         \A b, i : <<b, i>> \in bars => <<b, i>> \in bars',
         \A b, i : <<b, i>> \in bars' => <<b, i>> \in bars \/ b = cur
  PROVE  AnalysisInv'
<1> USE DEF AnalysisInv
<1>1. cur \in Blocks /\ pos \in Nat \ {0} /\ <<cur, pos>> \in Position
  BY AtOpType, TerminatorType, PositionMember DEF Terminator
<1>2. /\ UNCHANGED <<prog, fn, work, cur, inMap, outMap, seen, funcInfo>>
      /\ pos' = pos + 1 /\ pre' = [pre EXCEPT ![<<cur, pos>>] = info]
  BY DEF Advance
<1>3. OwnFunction'
  BY <1>2 DEF OwnFunction
<1>4. EntriesReached'
  BY <1>2 DEF EntriesReached, Reached, InWork
<1>5. EdgesCovered'
  BY <1>2 DEF EdgesCovered, Reached, InWork, Successors, Covers
<1>6. SettledWhenIdle'
  <2> SUFFICES ASSUME NEW b \in seen, ~(b = cur \/ InWork(b)) PROVE Settled(b)'
    BY <1>2 DEF SettledWhenIdle, InWork
  <2>1. b \in Blocks /\ Settled(b)
    BY DEF SettledWhenIdle, TypeOK
  <2>2. \A i : At(b, i)' = At(b, i)
    BY <1>1, <1>2 DEF At, TypeOK
  <2>3. \A i : <<b, i>> \in bars' <=> <<b, i>> \in bars
    OBVIOUS
  <2>4. \A i : CurInfo(OpAt(b, i))' = CurInfo(OpAt(b, i))
    BY <1>2 DEF CurInfo, OpAt
  <2> QED
    BY <1>2, <2>1, <2>2, <2>3, <2>4, SettledFrame
<1>7. VisitInProgress'
  <2>1. cur' = c /\ pos' = n + 1
    BY <1>2
  <2>2. Chain(c, n + 1)' => Chain(cur, pos)'
    BY <2>1 DEF Chain, Link, At, Before, After, OpAt, Covers
  <2> QED
    BY <2>2 DEF VisitInProgress
<1>8. SummariesDone'
  BY <1>2 DEF SummariesDone, Covers
<1> QED
  BY <1>3, <1>4, <1>5, <1>6, <1>7, <1>8

LEMMA BarrierInv == AnalysisInv /\ TypeOK' /\ VisitBarrier => AnalysisInv'
<1> SUFFICES ASSUME AnalysisInv, TypeOK', VisitBarrier PROVE AnalysisInv'
  OBVIOUS
<1>1. PICK c, n : c = cur /\ n = pos
  OBVIOUS
<1>2. TypeOK /\ AtOp /\ Advance(EmptyInfo) /\ bars' = bars /\ Chain(c, n)
  BY <1>1 DEF VisitBarrier, AnalysisInv, VisitInProgress, AtOp
<1>3. Link(c, n)'
  BY <1>1, <1>2 DEF VisitBarrier, Link, OpAt, Advance
<1>4. Chain(c, n + 1)'
  BY <1>1, <1>2, <1>3, VisitChain
<1> QED
  BY <1>1, <1>2, <1>4, VisitInv

LEMMA AsyncWaitInv == AnalysisInv /\ TypeOK' /\ VisitAsyncWait => AnalysisInv'
<1> SUFFICES ASSUME AnalysisInv, TypeOK', VisitAsyncWait PROVE AnalysisInv'
  OBVIOUS
<1>1. PICK c, n : c = cur /\ n = pos
  OBVIOUS
<1>2. /\ TypeOK /\ AtOp /\ Advance(EmptyInfo) /\ Chain(c, n)
      /\ bars' = bars \cup {<<c, n + 1>>}
  BY <1>1 DEF VisitAsyncWait, AnalysisInv, VisitInProgress, AtOp
<1>3. prog' = prog /\ OpAt(c, n)' = OpAt(c, n) /\ OpAt(c, n).kind = "async_wait"
  BY <1>1, <1>2 DEF VisitAsyncWait, Advance, OpAt
<1>4. CurInfo(OpAt(c, n))' = EmptyInfo
  BY <1>3 DEF CurInfo
<1>5. <<c, n + 1>> \in bars'
  BY <1>2
<1>6. ~IsIntersected(Before(c, n), CurInfo(OpAt(c, n)))'
  BY <1>4, EmptyFacts DEF IsIntersected, SetsIntersect, EmptyInfo
<1>7. Link(c, n)'
  BY <1>5, <1>6 DEF Link
<1>8. Chain(c, n + 1)'
  BY <1>1, <1>2, <1>7, VisitChain
<1> QED
  BY <1>1, <1>2, <1>8, VisitInv

LEMMA AccessInv == AnalysisInv /\ TypeOK' /\ VisitAccess => AnalysisInv'
<1> SUFFICES ASSUME AnalysisInv, TypeOK', VisitAccess PROVE AnalysisInv'
  OBVIOUS
<1>1. PICK c, n : c = cur /\ n = pos
  OBVIOUS
<1>2. TypeOK /\ AtOp /\ Chain(c, n)
  BY <1>1 DEF VisitAccess, AnalysisInv, VisitInProgress, AtOp
<1>3. PICK own : own = CurInfo(OpAt(c, n))
  OBVIOUS
<1>4. PICK here : here = After(info, c, n)
  OBVIOUS
<1>5. PICK x : /\ Advance(x)
               /\ \/ IsIntersected(here, own) /\ bars' = bars \cup {<<c, n>>} /\ x = own
                  \/ ~IsIntersected(here, own) /\ bars' = bars /\ x = Join(here, own)
  BY <1>1, <1>3, <1>4 DEF VisitAccess
<1>6. c \in Blocks /\ n \in Nat \ {0} /\ <<c, n>> \in Position
  BY <1>1, <1>2, AtOpType, TerminatorType, PositionMember DEF Terminator
<1>7. At(c, n)' = info /\ At(c, n + 1)' = x
  <2>1. pos' = n + 1 /\ cur' = c /\ info' = x /\ pre'[<<c, n>>] = info
    BY <1>1, <1>2, <1>5, <1>6 DEF Advance, TypeOK
  <2> QED
    BY <1>6, <2>1 DEF At
<1>8. CurInfo(OpAt(c, n))' = own
  BY <1>3, <1>5 DEF Advance, CurInfo, OpAt
<1>9. /\ ~IsIntersected(Before(c, n)', own)
      /\ Covers(x, Join(Before(c, n)', own))
  <2>1. CASE IsIntersected(here, own)
    <3>1. Before(c, n)' = EmptyInfo
      BY <1>5, <2>1 DEF Before, After
    <3> QED
      BY <1>5, <2>1, <3>1, EmptyFacts
  <2>2. CASE ~IsIntersected(here, own)
    <3>1. Before(c, n)' = here
      BY <1>4, <1>5, <1>7, <2>2 DEF Before, After
    <3> QED
      BY <1>5, <2>2, <3>1, CoversFacts
  <2> QED
    BY <2>1, <2>2
<1>10. Link(c, n)'
  <2>1. ~IsIntersected(Before(c, n), CurInfo(OpAt(c, n)))'
    BY <1>8, <1>9 DEF IsIntersected, SetsIntersect
  <2>2. Covers(At(c, n + 1), Join(Before(c, n), CurInfo(OpAt(c, n))))'
    BY <1>7, <1>8, <1>9 DEF Covers, Join
  <2> QED
    BY <2>1, <2>2 DEF Link
<1>11. Chain(c, n + 1)'
  BY <1>1, <1>2, <1>5, <1>10, VisitChain
<1> QED
  BY <1>1, <1>2, <1>5, <1>11, VisitInv
-----------------------------------------------------------------------------
(* The steps between visits. *)

LEMMA SuccessorFacts ==
  ASSUME TypeOK, NEW b \in Blocks
  PROVE  /\ prog.succ[b] \in Seq(Blocks)
         /\ \A s \in Successors(b) : s \in Blocks /\ prog.fnOf[s] = prog.fnOf[b]
<1>1. WellFormed(prog)
  BY DEF TypeOK
<1>2. prog.succ[b] \in Seq(Blocks)
  BY <1>1 DEF WellFormed
<1>3. \A i \in 1 .. Len(prog.succ[b]) :
        prog.succ[b][i] \in Blocks /\ prog.fnOf[prog.succ[b][i]] = prog.fnOf[b]
  BY <1>1, <1>2 DEF WellFormed
<1> QED
  BY <1>2, <1>3 DEF Successors

LEMMA PopBlockInv == AnalysisInv /\ TypeOK' /\ PopBlock => AnalysisInv'
<1> SUFFICES ASSUME AnalysisInv, TypeOK', PopBlock PROVE AnalysisInv'
  OBVIOUS
<1> USE DEF AnalysisInv
<1>1. PICK c : c = Head(work)
  OBVIOUS
<1>2. /\ work \in Seq(Blocks) /\ work # <<>> /\ cur = NoBlock
      /\ cur' = c /\ work' = Tail(work) /\ pos' = 1 /\ info' = inMap[c]
      /\ UNCHANGED <<prog, fn, inMap, outMap, seen, funcInfo, bars, pre>>
  BY <1>1 DEF PopBlock, TypeOK
<1>3. /\ c \in Blocks /\ c = work[1] /\ Len(work) \in Nat \ {0}
      /\ Len(work') = Len(work) - 1
      /\ \A i \in 1 .. Len(work') : work'[i] = work[i + 1]
  BY <1>1, <1>2
<1>4. ASSUME NEW b, InWork(b) PROVE b = c \/ InWork(b)'
  <2>1. PICK i \in 1 .. Len(work) : work[i] = b
    BY <1>4 DEF InWork
  <2>2. CASE i = 1
    BY <1>3, <2>1, <2>2
  <2>3. CASE i # 1
    <3>1. i - 1 \in 1 .. Len(work') /\ work'[i - 1] = work[(i - 1) + 1]
      BY <1>3, <2>3
    <3>2. work'[i - 1] = b
      BY <2>1, <3>1
    <3> QED
      BY <3>1, <3>2 DEF InWork
  <2> QED
    BY <2>2, <2>3
<1>5. \A b \in Blocks : Reached(b) => Reached(b)'
  BY <1>2, <1>4, NoBlockAssumption DEF Reached
<1>6. OwnFunction'
  <2>1. \A i \in 1 .. Len(work') : i + 1 \in 1 .. Len(work)
    BY <1>3
  <2>2. \A i \in 1 .. Len(work') : prog.fnOf[work'[i]] = fn
    BY <1>3, <2>1 DEF OwnFunction
  <2>3. prog.fnOf[c] = fn
    BY <1>3 DEF OwnFunction
  <2> QED
    BY <1>2, <2>2, <2>3 DEF OwnFunction
<1>7. EntriesReached'
  <2>1. prog.entry \in [1 .. prog.nfuncs -> Blocks]
    BY DEF TypeOK, WellFormed
  <2> SUFFICES ASSUME NEW f \in 1 .. prog.nfuncs, f <= fn PROVE Reached(prog.entry[f])'
    BY <1>2 DEF EntriesReached
  <2>2. PICK b : b = prog.entry[f]
    OBVIOUS
  <2>3. b \in Blocks /\ Reached(b)
    BY <2>1, <2>2 DEF EntriesReached
  <2>4. Reached(b)'
    BY <1>5, <2>3
  <2> QED
    BY <1>2, <2>2, <2>4 DEF Reached, InWork
<1>8. EdgesCovered'
  <2>1. \A b \in seen : \A s \in Successors(b) : s \in Blocks
    BY SuccessorFacts DEF TypeOK
  <2> QED
    BY <1>2, <1>5, <2>1 DEF EdgesCovered, Successors, Covers
<1>9. SettledWhenIdle'
  <2> SUFFICES ASSUME NEW b \in seen, b # c, ~InWork(b)' PROVE Settled(b)'
    BY <1>2 DEF SettledWhenIdle
  <2>1. b \in Blocks /\ Settled(b)
    BY <1>2, <1>4, NoBlockAssumption DEF SettledWhenIdle, TypeOK
  <2>2. \A i : At(b, i)' = At(b, i)
    BY <1>2, <2>1, NoBlockAssumption DEF At
  <2>3. \A i : CurInfo(OpAt(b, i))' = CurInfo(OpAt(b, i))
    BY <1>2 DEF CurInfo, OpAt
  <2> QED
    BY <1>2, <2>1, <2>2, <2>3, SettledFrame
<1>10. VisitInProgress'
  <2>1. At(c, 1)' = inMap[c]
    BY <1>2 DEF At
  <2>2. Chain(cur, pos)'
    BY <1>2, <2>1 DEF Chain, Covers, At
  <2> QED
    BY <2>2 DEF VisitInProgress
<1>11. SummariesDone'
  BY <1>2 DEF SummariesDone, Covers
<1> QED
  BY <1>6, <1>7, <1>8, <1>9, <1>10, <1>11

\* The end of a visit: the block's chain is complete in the history.
LEMMA EndOfVisit ==
  ASSUME AnalysisInv, AtTerminator, NEW c, c = cur, cur' = NoBlock, prog' = prog,
         pre' = [pre EXCEPT ![<<cur, pos>>] = info], bars' = bars, funcInfo' = funcInfo
  PROVE  /\ c \in Blocks
         /\ \A b \in Blocks : \A i \in 1 .. Terminator(b) : At(b, i)' = At(b, i)
         /\ \A b, i : CurInfo(OpAt(b, i))' = CurInfo(OpAt(b, i))
         /\ Chain(c, Terminator(c))
         /\ Before(c, Terminator(c)) = After(info, c, Terminator(c))
<1>1. TypeOK /\ c \in Blocks /\ pos = Terminator(c) /\ pos \in Nat \ {0}
  BY DEF AnalysisInv, AtTerminator, TypeOK
<1>2. <<c, pos>> \in Position
  BY <1>1, PositionMember, TerminatorType
<1>3. ASSUME NEW b \in Blocks, NEW i \in 1 .. Terminator(b) PROVE At(b, i)' = At(b, i)
  <2>1. <<b, i>> \in Position
    BY PositionMember
  <2>2. pre'[<<b, i>>] = IF b = c /\ i = pos THEN info ELSE pre[<<b, i>>]
    BY <1>1, <1>2, <2>1 DEF TypeOK
  <2>3. At(b, i)' = pre'[<<b, i>>]
    BY NoBlockAssumption DEF At
  <2> QED
    BY <2>2, <2>3 DEF At
<1>4. \A b, i : CurInfo(OpAt(b, i))' = CurInfo(OpAt(b, i))
  BY DEF CurInfo, OpAt
<1>5. Chain(c, Terminator(c))
  BY <1>1, NoBlockAssumption DEF AnalysisInv, VisitInProgress
<1>6. Before(c, Terminator(c)) = After(info, c, Terminator(c))
  BY <1>1 DEF Before, At
<1> QED
  BY <1>1, <1>3, <1>4, <1>5, <1>6

LEMMA SkipInv == AnalysisInv /\ TypeOK' /\ SkipSuccessors => AnalysisInv'
<1> SUFFICES ASSUME AnalysisInv, TypeOK', SkipSuccessors PROVE AnalysisInv'
  OBVIOUS
<1> USE DEF AnalysisInv
<1>1. PICK c : c = cur
  OBVIOUS
<1>2. /\ AtTerminator /\ c \in seen /\ cur' = NoBlock
      /\ After(info, c, pos) = outMap[c]
      /\ pre' = [pre EXCEPT ![<<cur, pos>>] = info]
      /\ UNCHANGED <<prog, fn, work, pos, info, inMap, outMap, seen, funcInfo, bars>>
  BY <1>1 DEF SkipSuccessors
<1>3. /\ c \in Blocks
      /\ \A b \in Blocks : \A i \in 1 .. Terminator(b) : At(b, i)' = At(b, i)
      /\ \A b, i : CurInfo(OpAt(b, i))' = CurInfo(OpAt(b, i))
      /\ Chain(c, Terminator(c))
      /\ Before(c, Terminator(c)) = After(info, c, Terminator(c))
  BY <1>1, <1>2, EndOfVisit
<1>4. \A b : Reached(b) => Reached(b)'
  BY <1>1, <1>2 DEF Reached, InWork
<1>5. OwnFunction'
  BY <1>2 DEF OwnFunction
<1>6. EntriesReached'
  BY <1>2, <1>4 DEF EntriesReached, Reached, InWork
<1>7. EdgesCovered'
  BY <1>2, <1>4 DEF EdgesCovered, Successors, Covers
<1>8. Settled(c)
  BY <1>1, <1>2, <1>3, CoversFacts DEF Settled, AtTerminator
<1>9. SettledWhenIdle'
  <2> SUFFICES ASSUME NEW b \in seen, ~InWork(b) PROVE Settled(b)'
    BY <1>2 DEF SettledWhenIdle, InWork
  <2>1. b \in Blocks /\ Settled(b)
    BY <1>1, <1>8 DEF SettledWhenIdle, TypeOK
  <2> QED
    BY <1>2, <1>3, <2>1, SettledFrame
<1>10. VisitInProgress'
  BY <1>2 DEF VisitInProgress
<1>11. SummariesDone'
  BY <1>2 DEF SummariesDone, Covers
<1> QED
  BY <1>5, <1>6, <1>7, <1>9, <1>10, <1>11

LEMMA ConcatFacts ==
  ASSUME NEW S, NEW s \in Seq(S), NEW t \in Seq(S)
  PROVE  /\ Len(s) \in Nat /\ Len(t) \in Nat
         /\ Len(s \o t) = Len(s) + Len(t)
         /\ \A i \in 1 .. Len(s) : (s \o t)[i] = s[i]
         /\ \A i \in 1 .. Len(t) : (s \o t)[Len(s) + i] = t[i]
<1>1. Len(s) \in Nat /\ Len(t) \in Nat
  OBVIOUS
<1>2. Len(s \o t) = Len(s) + Len(t)
  OBVIOUS
<1>3. \A i \in 1 .. Len(s) : (s \o t)[i] = s[i]
  OBVIOUS
<1>4. \A i \in 1 .. Len(t) : (s \o t)[Len(s) + i] = t[i]
  <2> TAKE i \in 1 .. Len(t)
  <2>1. Len(s) + i \in 1 .. Len(s) + Len(t) /\ Len(s) + i > Len(s)
    BY <1>1
  <2>2. (Len(s) + i) - Len(s) = i
    BY <1>1
  <2> QED
    BY <1>1, <2>1, <2>2
<1> QED
  BY <1>1, <1>2, <1>3, <1>4

LEMMA UpdateInv == AnalysisInv /\ TypeOK' /\ UpdateSuccessors => AnalysisInv'
<1> SUFFICES ASSUME AnalysisInv, TypeOK', UpdateSuccessors PROVE AnalysisInv'
  OBVIOUS
<1> USE DEF AnalysisInv
<1>1. PICK c : c = cur
  OBVIOUS
<1>2. PICK out : out = Join(outMap[c], After(info, c, pos))
  OBVIOUS
<1>3. /\ AtTerminator /\ cur' = NoBlock
      /\ outMap' = [outMap EXCEPT ![c] = out]
      /\ inMap' = [b \in Blocks |-> IF b \in Successors(c)
                                    THEN Join(inMap[b], out) ELSE inMap[b]]
      /\ seen' = seen \cup {c}
      /\ work' = work \o prog.succ[c]
      /\ pre' = [pre EXCEPT ![<<cur, pos>>] = info]
      /\ UNCHANGED <<prog, fn, pos, info, funcInfo, bars>>
  BY <1>1, <1>2 DEF UpdateSuccessors
<1>4. /\ c \in Blocks /\ c # NoBlock
      /\ \A b \in Blocks : \A i \in 1 .. Terminator(b) : At(b, i)' = At(b, i)
      /\ \A b, i : CurInfo(OpAt(b, i))' = CurInfo(OpAt(b, i))
      /\ Chain(c, Terminator(c))
      /\ Before(c, Terminator(c)) = After(info, c, Terminator(c))
  BY <1>1, <1>3, EndOfVisit, NoBlockAssumption
<1>5. /\ prog.succ[c] \in Seq(Blocks) /\ work \in Seq(Blocks)
      /\ \A s \in Successors(c) : s \in Blocks /\ prog.fnOf[s] = prog.fnOf[c]
  BY <1>4, SuccessorFacts DEF TypeOK
<1>6. /\ Len(work) \in Nat /\ Len(prog.succ[c]) \in Nat
      /\ Len(work') = Len(work) + Len(prog.succ[c])
      /\ \A i \in 1 .. Len(work) : work'[i] = work[i]
      /\ \A i \in 1 .. Len(prog.succ[c]) : work'[Len(work) + i] = prog.succ[c][i]
  BY <1>3, <1>5, ConcatFacts
<1>7. \A b : InWork(b) => InWork(b)'
  <2>1. \A i \in 1 .. Len(work) : i \in 1 .. Len(work')
    BY <1>6
  <2> QED
    BY <1>6, <2>1 DEF InWork
<1>8. \A s \in Successors(c) : InWork(s)'
  <2>1. \A i \in 1 .. Len(prog.succ[c]) : Len(work) + i \in 1 .. Len(work')
    BY <1>6
  <2> QED
    BY <1>6, <2>1 DEF InWork, Successors
<1>9. \A b : Reached(b) => Reached(b)'
  BY <1>1, <1>3, <1>7 DEF Reached
<1>10. \A b \in Blocks : Covers(inMap'[b], inMap[b])
  BY <1>3, CoversFacts
<1>11. OwnFunction'
  <2>1. prog.fnOf[c] = fn
    BY <1>1, <1>4 DEF OwnFunction
  <2>2. fn <= fn
    BY DEF TypeOK, WellFormed
  <2>3. \A i \in 1 .. Len(work') : prog.fnOf[work'[i]] = fn
    <3>1. \A i \in 1 .. Len(prog.succ[c]) : prog.fnOf[prog.succ[c][i]] = fn
      BY <1>5, <2>1 DEF Successors
    <3>2. \A i \in 1 .. Len(work) : prog.fnOf[work[i]] = fn
      BY DEF OwnFunction
    <3> TAKE i \in 1 .. Len(work')
    <3>3. CASE i \in 1 .. Len(work)
      BY <1>6, <3>2, <3>3
    <3>4. CASE i \notin 1 .. Len(work)
      <4>1. PICK j : j = i - Len(work)
        OBVIOUS
      <4>2. j \in 1 .. Len(prog.succ[c]) /\ Len(work) + j = i
        BY <1>6, <3>4, <4>1
      <4>3. work'[i] = prog.succ[c][j]
        BY <1>6, <4>2
      <4> QED
        BY <3>1, <4>2, <4>3
    <3> QED
      BY <3>3, <3>4
  <2> QED
    BY <1>3, <2>1, <2>2, <2>3 DEF OwnFunction
<1>12. EntriesReached'
  BY <1>3, <1>9 DEF EntriesReached, Reached, InWork
<1>13. EdgesCovered'
  <2> SUFFICES ASSUME NEW b \in seen', NEW s \in Successors(b)
               PROVE  Reached(s)' /\ Covers(inMap'[s], outMap'[b])
    <3>1. \A b : Successors(b)' = Successors(b)
      BY <1>3 DEF Successors
    <3> QED
      BY <3>1 DEF EdgesCovered, Covers
  <2>1. b \in Blocks /\ s \in Blocks
    BY <1>3, <1>4, SuccessorFacts DEF TypeOK
  <2>2. CASE b = c
    <3>1. inMap'[s] = Join(inMap[s], out) /\ outMap'[b] = out
      BY <1>3, <1>4, <2>1, <2>2 DEF TypeOK
    <3> QED
      BY <1>8, <2>2, <3>1, CoversFacts DEF Reached
  <2>3. CASE b # c
    <3>1. Reached(s) /\ Covers(inMap[s], outMap[b]) /\ outMap'[b] = outMap[b]
      BY <1>3, <2>1, <2>3 DEF EdgesCovered, TypeOK
    <3> QED
      BY <1>9, <1>10, <2>1, <3>1, CoversFacts
  <2> QED
    BY <2>2, <2>3
<1>14. SettledWhenIdle'
  <2> SUFFICES ASSUME NEW b \in seen', ~InWork(b)' PROVE Settled(b)'
    BY <1>3 DEF SettledWhenIdle
  <2>1. b \in Blocks /\ b \notin Successors(c) /\ ~InWork(b)
    BY <1>3, <1>4, <1>7, <1>8 DEF TypeOK
  <2>2. inMap'[b] = inMap[b]
    BY <1>3, <2>1 DEF TypeOK
  <2>3. CASE b = c
    <3>1. \A m : m = Terminator(c) => Chain(c, m)'
      <4>1. Terminator(c) \in Nat \ {0} /\ Terminator(c) - 1 = Len(prog.body[c])
        BY <1>4, TerminatorType DEF Terminator
      <4>2. TAKE m
      <4>3. HAVE m = Terminator(c)
      <4> QED
        BY <1>3, <1>4, <2>2, <2>3, <4>1, <4>3, ChainFrame
    <3>2. Terminator(c)' = Terminator(c)
      BY <1>3 DEF Terminator
    <3>3. Chain(c, Terminator(c))'
      BY <3>1, <3>2
    <3>4. Terminator(c) \in 1 .. Terminator(c)
      BY <1>4, TerminatorType
    <3>5. Before(c, Terminator(c))' = Before(c, Terminator(c))
      BY <1>3, <1>4, <3>2, <3>4 DEF Before, After
    <3>6. pos = Terminator(c) /\ outMap'[c] = out
      BY <1>1, <1>3, <1>4 DEF AtTerminator, TypeOK
    <3>7. Covers(outMap'[c], Before(c, Terminator(c)))
      BY <1>2, <1>4, <3>6, CoversFacts
    <3>8. Covers(outMap[c], Before(c, Terminator(c)))'
      BY <3>5, <3>7 DEF Covers
    <3> QED
      BY <2>3, <3>3, <3>8 DEF Settled
  <2>4. CASE b # c
    <3>1. Settled(b) /\ outMap'[b] = outMap[b]
      BY <1>1, <1>3, <2>1, <2>4 DEF SettledWhenIdle, TypeOK
    <3> QED
      BY <1>3, <1>4, <2>1, <2>2, <3>1, SettledFrame
  <2> QED
    BY <2>3, <2>4
<1>15. VisitInProgress'
  BY <1>3 DEF VisitInProgress
<1>16. SummariesDone'
  <2> SUFFICES ASSUME NEW b \in seen', prog.fnOf[b] < fn, prog.succ[b] = <<>>
               PROVE  Covers(funcInfo[prog.fnOf[b]], outMap'[b])
    BY <1>3 DEF SummariesDone, Covers
  <2>1. prog.fnOf[c] = fn /\ ~(fn < fn)
    BY <1>1, <1>4 DEF OwnFunction, TypeOK, WellFormed
  <2>2. b \in seen /\ b # c
    BY <1>3, <2>1
  <2> QED
    BY <1>3, <2>2 DEF SummariesDone, TypeOK
<1> QED
  BY <1>11, <1>12, <1>13, <1>14, <1>15, <1>16

LEMMA FinishInv == AnalysisInv /\ TypeOK' /\ FinishFunction => AnalysisInv'
<1> SUFFICES ASSUME AnalysisInv, TypeOK', FinishFunction PROVE AnalysisInv'
  OBVIOUS
<1> USE DEF AnalysisInv
<1>1. PICK sum : sum = [r |-> UNION {outMap[b].r : b \in Returns(fn)},
                       w |-> UNION {outMap[b].w : b \in Returns(fn)}]
  OBVIOUS
<1>2. /\ cur = NoBlock /\ work = <<>> /\ ~Done
      /\ funcInfo' = [funcInfo EXCEPT ![fn] = sum] /\ fn' = fn + 1
      /\ work' = IF fn < prog.nfuncs THEN <<prog.entry[fn + 1]>> ELSE <<>>
      /\ UNCHANGED <<prog, cur, pos, info, inMap, outMap, seen, bars, pre>>
  BY <1>1 DEF FinishFunction
<1>3. WellFormed(prog)
  BY DEF TypeOK
<1>4. /\ prog.nfuncs \in Nat \ {0} /\ prog.fnOf \in [Blocks -> 1 .. prog.nfuncs]
      /\ prog.entry \in [1 .. prog.nfuncs -> Blocks]
      /\ \A f \in 1 .. prog.nfuncs : prog.fnOf[prog.entry[f]] = f
  BY <1>3 DEF WellFormed
<1>5. fn \in 1 .. prog.nfuncs
  BY <1>2, <1>4 DEF TypeOK, Done
<1>6. \A b : ~InWork(b)
  BY <1>2 DEF InWork
<1>7. \A b \in seen : b \in Blocks /\ prog.fnOf[b] <= fn /\ prog.fnOf[b] \in Nat
  BY <1>4 DEF OwnFunction, TypeOK
<1>8. ASSUME fn < prog.nfuncs
      PROVE  /\ work' = <<prog.entry[fn + 1]>> /\ Len(work') = 1
             /\ work'[1] = prog.entry[fn + 1]
             /\ prog.fnOf[prog.entry[fn + 1]] = fn + 1
  <2>1. fn + 1 \in 1 .. prog.nfuncs
    BY <1>4, <1>5, <1>8
  <2>2. prog.fnOf[prog.entry[fn + 1]] = fn + 1
    BY <1>4, <2>1
  <2>3. work' = <<prog.entry[fn + 1]>>
    BY <1>2, <1>8
  <2>4. Len(work') = 1 /\ work'[1] = prog.entry[fn + 1]
    BY <2>3
  <2> QED
    BY <2>2, <2>3, <2>4
<1>9. OwnFunction'
  <2>1. \A b \in seen' : prog'.fnOf[b] <= fn'
    BY <1>2, <1>5, <1>7
  <2>2. \A i \in 1 .. Len(work') : prog'.fnOf[work'[i]] = fn'
    <3>1. CASE fn < prog.nfuncs
      BY <1>2, <1>8, <3>1
    <3>2. CASE ~(fn < prog.nfuncs)
      BY <1>2, <3>2
    <3> QED
      BY <3>1, <3>2
  <2> QED
    BY <1>2, <2>1, <2>2 DEF OwnFunction
<1>10. EntriesReached'
  <2> SUFFICES ASSUME NEW f \in 1 .. prog.nfuncs, f <= fn + 1 PROVE Reached(prog.entry[f])'
    BY <1>2 DEF EntriesReached
  <2>1. CASE f <= fn
    BY <1>2, <1>4, <1>6, <2>1, NoBlockAssumption DEF EntriesReached, Reached
  <2>2. CASE ~(f <= fn)
    <3>1. f = fn + 1 /\ fn < prog.nfuncs
      BY <1>4, <1>5, <2>2
    <3>2. Len(work') = 1 /\ work'[1] = prog.entry[f]
      BY <1>8, <3>1
    <3> QED
      BY <1>2, <3>2 DEF Reached, InWork
  <2> QED
    BY <2>1, <2>2
<1>11. EdgesCovered'
  <2>1. \A b \in seen : \A s \in Successors(b) : s \in seen
    BY <1>2, <1>6, <1>7, SuccessorFacts, NoBlockAssumption DEF EdgesCovered, Reached
  <2> QED
    BY <1>2, <2>1 DEF EdgesCovered, Reached, Successors, Covers
<1>12. ASSUME NEW b \in seen, NEW i \in 1 .. Len(prog.body[b])
       PROVE  CurInfo(OpAt(b, i))' = CurInfo(OpAt(b, i))
  <2>1. OpAt(b, i)' = OpAt(b, i)
    BY <1>2 DEF OpAt
  <2>2. CASE OpAt(b, i).kind = "call"
    <3>1. OpAt(b, i).callee \in 1 .. (prog.fnOf[b] - 1)
      BY <1>3, <1>7, <2>2 DEF WellFormed, OpAt
    <3>2. OpAt(b, i).callee # fn /\ OpAt(b, i).callee \in 1 .. prog.nfuncs
      BY <1>4, <1>5, <1>7, <3>1
    <3>3. funcInfo'[OpAt(b, i).callee] = funcInfo[OpAt(b, i).callee]
      BY <1>2, <3>2 DEF TypeOK
    <3> QED
      BY <2>1, <2>2, <3>3 DEF CurInfo
  <2>3. CASE OpAt(b, i).kind # "call"
    BY <1>2, <2>1, <2>3 DEF CurInfo
  <2> QED
    BY <2>2, <2>3
<1>13. SettledWhenIdle'
  <2> SUFFICES ASSUME NEW b \in seen PROVE Settled(b)'
    BY <1>2 DEF SettledWhenIdle
  <2>1. b \in Blocks /\ Settled(b)
    BY <1>2, <1>6, <1>7, NoBlockAssumption DEF SettledWhenIdle
  <2>2. \A i : At(b, i)' = At(b, i)
    BY <1>2 DEF At
  <2> QED
    BY <1>2, <1>12, <2>1, <2>2, SettledFrame
<1>14. VisitInProgress'
  BY <1>2 DEF VisitInProgress
<1>15. SummariesDone'
  <2> SUFFICES ASSUME NEW b \in seen, prog.fnOf[b] < fn + 1, prog.succ[b] = <<>>
               PROVE  Covers(funcInfo'[prog.fnOf[b]], outMap[b])
    BY <1>2 DEF SummariesDone, Covers
  <2>1. CASE prog.fnOf[b] = fn
    <3>1. b \in Returns(fn)
      BY <1>7, <2>1 DEF Returns
    <3>2. funcInfo'[fn] = sum
      BY <1>2, <1>5 DEF TypeOK
    <3>3. outMap[b].r \subseteq sum.r /\ outMap[b].w \subseteq sum.w
      BY <1>1, <3>1
    <3> QED
      BY <2>1, <3>2, <3>3 DEF Covers
  <2>2. CASE prog.fnOf[b] # fn
    <3>1. prog.fnOf[b] < fn
      BY <1>5, <1>7, <2>2
    <3>2. funcInfo'[prog.fnOf[b]] = funcInfo[prog.fnOf[b]]
      BY <1>2, <1>4, <1>7, <2>2 DEF TypeOK
    <3> QED
      BY <3>1, <3>2 DEF SummariesDone
  <2> QED
    BY <2>1, <2>2
<1> QED
  BY <1>9, <1>10, <1>11, <1>13, <1>14, <1>15

LEMMA InitInv == Init => AnalysisInv
<1> SUFFICES ASSUME Init PROVE AnalysisInv
  OBVIOUS
<1>1. TypeOK
  BY InitType
<1>2. WellFormed(prog)
  BY <1>1 DEF TypeOK
<1>3. prog.nfuncs \in Nat \ {0} /\ \A f \in 1 .. prog.nfuncs : prog.fnOf[prog.entry[f]] = f
  BY <1>2 DEF WellFormed
<1>4. Len(work) = 1 /\ work[1] = prog.entry[1] /\ fn = 1 /\ seen = {} /\ cur = NoBlock
  BY DEF Init
<1>5. \A f \in 1 .. prog.nfuncs : f <= 1 => f = 1
  BY <1>3
<1> QED
  BY <1>1, <1>3, <1>4, <1>5
  DEF AnalysisInv, OwnFunction, EntriesReached, Reached, InWork, EdgesCovered,
      SettledWhenIdle, VisitInProgress, SummariesDone

LEMMA StutterInv == AnalysisInv /\ TypeOK' /\ UNCHANGED vars => AnalysisInv'
<1> SUFFICES ASSUME AnalysisInv, TypeOK', UNCHANGED vars PROVE AnalysisInv'
  OBVIOUS
<1> USE DEF AnalysisInv, vars
<1>1. OwnFunction' /\ SummariesDone'
  BY DEF OwnFunction, SummariesDone, Covers
<1>2. EntriesReached' /\ EdgesCovered'
  BY DEF EntriesReached, EdgesCovered, Reached, InWork, Successors, Covers
<1>3. \A b, i : CurInfo(OpAt(b, i))' = CurInfo(OpAt(b, i)) /\ At(b, i)' = At(b, i)
  BY DEF CurInfo, OpAt, At
<1>4. SettledWhenIdle'
  <2> SUFFICES ASSUME NEW b \in seen, ~(b = cur \/ InWork(b)) PROVE Settled(b)'
    BY DEF SettledWhenIdle, InWork
  <2>1. b \in Blocks /\ Settled(b)
    BY DEF SettledWhenIdle, TypeOK
  <2> QED
    BY <1>3, <2>1, SettledFrame
<1>5. VisitInProgress'
  <2> SUFFICES ASSUME cur # NoBlock PROVE Chain(cur, pos)'
    BY DEF VisitInProgress
  <2>1. PICK c, n : c = cur /\ n = pos
    OBVIOUS
  <2>2. Chain(c, n) /\ n \in Nat \ {0}
    BY <2>1 DEF VisitInProgress, TypeOK
  <2>3. Chain(c, n)'
    BY <1>3, <2>2, ChainFrame
  <2> QED
    BY <2>1, <2>3 DEF Chain, Link, At, Before, After, OpAt, Covers
<1> QED
  BY <1>1, <1>2, <1>4, <1>5

LEMMA NextInv == AnalysisInv /\ [Next]_vars => AnalysisInv'
<1> SUFFICES ASSUME AnalysisInv, [Next]_vars PROVE AnalysisInv'
  OBVIOUS
<1>1. TypeOK'
  BY NextType DEF AnalysisInv
<1> QED
  BY <1>1, PopBlockInv, BarrierInv, AsyncWaitInv, AccessInv, SkipInv, UpdateInv, FinishInv,
     StutterInv DEF Next

(***************************************************************************)
(* The worklist of MembarAnalysis::resolve always leaves a fixpoint behind *)
(* it: a block that is neither waiting nor being visited has its barriers  *)
(* in place, and its outputs are in the inputs of its successors.          *)
(***************************************************************************)
THEOREM AnalysisCorrect == Spec => []AnalysisInv
<1>1. Spec => Init /\ [][Next]_vars
  BY DEF Spec
<1> QED
  BY <1>1, InitInv, NextInv, PTL
-----------------------------------------------------------------------------
(* The kernel. *)

LEMMA AccessFacts ==
  /\ \A x, y : Covers(x, y) => AccessesOf(y) \subseteq AccessesOf(x)
  /\ \A x, y : AccessesOf(Join(x, y)) = AccessesOf(x) \cup AccessesOf(y)
  /\ AccessesOf(EmptyInfo) = {}
  BY DEF Covers, AccessesOf, Join, EmptyInfo

LEMMA AccessType ==
  ASSUME NEW x \in Info PROVE AccessesOf(x) \subseteq (Interval \X {"R", "W"})
  BY DEF Info, AccessesOf

\* Two accesses that race touch intervals the analysis calls intersecting.
LEMMA RaceIntersects ==
  ASSUME NEW x \in Interval \X {"R", "W"}, NEW y \in Interval \X {"R", "W"}, Race(x, y)
  PROVE  Intersects(x[1], y[1])
<1>1. PICK a : a \in Byte(x[1]) /\ a \in Byte(y[1])
  BY DEF Race
<1>2. x[1][1] \in Nat /\ x[1][2] \in Nat /\ y[1][1] \in Nat /\ y[1][2] \in Nat
  BY DEF Interval
<1>3. a \in Nat /\ x[1][1] <= a /\ a < x[1][2] /\ y[1][1] <= a /\ a < y[1][2]
  BY <1>1, <1>2 DEF Byte
<1> QED
  BY <1>2, <1>3 DEF Intersects

LEMMA NoRaceUnlessIntersected ==
  ASSUME NEW p \in Info, NEW q \in Info, ~IsIntersected(p, q),
         NEW x \in AccessesOf(p), NEW y \in AccessesOf(q)
  PROVE  ~Race(x, y)
<1> SUFFICES ASSUME Race(x, y) PROVE FALSE
  OBVIOUS
<1>1. x \in Interval \X {"R", "W"} /\ y \in Interval \X {"R", "W"}
  BY AccessType
<1>2. Intersects(x[1], y[1])
  BY <1>1, RaceIntersects
<1>3. x[2] = "W" \/ y[2] = "W"
  BY DEF Race
<1>4. x[1] \in (IF x[2] = "W" THEN p.w ELSE p.r)
  BY DEF AccessesOf
<1>5. y[1] \in (IF y[2] = "W" THEN q.w ELSE q.r)
  BY DEF AccessesOf
<1> QED
  BY <1>2, <1>3, <1>4, <1>5 DEF IsIntersected, SetsIntersect

\* When all functions are analysed, every block reached is at the fixpoint.
LEMMA DoneFacts ==
  ASSUME AnalysisInv, Done
  PROVE  /\ cur = NoBlock /\ work = <<>>
         /\ \A b \in seen : b \in Blocks /\ Settled(b)
         /\ \A b \in Blocks : Reached(b) => b \in seen
<1> USE DEF AnalysisInv
<1>1. WellFormed(prog)
  BY DEF TypeOK
<1>2. prog.nfuncs \in Nat /\ \A b \in Blocks : prog.fnOf[b] \in 1 .. prog.nfuncs
  BY <1>1 DEF WellFormed
<1>3. \A b \in Blocks : prog.fnOf[b] # fn
  BY <1>2 DEF Done
<1>4. cur = NoBlock
  BY <1>3 DEF OwnFunction, TypeOK
<1>5. work = <<>>
  <2> SUFFICES ASSUME work # <<>> PROVE FALSE
    OBVIOUS
  <2>1. 1 \in 1 .. Len(work) /\ work[1] \in Blocks
    BY DEF TypeOK
  <2> QED
    BY <1>3, <2>1 DEF OwnFunction
<1> QED
  BY <1>4, <1>5, NoBlockAssumption DEF TypeOK, SettledWhenIdle, Reached, InWork

LEMMA NoNextWhenDone == AnalysisInv /\ Done => ~Next
  BY DoneFacts
  DEF Next, PopBlock, VisitBarrier, VisitAsyncWait, VisitAccess, SkipSuccessors,
      UpdateSuccessors, FinishFunction, AtOp, AtTerminator

LEMMA PositionIsNotIdle == \A p \in Position : p # Idle /\ p[1] \in Blocks
  BY NoBlockAssumption DEF Position, Idle

\* The operation about to be executed: what is pending is what was analysed.
LEMMA RunningFacts ==
  ASSUME AnalysisInv, KernelInv, at # Idle, NEW b, NEW i, b = at[1], i = at[2]
  PROVE  /\ Done /\ b \in seen /\ b \in Blocks /\ Settled(b)
         /\ at = <<b, i>> /\ i \in 1 .. Terminator(b)
         /\ Terminator(b) \in Nat \ {0} /\ Terminator(b) = Len(prog.body[b]) + 1
         /\ Before(b, i) \in Info
         /\ AfterBarrier(pend, b, i) \subseteq AccessesOf(Before(b, i))
<1>1. Done /\ b \in seen /\ AfterBarrier(pend, b, i) \subseteq AccessesOf(Before(b, i))
  BY DEF KernelInv
<1>2. b \in Blocks /\ Settled(b)
  BY <1>1, DoneFacts
<1>3. at \in Position
  BY DEF KernelInv, KTypeOK
<1>4. at = <<b, i>>
  BY <1>3 DEF Position
<1>5. i \in 1 .. Terminator(b)
  BY <1>3, <1>4, PositionMember
<1>6. Terminator(b) \in Nat \ {0} /\ Terminator(b) = Len(prog.body[b]) + 1
  BY <1>2, TerminatorType DEF AnalysisInv, Terminator
<1>7. Before(b, i) \in Info
  BY <1>3, <1>4, EmptyInfoType DEF Before, After, At, AnalysisInv, TypeOK
<1> QED
  BY <1>1, <1>2, <1>4, <1>5, <1>6, <1>7

\* What the code's own test excludes in front of an operation about to run.
LEMMA LinkFacts ==
  ASSUME AnalysisInv, KernelInv, at # Idle, NEW b, NEW i, b = at[1], i = at[2],
         i < Terminator(b)
  PROVE  /\ i \in 1 .. Len(prog.body[b]) /\ i + 1 \in 1 .. Terminator(b)
         /\ Link(b, i)
         /\ CurInfo(OpAt(b, i)) \in Info
<1>1. /\ Settled(b) /\ b \in Blocks /\ i \in 1 .. Terminator(b)
      /\ Terminator(b) \in Nat \ {0} /\ Terminator(b) = Len(prog.body[b]) + 1
  BY RunningFacts
<1>2. Len(prog.body[b]) \in Nat
  BY <1>1, TerminatorType DEF AnalysisInv
<1>3. i \in 1 .. Len(prog.body[b]) /\ i + 1 \in 1 .. Terminator(b)
      /\ i \in 1 .. Terminator(b) - 1
  BY <1>1, <1>2
<1>4. Link(b, i)
  BY <1>1, <1>3 DEF Settled, Chain
<1> QED
  BY <1>1, <1>3, <1>4, CurInfoType DEF AnalysisInv

LEMMA KernelInvHolds == AnalysisInv /\ KernelInv => NoRace /\ SummaryCoversReturn
<1> SUFFICES ASSUME AnalysisInv, KernelInv PROVE NoRace /\ SummaryCoversReturn
  OBVIOUS
<1>1. PICK b, i : b = at[1] /\ i = at[2]
  OBVIOUS
<1>2. NoRace
  <2> SUFFICES ASSUME at # Idle, i < Terminator(b), NEW x \in AfterBarrier(pend, b, i),
                      NEW y \in Accesses(OpAt(b, i))
               PROVE  ~Race(x, y)
    BY <1>1 DEF NoRace
  <2>1. OpAt(b, i).kind # "barrier" /\ y \in AccessesOf(CurInfo(OpAt(b, i)))
    BY DEF Accesses
  <2>2. ~IsIntersected(Before(b, i), CurInfo(OpAt(b, i))) /\ CurInfo(OpAt(b, i)) \in Info
    BY <1>1, <2>1, LinkFacts DEF Link
  <2>3. x \in AccessesOf(Before(b, i)) /\ Before(b, i) \in Info
    BY <1>1, RunningFacts
  <2> QED
    BY <2>1, <2>2, <2>3, NoRaceUnlessIntersected
<1>3. SummaryCoversReturn
  <2> SUFFICES ASSUME at # Idle, i = Terminator(b), prog.succ[b] = <<>>
               PROVE  AfterBarrier(pend, b, i) \subseteq AccessesOf(funcInfo[prog.fnOf[b]])
    BY <1>1 DEF SummaryCoversReturn
  <2>1. /\ Done /\ b \in seen /\ b \in Blocks /\ Settled(b)
        /\ AfterBarrier(pend, b, i) \subseteq AccessesOf(Before(b, i))
    BY <1>1, RunningFacts
  <2>2. Covers(outMap[b], Before(b, i))
    BY <2>1 DEF Settled
  <2>3. prog.fnOf[b] < fn
    <3>1. WellFormed(prog)
      BY DEF AnalysisInv, TypeOK
    <3>2. prog.nfuncs \in Nat /\ prog.fnOf[b] \in 1 .. prog.nfuncs
      BY <2>1, <3>1 DEF WellFormed
    <3> QED
      BY <2>1, <3>2 DEF Done
  <2>4. Covers(funcInfo[prog.fnOf[b]], outMap[b])
    BY <2>1, <2>3 DEF AnalysisInv, SummariesDone
  <2> QED
    BY <2>1, <2>2, <2>4, AccessFacts
<1> QED
  BY <1>2, <1>3

LEMMA KernelInit == KInit => AnalysisInv /\ KernelInv
  BY InitInv DEF KInit, KernelInv, KTypeOK, AnalysisInv

LEMMA LaunchInv == AnalysisInv /\ KernelInv /\ Launch /\ UNCHANGED vars => KernelInv'
<1> SUFFICES ASSUME AnalysisInv, KernelInv, Launch, UNCHANGED vars PROVE KernelInv'
  OBVIOUS
<1> USE DEF vars
<1>1. PICK f \in 1 .. prog.nfuncs : at' = <<prog.entry[f], 1>>
  BY DEF Launch
<1>2. PICK b : b = prog.entry[f]
  OBVIOUS
<1>3. Done /\ pend' = {} /\ TypeOK
  BY DEF Launch, AnalysisInv
<1>4. WellFormed(prog)
  BY <1>3 DEF TypeOK
<1>5. b \in Blocks /\ prog.nfuncs \in Nat
  BY <1>2, <1>4 DEF WellFormed
<1>6. b \in seen
  <2>1. f <= fn
    BY <1>3, <1>5 DEF Done
  <2>2. Reached(b)
    BY <1>2, <2>1 DEF AnalysisInv, EntriesReached
  <2> QED
    BY <1>3, <1>5, <2>2, DoneFacts
<1>7. <<b, 1>> \in Position
  BY <1>3, <1>5, PositionMember, TerminatorType
<1>8. KTypeOK'
  BY <1>1, <1>2, <1>3, <1>7 DEF KTypeOK, KernelInv, TypeOK, Position, Terminator
<1> QED
  BY <1>1, <1>2, <1>3, <1>6, <1>8 DEF KernelInv, Done, AfterBarrier

LEMMA ExecuteInv == AnalysisInv /\ KernelInv /\ Execute /\ UNCHANGED vars => KernelInv'
<1> SUFFICES ASSUME AnalysisInv, KernelInv, Execute, UNCHANGED vars PROVE KernelInv'
  OBVIOUS
<1> USE DEF vars
<1>1. PICK b, i : b = at[1] /\ i = at[2]
  OBVIOUS
<1>2. PICK op : op = OpAt(b, i)
  OBVIOUS
<1>3. /\ at # Idle /\ i < Terminator(b) /\ at' = <<b, i + 1>>
      /\ pend' = IF op.kind = "barrier" THEN {}
                 ELSE AfterBarrier(pend, b, i) \cup Accesses(op)
  BY <1>1, <1>2 DEF Execute
<1>4. /\ Done /\ b \in seen /\ b \in Blocks /\ Before(b, i) \in Info
      /\ AfterBarrier(pend, b, i) \subseteq AccessesOf(Before(b, i))
  BY <1>1, <1>3, RunningFacts
<1>5. i + 1 \in 1 .. Terminator(b) /\ Link(b, i) /\ CurInfo(op) \in Info
  BY <1>1, <1>2, <1>3, LinkFacts
<1>6. <<b, i + 1>> \in Position
  BY <1>4, <1>5, PositionMember
<1>7. AfterBarrier(pend', b, i + 1) \subseteq AccessesOf(Before(b, i + 1))
  <2>1. CASE <<b, i + 1>> \in bars \/ op.kind = "barrier"
    BY <1>3, <2>1 DEF AfterBarrier
  <2>2. CASE <<b, i + 1>> \notin bars /\ op.kind # "barrier"
    <3>1. Covers(At(b, i + 1), Join(Before(b, i), CurInfo(op)))
      BY <1>2, <1>5, <2>2 DEF Link
    <3>2. Before(b, i + 1) = At(b, i + 1)
      BY <2>2 DEF Before, After
    <3>3. pend' = AfterBarrier(pend, b, i) \cup AccessesOf(CurInfo(op))
      BY <1>3, <2>2 DEF Accesses
    <3> HIDE DEF Before, At, CurInfo
    <3> QED
      BY <1>4, <2>2, <3>1, <3>2, <3>3, AccessFacts DEF AfterBarrier
  <2> QED
    BY <2>1, <2>2
<1>8. pend' \subseteq (Interval \X {"R", "W"})
  <2>1. AfterBarrier(pend, b, i) \subseteq (Interval \X {"R", "W"})
    BY DEF AfterBarrier, KernelInv, KTypeOK
  <2>2. Accesses(op) \subseteq (Interval \X {"R", "W"})
    BY <1>5, AccessType DEF Accesses
  <2> QED
    BY <1>3, <2>1, <2>2
<1>9. KTypeOK'
  BY <1>3, <1>6, <1>8 DEF KTypeOK, KernelInv, TypeOK, Position, Terminator
<1>10. at'[1] = b /\ at'[2] = i + 1
  BY <1>3
<1>11. (AfterBarrier(pend, at[1], at[2]) \subseteq AccessesOf(Before(at[1], at[2])))'
  BY <1>7, <1>10 DEF AfterBarrier, AccessesOf, Before, After, At
<1> QED
  BY <1>4, <1>9, <1>10, <1>11 DEF KernelInv, Done

LEMMA BranchInv == AnalysisInv /\ KernelInv /\ Branch /\ UNCHANGED vars => KernelInv'
<1> SUFFICES ASSUME AnalysisInv, KernelInv, Branch, UNCHANGED vars PROVE KernelInv'
  OBVIOUS
<1> USE DEF vars
<1>1. PICK b, i : b = at[1] /\ i = at[2]
  OBVIOUS
<1>2. PICK s \in Successors(b) : at' = <<s, 1>>
  BY <1>1 DEF Branch
<1>3. at # Idle /\ i = Terminator(b) /\ pend' = AfterBarrier(pend, b, i)
  BY <1>1 DEF Branch
<1>4. /\ Done /\ b \in seen /\ b \in Blocks /\ Settled(b)
      /\ AfterBarrier(pend, b, i) \subseteq AccessesOf(Before(b, i))
  BY <1>1, <1>3, RunningFacts
<1>5. s \in Blocks
  BY <1>4, SuccessorFacts DEF AnalysisInv
<1>6. s \in seen /\ Covers(inMap[s], outMap[b])
  BY <1>4, <1>5, DoneFacts DEF AnalysisInv, EdgesCovered
<1>7. Covers(At(s, 1), inMap[s])
  BY <1>4, <1>6, DoneFacts DEF Settled, Chain
<1>8. Covers(outMap[b], Before(b, i))
  BY <1>3, <1>4 DEF Settled
<1>9. pend' \subseteq AccessesOf(At(s, 1))
  <2> HIDE DEF Before, At
  <2> QED
    BY <1>3, <1>4, <1>6, <1>7, <1>8, AccessFacts
<1>10. AfterBarrier(pend', s, 1) \subseteq AccessesOf(Before(s, 1))
  BY <1>9 DEF AfterBarrier, Before, After
<1>11. <<s, 1>> \in Position
  BY <1>5, PositionMember, TerminatorType DEF AnalysisInv
<1>12. KTypeOK'
  <2>1. pend' \subseteq (Interval \X {"R", "W"})
    BY <1>3 DEF AfterBarrier, KernelInv, KTypeOK
  <2> QED
    BY <1>2, <1>11, <2>1 DEF KTypeOK, KernelInv, TypeOK, Position, Terminator
<1>13. at'[1] = s /\ at'[2] = 1
  BY <1>2
<1>14. (AfterBarrier(pend, at[1], at[2]) \subseteq AccessesOf(Before(at[1], at[2])))'
  BY <1>10, <1>13 DEF AfterBarrier, AccessesOf, Before, After, At
<1> QED
  BY <1>4, <1>6, <1>12, <1>13, <1>14 DEF KernelInv, Done

LEMMA ReturnInv == AnalysisInv /\ KernelInv /\ Return /\ UNCHANGED vars => KernelInv'
  BY DEF Return, KernelInv, KTypeOK, vars, TypeOK, Position, Terminator

LEMMA KernelStepInv ==
  AnalysisInv /\ KernelInv /\ [KNext]_<<vars, kvars>> => AnalysisInv' /\ KernelInv'
<1> SUFFICES ASSUME AnalysisInv, KernelInv, [KNext]_<<vars, kvars>>
             PROVE  AnalysisInv' /\ KernelInv'
  OBVIOUS
<1>1. CASE Next /\ UNCHANGED kvars
  <2>1. AnalysisInv'
    BY <1>1, NextInv
  <2>2. at = Idle
    BY <1>1, NoNextWhenDone DEF KernelInv
  <2>3. KernelInv'
    BY <1>1, <2>1, <2>2 DEF KernelInv, KTypeOK, kvars, AnalysisInv, Idle
  <2> QED
    BY <2>1, <2>3
<1>2. CASE Kernel /\ UNCHANGED vars
  BY <1>2, NextInv, LaunchInv, ExecuteInv, BranchInv, ReturnInv DEF Kernel
<1>3. CASE UNCHANGED <<vars, kvars>>
  <2>1. AnalysisInv' /\ UNCHANGED vars /\ UNCHANGED kvars
    BY <1>3, NextInv
  <2> QED
    BY <2>1 DEF KernelInv, KTypeOK, AnalysisInv, kvars, vars, Done, AfterBarrier, AccessesOf,
                Before, After, At, Position, Terminator, TypeOK
<1> QED
  BY <1>1, <1>2, <1>3 DEF KNext

(***************************************************************************)
(* For every module of functions and every allocation: on no path through  *)
(* a function does an operation touch a byte of shared memory in conflict  *)
(* with an access since the last barrier (Membar.h:85-93), a call counting *)
(* as the accesses of its callee's summary.                                *)
(***************************************************************************)
THEOREM RaceFree == KSpec => []NoRace
<1>1. KSpec => [](AnalysisInv /\ KernelInv)
  BY KernelInit, KernelStepInv, PTL DEF KSpec
<1> QED
  BY <1>1, KernelInvHolds, PTL

(***************************************************************************)
(* The summary of a function holds every access that is pending on any     *)
(* path to a return of it (Membar.h:138-140, Membar.cpp:72-78).            *)
(***************************************************************************)
THEOREM SummarySound == KSpec => []SummaryCoversReturn
<1>1. KSpec => [](AnalysisInv /\ KernelInv)
  BY KernelInit, KernelStepInv, PTL DEF KSpec
<1> QED
  BY <1>1, KernelInvHolds, PTL

(***************************************************************************)
(* Whatever a running kernel has pending is known to the analysis at the   *)
(* position it has reached: the invariant RaceFree rests on.               *)
(***************************************************************************)
THEOREM PendingIsAnalysed == KSpec => []MembarInv
<1>1. KSpec => [](AnalysisInv /\ KernelInv)
  BY KernelInit, KernelStepInv, PTL DEF KSpec
<1> QED
  BY <1>1, PTL DEF MembarInv
-----------------------------------------------------------------------------
(* Calls that are entered: the frames under execution. *)

LEMMA FrameMember ==
  ASSUME NEW F
  PROVE  F \in Frames <=> /\ F = Frame(F.block, F.op, 0)
                          /\ F.block \in seen /\ F.op \in Nat \ {0}
  BY DEF Frames, Frame

\* The innermost frame, and what may be pending there.
LEMMA TopFacts ==
  ASSUME AnalysisInv, CallsInv, stack # <<>>, NEW b, NEW i, b = Top.block, i = Top.op,
         NEW n, n = Len(stack)
  PROVE  /\ n \in Nat \ {0} /\ stack \in Seq(Frames) /\ Top = Frame(b, i, 0)
         /\ stack[n] = Top
         /\ Done /\ b \in seen /\ b \in Blocks /\ Settled(b)
         /\ i \in 1 .. Terminator(b) /\ Terminator(b) \in Nat \ {0}
         /\ Terminator(b) = Len(prog.body[b]) + 1
         /\ Before(b, i) \in Info
         /\ \A x \in PendingHere :
              x \in AccessesOf(Before(b, i)) \/ \E j \in 1 .. n - 1 : x \in Assumed(j)
<1>1. Done /\ FramesOK /\ PendingHere \subseteq UNION {Assumed(j) : j \in 1 .. Len(stack)}
  BY DEF CallsInv
<1>2. stack \in Seq(Frames)
  BY <1>1 DEF FramesOK
<1>3. n \in Nat \ {0}
  BY <1>2, EmptySeq
<1>4. stack[n] = Top /\ Top \in Frames
  BY <1>2, <1>3 DEF Top
<1>5. Top = Frame(b, i, 0) /\ b \in seen /\ i \in Nat \ {0}
  BY <1>4, FrameMember
<1>6. b \in Blocks /\ Settled(b)
  BY <1>1, <1>5, DoneFacts
<1>7. Terminator(b) \in Nat \ {0} /\ Terminator(b) = Len(prog.body[b]) + 1
  BY <1>6, TerminatorType DEF AnalysisInv, Terminator
<1>8. i <= Terminator(b)
  BY <1>1, <1>3, <1>4 DEF FramesOK
<1>9. i \in 1 .. Terminator(b)
  BY <1>5, <1>7, <1>8
<1>10. Before(b, i) \in Info
  <2>1. <<b, i>> \in Position
    BY <1>6, <1>9, PositionMember
  <2> QED
    BY <2>1, EmptyInfoType DEF Before, After, At, AnalysisInv, TypeOK
<1>11. Assumed(n) = AccessesOf(Before(b, i))
  BY <1>4 DEF Assumed, Under
<1>12. ASSUME NEW x \in PendingHere
       PROVE  x \in AccessesOf(Before(b, i)) \/ \E j \in 1 .. n - 1 : x \in Assumed(j)
  <2>1. PICK j \in 1 .. n : x \in Assumed(j)
    BY <1>1
  <2>2. CASE j = n
    BY <1>11, <2>1, <2>2
  <2>3. CASE j # n
    BY <1>3, <2>1, <2>3
  <2> QED
    BY <2>2, <2>3
<1> QED
  BY <1>1, <1>2, <1>3, <1>4, <1>5, <1>6, <1>7, <1>9, <1>10, <1>12

\* A frame below the top is in a call, and keeps what was assumed of it.
LEMMA CallerFacts ==
  ASSUME AnalysisInv, CallsInv, stack # <<>>, NEW j \in 1 .. Len(stack) - 1
  PROVE  /\ stack[j] \in Frames /\ stack[j].block \in Blocks /\ Settled(stack[j].block)
         /\ stack[j].op \in Nat /\ stack[j].op > 1
         /\ stack[j].op <= Terminator(stack[j].block)
         /\ OpAt(stack[j].block, stack[j].op - 1).kind = "call"
         /\ OpAt(stack[j].block, stack[j].op - 1).callee = prog.fnOf[stack[j + 1].block]
         /\ Assumed(j) = AccessesOf(Before(stack[j].block, stack[j].op - 1))
<1>1. FramesOK /\ Done /\ stack \in Seq(Frames) /\ Len(stack) \in Nat
  BY DEF CallsInv, FramesOK
<1>2. j \in 1 .. Len(stack) /\ j # Len(stack)
  BY <1>1
<1>3. stack[j] \in Frames
  BY <1>1, <1>2
<1>4. stack[j].block \in Blocks /\ Settled(stack[j].block)
  BY <1>1, <1>3, FrameMember, DoneFacts
<1>5. Assumed(j) = AccessesOf(Before(stack[j].block, stack[j].op - 1))
  BY <1>2 DEF Assumed, Under
<1> QED
  BY <1>1, <1>2, <1>3, <1>4, <1>5, FrameMember DEF FramesOK

\* What a step at the top must show: the new stack is well formed, and what is
\* pending in front of its operation was assumed there or in front of a call.
LEMMA CallsInvFrom ==
  ASSUME NEW s, NEW n \in Nat, stack' = s, s # <<>>, n = Len(s), AnalysisInv,
         UNCHANGED vars, Done, s \in Seq(Frames),
         \A j \in 1 .. n : s[j].op <= Terminator(s[j].block),
         \A j \in 1 .. n - 1 :
           /\ s[j].op > 1
           /\ OpAt(s[j].block, s[j].op - 1).kind = "call"
           /\ OpAt(s[j].block, s[j].op - 1).callee = prog.fnOf[s[j + 1].block],
         <<s[n].block, s[n].op>> \notin bars =>
           \A x \in pending' :
             \/ x \in AccessesOf(Before(s[n].block, s[n].op))
             \/ \E j \in 1 .. n - 1 : x \in AccessesOf(Before(s[j].block, s[j].op - 1))
  PROVE  CallsInv'
<1> USE DEF vars
<1>1. Done'
  BY DEF Done
<1>2. FramesOK'
  BY DEF FramesOK, Frames, Terminator, OpAt
<1>3. ASSUME NEW j \in 1 .. n
      PROVE  Assumed(j)' = AccessesOf(Before(s[j].block, IF j = n THEN s[j].op ELSE s[j].op - 1))
  BY DEF Assumed, Under, AccessesOf, Before, After, At
<1>4. ASSUME NEW x \in PendingHere' PROVE \E j \in 1 .. n : x \in Assumed(j)'
  <2>1. <<s[n].block, s[n].op>> \notin bars /\ x \in pending'
    BY DEF PendingHere, Top
  <2>2. n \in 1 .. n /\ \A j \in 1 .. n - 1 : j \in 1 .. n /\ j # n
    BY EmptySeq
  <2>3. CASE x \in AccessesOf(Before(s[n].block, s[n].op))
    BY <1>3, <2>2, <2>3
  <2>4. CASE \E j \in 1 .. n - 1 : x \in AccessesOf(Before(s[j].block, s[j].op - 1))
    BY <1>3, <2>2, <2>4
  <2> QED
    BY <2>1, <2>3, <2>4
<1>5. (PendingHere \subseteq UNION {Assumed(j) : j \in 1 .. Len(stack)})'
  BY <1>4
<1> QED
  BY <1>1, <1>2, <1>5 DEF CallsInv

\* The top frame moves on to another operation of its function.
LEMMA StepAtTop ==
  ASSUME AnalysisInv, CallsInv, stack # <<>>, NEW n, n = Len(stack), UNCHANGED vars,
         NEW b, NEW i, b \in seen, i \in 1 .. Terminator(b),
         prog.fnOf[b] = prog.fnOf[Top.block],
         stack' = Step(Frame(b, i, 0)),
         <<b, i>> \notin bars =>
           \A x \in pending' : \/ x \in AccessesOf(At(b, i))
                               \/ \E j \in 1 .. n - 1 : x \in Assumed(j)
  PROVE  CallsInv'
<1>1. /\ n \in Nat \ {0} /\ stack \in Seq(Frames) /\ stack[n] = Top /\ Done
  BY TopFacts
<1>2. b \in Blocks /\ Terminator(b) \in Nat \ {0}
  BY <1>1, DoneFacts, TerminatorType DEF AnalysisInv
<1>3. Frame(b, i, 0) \in Frames
  BY <1>2 DEF Frame, Frames
<1>4. PICK s : s = stack'
  OBVIOUS
<1>5. /\ s \in Seq(Frames) /\ Len(s) = n
      /\ s[n] = Frame(b, i, 0) /\ \A j \in 1 .. n : j # n => s[j] = stack[j]
  <2>1. s = [stack EXCEPT ![n] = Frame(b, i, 0)] /\ n \in 1 .. Len(stack)
    BY <1>1, <1>4 DEF Step
  <2> HIDE DEF Frame, Frames
  <2> QED
    BY <1>1, <1>3, <2>1, ExceptSeq
<1>6. s[n].block = b /\ s[n].op = i
  BY <1>5 DEF Frame
<1>7. ASSUME NEW j \in 1 .. n - 1 PROVE s[j] = stack[j] /\ j \in 1 .. Len(stack) - 1
  BY <1>1, <1>5
<1>8. \A j \in 1 .. n : s[j].op <= Terminator(s[j].block)
  <2> TAKE j \in 1 .. n
  <2>1. CASE j = n
    BY <1>2, <1>6, <2>1
  <2>2. CASE j # n
    <3>1. j \in 1 .. n - 1
      BY <1>1, <2>2
    <3> QED
      BY <1>7, <3>1, CallerFacts
  <2> QED
    BY <2>1, <2>2
<1>9. \A j \in 1 .. n - 1 :
        /\ s[j].op > 1
        /\ OpAt(s[j].block, s[j].op - 1).kind = "call"
        /\ OpAt(s[j].block, s[j].op - 1).callee = prog.fnOf[s[j + 1].block]
  <2> TAKE j \in 1 .. n - 1
  <2>1. prog.fnOf[s[j + 1].block] = prog.fnOf[stack[j + 1].block]
    <3>1. CASE j + 1 = n
      BY <1>1, <1>6, <3>1
    <3>2. CASE j + 1 # n
      <4>1. j + 1 \in 1 .. n
        BY <1>1
      <4> QED
        BY <1>5, <3>2, <4>1
    <3> QED
      BY <3>1, <3>2
  <2> QED
    BY <1>7, <2>1, CallerFacts
<1>10. <<s[n].block, s[n].op>> \notin bars =>
         \A x \in pending' :
           \/ x \in AccessesOf(Before(s[n].block, s[n].op))
           \/ \E j \in 1 .. n - 1 : x \in AccessesOf(Before(s[j].block, s[j].op - 1))
  <2> SUFFICES ASSUME <<b, i>> \notin bars, NEW x \in pending'
               PROVE  \/ x \in AccessesOf(Before(b, i))
                      \/ \E j \in 1 .. n - 1 : x \in AccessesOf(Before(s[j].block, s[j].op - 1))
    BY <1>6
  <2>1. CASE x \in AccessesOf(At(b, i))
    BY <2>1 DEF Before, After
  <2>2. CASE \E j \in 1 .. n - 1 : x \in Assumed(j)
    BY <1>7, <2>2, CallerFacts
  <2> QED
    BY <2>1, <2>2
<1>11. s # <<>>
  BY <1>1, <1>5, EmptySeq
<1> QED
  BY <1>1, <1>4, <1>5, <1>8, <1>9, <1>10, <1>11, CallsInvFrom

LEMMA CLaunchInv == AnalysisInv /\ CallsInv /\ CLaunch /\ UNCHANGED vars => CallsInv'
<1> SUFFICES ASSUME AnalysisInv, CallsInv, CLaunch, UNCHANGED vars PROVE CallsInv'
  OBVIOUS
<1>1. PICK b : b = prog.entry[prog.nfuncs]
  OBVIOUS
<1>2. Done /\ pending' = {} /\ stack' = <<Frame(b, 1, 0)>>
  BY <1>1 DEF CLaunch
<1>3. b \in Blocks /\ prog.nfuncs \in Nat \ {0}
  <2>1. WellFormed(prog)
    BY DEF AnalysisInv, TypeOK
  <2>2. prog.nfuncs \in Nat \ {0} /\ prog.entry \in [1 .. prog.nfuncs -> Blocks]
    BY <2>1 DEF WellFormed
  <2> QED
    BY <1>1, <2>2
<1>4. b \in seen
  <2>1. prog.nfuncs \in 1 .. prog.nfuncs /\ prog.nfuncs <= fn
    BY <1>2, <1>3 DEF Done
  <2>2. Reached(b)
    BY <1>1, <2>1 DEF AnalysisInv, EntriesReached
  <2> QED
    BY <1>2, <1>3, <2>2, DoneFacts
<1>5. PICK s : s = <<Frame(b, 1, 0)>>
  OBVIOUS
<1>6. s \in Seq(Frames) /\ Len(s) = 1 /\ s # <<>> /\ s[1].block = b /\ s[1].op = 1
  BY <1>4, <1>5 DEF Frame, Frames
<1>7. \A j \in 1 .. 1 : s[j].op <= Terminator(s[j].block)
  BY <1>3, <1>6, TerminatorType DEF AnalysisInv
<1>8. \A j \in 1 .. 1 - 1 : FALSE
  OBVIOUS
<1> QED
  BY <1>2, <1>5, <1>6, <1>7, <1>8, CallsInvFrom

LEMMA ShiftByZero ==
  ASSUME NEW X \in SUBSET (Interval \X {"R", "W"})
  PROVE  {<<Shift(a[1], 0), a[2]>> : a \in X} = X
<1>1. \A i \in Interval : Shift(i, 0) = i
  BY DEF Interval, Shift
<1>2. \A a \in X : a = <<a[1], a[2]>> /\ a[1] \in Interval
  OBVIOUS
<1>3. \A a \in X : <<Shift(a[1], 0), a[2]>> = a
  BY <1>1, <1>2
<1> QED
  BY <1>3

LEMMA CExecuteInv == AnalysisInv /\ CallsInv /\ CExecute /\ UNCHANGED vars => CallsInv'
<1> SUFFICES ASSUME AnalysisInv, CallsInv, CExecute, UNCHANGED vars PROVE CallsInv'
  OBVIOUS
<1>1. PICK b, i, n : b = Top.block /\ i = Top.op /\ n = Len(stack)
  OBVIOUS
<1>2. PICK op : op = OpAt(b, i)
  OBVIOUS
<1>3. stack # <<>> /\ i < Terminator(b) /\ op = TopOp /\ op.kind # "call"
  BY <1>1, <1>2 DEF CExecute, AtTopOp, TopOp
<1>4. /\ n \in Nat \ {0} /\ Top = Frame(b, i, 0)
      /\ b \in seen /\ b \in Blocks /\ Settled(b)
      /\ i \in 1 .. Terminator(b) /\ Terminator(b) \in Nat \ {0}
      /\ Terminator(b) = Len(prog.body[b]) + 1
      /\ \A x \in PendingHere :
           x \in AccessesOf(Before(b, i)) \/ \E j \in 1 .. n - 1 : x \in Assumed(j)
  BY <1>1, <1>3, TopFacts
<1>5. Top.base = 0
  BY <1>4 DEF Frame
<1>6. stack' = Step(Frame(b, i + 1, 0))
  BY <1>1, <1>5 DEF CExecute
<1>7. i + 1 \in 1 .. Terminator(b) /\ i \in 1 .. Terminator(b) - 1 /\ i \in 1 .. Len(prog.body[b])
  BY <1>3, <1>4
<1>8. Link(b, i)
  BY <1>4, <1>7 DEF Settled, Chain
<1>9. CurInfo(op) \in Info
  BY <1>2, <1>4, <1>7, CurInfoType DEF AnalysisInv
<1>10. OwnAccesses \subseteq AccessesOf(CurInfo(op))
  <2>1. CASE op.kind = "access"
    <3>1. OwnAccesses = {<<Shift(a[1], 0), a[2]>> : a \in AccessesOf(CurInfo(op))}
      BY <1>3, <1>5, <2>1 DEF OwnAccesses
    <3> HIDE DEF CurInfo
    <3> QED
      BY <1>9, <3>1, AccessType, ShiftByZero
  <2>2. CASE op.kind # "access"
    BY <1>3, <2>2 DEF OwnAccesses
  <2> QED
    BY <2>1, <2>2
<1>11. <<b, i + 1>> \notin bars =>
         \A x \in pending' : \/ x \in AccessesOf(At(b, i + 1))
                             \/ \E j \in 1 .. n - 1 : x \in Assumed(j)
  <2>1. CASE op.kind = "barrier"
    BY <1>3, <2>1 DEF CExecute
  <2>2. CASE op.kind # "barrier"
    <3> SUFFICES ASSUME <<b, i + 1>> \notin bars, NEW x \in pending'
                 PROVE  \/ x \in AccessesOf(At(b, i + 1))
                        \/ \E j \in 1 .. n - 1 : x \in Assumed(j)
      OBVIOUS
    <3>1. x \in PendingHere \/ x \in AccessesOf(CurInfo(op))
      BY <1>3, <1>10, <2>2 DEF CExecute
    <3>2. Covers(At(b, i + 1), Join(Before(b, i), CurInfo(op)))
      BY <1>2, <1>8, <2>2 DEF Link
    <3>3. /\ AccessesOf(Before(b, i)) \subseteq AccessesOf(At(b, i + 1))
          /\ AccessesOf(CurInfo(op)) \subseteq AccessesOf(At(b, i + 1))
      <4> HIDE DEF Before, At, CurInfo
      <4> QED
        BY <3>2, AccessFacts
    <3> HIDE DEF Before, At, CurInfo, AccessesOf, Assumed, PendingHere
    <3> QED
      BY <1>4, <3>1, <3>3
  <2> QED
    BY <2>1, <2>2
<1> QED
  BY <1>1, <1>3, <1>4, <1>6, <1>7, <1>11, StepAtTop

LEMMA CBranchInv == AnalysisInv /\ CallsInv /\ CBranch /\ UNCHANGED vars => CallsInv'
<1> SUFFICES ASSUME AnalysisInv, CallsInv, CBranch, UNCHANGED vars PROVE CallsInv'
  OBVIOUS
<1>1. PICK b, i, n : b = Top.block /\ i = Top.op /\ n = Len(stack)
  OBVIOUS
<1>2. stack # <<>> /\ i = Terminator(b) /\ pending' = PendingHere
  BY <1>1 DEF CBranch
<1>3. /\ Top = Frame(b, i, 0) /\ b \in seen /\ b \in Blocks /\ Settled(b)
      /\ \A x \in PendingHere :
           x \in AccessesOf(Before(b, i)) \/ \E j \in 1 .. n - 1 : x \in Assumed(j)
  BY <1>1, <1>2, TopFacts
<1>4. PICK s \in Successors(b) : stack' = Step(Frame(s, 1, 0))
  BY <1>1, <1>3 DEF CBranch, Frame
<1>5. s \in Blocks /\ prog.fnOf[s] = prog.fnOf[b]
  BY <1>3, SuccessorFacts DEF AnalysisInv
<1>6. Done
  BY <1>1, <1>2, TopFacts
<1>7. s \in seen /\ Covers(inMap[s], outMap[b])
  BY <1>3, <1>5, <1>6, DoneFacts DEF AnalysisInv, EdgesCovered
<1>8. Covers(At(s, 1), inMap[s])
  BY <1>6, <1>7, DoneFacts DEF Settled, Chain
<1>9. Covers(outMap[b], Before(b, i))
  BY <1>2, <1>3 DEF Settled
<1>10. AccessesOf(Before(b, i)) \subseteq AccessesOf(At(s, 1))
  <2> HIDE DEF Before, At
  <2> QED
    BY <1>7, <1>8, <1>9, AccessFacts
<1>11. \A x \in pending' : x \in AccessesOf(At(s, 1)) \/ \E j \in 1 .. n - 1 : x \in Assumed(j)
  BY <1>2, <1>3, <1>10
<1>12. 1 \in 1 .. Terminator(s)
  BY <1>5, TerminatorType DEF AnalysisInv
<1> QED
  BY <1>1, <1>2, <1>4, <1>5, <1>7, <1>11, <1>12, StepAtTop

LEMMA CCallInv == AnalysisInv /\ CallsInv /\ CCall /\ UNCHANGED vars => CallsInv'
<1> SUFFICES ASSUME AnalysisInv, CallsInv, CCall, UNCHANGED vars PROVE CallsInv'
  OBVIOUS
<1>1. PICK b, i, n : b = Top.block /\ i = Top.op /\ n = Len(stack)
  OBVIOUS
<1>2. PICK op : op = OpAt(b, i)
  OBVIOUS
<1>3. stack # <<>> /\ i < Terminator(b) /\ op = TopOp /\ op.kind = "call" /\ pending' = PendingHere
  BY <1>1, <1>2 DEF CCall, AtTopOp, TopOp
<1>4. /\ n \in Nat \ {0} /\ stack \in Seq(Frames) /\ Top = Frame(b, i, 0) /\ stack[n] = Top
      /\ Done /\ b \in seen /\ b \in Blocks
      /\ i \in 1 .. Terminator(b) /\ Terminator(b) \in Nat \ {0}
      /\ Terminator(b) = Len(prog.body[b]) + 1
      /\ \A x \in PendingHere :
           x \in AccessesOf(Before(b, i)) \/ \E j \in 1 .. n - 1 : x \in Assumed(j)
  BY <1>1, <1>3, TopFacts
<1>5. i \in 1 .. Len(prog.body[b])
  BY <1>3, <1>4
<1>6. PICK f \in 1 .. prog.nfuncs : f = op.callee
  BY <1>2, <1>3, <1>4, <1>5, OpType DEF AnalysisInv
<1>7. PICK c : c = prog.entry[f]
  OBVIOUS
<1>8. c \in Blocks /\ prog.fnOf[c] = f /\ prog.nfuncs \in Nat
  <2>1. WellFormed(prog)
    BY DEF AnalysisInv, TypeOK
  <2> QED
    BY <1>7, <2>1 DEF WellFormed
<1>9. c \in seen
  <2>1. f <= fn
    BY <1>4, <1>8 DEF Done
  <2>2. Reached(c)
    BY <1>7, <2>1 DEF AnalysisInv, EntriesReached
  <2> QED
    BY <1>4, <1>8, <2>2, DoneFacts
<1>10. PICK s, F, G : /\ s = stack' /\ F = Frame(b, i + 1, 0) /\ G = Frame(c, 1, 0)
  OBVIOUS
<1>11. s = Append([stack EXCEPT ![n] = F], G)
  <2>1. Top.base = 0
    BY <1>4 DEF Frame
  <2>2. F = Frame(Top.block, Top.op + 1, Top.base)
    BY <1>1, <1>10, <2>1
  <2>3. G = Frame(prog.entry[TopOp.callee], 1, CalleeBase)
    BY <1>3, <1>6, <1>7, <1>10, <2>1 DEF CalleeBase
  <2> HIDE DEF Frame, CalleeBase, TopOp, Top
  <2> QED
    BY <1>1, <1>10, <2>2, <2>3 DEF CCall, Step
<1>12. F \in Frames /\ G \in Frames /\ F.block = b /\ F.op = i + 1 /\ G.block = c /\ G.op = 1
  BY <1>4, <1>9, <1>10 DEF Frame, Frames
<1>13. /\ s \in Seq(Frames) /\ Len(s) = n + 1 /\ s[n + 1] = G /\ s[n] = F
       /\ \A j \in 1 .. n - 1 : s[j] = stack[j]
  <2>1. PICK t : t = [stack EXCEPT ![n] = F]
    OBVIOUS
  <2>2. n \in 1 .. Len(stack) /\ n \in 1 .. n /\ \A j \in 1 .. n - 1 : j \in 1 .. n /\ j # n
    BY <1>1, <1>4
  <2>3. /\ t \in Seq(Frames) /\ Len(t) = n /\ t[n] = F
        /\ \A j \in 1 .. n : j # n => t[j] = stack[j]
    BY <1>1, <1>4, <1>12, <2>1, <2>2, ExceptSeq
  <2>4. /\ s \in Seq(Frames) /\ Len(s) = n + 1 /\ s[n + 1] = G
        /\ \A j \in 1 .. n : s[j] = t[j]
    BY <1>11, <1>12, <2>1, <2>3, AppendProperties
  <2> QED
    BY <2>2, <2>3, <2>4
<1>14. ASSUME NEW j \in 1 .. n - 1 PROVE s[j] = stack[j] /\ j \in 1 .. Len(stack) - 1
  BY <1>1, <1>13
<1>15. \A j \in 1 .. n + 1 : s[j].op <= Terminator(s[j].block)
  <2> TAKE j \in 1 .. n + 1
  <2>1. CASE j = n + 1
    BY <1>8, <1>12, <1>13, <2>1, TerminatorType DEF AnalysisInv
  <2>2. CASE j = n
    BY <1>3, <1>4, <1>12, <1>13, <2>2
  <2>3. CASE j # n /\ j # n + 1
    <3>1. j \in 1 .. n - 1
      BY <1>4, <2>3
    <3> QED
      BY <1>3, <1>14, <3>1, CallerFacts
  <2> QED
    BY <2>1, <2>2, <2>3
<1>16. i \in Nat \ {0} /\ (i + 1) - 1 = i
  BY <1>4
<1>17. \A j \in 1 .. n :
         /\ s[j].op > 1
         /\ OpAt(s[j].block, s[j].op - 1).kind = "call"
         /\ OpAt(s[j].block, s[j].op - 1).callee = prog.fnOf[s[j + 1].block]
  <2> TAKE j \in 1 .. n
  <2>1. CASE j = n
    <3>1. s[j].block = b /\ s[j].op = i + 1 /\ s[j + 1].block = c
      BY <1>12, <1>13, <2>1
    <3>2. s[j].op > 1 /\ s[j].op - 1 = i
      BY <1>16, <3>1
    <3> QED
      BY <1>2, <1>3, <1>6, <1>8, <3>1, <3>2
  <2>2. CASE j # n
    <3>1. j \in 1 .. n - 1
      BY <1>4, <2>2
    <3>2. prog.fnOf[s[j + 1].block] = prog.fnOf[stack[j + 1].block]
      <4>1. CASE j + 1 = n
        BY <1>1, <1>4, <1>12, <1>13, <4>1
      <4>2. CASE j + 1 # n
        <5>1. j + 1 \in 1 .. n - 1
          BY <1>4, <3>1, <4>2
        <5> QED
          BY <1>14, <5>1
      <4> QED
        BY <4>1, <4>2
    <3> QED
      BY <1>3, <1>14, <3>1, <3>2, CallerFacts
  <2> QED
    BY <2>1, <2>2
<1>18. ASSUME NEW x \in pending'
       PROVE  \E j \in 1 .. n : x \in AccessesOf(Before(s[j].block, s[j].op - 1))
  <2>1. CASE x \in AccessesOf(Before(b, i))
    <3>1. n \in 1 .. n /\ s[n].block = b /\ s[n].op - 1 = i
      BY <1>4, <1>12, <1>13, <1>16
    <3> QED
      BY <2>1, <3>1
  <2>2. CASE \E j \in 1 .. n - 1 : x \in Assumed(j)
    <3>1. PICK j \in 1 .. n - 1 : x \in Assumed(j)
      BY <2>2
    <3>2. j \in 1 .. n
      BY <1>4
    <3> QED
      BY <1>3, <1>14, <3>1, <3>2, CallerFacts
  <2> QED
    BY <1>3, <1>4, <2>1, <2>2
<1>19. s # <<>> /\ n + 1 \in Nat /\ (n + 1) - 1 = n
  BY <1>4, <1>13, EmptySeq
<1>20. PICK m : m = n + 1
  OBVIOUS
<1>21. /\ \A j \in 1 .. m : s[j].op <= Terminator(s[j].block)
       /\ \A j \in 1 .. m - 1 :
            /\ s[j].op > 1
            /\ OpAt(s[j].block, s[j].op - 1).kind = "call"
            /\ OpAt(s[j].block, s[j].op - 1).callee = prog.fnOf[s[j + 1].block]
       /\ \A x \in pending' :
            \E j \in 1 .. m - 1 : x \in AccessesOf(Before(s[j].block, s[j].op - 1))
       /\ m \in Nat /\ m = Len(s)
  BY <1>13, <1>15, <1>17, <1>18, <1>19, <1>20
<1> QED
  BY <1>4, <1>10, <1>13, <1>19, <1>21, CallsInvFrom

LEMMA CReturnInv == AnalysisInv /\ CallsInv /\ CReturn /\ UNCHANGED vars => CallsInv'
<1> SUFFICES ASSUME AnalysisInv, CallsInv, CReturn, UNCHANGED vars PROVE CallsInv'
  OBVIOUS
<1>1. PICK b, i, n : b = Top.block /\ i = Top.op /\ n = Len(stack)
  OBVIOUS
<1>2. /\ stack # <<>> /\ i = Terminator(b) /\ Successors(b) = {}
      /\ stack' = SubSeq(stack, 1, n - 1)
      /\ pending' = IF n = 1 THEN {} ELSE PendingHere
  BY <1>1 DEF CReturn
<1>3. /\ n \in Nat \ {0} /\ stack \in Seq(Frames) /\ stack[n] = Top
      /\ Done /\ b \in seen /\ b \in Blocks /\ Settled(b)
      /\ \A x \in PendingHere :
           x \in AccessesOf(Before(b, i)) \/ \E j \in 1 .. n - 1 : x \in Assumed(j)
  BY <1>1, <1>2, TopFacts
<1>4. CASE n = 1
  <2>1. stack' = <<>>
    BY <1>2, <1>4, SubSeqEmpty
  <2> QED
    BY <2>1 DEF CallsInv
<1>5. CASE n # 1
  <2>1. PICK s, m : s = stack' /\ m = n - 1
    OBVIOUS
  <2>2. m \in Nat \ {0} /\ m + 1 = n /\ m \in 1 .. Len(stack) - 1 /\ m \in 1 .. Len(stack)
    BY <1>1, <1>3, <1>5, <2>1
  <2>3. s \in Seq(Frames) /\ Len(s) = m /\ \A j \in 1 .. m : s[j] = stack[j]
    BY <1>1, <1>2, <1>3, <2>1, <2>2, SubSeqProperties
  <2>4. ASSUME NEW j \in 1 .. m PROVE s[j] = stack[j] /\ j \in 1 .. Len(stack) - 1
    BY <1>1, <2>1, <2>2, <2>3
  <2>5. \A j \in 1 .. m : s[j].op <= Terminator(s[j].block)
    BY <1>2, <2>4, CallerFacts
  <2>6. \A j \in 1 .. m - 1 :
          /\ s[j].op > 1
          /\ OpAt(s[j].block, s[j].op - 1).kind = "call"
          /\ OpAt(s[j].block, s[j].op - 1).callee = prog.fnOf[s[j + 1].block]
    <3> TAKE j \in 1 .. m - 1
    <3>1. j \in 1 .. m /\ j + 1 \in 1 .. m
      BY <2>2
    <3> QED
      BY <1>2, <2>4, <3>1, CallerFacts
  <2>7. PICK c, k : c = stack[m].block /\ k = stack[m].op - 1
    OBVIOUS
  <2>8. PICK op : op = OpAt(c, k)
    OBVIOUS
  <2>9. /\ c \in Blocks /\ Settled(c) /\ stack[m].op = k + 1 /\ k \in Nat \ {0}
        /\ k + 1 <= Terminator(c) /\ op.kind = "call" /\ op.callee = prog.fnOf[b]
        /\ Assumed(m) = AccessesOf(Before(c, k))
    BY <1>1, <1>2, <1>3, <2>2, <2>7, <2>8, CallerFacts
  <2>10. Link(c, k)
    <3>1. Terminator(c) \in Nat \ {0}
      BY <2>9, TerminatorType DEF AnalysisInv
    <3>2. k \in 1 .. Terminator(c) - 1
      BY <2>9, <3>1
    <3> QED
      BY <2>9, <3>2 DEF Settled, Chain
  <2>11. CurInfo(op) = funcInfo[prog.fnOf[b]]
    BY <2>9 DEF CurInfo
  <2>12. Covers(funcInfo[prog.fnOf[b]], outMap[b]) /\ Covers(outMap[b], Before(b, i))
    <3>1. prog.succ[b] = <<>>
      <4>1. prog.succ[b] \in Seq(Blocks)
        BY <1>3, SuccessorFacts DEF AnalysisInv
      <4>2. 1 \notin 1 .. Len(prog.succ[b])
        BY <1>2 DEF Successors
      <4>3. Len(prog.succ[b]) = 0
        BY <4>1, <4>2
      <4> QED
        BY <4>1, <4>3, EmptySeq
    <3>2. prog.fnOf[b] < fn
      <4>1. WellFormed(prog)
        BY DEF AnalysisInv, TypeOK
      <4>2. prog.nfuncs \in Nat /\ prog.fnOf[b] \in 1 .. prog.nfuncs
        BY <1>3, <4>1 DEF WellFormed
      <4> QED
        BY <1>3, <4>2 DEF Done
    <3> QED
      BY <1>2, <1>3, <3>1, <3>2 DEF AnalysisInv, SummariesDone, Settled
  <2>13. <<c, k + 1>> \notin bars =>
           /\ AccessesOf(Before(b, i)) \subseteq AccessesOf(Before(c, k + 1))
           /\ AccessesOf(Before(c, k)) \subseteq AccessesOf(Before(c, k + 1))
    <3> SUFFICES ASSUME <<c, k + 1>> \notin bars
                 PROVE  /\ AccessesOf(Before(b, i)) \subseteq AccessesOf(Before(c, k + 1))
                        /\ AccessesOf(Before(c, k)) \subseteq AccessesOf(Before(c, k + 1))
      OBVIOUS
    <3>1. Covers(At(c, k + 1), Join(Before(c, k), CurInfo(op)))
      BY <2>8, <2>9, <2>10 DEF Link
    <3>2. Before(c, k + 1) = At(c, k + 1)
      BY DEF Before, After
    <3>3. /\ AccessesOf(Before(c, k)) \subseteq AccessesOf(Before(c, k + 1))
          /\ AccessesOf(funcInfo[prog.fnOf[b]]) \subseteq AccessesOf(Before(c, k + 1))
      <4> HIDE DEF Before, At, CurInfo
      <4> QED
        BY <2>11, <3>1, <3>2, AccessFacts
    <3>4. AccessesOf(Before(b, i)) \subseteq AccessesOf(funcInfo[prog.fnOf[b]])
      <4> HIDE DEF Before
      <4> QED
        BY <2>12, AccessFacts
    <3> QED
      BY <3>3, <3>4
  <2>14. /\ s[m].block = c /\ s[m].op = k + 1 /\ m \in 1 .. m
    <3>1. m \in 1 .. m
      BY <2>2
    <3>2. s[m] = stack[m]
      BY <2>3, <3>1
    <3> QED
      BY <2>7, <2>9, <3>1, <3>2
  <2>15. <<s[m].block, s[m].op>> \notin bars =>
           \A x \in pending' :
             \/ x \in AccessesOf(Before(s[m].block, s[m].op))
             \/ \E j \in 1 .. m - 1 : x \in AccessesOf(Before(s[j].block, s[j].op - 1))
    <3> SUFFICES ASSUME <<c, k + 1>> \notin bars, NEW x \in PendingHere
                 PROVE  \/ x \in AccessesOf(Before(c, k + 1))
                        \/ \E j \in 1 .. m - 1 : x \in AccessesOf(Before(s[j].block, s[j].op - 1))
      BY <1>2, <1>5, <2>14
    <3>1. CASE x \in AccessesOf(Before(b, i))
      BY <2>13, <3>1
    <3>2. CASE \E j \in 1 .. n - 1 : x \in Assumed(j)
      <4>1. PICK j \in 1 .. n - 1 : x \in Assumed(j)
        BY <3>2
      <4>2. CASE j = m
        BY <2>9, <2>13, <4>1, <4>2
      <4>3. CASE j # m
        <5>1. j \in 1 .. m - 1 /\ j \in 1 .. m
          BY <2>1, <2>2, <4>3
        <5>2. Assumed(j) = AccessesOf(Before(s[j].block, s[j].op - 1))
          BY <1>2, <2>4, <5>1, CallerFacts
        <5> QED
          BY <4>1, <5>1, <5>2
      <4> QED
        BY <4>2, <4>3
    <3> QED
      BY <1>3, <3>1, <3>2
  <2>16. s # <<>>
    BY <2>2, <2>3, EmptySeq
  <2> QED
    BY <1>3, <2>1, <2>2, <2>3, <2>5, <2>6, <2>15, <2>16, CallsInvFrom
<1> QED
  BY <1>4, <1>5

LEMMA CallsStepInv ==
  AnalysisInv /\ CallsInv /\ [CNext]_<<vars, cvars>> => AnalysisInv' /\ CallsInv'
<1> SUFFICES ASSUME AnalysisInv, CallsInv, [CNext]_<<vars, cvars>>
             PROVE  AnalysisInv' /\ CallsInv'
  OBVIOUS
<1>1. CASE Next /\ UNCHANGED cvars
  <2>1. stack = <<>>
    BY <1>1, NoNextWhenDone DEF CallsInv
  <2> QED
    BY <1>1, <2>1, NextInv DEF CallsInv, cvars
<1>2. CASE Entered /\ UNCHANGED vars
  <2>1. AnalysisInv'
    BY <1>2, NextInv
  <2> QED
    BY <1>2, <2>1, CLaunchInv, CExecuteInv, CCallInv, CBranchInv, CReturnInv DEF Entered
<1>3. CASE UNCHANGED <<vars, cvars>>
  <2>1. AnalysisInv' /\ UNCHANGED vars /\ UNCHANGED cvars
    BY <1>3, NextInv
  <2>2. FramesOK => FramesOK'
    BY <2>1 DEF FramesOK, Frames, OpAt, Terminator, vars, cvars
  <2>3. PendingHere' = PendingHere
    BY <2>1 DEF PendingHere, Top, vars, cvars
  <2>4. (UNION {Assumed(j) : j \in 1 .. Len(stack)})' = UNION {Assumed(j) : j \in 1 .. Len(stack)}
    BY <2>1 DEF Assumed, Under, AccessesOf, Before, After, At, vars, cvars
  <2> QED
    BY <2>1, <2>2, <2>3, <2>4 DEF CallsInv, Done, vars, cvars
<1> QED
  BY <1>1, <1>2, <1>3 DEF CNext

(***************************************************************************)
(* For every module of functions that call each other, entered as they are *)
(* lowered: when the execution is in the function that was launched, all   *)
(* that is pending there was assumed by the analysis at that operation, so *)
(* a callee leaves behind nothing that its summary does not name           *)
(* (Membar.h:138-140, Membar.cpp:121-126).                                 *)
(***************************************************************************)
THEOREM CallerViewIsSound == CSpec => []CallerViewSound
<1>1. CInit => AnalysisInv /\ CallsInv
  BY InitInv DEF CInit, NotLaunched, CallsInv
<1>2. AnalysisInv /\ CallsInv => CallerViewSound
  <2> SUFFICES ASSUME AnalysisInv, CallsInv, Len(stack) = 1, NEW x \in PendingHere
               PROVE  x \in AccessesOf(Before(Top.block, Top.op))
    BY DEF CallerViewSound
  <2>1. stack # <<>>
    BY EmptySeq
  <2>2. x \in AccessesOf(Before(Top.block, Top.op)) \/ \E j \in 1 .. 1 - 1 : x \in Assumed(j)
    BY <2>1, TopFacts
  <2> QED
    BY <2>2
<1>3. CSpec => [](AnalysisInv /\ CallsInv)
  BY <1>1, CallsStepInv, PTL DEF CSpec
<1> QED
  BY <1>2, <1>3, PTL
=============================================================================
