------------------------------- MODULE Membar -------------------------------
(***************************************************************************)
(* The shared-memory barrier analysis of lib/Analysis/Membar.cpp.          *)
(*                                                                         *)
(* MembarAnalysis::resolve runs a worklist over the blocks of a function.  *)
(* It carries a BlockInfo (the shared-memory intervals read and written    *)
(* since the last barrier) through the operations of a block and inserts a *)
(* gpu.barrier in front of an operation whose own accesses conflict with   *)
(* it.  ModuleMembarAnalysis does this for every function of a module, the *)
(* callees first.                                                          *)
(*                                                                         *)
(* The analysis is sequential.  One action is one operation visited, so    *)
(* that the state the code keeps between two operations is a state here.   *)
(***************************************************************************)
EXTENDS Naturals, Sequences, FiniteSets

CONSTANTS
  Buffers,    \* the shared-memory buffers Allocation knows of
  Blocks,     \* the basic blocks of all functions
  NoBlock,    \* no block is being visited
  Programs    \* the modules the analysis may be given

\* A function is its number in the post-order walk of the call graph, so that
\* a callee's number is below its caller's (module CallGraph).
\* Only memory operations and calls access shared memory.
Op == [kind   : {"access"},
       reads  : SUBSET Buffers,    \* Read effects, and the operands of a dot
       writes : SUBSET Buffers,    \* Write effects
       scratch: SUBSET Buffers]    \* the scratch buffer, if it has one
      \cup [kind : {"call"}, callee : Nat,
          virtual : SUBSET Buffers]   \* the buffer standing for the callee's memory
      \cup [kind : {"barrier", "async_wait"}]

Interval == {i \in Nat \X Nat : i[1] <= i[2]}

\* Branches stay inside their function, and a call goes to a function that was
\* analysed before.
WellFormed(p) ==
  /\ p.nfuncs \in Nat \ {0}
  /\ p.fnOf \in [Blocks -> 1 .. p.nfuncs]
  /\ p.entry \in [1 .. p.nfuncs -> Blocks]
  /\ p.succ \in [Blocks -> Seq(Blocks)]
  /\ p.body \in [Blocks -> Seq(Op)]
  /\ p.alloc \in [Buffers -> Interval]
  /\ \A f \in 1 .. p.nfuncs : p.fnOf[p.entry[f]] = f
  /\ \A b \in Blocks :
       /\ \A i \in 1 .. Len(p.succ[b]) : p.fnOf[p.succ[b][i]] = p.fnOf[b]
       /\ \A i \in 1 .. Len(p.body[b]) :
            p.body[b][i].kind = "call" => p.body[b][i].callee \in 1 .. (p.fnOf[b] - 1)

ASSUME NoBlockAssumption == NoBlock \notin Blocks
ASSUME ProgramsAssumption == \A p \in Programs : WellFormed(p)

VARIABLES
  prog,       \* the module under analysis; it never changes
  fn,         \* the function under analysis; nfuncs + 1 when all are done
  work,       \* blockList
  cur, pos,   \* the block being visited, and its next operation
  info,       \* the running copy of the block's input, inputBlockInfo
  inMap,      \* inputBlockInfoMap
  outMap,     \* outputBlockInfoMap
  seen,       \* the keys of outputBlockInfoMap
  funcInfo,   \* funcBlockInfoMap
  bars,       \* <<b, i>>: a barrier was inserted right before operation i of b
  pre         \* history: the info with which a position was last visited

vars == <<prog, fn, work, cur, pos, info, inMap, outMap, seen, funcInfo, bars, pre>>
-----------------------------------------------------------------------------
(* BlockInfo *)

Info == [r : SUBSET Interval, w : SUBSET Interval]

EmptyInfo == [r |-> {}, w |-> {}]

Join(x, y) == [r |-> x.r \cup y.r, w |-> x.w \cup y.w]

Intersects(x, y) == x[1] < y[2] /\ y[1] < x[2]

SetsIntersect(X, Y) == \E x \in X, y \in Y : Intersects(x, y)

\* Mutant: the write-after-read test is missing.
IsIntersectedNoWAR(x, y) == SetsIntersect(x.w, y.r) \/ SetsIntersect(x.w, y.w)

IsIntersected(x, y) ==
  \/ SetsIntersect(x.w, y.r)
  \/ SetsIntersect(x.r, y.w)
  \/ SetsIntersect(x.w, y.w)

Covers(x, y) == y.r \subseteq x.r /\ y.w \subseteq x.w
-----------------------------------------------------------------------------
(* Races: the reference the analysis is judged by. *)

\* An access is an interval of shared memory and whether it is written.
AccessesOf(x) == (x.r \X {"R"}) \cup (x.w \X {"W"})

Byte(i) == {a \in 0 .. i[2] : i[1] <= a /\ a < i[2]}

\* Two accesses race when they touch a common byte and one of them writes it.
Race(x, y) == Byte(x[1]) \cap Byte(y[1]) # {} /\ "W" \in {x[2], y[2]}
-----------------------------------------------------------------------------
(* Positions: operation i of block b, and Len + 1 for its terminator. *)

Terminator(b) == Len(prog.body[b]) + 1

Position == UNION {{<<b, i>> : i \in 1 .. Terminator(b)} : b \in Blocks}

OpAt(b, i) == prog.body[b][i]

\* Mutant: a call is passed as if its callee left nothing pending.
CurInfoNoCall(op) ==
  IF op.kind = "access"
  THEN [r |-> {prog.alloc[x] : x \in op.reads \cup op.scratch},
        w |-> {prog.alloc[x] : x \in op.writes \cup op.scratch}]
  ELSE EmptyInfo

\* The intervals an operation is taken to read and write: those of its buffers
\* (all aliases of its operands), its scratch buffer counting as both, and for
\* a call the summary of the callee.
CurInfo(op) ==
  CASE op.kind = "access" -> [r |-> {prog.alloc[x] : x \in op.reads \cup op.scratch},
                              w |-> {prog.alloc[x] : x \in op.writes \cup op.scratch}]
    [] op.kind = "call"   -> funcInfo[op.callee]
    [] OTHER              -> EmptyInfo

\* An inserted barrier is an operation of its own that is visited before the
\* one it stands in front of.
After(x, b, i) == IF <<b, i>> \in bars THEN EmptyInfo ELSE x

NextIsBarrier(b, i) ==
  \/ <<b, i + 1>> \in bars
  \/ i < Len(prog.body[b]) /\ OpAt(b, i + 1).kind = "barrier"

Successors(b) == {prog.succ[b][i] : i \in 1 .. Len(prog.succ[b])}

InWork(b) == \E i \in 1 .. Len(work) : work[i] = b

Done == fn = prog.nfuncs + 1
-----------------------------------------------------------------------------
Init ==
  /\ prog \in Programs
  /\ fn = 1
  /\ work = <<prog.entry[1]>>
  /\ cur = NoBlock
  /\ pos = 1
  /\ info = EmptyInfo
  /\ inMap = [b \in Blocks |-> EmptyInfo]
  /\ outMap = [b \in Blocks |-> EmptyInfo]
  /\ seen = {}
  /\ funcInfo = [f \in 1 .. prog.nfuncs |-> EmptyInfo]
  /\ bars = {}
  /\ pre = [p \in Position |-> EmptyInfo]

\* blockList.pop_front(), and the copy of the block's input.
PopBlock ==
  /\ cur = NoBlock
  /\ work # <<>>
  /\ cur' = Head(work)
  /\ work' = Tail(work)
  /\ pos' = 1
  /\ info' = inMap[Head(work)]
  /\ UNCHANGED <<prog, fn, inMap, outMap, seen, funcInfo, bars, pre>>

AtOp == cur # NoBlock /\ pos < Terminator(cur)

Advance(x) ==
  /\ pos' = pos + 1
  /\ info' = x
  /\ pre' = [pre EXCEPT ![<<cur, pos>>] = info]
  /\ UNCHANGED <<prog, fn, work, cur, inMap, outMap, seen, funcInfo>>

\* update() of a barrier that the function already had.
VisitBarrier ==
  /\ AtOp
  /\ OpAt(cur, pos).kind = "barrier"
  /\ Advance(EmptyInfo)
  /\ UNCHANGED bars

\* update() of an async_wait that no barrier follows: insert one after it.
VisitAsyncWait ==
  /\ AtOp
  /\ OpAt(cur, pos).kind = "async_wait"
  /\ ~NextIsBarrier(cur, pos)
  /\ Advance(EmptyInfo)
  /\ bars' = bars \cup {<<cur, pos + 1>>}

\* update() of every other operation, calls included: insert a barrier in
\* front of it if it conflicts, and add its own accesses.
VisitAccess ==
  /\ AtOp
  /\ LET op   == OpAt(cur, pos)
         here == After(info, cur, pos)
         own  == CurInfo(op)
     IN  /\ op.kind # "barrier"
         /\ op.kind = "async_wait" => NextIsBarrier(cur, pos)
         /\ IF IsIntersected(here, own)
            THEN /\ bars' = bars \cup {<<cur, pos>>}
                 /\ Advance(own)
            ELSE /\ bars' = bars
                 /\ Advance(Join(here, own))

AtTerminator == cur # NoBlock /\ pos = Terminator(cur)

\* Mutant: a block seen before is never worth handing on again.
SkipSeen ==
  /\ AtTerminator
  /\ cur \in seen
  /\ pre' = [pre EXCEPT ![<<cur, pos>>] = info]
  /\ cur' = NoBlock
  /\ UNCHANGED <<prog, fn, work, pos, info, inMap, outMap, seen, funcInfo, bars>>

\* The block was seen before with this very output: its successors are skipped.
SkipSuccessors ==
  /\ AtTerminator
  /\ cur \in seen
  /\ After(info, cur, pos) = outMap[cur]
  /\ pre' = [pre EXCEPT ![<<cur, pos>>] = info]
  /\ cur' = NoBlock
  /\ UNCHANGED <<prog, fn, work, pos, info, inMap, outMap, seen, funcInfo, bars>>

\* Mutant: the successors are put on the list whether or not the output is new.
UpdateAlways ==
  /\ AtTerminator
  /\ LET out == Join(outMap[cur], After(info, cur, pos))
     IN  /\ outMap' = [outMap EXCEPT ![cur] = out]
         /\ inMap' = [b \in Blocks |-> IF b \in Successors(cur)
                                       THEN Join(inMap[b], out) ELSE inMap[b]]
  /\ seen' = seen \cup {cur}
  /\ work' = work \o prog.succ[cur]
  /\ pre' = [pre EXCEPT ![<<cur, pos>>] = info]
  /\ cur' = NoBlock
  /\ UNCHANGED <<prog, fn, pos, info, funcInfo, bars>>

\* Join the output, hand it to every successor and put them all on the list.
UpdateSuccessors ==
  /\ AtTerminator
  /\ LET here == After(info, cur, pos)
         out  == Join(outMap[cur], here)
     IN  /\ ~(cur \in seen /\ here = outMap[cur])
         /\ outMap' = [outMap EXCEPT ![cur] = out]
         /\ inMap' = [b \in Blocks |-> IF b \in Successors(cur)
                                       THEN Join(inMap[b], out) ELSE inMap[b]]
  /\ seen' = seen \cup {cur}
  /\ work' = work \o prog.succ[cur]
  /\ pre' = [pre EXCEPT ![<<cur, pos>>] = info]
  /\ cur' = NoBlock
  /\ UNCHANGED <<prog, fn, pos, info, funcInfo, bars>>

\* Mutant: only an entry block that returns is looked at.
ReturnsOfEntry(f) == {b \in Blocks : b = prog.entry[f] /\ prog.succ[b] = <<>>}

\* The list is empty: the outputs of the returning blocks become the summary of
\* the function, and the walk goes on to the next function.
Returns(f) == {b \in Blocks : prog.fnOf[b] = f /\ prog.succ[b] = <<>>}

FinishFunction ==
  /\ ~Done
  /\ cur = NoBlock
  /\ work = <<>>
  /\ funcInfo' = [funcInfo EXCEPT
       ![fn] = [r |-> UNION {outMap[b].r : b \in Returns(fn)},
                w |-> UNION {outMap[b].w : b \in Returns(fn)}]]
  /\ fn' = fn + 1
  /\ work' = IF fn < prog.nfuncs THEN <<prog.entry[fn + 1]>> ELSE <<>>
  /\ UNCHANGED <<prog, cur, pos, info, inMap, outMap, seen, bars, pre>>

Next ==
  \/ PopBlock
  \/ VisitBarrier
  \/ VisitAsyncWait
  \/ VisitAccess
  \/ SkipSuccessors
  \/ UpdateSuccessors
  \/ FinishFunction

Spec == Init /\ [][Next]_vars

\* The pass is one thread that nothing blocks.
FairSpec == Spec /\ WF_vars(Next)
-----------------------------------------------------------------------------
TypeOK ==
  /\ WellFormed(prog)
  /\ fn \in 1 .. prog.nfuncs + 1
  /\ work \in Seq(Blocks)
  /\ cur \in Blocks \cup {NoBlock}
  /\ pos \in Nat \ {0}
  /\ cur # NoBlock => pos <= Terminator(cur)
  /\ info \in Info
  /\ inMap \in [Blocks -> Info]
  /\ outMap \in [Blocks -> Info]
  /\ seen \subseteq Blocks
  /\ funcInfo \in [1 .. prog.nfuncs -> Info]
  /\ bars \subseteq Position
  /\ pre \in [Position -> Info]
-----------------------------------------------------------------------------
(* The inductive invariant of the analysis. *)

\* The info in front of a position at the visit under way, or at the last one.
At(b, i) == IF b = cur /\ i = pos THEN info ELSE pre[<<b, i>>]

Before(b, i) == After(At(b, i), b, i)

\* Operation i does not conflict with what was pending in front of it, and
\* nothing that is pending is forgotten on the way to position i + 1.
Link(b, i) ==
  OpAt(b, i).kind # "barrier" =>
    /\ ~IsIntersected(Before(b, i), CurInfo(OpAt(b, i)))
    /\ \/ <<b, i + 1>> \in bars
       \/ Covers(At(b, i + 1), Join(Before(b, i), CurInfo(OpAt(b, i))))

Chain(b, n) ==
  /\ Covers(At(b, 1), inMap[b])
  /\ \A i \in 1 .. n - 1 : Link(b, i)

\* A block that is neither waiting nor being visited is at the fixpoint.
Settled(b) ==
  /\ Chain(b, Terminator(b))
  /\ Covers(outMap[b], Before(b, Terminator(b)))

Reached(b) == b \in seen \/ InWork(b) \/ b = cur

OwnFunction ==
  /\ \A b \in seen : prog.fnOf[b] <= fn
  /\ \A i \in 1 .. Len(work) : prog.fnOf[work[i]] = fn
  /\ cur # NoBlock => prog.fnOf[cur] = fn

EntriesReached == \A f \in 1 .. prog.nfuncs : f <= fn => Reached(prog.entry[f])

EdgesCovered ==
  \A b \in seen : \A s \in Successors(b) :
     Reached(s) /\ Covers(inMap[s], outMap[b])

SettledWhenIdle == \A b \in seen : (b = cur \/ InWork(b)) \/ Settled(b)

VisitInProgress == cur # NoBlock => Chain(cur, pos)

SummariesDone ==
  \A b \in seen : (prog.fnOf[b] < fn /\ prog.succ[b] = <<>>) =>
     Covers(funcInfo[prog.fnOf[b]], outMap[b])

(***************************************************************************)
(* The worklist loop of resolve (Membar.cpp:42-70), at every point of it:  *)
(* a block that is neither waiting nor being visited has its barriers in   *)
(* place and its output covers what flows through it, every successor's    *)
(* input covers that output, and the finished functions' summaries cover   *)
(* the outputs of their returning blocks.                                  *)
(***************************************************************************)
AnalysisInv ==
  /\ TypeOK
  /\ OwnFunction
  /\ EntriesReached
  /\ EdgesCovered
  /\ SettledWhenIdle
  /\ VisitInProgress
  /\ SummariesDone

(***************************************************************************)
(* "A fixed point algorithm" (Membar.cpp:42): the worklist loop of every   *)
(* function comes to an end.                                               *)
(***************************************************************************)
Termination == <>Done
=============================================================================
