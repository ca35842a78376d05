----------------------------- MODULE LayoutPasses -----------------------------
(***************************************************************************)
(* The layout passes of the compiler in a row: a function gets its first   *)
(* layouts (LayoutAssignment), unless it has some already, as the passes   *)
(* that choose tensor cores leave it; layout conversions are removed       *)
(* (RemoveLayoutConversions), what is left of those to the operand         *)
(* of a dot goes through shared memory (ReduceDataDuplication.cpp),        *)
(* operations are moved towards their operands or their uses               *)
(* (ReorderInstructions.cpp), and the canonicalizer ends the row           *)
(* (nvidia/backend/compiler.py).                                           *)
(***************************************************************************)
EXTENDS LayoutAssignment

VARIABLES opToMove,  \* operations still to be moved, each with its only user
          tick       \* turns over with every step
vars == <<assignmentVars, opToMove, tick>>

Init == AssignmentInit /\ opToMove = {} /\ tick = 0

\* A walk over the function at which only the function changes.
Walking(at, next, new) ==
  /\ phase = at
  /\ Starts(next, new)
  /\ UNCHANGED opToMove

(***************************************************************************)
(* Reducing the duplication of data.                                       *)
(***************************************************************************)
\* An operand of a dot that comes from the accumulator of another can stay in registers.
StaysInRegisters(g, cvt) ==
  LET src == TypeOf(g, g.op[cvt].args[1])
      dst == g.op[cvt].types[1]
  IN IsMma(src) /\ (src[2] # 2 \/ (src[3] = 1 /\ dst[3] = src))

ThroughSharedMemory(g, cvt) ==
  LET n == g.next
      new == AddBefore(AddBefore(g, cvt, NewOp("local_alloc", <<>>, g.op[cvt].args, <<Buffer>>)),
                       cvt, NewOp("local_load", <<>>, <<<<n, 1>>>>, g.op[cvt].types))
  IN Erased(ReplaceAllUsesWith(new, <<cvt, 1>>, <<n + 1, 1>>), {cvt})

ReduceDataDuplication ==
  /\ Looking("converts removed")
  /\ ir' = IF IsDotOperand(Target) /\ ~StaysInRegisters(ir, Cvt) THEN ThroughSharedMemory(ir, Cvt) ELSE ir
  /\ UNCHANGED <<remat, mapped, opToDelete, opToMove>>
EndDuplication == converts = <<>> /\ Walking("converts removed", "sink", ir)

(***************************************************************************)
(* Reordering instructions.                                                *)
(***************************************************************************)
Detached(g, o) == [g EXCEPT !.block[HomeOf(g, o)].ops = Remove(@, o)]
Moved(g, o, p, by) ==
  LET h == Detached(g, o)
      b == HomeOf(g, p)
  IN IF o = p THEN g ELSE [h EXCEPT !.block[b].ops = InsertAt(@, IndexOf(@, p) + by, o)]
MoveBefore(g, o, p) == Moved(g, o, p, 0)
MoveAfter(g, o, p)  == Moved(g, o, p, 1)
UserOf(g, o) == Uses(g, <<o, 1>>)[1][1]

\* getFirstUse: the first operation of its block that uses a result or has such a use inside.
FirstUse(g, o) ==
  SelectSeq(g.block[HomeOf(g, o)].ops,
            LAMBDA p : \E q \in ToSet(WalkOps(g, <<p>>)) : Contains(g.op[q].args, <<o, 1>>))[1]

\* A conversion sinks below the deallocations before its first use.
Sunk(g, cvt) ==
  LET ops == g.block[HomeOf(g, cvt)].ops
      deallocs == {i \in IndexOf(ops, cvt) .. IndexOf(ops, FirstUse(g, cvt)) : g.op[ops[i]].kind = "local_dealloc"}
  IN IF deallocs = {} THEN g ELSE MoveAfter(g, cvt, ops[CHOOSE i \in deallocs : \A j \in deallocs : j <= i])

SinkConversion ==
  /\ Looking("sink")
  /\ ir' = Sunk(ir, Cvt)
  /\ UNCHANGED <<remat, mapped, opToDelete, opToMove>>

\* The innermost loop around an operation, or 0.
RECURSIVE LoopAround(_, _)
LoopAround(g, o) ==
  IF HomeOf(g, o) = Top THEN 0
  ELSE IF g.op[EnclosingOp(g, o)].kind = "for" THEN EnclosingOp(g, o)
  ELSE LoopAround(g, EnclosingOp(g, o))

WillIncreaseRegisterPressure(op) ==
  op.kind = "local_load" \/ (op.kind = "convert" /\ IsDotOperand(op.types[1]))

\* What takes up registers moves to its use when that is in another loop.
IntoLoops(g) ==
  {<<o, UserOf(g, o)>> : o \in
     {p \in DOMAIN g.op : /\ WillIncreaseRegisterPressure(g.op[p])
                          /\ UseCount(g, p) = 1
                          /\ LoopAround(g, UserOf(g, p)) # LoopAround(g, p)}}
EndSink ==
  /\ phase = "sink" /\ converts = <<>>
  /\ Starts("into loops", ir)
  /\ opToMove' = IntoLoops(ir)

\* The moves are kept by address, so that they come in any order.
SinkIntoLoop ==
  /\ phase = "into loops"
  /\ \E move \in opToMove : ir' = MoveBefore(ir, move[1], move[2]) /\ opToMove' = opToMove \ {move}
  /\ UNCHANGED <<rematVars, phase, opToDelete, converts, remat, mapped, source>>
EndIntoLoops == opToMove = {} /\ Walking("into loops", "allocs", ir)

\* The operations of a kind move after what defines their operand, in the order of a walk.
RECURSIVE AfterOperands(_, _)
AfterOperands(g, ops) ==
  IF ops = <<>> THEN g
  ELSE LET args == g.op[Head(ops)].args
       IN AfterOperands(IF args # <<>> /\ args[1][1] \in DOMAIN g.op THEN MoveAfter(g, Head(ops), args[1][1]) ELSE g,
                        Tail(ops))
MoveAllocs == Walking("allocs", "transpositions", AfterOperands(ir, OpsOf(ir, {"local_alloc"})))
MoveTranspositions == Walking("transpositions", "operands", AfterOperands(ir, OpsOf(ir, {"trans"})))

\* The load of a dot's second operand moves after that of the first.
SecondAfterFirst(g, o) ==
  LET dot   == UserOf(g, o)
      first == g.op[dot].args[1]
  IN IF /\ IsDotOperand(g.op[o].types[1]) /\ g.op[o].types[1][2] = 2
        /\ UseCount(g, o) = 1 /\ g.op[dot].kind = "dot"
        /\ SourceOp(g, first).kind = "local_load"
        /\ Dominates(g, ProgramOrder(g), <<o, 1>>, first[1])
     THEN MoveAfter(g, o, first[1]) ELSE g
RECURSIVE SecondsAfterFirsts(_, _)
SecondsAfterFirsts(g, loads) ==
  IF loads = <<>> THEN g ELSE SecondsAfterFirsts(SecondAfterFirst(g, Head(loads)), Tail(loads))
MoveSecondOperands ==
  Walking("operands", "canonicalizer", SecondsAfterFirsts(ir, OpsOf(ir, {"local_load"})))

\* The canonicalizer at the end: it finds no conversion to fold, for the pass that
\* removed them left none.  (If there were one, the run would end here in a deadlock.)
EndPasses == ConvertPatterns(ir) = {} /\ Walking("canonicalizer", "done", Swept(ir))

PassStep ==
  \/ RemoveStep /\ UNCHANGED opToMove
  \/ ReduceDataDuplication \/ EndDuplication
  \/ SinkConversion \/ EndSink \/ SinkIntoLoop \/ EndIntoLoops
  \/ MoveAllocs \/ MoveTranspositions \/ MoveSecondOperands
  \/ EndPasses
Step ==
  \/ AssignmentStep /\ UNCHANGED opToMove
  \/ PassStep /\ UNCHANGED <<worklist, stepUnchanged>>

Over == phase = "done" /\ UNCHANGED vars
Next == (Step /\ tick' = 1 - tick) \/ Over

\* The compiler is a program that runs by itself: it takes a step as long as it
\* is not over.  (There is one to take: no run ends in a deadlock.)
Spec == Init /\ [][Next]_vars /\ WF_tick(phase # "done" /\ tick' = 1 - tick)

(***************************************************************************)
(* What a function means: its effects, in order, as terms over what it     *)
(* loads, when its loops run `turns` times.  A conversion means nothing.   *)
(* s is [env, effects].                                                    *)
(***************************************************************************)
Term(kind, attr, args) == <<kind, attr, args>>
Zero == Term("const", <<0>>, <<>>)
Sum(x, y) == IF y = Zero THEN x ELSE Term("elt", <<"addf">>, <<x, y>>)
Choice(c, x, y) == IF x = y THEN x ELSE Term("if", <<>>, <<c, x, y>>)
Bind(env, n, terms) == [v \in DOMAIN env \cup {<<n, k>> : k \in DOMAIN terms} |->
                          IF v[1] = n THEN terms[v[2]] ELSE env[v]]
Since(old, new) == SubSeq(new, Len(old) + 1, Len(new))

\* What a buffer holds: what it was made for, or what was stored by then.  "Using
\* the buffer after this operation is undefined" (local_dealloc, TritonGPUOps.td).
Undefined == Term("undefined", <<>>, <<>>)
LoadedFrom(buffer, effects) ==
  IF Contains(effects, Term("local_dealloc", <<>>, <<buffer>>)) THEN Undefined
  ELSE IF buffer[3] # <<>> THEN buffer[3][1]
  ELSE Term("local_load", <<Len(effects)>>, <<buffer>>)

TermOf(op, args, effects) ==
  CASE op.kind \in {"convert", "cast"} -> args[1]
    [] op.kind = "reshape" /\ args[1][1] = "reshape" -> args[1]
    [] op.kind = "dot" -> Sum(Term("mul", <<>>, <<args[1], args[2]>>), args[3])
    [] op.kind = "elt" /\ op.attr = <<"addf">> -> Sum(args[1], args[2])
    [] op.kind = "local_load" -> LoadedFrom(args[1], effects)
    [] op.kind \in {"load", "atomic"} -> Term(op.kind, <<op.attr[1], Len(effects)>>, args)
    [] OTHER -> Term(op.kind, op.attr, args)

RECURSIVE RunBlock(_, _, _, _, _), RunOps(_, _, _, _), RunOp(_, _, _, _), RunIf(_, _, _, _),
          RunFor(_, _, _, _, _), RunWhile(_, _, _, _, _)
RunBlock(g, s, b, args, turns) ==
  RunOps(g, [s EXCEPT !.env = Bind(@, b, args)], g.block[b].ops, turns)
Left(g, s, b) == LET args == g.op[Terminator(g, b)].args IN [k \in DOMAIN args |-> s.env[args[k]]]

RunFor(g, s, o, args, turns) ==
  IF turns[1] = 0 THEN [s EXCEPT !.env = Bind(@, o, args)]
  ELSE LET b == g.op[o].regs[1]
           t == RunBlock(g, s, b, args, turns[2])
       IN RunFor(g, t, o, Left(g, t, b), <<turns[1] - 1, turns[2]>>)

\* The condition of a while decides how far it goes.
RunWhile(g, s, o, args, turns) ==
  LET before == g.op[o].regs[1]
      after  == g.op[o].regs[2]
      t      == RunBlock(g, s, before, args, turns[2])
      passed == Left(g, t, before)
      u      == [t EXCEPT !.effects = Append(@, Term("while", <<>>, <<Head(passed)>>))]
      v      == RunBlock(g, u, after, Tail(passed), turns[2])
  IN IF turns[1] = 0 THEN [u EXCEPT !.env = Bind(@, o, Tail(passed))]
     ELSE RunWhile(g, v, o, Left(g, v, after), <<turns[1] - 1, turns[2]>>)

RunIf(g, s, o, turns) ==
  LET op == g.op[o]
      c  == s.env[op.args[1]]
      t  == RunBlock(g, s, op.regs[1], <<>>, turns)
      f  == RunBlock(g, s, op.regs[2], <<>>, turns)
      x  == Left(g, t, op.regs[1])
      y  == Left(g, f, op.regs[2])
      did == <<Since(s.effects, t.effects), Since(s.effects, f.effects)>>
  IN [env |-> Bind(s.env, o, [k \in DOMAIN x |-> Choice(c, x[k], y[k])]),
      effects |-> IF did = <<<<>>, <<>>>> THEN s.effects ELSE Append(s.effects, Term("if", did, <<c>>))]

RunOp(g, s, o, turns) ==
  LET op   == g.op[o]
      args == [k \in DOMAIN op.args |-> s.env[op.args[k]]]
      t    == IF op.kind \in Effects THEN [s EXCEPT !.effects = Append(@, Term(op.kind, op.attr, args))] ELSE s
  IN CASE op.kind = "for"   -> RunFor(g, s, o, args, <<turns, turns>>)
       [] op.kind = "while" -> RunWhile(g, s, o, args, <<turns, turns>>)
       [] op.kind = "if"    -> RunIf(g, s, o, turns)
       [] op.kind \notin {"for", "while", "if"} /\ op.types # <<>> ->
            [t EXCEPT !.env = Bind(@, o, <<TermOf(op, args, s.effects)>>)]
       [] OTHER -> t

RunOps(g, s, ops, turns) == IF ops = <<>> THEN s ELSE RunOps(g, RunOp(g, s, Head(ops), turns), Tail(ops), turns)

Meaning(g, turns) ==
  RunBlock(g, [env |-> NoMap, effects |-> <<>>], Top,
           [k \in DOMAIN g.block[Top].types |-> Term("argument", <<k>>, <<>>)], turns).effects

(***************************************************************************)
(* Properties                                                              *)
(***************************************************************************)
\* The function without the operations that wait to be erased.
Whole == Erased(ir, opToDelete)
Rewritable == Follows \cup {"const", "range", "histogram", "for", "while", "if"}

\* Between two rewritings the function is one that the verifiers accept: the
\* layouts of the operands and results of every operation fit, blocks and
\* terminators agree with the loop or the condition around them, and every
\* value is defined before its uses; and in between, no operation is asked for
\* in another layout that cannot be made in it ("unexpected op in rewrite",
\* RemoveLayoutConversions.cpp).
Verified ==
  /\ phase \notin {"ttir", "rewrite"} => WellFormed(Whole)
  /\ phase \notin Assigning => \A o \in DOMAIN ir.op : ir.op[o].kind # "cast"
  /\ phase = "rewrite" /\ pending # <<>> => (NeedRewrite(This) => ThisOp.kind \in Rewritable)

\* The function does what it did: the same stores, atomics and assertions, in
\* the same order and with the same values, however often its loops run and
\* whichever way its conditions go.
Turns == 0 .. 2
MeaningKept ==
  phase \notin {"anchors", "propagate", "rewrite"} =>
    \A turns \in Turns : Meaning(Whole, turns) = Meaning(source, turns)

\* "Find all the anchor ops. These are ops that have a layout we want to
\* preserve": the memory accesses and dots that are left are those of the
\* function that conversions are removed from, none more often than there, and
\* with the layouts they had.
KeepsLayout == {"load", "store", "atomic", "dot"}
Kept(g) == {o \in DOMAIN g.op : g.op[o].kind \in KeepsLayout /\ IsLayoutAnchor(g.op[o])}
Anchored(g, o) == <<g.op[o].kind, g.op[o].attr>>
AnchorLayouts(g) ==
  {<<Anchored(g, o), g.op[o].types, [k \in DOMAIN g.op[o].args |-> TypeOf(g, g.op[o].args[k])]>> : o \in Kept(g)}
AnchorsKeepLayouts ==
  LET g == Whole
      Count(h, anchored) == Cardinality({o \in Kept(h) : Anchored(h, o) = anchored})
  IN phase \notin Assigning \cup {"rewrite"} =>
       /\ AnchorLayouts(g) \subseteq AnchorLayouts(source)
       /\ \A o \in Kept(g) : Count(g, Anchored(g, o)) <= Count(source, Anchored(g, o))

\* The patterns run out of matches and the lists of conversions come to their
\* end: the pass is over at some time.
PassEnds == <>(phase = "done")
=============================================================================
