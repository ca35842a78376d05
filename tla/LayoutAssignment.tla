--------------------------- MODULE LayoutAssignment ---------------------------
(***************************************************************************)
(* The passes that give a function its first layouts                       *)
(* (nvidia/backend/compiler.py, make_ttgir): every tensor gets the default *)
(* layout of its shape (TritonToTritonGPUPass.cpp), every memory access    *)
(* one of its own (Coalesce.cpp), and a function for several CTAs is       *)
(* distributed over them (PlanCTA.cpp): dots and reductions, or else the   *)
(* stores, say how, and casts carry that on to the rest of it.             *)
(*                                                                         *)
(* Before, a value's type is <<"tensor", shape>> where it has no layout    *)
(* yet.  A blocked layout is <<"blocked", dims, order>> with               *)
(* <<extent, sizePerThread, CTAsPerCGA, CTASplitNum>> for each dimension   *)
(* of the shape that it is made for; threadsPerWarp and warpsPerCTA follow *)
(* from these, and the order of the CTAs is left out.  A cast              *)
(* (UnrealizedConversionCastOp) has its direction for an attribute.        *)
(***************************************************************************)
EXTENDS RemoveLayoutConversions

CONSTANTS NumThreads,   \* numWarps * threadsPerWarp
          PerThread     \* how many elements a thread may access at once, as the axis analysis may find

VARIABLES worklist,      \* accesses to be coalesced; when CTAs are planned, the casts still to be moved
          stepUnchanged  \* how many of them in a row could not be
assignmentVars == <<removeVars, worklist, stepUnchanged>>

Encoded(g) == \A o \in DOMAIN g.op : \A k \in DOMAIN g.op[o].types : g.op[o].types[k][1] # "tensor"
AssignmentInit ==
  /\ RemoveInit
  /\ phase = IF Encoded(source) THEN "anchors" ELSE "ttir"
  /\ worklist = <<>> /\ stepUnchanged = 0

Assigning == {"ttir", "coalesce", "plan dots", "plan reduces", "plan stores", "plan casts"}
Assigns(at, next) ==
  /\ phase = at /\ phase' = next
  /\ UNCHANGED <<rematVars, opToDelete, converts, remat, mapped>>
OpsOf(g, kinds) == SelectSeq(ProgramOrder(g), LAMBDA o : g.op[o].kind \in kinds)

(***************************************************************************)
(* Layouts                                                                 *)
(***************************************************************************)
Clamp(n, low, high) == IF n < low THEN low ELSE IF n > high THEN high ELSE n
Product(s) == FoldLeft(LAMBDA x, y : x * y, 1, s)
Constant(n, c) == [i \in 1 .. n |-> c]

\* BlockedEncodingAttr::get, from the most strided dimension on; what is left of the CTAs repeats the last one.
BlockedFor(shape, size, order, numCTAs) ==
  LET rank == Len(shape)
      Give(s, i) == LET n == Clamp(s.left, 1, shape[i] \div size[i])
                    IN [split |-> [s.split EXCEPT ![i] = n], left |-> s.left \div n]
      s == FoldLeft(Give, [split |-> Constant(rank, 1), left |-> numCTAs], Reverse(order))
  IN <<"blocked",
       [i \in 1 .. rank |-> <<shape[i], size[i], IF i = rank THEN s.split[i] * s.left ELSE s.split[i], s.split[i]>>],
       order>>
RowMajor(rank) == [i \in 1 .. rank |-> rank + 1 - i]
DefaultBlocked(shape, numCTAs) == BlockedFor(shape, Constant(Len(shape), 1), RowMajor(Len(shape)), numCTAs)

\* What a dot gives: the more elements for each thread, the larger its tiles.
DotBlocked(shape, numCTAs) ==
  LET n    == Product(shape) \div NumThreads
      size == IF n >= 16 THEN 4 ELSE IF n >= 4 THEN 2 ELSE 1
  IN BlockedFor(shape, Constant(Len(shape), size), RowMajor(Len(shape)), numCTAs)

\* A dimension of one element put in; the dimensions are taken in order then.
ExpandedBlocked(e, axis) ==
  LET dims == InsertAt(e[2], axis, <<1, 1, 1, 1>>)
  IN <<"blocked", dims, [i \in DOMAIN dims |-> i]>>

\* CTAsPerCGA and CTASplitNum, dimension by dimension; the operand of a dot is not split along its inner dimension.
RECURSIVE CTALayout(_), ReplaceCTALayout(_, _)
CTALayout(e) ==
  CASE e[1] = "slice" -> RemoveAt(CTALayout(e[3]), e[2])
    [] e[1] = "dotop" -> [CTALayout(e[3]) EXCEPT ![3 - e[2]][2] = 1]
    [] OTHER -> [d \in DOMAIN e[2] |-> <<e[2][d][3], e[2][d][4]>>]
ReplaceCTALayout(e, ctas) ==
  IF e[1] = "slice" THEN Slice(e[2], ReplaceCTALayout(e[3], ctas))
  ELSE <<"blocked", [d \in DOMAIN e[2] |-> <<e[2][d][1], e[2][d][2], ctas[d][1], ctas[d][2]>>], e[3]>>

(***************************************************************************)
(* ConvertTritonToTritonGPU: operation by operation.  An operand comes in  *)
(* the default layout; where a result has another one, a conversion        *)
(* follows it (the target materialization).                                *)
(***************************************************************************)
ConvertType(g, t) == IF t[1] = "tensor" THEN DefaultBlocked(t[2], g.ctas) ELSE t

NewResultType(g, op, src) ==
  CASE op.kind = "expand"    -> ExpandedBlocked(src[1], op.attr[1])
    [] op.kind = "dot"       -> DotBlocked(op.types[1][2], g.ctas)
    [] op.kind \in {"broadcast", "scan"} -> src[1]
    [] op.kind = "trans"     -> InferTransOpEncoding(src[1], op.attr)
    [] op.kind = "reduce" /\ op.types[1] # Scalar -> Slice(op.attr[1], src[1])
    [] OTHER -> ConvertType(g, op.types[1])

\* A conversion of an operand, in front of the operation.
ConvertOperand(g, o, k, e) ==
  [AddBefore(g, o, ConvertOp(g.op[o].args[k], e)) EXCEPT !.op[o].args[k] = <<g.next, 1>>]
ConvertOperands(g, o, types) ==
  FoldLeft(LAMBDA h, k : IF IsTensor(h, h.op[o].args[k]) THEN ConvertOperand(h, o, k, types[k]) ELSE h,
           g, [k \in DOMAIN types |-> k])
\* A conversion behind a value, for all that uses it.
ConvertValue(g, v, e) == AddAfter(ReplaceAllUsesWith(g, v, <<g.next, 1>>), v, ConvertOp(v, e))

\* Most operations take their operands as they come, in the default layouts, and give such results.
GenericTypes(g, types) == [k \in DOMAIN types |-> ConvertType(g, types[k])]
ConvertRegionTypes(g, o) ==
  [g EXCEPT !.block = [b \in DOMAIN @ |->
     IF Contains(g.op[o].regs, b) THEN [@[b] EXCEPT !.types = GenericTypes(g, @)] ELSE @[b]]]
OperandLayouts(op, types) ==
  CASE op.kind = "expand" -> <<Slice(op.attr[1], types[1])>>
    [] op.kind = "dot"    -> <<DotOperand(1, types[1]), DotOperand(2, types[1]), types[1]>>
    [] OTHER -> <<>>

Rewritten(g, o, types, generic) ==
  FoldLeft(LAMBDA h, k : IF types[k] = generic[k] \/ Unused(h, <<o, k>>) THEN h ELSE ConvertValue(h, <<o, k>>, generic[k]),
           [ConvertRegionTypes(ConvertOperands(g, o, OperandLayouts(g.op[o], types)), o) EXCEPT !.op[o].types = types],
           [k \in DOMAIN types |-> k])
MatchAndRewrite(g, o) ==
  LET op == g.op[o]
  IN Rewritten(g, o,
               IF Len(op.types) = 1 THEN <<NewResultType(g, op, [k \in DOMAIN op.args |-> TypeOf(g, op.args[k])])>>
               ELSE GenericTypes(g, op.types),
               GenericTypes(g, op.types))

LoadStores == {"load", "store", "atomic"}
PointerAccesses(g) == SelectSeq(OpsOf(g, LoadStores), LAMBDA o : IsTensor(g, g.op[o].args[1]))

ConvertTritonToTritonGPU ==
  /\ Assigns("ttir", "coalesce")
  /\ ir' = FoldLeft(MatchAndRewrite, ir, ProgramOrder(ir))
  /\ worklist' = PointerAccesses(ir')
  /\ UNCHANGED <<source, stepUnchanged>>

(***************************************************************************)
(* Coalescing.  Which dimension of an access is contiguous, and how far,   *)
(* is what the axis analysis says of its pointers: one of the dimensions   *)
(* that a function is given as `fast`.                                     *)
(***************************************************************************)
Orders(rank) == {f \in [1 .. rank -> 1 .. rank] : Range(f) = 1 .. rank /\ (rank = 1 \/ f[1] \in ir.fast)}
CoalescedEncoding(e, order, n) ==
  LET elems == Product([d \in DOMAIN e[2] |-> e[2][d][1] \div e[2][d][4]])
      size  == IF elems \div NumThreads > n THEN n ELSE Clamp(elems \div NumThreads, 1, n)
  IN <<"blocked", [d \in DOMAIN e[2] |-> [e[2][d] EXCEPT ![2] = IF d = order[1] THEN size ELSE 1]], order>>

\* The access takes its operands in the new layout and its result is converted back.
CoalescedOp(g, o, e) ==
  LET op  == g.op[o]
      new == [ConvertOperands(g, o, Constant(Len(op.args), e)) EXCEPT !.op[o].types = [k \in DOMAIN @ |-> e]]
  IN FoldLeft(LAMBDA h, k : IF op.types[k] = e THEN h ELSE ConvertValue(h, <<o, k>>, op.types[k]),
              new, [k \in DOMAIN op.types |-> k])

CoalesceOp ==
  /\ Assigns("coalesce", "coalesce")
  /\ worklist # <<>>
  /\ LET o == Head(worklist)
         e == TypeOf(ir, ir.op[o].args[1])
     IN \E order \in Orders(Len(e[2])), n \in PerThread : ir' = CoalescedOp(ir, o, CoalescedEncoding(e, order, n))
  /\ worklist' = Tail(worklist)
  /\ UNCHANGED <<source, stepUnchanged>>

\* With a single CTA there is nothing to plan.
EndCoalesce ==
  /\ worklist = <<>>
  /\ Assigns("coalesce", IF ir.ctas = 1 THEN "anchors" ELSE "plan dots")
  /\ source' = IF ir.ctas = 1 THEN ir ELSE source
  /\ UNCHANGED <<ir, worklist, stepUnchanged>>

(***************************************************************************)
(* PlanCTA.  A plan is [ir, queue]: the function with its casts, and those *)
(* of them that are still to be moved.  An operation that gets new layouts *)
(* has casts around it: backward ones, from what its operands were, that   *)
(* move towards where these come from, and forward ones, to what its       *)
(* results were, that move towards their uses.                             *)
(***************************************************************************)
CastOp(v, e, direction) == NewOp("cast", <<direction>>, <<v>>, <<e>>)
SetType(g, v, e) ==
  IF v[1] \in DOMAIN g.op THEN [g EXCEPT !.op[v[1]].types[v[2]] = e] ELSE [g EXCEPT !.block[v[1]].types[v[2]] = e]

\* A place for a cast: in front of operand k of operation o, or behind a value, each with the new layout there.
InFront(o, k, e) == <<"backward", <<o, k>>, e>>
After(v, e)      == <<"forward", v, e>>
InsertCast(p, place) ==
  LET g == p.ir
      backward == place[1] = "backward"
      at == place[2]
      v  == IF backward THEN g.op[at[1]].args[at[2]] ELSE at
      new == IF backward
             THEN [AddBefore(g, at[1], CastOp(v, place[3], "backward")) EXCEPT !.op[at[1]].args[at[2]] = <<g.next, 1>>]
             ELSE AddAfter(SetType(ReplaceAllUsesWith(g, v, <<g.next, 1>>), v, place[3]), v, CastOp(v, TypeOf(g, v), "forward"))
  IN IF IsTensor(g, v) THEN [ir |-> new, queue |-> Append(p.queue, g.next)] ELSE p
InsertCasts(p, places) == FoldLeft(InsertCast, p, places)

Surrounding(o, operands, results) ==
  [k \in DOMAIN operands |-> InFront(o, k, operands[k])] \o [k \in DOMAIN results |-> After(<<o, k>>, results[k])]
ProcessElementwise(g, o, e) == Surrounding(o, Constant(Len(g.op[o].args), e), Constant(Len(g.op[o].types), e))
\* The operation keeps its layouts.
ProcessOpFallback(g, o) ==
  LET op == g.op[o] IN Surrounding(o, [k \in DOMAIN op.args |-> TypeOf(g, op.args[k])], op.types)

\* An access keeps its layout but for the CTAs, or altogether where it is to
\* be one slice for all of several CTAs.
ProcessLoadStore(g, o, e) ==
  LET op   == g.op[o]
      own  == IF op.types # <<>> THEN op.types[1] ELSE TypeOf(g, op.args[1])
      ctas == CTALayout(IF e[1] = "slice" /\ CTALayout(e[3])[e[2]][1] > 1 THEN own ELSE e)
  IN Surrounding(o, [k \in DOMAIN op.args |-> ReplaceCTALayout(TypeOf(g, op.args[k]), ctas)],
                 [k \in DOMAIN op.types |-> ReplaceCTALayout(op.types[k], ctas)])

\* Everything that result k of a loop or of a condition is one with.
ProcessForOp(g, o, k, e) ==
  LET body == g.op[o].regs[1]
  IN <<InFront(o, k, e), After(<<body, k>>, e), InFront(Terminator(g, body), k, e), After(<<o, k>>, e)>>
ProcessIfOp(g, o, k, e) ==
  <<After(<<o, k>>, e)>> \o [r \in 1 .. 2 |-> InFront(Terminator(g, g.op[o].regs[r]), k, e)]

\* Where to begin.  At most 128, at least 64 rows and columns for each CTA of a dot, if there are as many.
CTATiling(m, n, numCTAs) ==
  LET split(chunk) == LET splitM == Clamp(m \div chunk, 1, numCTAs) IN <<splitM, numCTAs \div splitM>>
  IN IF n \div split(128)[2] >= 64 THEN split(128) ELSE split(64)
ProcessDot(g, o) ==
  LET e     == g.op[o].types[1]
      split == CTATiling(e[2][1][1], e[2][2][1], g.ctas)
      new   == ReplaceCTALayout(e, [d \in 1 .. 2 |-> <<split[d], split[d]>>])
  IN Surrounding(o, <<DotOperand(1, new), DotOperand(2, new), new>>, <<new>>)

\* No dimension is split that is reduced; what is left of the CTAs repeats the others.
ReduceCTAs(e, axis, numCTAs) ==
  LET dims  == Reverse(e[3])
      Give(s, d) == LET n == IF d = axis THEN 1 ELSE Clamp(e[2][d][1] \div e[2][d][2], 0, s.left)
                    IN [ctas |-> [s.ctas EXCEPT ![d] = n], left |-> s.left \div n]
      s     == FoldLeft(Give, [ctas |-> Constant(Len(dims), 1), left |-> numCTAs], dims)
      other == SelectSeq(dims, LAMBDA d : d # axis)
      split == IF other = <<>> THEN s.ctas ELSE [s.ctas EXCEPT ![Head(other)] = @ * s.left]
  IN [d \in DOMAIN e[2] |-> <<IF d = Head(dims) THEN split[d] * s.left ELSE split[d], split[d]>>]
ProcessReduce(g, o) ==
  LET op  == g.op[o]
      e   == TypeOf(g, op.args[1])
      new == ReplaceCTALayout(e, ReduceCTAs(e, op.attr[1], g.ctas))
  IN Surrounding(o, Constant(Len(op.args), new), Constant(Len(op.types), Slice(op.attr[1], new)))

Planned(p) == ir' = p.ir /\ worklist' = p.queue
Now == [ir |-> ir, queue |-> worklist]

\* With a second dot, "CTA tiling is already determinted".
PlanDots ==
  /\ Assigns("plan dots", "plan reduces")
  /\ Len(OpsOf(ir, {"dot"})) <= 1
  /\ Planned(FoldLeft(LAMBDA p, o : InsertCasts(p, ProcessDot(p.ir, o)), Now, OpsOf(ir, {"dot"})))
  /\ UNCHANGED <<source, stepUnchanged>>
PlanReduces ==
  /\ Assigns("plan reduces", IF OpsOf(ir, {"dot", "reduce"}) = <<>> THEN "plan stores" ELSE "plan casts")
  /\ Planned(FoldLeft(LAMBDA p, o : InsertCasts(p, ProcessReduce(p.ir, o)), Now, OpsOf(ir, {"reduce"})))
  /\ UNCHANGED <<source, stepUnchanged>>

\* processStoreLikeOps: the CTAs of the first go for all of them.
PlanStores ==
  /\ Assigns("plan stores", "plan casts")
  /\ OpsOf(ir, {"store", "atomic"}) # <<>>
  /\ LET stores == SelectSeq(OpsOf(ir, {"store", "atomic"}), LAMBDA o : IsTensor(ir, ir.op[o].args[1]))
         layout(g, o) == TypeOf(g, g.op[o].args[1])
         ctas == CTALayout(layout(ir, stores[1]))
         Process(p, o) == InsertCasts(p, ProcessElementwise(p.ir, o, ReplaceCTALayout(layout(p.ir, o), ctas)))
     IN Planned(FoldLeft(Process, Now, stores))
  /\ UNCHANGED <<source, stepUnchanged>>

(***************************************************************************)
(* One cast after the other.  Where an assertion of the planner fails, or  *)
(* it reports an error, there is no step.                                  *)
(***************************************************************************)
Cast   == Head(worklist)
Input  == ir.op[Cast].args[1]
Output == <<Cast, 1>>
Others == [ir |-> ir, queue |-> Tail(worklist)]
IsCast(g, o) == g.op[o].kind = "cast"
EraseCasts(p, casts) == [ir |-> Erased(p.ir, casts), queue |-> SelectSeq(p.queue, LAMBDA c : c \notin casts)]

Propagating ==
  /\ Assigns("plan casts", "plan casts")
  /\ worklist # <<>>
  /\ UNCHANGED source
Propagates(direction) == Propagating /\ ir.op[Cast].attr[1] = direction
Changed == stepUnchanged' = 0

\* What a cast meets that can be moved: the value behind it, of which it is the
\* only use, or the only use in front of it.
Backward == ir.op[Cast].attr[1] = "backward"
Use      == Head(Uses(ir, Output))
Met      == IF Backward THEN Input ELSE Use
MetKind  == SourceOp(ir, Met).kind
Meets    == Propagating /\ Len(Uses(ir, IF Backward THEN Input ELSE Output)) = 1

\* A forward cast and then a backward one.
EliminateAdjacentCasts ==
  /\ Meets /\ MetKind = "cast"
  /\ LET c == IF Backward THEN Input[1] ELSE Cast
         d == IF Backward THEN Cast ELSE Use[1]
         v == ir.op[c].args[1]
         e == ir.op[d].types[1]
         new == IF TypeOf(ir, v) = e THEN ReplaceAllUsesWith(ir, <<d, 1>>, v)
                ELSE ReplaceAllUsesWith(AddBefore(ir, d, ConvertOp(v, e)), <<d, 1>>, <<ir.next, 1>>)
     IN /\ ir.op[c].attr[1] = "forward" /\ ir.op[d].attr[1] = "backward"
        /\ Planned(EraseCasts([Now EXCEPT !.ir = new], {c, d}))
  /\ Changed

\* A conversion is dropped for a cast, which is then that much longer.
ProcessConvertLayout ==
  /\ Meets /\ MetKind = "convert"
  /\ LET o == Met[1]
         new == IF Backward THEN ReplaceAllUsesWith(ir, Input, ir.op[o].args[1])
                ELSE ReplaceAllUsesWith(SetType(ir, Output, ir.op[o].types[1]), <<o, 1>>, Output)
     IN ir' = Erased(new, {o})
  /\ worklist' = Append(Tail(worklist), Cast)
  /\ Changed

\* Any other operation gets new layouts, and casts of its own.  The argument
\* of a block and what is yielded by it belong to the operation around it.
Elementwise == {"elt", "ext"}
Likewise == Elementwise \cup IF Backward THEN {"const", "splat", "range", "broadcast"} ELSE {}
OfBlock  == MetKind \in {"argument", "yield"}
MetWhole ==
  IF ~OfBlock THEN Met
  ELSE <<IF Backward THEN ParentOf(ir, Input[1]) ELSE EnclosingOp(ir, Use[1]), Met[2]>>
NewLayouts(o, k, e) ==
  LET kind == ir.op[o].kind
  IN CASE kind \in LoadStores -> ProcessLoadStore(ir, o, e)
       [] kind \in Likewise   -> ProcessElementwise(ir, o, e)
       [] kind = "expand" /\ Backward -> Surrounding(o, <<Slice(ir.op[o].attr[1], e)>>, <<e>>)
       [] kind = "if"  -> ProcessIfOp(ir, o, k, e)
       [] kind = "for" -> ProcessForOp(ir, o, k, e)
       [] OTHER -> ProcessOpFallback(ir, o)
Propagate ==
  /\ Meets /\ MetKind \notin {"cast", "convert"}
  /\ Met[1] # Top
  /\ OfBlock => ir.op[MetWhole[1]].kind \in IF Backward THEN {"for"} ELSE {"for", "if"}
  /\ Planned(InsertCasts(Others, NewLayouts(MetWhole[1], MetWhole[2], TypeOf(ir, IF Backward THEN Output ELSE Input))))
  /\ Changed

EraseUnusedCast ==
  /\ Propagates("forward")
  /\ Unused(ir, Output)
  /\ Planned([Others EXCEPT !.ir = Erased(@, {Cast})])
  /\ Changed

\* Every use gets a cast of its own.
MultiUsersForward ==
  /\ Propagates("forward")
  /\ Len(Uses(ir, Output)) > 1
  /\ LET Split(p, use) ==
           [ir |-> [AddAfter(p.ir, Output, CastOp(Input, TypeOf(ir, Output), "forward"))
                      EXCEPT !.op[use[1]].args[use[2]] = <<p.ir.next, 1>>],
            queue |-> Append(p.queue, p.ir.next)]
         all == FoldLeft(Split, Others, Uses(ir, Output))
     IN Planned([all EXCEPT !.ir = Erased(@, {Cast})])
  /\ Changed

\* The casts among the uses of the value are waited for, as long as there are others to be moved.
OtherUses == {use \in ToSet(Uses(ir, Input)) : ~IsCast(ir, use[1])}
CastUses  == {use[1] : use \in ToSet(Uses(ir, Input))} \ {use[1] : use \in OtherUses}
WaitForCasts ==
  /\ Propagates("backward")
  /\ OtherUses # {} /\ Len(Uses(ir, Input)) > 1
  /\ stepUnchanged <= Len(Others.queue)
  /\ worklist' = Append(Tail(worklist), Cast)
  /\ stepUnchanged' = stepUnchanged + 1
  /\ UNCHANGED ir

\* Operation o once more, behind it, with all it holds.
Cloned(g, o) ==
  LET ops    == ToSet(WalkOps(g, <<o>>))
      blocks == UNION {ToSet(g.op[p].regs) : p \in ops}
      new(n) == IF n \in ops \cup blocks THEN n + g.next ELSE n
      at     == HomeOf(g, o)
  IN [g EXCEPT
       !.op = [p \in DOMAIN @ \cup {new(q) : q \in ops} |->
                 IF p \in DOMAIN @ THEN @[p]
                 ELSE [@[p - g.next] EXCEPT !.args = [k \in DOMAIN @ |-> <<new(@[k][1]), @[k][2]>>],
                                            !.regs = [r \in DOMAIN @ |-> new(@[r])]]],
       !.block = [b \in DOMAIN @ \cup {new(c) : c \in blocks} |->
                    IF b \notin DOMAIN @ THEN [@[b - g.next] EXCEPT !.ops = [i \in DOMAIN @ |-> new(@[i])]]
                    ELSE IF b = at THEN [@[b] EXCEPT !.ops = InsertAt(@, IndexOf(@, o) + 1, new(o))]
                    ELSE @[b]],
       !.next = 2 * @]

\* The casts of value v to the types given become one for each type, behind
\* the value for the first type and behind a clone of the operation for every other.
MergeCasts(p, v, casts, types) ==
  LET Merge(q, i) ==
        LET g    == IF i = 1 THEN q.ir ELSE Cloned(q.ir, v[1])
            w    == IF i = 1 THEN v ELSE <<v[1] + q.ir.next, 1>>
            made == [ir |-> AddAfter(g, w, CastOp(w, types[i], "backward")), queue |-> Append(q.queue, g.next)]
            same == {c \in casts : p.ir.op[c].types[1] = types[i]}
        IN EraseCasts([made EXCEPT !.ir = Replaced(@, [x \in {<<c, 1>> : c \in same} |-> <<g.next, 1>>])], same)
  IN FoldLeft(Merge, p, [i \in DOMAIN types |-> i])

\* What else uses the value gets casts forth and back first: one use at a time,
\* for changing it ends the loop over the uses, which come in any order.
MultiUsersBackward ==
  /\ Propagates("backward")
  /\ Len(Uses(ir, Input)) > 1
  /\ OtherUses = {} \/ stepUnchanged > Len(Others.queue)
  /\ Input[1] \in DOMAIN ir.op \/ Cardinality({ir.op[c].types[1] : c \in CastUses}) = 1
  /\ \E use \in OtherUses \cup {<<>>}, seen \in SUBSET CastUses :
       LET n == ir.next
           e == ir.op[Cast].types[1]
           p == IF use = <<>> THEN Others
                ELSE [ir |-> [AddBefore(AddBefore(ir, use[1], CastOp(Input, e, "backward")),
                                        use[1], CastOp(<<n, 1>>, TypeOf(ir, Input), "forward"))
                                EXCEPT !.op[use[1]].args[use[2]] = <<n + 1, 1>>],
                      queue |-> Others.queue \o <<n, n + 1>>]
           brothers == IF use = <<>> THEN seen ELSE seen \cup {n}
           types == {p.ir.op[c].types[1] : c \in brothers}
       IN /\ (use = <<>>) = (OtherUses = {})
          /\ use = <<>> => seen = CastUses
          /\ \E inOrder \in SetToSeqs(types) : Planned(MergeCasts(p, Input, brothers, inOrder))
  /\ Changed

EndPlan ==
  /\ worklist = <<>>
  /\ Assigns("plan casts", "anchors")
  /\ source' = ir
  /\ UNCHANGED <<ir, worklist, stepUnchanged>>

AssignmentStep ==
  \/ ConvertTritonToTritonGPU \/ CoalesceOp \/ EndCoalesce
  \/ PlanDots \/ PlanReduces \/ PlanStores
  \/ EliminateAdjacentCasts \/ ProcessConvertLayout \/ Propagate \/ EraseUnusedCast
  \/ MultiUsersForward \/ WaitForCasts \/ MultiUsersBackward
  \/ EndPlan
=============================================================================
