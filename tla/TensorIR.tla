------------------------------ MODULE TensorIR ------------------------------
(***************************************************************************)
(* A kernel as the layout passes see it: operations in nested blocks, and  *)
(* for every value the layout of its tensor.  An operation is              *)
(*   [kind, attr, args, types, regs]                                       *)
(* (what it is, its attributes, the values it uses, the layouts of its     *)
(* results, the blocks it holds) and a block is [types, ops] (the layouts  *)
(* of its arguments, its operations in order).  The value <<n, k>> is the  *)
(* k-th result of operation n or the k-th argument of block n.  Shapes,    *)
(* element types, bounds and induction variables are left out: none of the *)
(* passes' decisions modelled here reads them.                             *)
(*                                                                         *)
(* Kinds: const, splat, range, elt (elementwise), ext (a cast to a wider   *)
(* type), broadcast, expand, reduce, trans, reshape (one that may reorder  *)
(* its elements), scan, histogram, load, store, atomic, dot, local_alloc   *)
(* (of shared memory, for a value or for stores to come), local_load,      *)
(* local_store, local_dealloc, assert, convert, for, while, if, yield,     *)
(* condition.                                                              *)
(***************************************************************************)
EXTENDS Naturals, FiniteSets, Sequences, SequencesExt

CONSTANT ElemsPerThread(_)  \* how many elements a thread holds in a layout

Scalar == <<"scalar">>
Buffer == <<"memdesc">>     \* shared memory
Slice(axis, parent)  == <<"slice", axis, parent>>
DotOperand(i, parent) == <<"dotop", i, parent>>
IsBlocked(e) == e[1] = "blocked"
\* <<"mma", version of the tensor core, warps along its columns, instruction>>
IsMma(e)     == e[1] = "mma"
IsMmaV3(e)   == IsMma(e) /\ e[2] = 3
Fails == <<"fails">>

Top == 0                    \* the block of the function's body

(***************************************************************************)
(* Reading the program.                                                    *)
(***************************************************************************)
Kind(ir, v)  == IF v[1] \in DOMAIN ir.op THEN ir.op[v[1]].kind ELSE "argument"
TypeOf(ir, v) == IF v[1] \in DOMAIN ir.op THEN ir.op[v[1]].types[v[2]] ELSE ir.block[v[1]].types[v[2]]
IsTensor(ir, v) == TypeOf(ir, v) \notin {Scalar, Buffer}
ResultsOf(ir, o) == [k \in DOMAIN ir.op[o].types |-> <<o, k>>]
HomeOf(ir, o)   == CHOOSE b \in DOMAIN ir.block : Contains(ir.block[b].ops, o)
ParentOf(ir, b) == CHOOSE o \in DOMAIN ir.op : Contains(ir.op[o].regs, b)
EnclosingOp(ir, o) == ParentOf(ir, HomeOf(ir, o))
Terminator(ir, b) == Last(ir.block[b].ops)

\* The operations of a block and of those inside them: each after the
\* operations that it is nested in and, values being defined before they are
\* used, after those it takes its operands from.
RECURSIVE Walk(_, _), WalkOps(_, _)
WalkOps(ir, ops) ==
  IF ops = <<>> THEN <<>>
  ELSE <<Head(ops)>> \o FlattenSeq([r \in DOMAIN ir.op[Head(ops)].regs |-> Walk(ir, ir.op[Head(ops)].regs[r])])
       \o WalkOps(ir, Tail(ops))
Walk(ir, b) == WalkOps(ir, ir.block[b].ops)
ProgramOrder(ir) == Walk(ir, Top)

\* The uses <<operation, operand>> of a value, the last one first.
Uses(ir, v) ==
  LET order   == ProgramOrder(ir)
      uses(o) == SelectSeq([k \in DOMAIN ir.op[o].args |-> <<o, k>>], LAMBDA u : ir.op[o].args[u[2]] = v)
  IN Reverse(FlattenSeq([i \in DOMAIN order |-> uses(order[i])]))
Unused(ir, v) == \A o \in DOMAIN ir.op : ~Contains(ir.op[o].args, v)

(***************************************************************************)
(* Changing it.  A new operation or block takes the number ir.next.        *)
(***************************************************************************)
With(f, x, y) == [z \in DOMAIN f \cup {x} |-> IF z = x THEN y ELSE f[z]]
IndexOf(s, x) == CHOOSE i \in DOMAIN s : s[i] = x

AddOp(ir, b, at, op) ==
  [ir EXCEPT !.op = With(@, ir.next, op),
             !.block[b].ops = InsertAt(@, at, ir.next),
             !.next = @ + 1]
AddBefore(ir, o, op) == AddOp(ir, HomeOf(ir, o), IndexOf(ir.block[HomeOf(ir, o)].ops, o), op)
\* setInsertionPointAfterValue
AddAfter(ir, v, op) ==
  IF v[1] \in DOMAIN ir.op
  THEN AddOp(ir, HomeOf(ir, v[1]), IndexOf(ir.block[HomeOf(ir, v[1])].ops, v[1]) + 1, op)
  ELSE AddOp(ir, v[1], 1, op)

\* replaceAllUsesWith, for every value of a function's domain
Replaced(ir, f) ==
  [ir EXCEPT !.op = [o \in DOMAIN @ |->
     [@[o] EXCEPT !.args = [i \in DOMAIN @ |-> IF @[i] \in DOMAIN f THEN f[@[i]] ELSE @[i]]]]]
ReplaceAllUsesWith(ir, v, w) == Replaced(ir, [x \in {v} |-> w])

Erased(ir, gone) ==
  LET inside == gone \cup UNION {ToSet(FlattenSeq([r \in DOMAIN ir.op[o].regs |-> Walk(ir, ir.op[o].regs[r])])) : o \in gone}
      blocks == UNION {ToSet(ir.op[o].regs) : o \in inside}
  IN [ir EXCEPT !.op = [o \in DOMAIN @ \ inside |-> @[o]],
                !.block = [b \in DOMAIN @ \ blocks |->
                             [@[b] EXCEPT !.ops = SelectSeq(@, LAMBDA o : o \notin inside)]]]

NewOp(kind, attr, args, types) ==
  [kind |-> kind, attr |-> attr, args |-> args, types |-> types, regs |-> <<>>]
ConvertOp(v, encoding) == NewOp("convert", <<>>, <<v>>, <<encoding>>)

(***************************************************************************)
(* What the passes ask of an operation.                                    *)
(***************************************************************************)
\* SameOperandsAndResultEncoding or Elementwise
SameEncoding == {"elt", "ext", "broadcast", "splat", "scan", "atomic"}
\* SameLoadStoreOperands(AndResult)Encoding
LoadOrStore == {"load", "store"}
Kinds == SameEncoding \cup LoadOrStore \cup
         {"const", "range", "expand", "reduce", "trans", "reshape", "histogram", "dot", "local_load",
          "local_alloc", "local_store", "local_dealloc", "assert", "convert", "for", "while", "if", "yield", "condition"}
\* those through which a layout is followed forward, and that are cloned in another
Follows == SameEncoding \cup {"reduce", "expand", "reshape", "trans", "convert"}

IsExpensiveLoadOrStore(op) == op.kind \in LoadOrStore /\ op.attr[2] = "expensive"
ReduceToScalar(op) == op.kind = "reduce" /\ op.types[1] = Scalar

IsLayoutAnchor(op) ==
  \/ op.kind \in LoadOrStore /\ IsExpensiveLoadOrStore(op)
  \/ op.kind \in {"dot", "atomic", "reshape"}

CanBeRemat(op) ==
  /\ op.kind \in LoadOrStore => ~IsExpensiveLoadOrStore(op)
  /\ op.kind \notin {"atomic", "dot", "while", "condition"}

IsExpensiveView(e, f) == ElemsPerThread(e) # ElemsPerThread(f)

CanFoldIntoConversion(ir, op, target) ==
  \/ op.kind = "convert" /\ (IsMma(target) => TypeOf(ir, op.args[1]) = target)
  \/ op.kind = "reshape" /\ op.attr[1] = "any" /\ ~IsExpensiveView(TypeOf(ir, op.args[1]), target)
  \/ op.kind \in {"const", "range", "splat", "histogram", "local_alloc", "local_store"}

IsFreeConvert(ir, op) ==
  /\ op.kind = "convert"
  /\ \A e \in {op.types[1], TypeOf(ir, op.args[1])} : IsMmaV3(e) /\ e[3] = 1

IsExtOrBroadcastOp(op) == op.kind \in {"ext", "broadcast", "expand"}

(***************************************************************************)
(* The layout of the result of an operation from that of its operand, and  *)
(* the other way, or Fails.                                                *)
(***************************************************************************)
\* outputEnc.order = inverse(trans.order) * inputEnc.order
InferTransOpEncoding(e, order) ==
  IF IsBlocked(e)
  THEN <<"blocked",
         [d \in DOMAIN order |-> e[2][order[d]]],
         [i \in DOMAIN e[3] |-> IndexOf(order, e[3][i])]>>
  ELSE Fails
InversePermutation(order) == [d \in DOMAIN order |-> IndexOf(order, d)]

InferExpandDimsOpEncoding(e, axis) ==
  IF e[1] = "slice" /\ e[2] = axis THEN e[3] ELSE Fails

InferDstEncoding(op, e) ==
  CASE op.kind = "scan" /\ ~IsBlocked(e) -> Fails
    [] op.kind \in SameEncoding \cup LoadOrStore \cup {"while", "for", "yield", "condition"} -> e
    [] op.kind = "reduce" -> Slice(op.attr[1], e)
    [] op.kind = "expand" -> InferExpandDimsOpEncoding(e, op.attr[1])
    [] op.kind = "trans" -> InferTransOpEncoding(e, op.attr)
    [] OTHER -> Fails

InferSrcEncoding(op, e) ==
  CASE op.kind = "scan" /\ ~IsBlocked(e) -> Fails
    [] op.kind \in SameEncoding \cup LoadOrStore \cup {"while", "yield", "condition"} -> e
    [] op.kind = "reduce" -> InferExpandDimsOpEncoding(e, op.attr[1])
    [] op.kind = "expand" -> Slice(op.attr[1], e)
    [] op.kind = "trans" -> InferTransOpEncoding(e, InversePermutation(op.attr))
    [] OTHER -> Fails

(***************************************************************************)
(* What the verifiers of the operations ask: the layouts fit together and  *)
(* a value is defined before it is used.                                   *)
(***************************************************************************)
VerifySameEncoding(types) == Cardinality(ToSet(types) \ {Scalar}) <= 1

\* The third version of the tensor core reads shared memory, the first operand
\* from registers too.
InferDotOpEncoding(e, i, result) ==
  IF IsMmaV3(result) THEN e = Buffer \/ (i = 1 /\ e[1] = "dotop" /\ e[2] = 1 /\ IsMma(e[3]))
  ELSE e = DotOperand(i, result)

WellTyped(ir, o) ==
  LET op    == ir.op[o]
      types == [i \in DOMAIN op.args |-> TypeOf(ir, op.args[i])]
      blockTypes(r) == ir.block[op.regs[r]].types
      leaves(r)  == LET args == ir.op[Terminator(ir, op.regs[r])].args
                    IN [i \in DOMAIN args |-> TypeOf(ir, args[i])]
  IN CASE op.kind \in SameEncoding \cup LoadOrStore -> VerifySameEncoding(types \o op.types)
       [] op.kind = "reduce" -> op.types[1] \in {Scalar, Slice(op.attr[1], types[1])}
       [] op.kind = "expand" -> op.types[1] = InferExpandDimsOpEncoding(types[1], op.attr[1])
       [] op.kind = "trans"  -> op.types[1] = InferTransOpEncoding(types[1], op.attr)
       [] op.kind = "dot"    -> types[3] = op.types[1] /\ \A i \in {1, 2} : InferDotOpEncoding(types[i], i, op.types[1])
       [] op.kind = "for"    -> types = op.types /\ blockTypes(1) = types /\ leaves(1) = types
       [] op.kind = "if"     -> leaves(1) = op.types /\ leaves(2) = op.types
       [] op.kind = "while"  -> /\ blockTypes(1) = types /\ leaves(2) = types
                                /\ leaves(1) = <<Scalar>> \o op.types /\ blockTypes(2) = op.types
       [] OTHER -> TRUE

\* The blocks around an operation, from the inside out.
RECURSIVE Around(_, _)
Around(ir, b) == IF b = Top THEN {b} ELSE {b} \cup Around(ir, HomeOf(ir, ParentOf(ir, b)))

Dominates(ir, order, v, o) ==
  \/ v[1] \in Around(ir, HomeOf(ir, o)) /\ v[2] \in DOMAIN ir.block[v[1]].types
  \/ /\ v[1] \in DOMAIN ir.op
     /\ v[2] \in DOMAIN ir.op[v[1]].types
     /\ HomeOf(ir, v[1]) \in Around(ir, HomeOf(ir, o))
     /\ IndexOf(order, v[1]) < IndexOf(order, o)
     /\ o \notin ToSet(WalkOps(ir, <<v[1]>>))

WellFormed(ir) ==
  LET order == ProgramOrder(ir) IN
  \A o \in DOMAIN ir.op :
    /\ \A i \in DOMAIN ir.op[o].args : Dominates(ir, order, ir.op[o].args[i], o)
    /\ WellTyped(ir, o)
=============================================================================
