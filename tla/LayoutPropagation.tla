-------------------------- MODULE LayoutPropagation --------------------------
(***************************************************************************)
(* The first half of the pass that removes layout conversions              *)
(* (RemoveLayoutConversions.cpp): the layouts of the operations that are   *)
(* to keep theirs are followed forward to all that uses their results, one *)
(* layout is picked for every value reached, and the function is rewritten *)
(* with it, operation by operation, while other operations still hold the  *)
(* old ones.                                                               *)
(***************************************************************************)
EXTENDS TensorIR

VARIABLES ir,        \* the function
          phase,
          layouts,   \* value -> the layouts it may take, in the order they reached it
          queue,     \* values whose users are still to be told, the next one last
          regions,   \* blocks still to be rewritten, the next one last
          pending,   \* what is left of the block being rewritten
          rewritten, \* rewriteMapping: value -> its replacement in the layout picked
          opToDelete
propagationVars == <<ir, phase, layouts, queue, regions, pending, rewritten, opToDelete>>

(***************************************************************************)
(* 1. initAnchorLayout                                                     *)
(***************************************************************************)
\* The operations that use a value, those inside them, those that use their results, and so on.
RECURSIVE ForwardSlice(_, _, _)
ForwardSlice(g, ops, seen) ==
  IF ops = {} THEN seen
  ELSE LET slice == seen \cup UNION {ToSet(WalkOps(g, <<o>>)) : o \in ops}
       IN ForwardSlice(g, {p \in DOMAIN g.op : \E k \in DOMAIN g.op[p].args : g.op[p].args[k][1] \in slice} \ slice, slice)
UsersOf(g, v) == {o \in DOMAIN g.op : Contains(g.op[o].args, v)}

\* What is looked for on the way, in the order of the program: a reduction that
\* must not be stepped into, or a conversion to the layout of a tensor core.
Verdict(g, o, e) ==
  LET op == g.op[o] IN
  CASE op.kind = "reduce" /\ IsMma(TypeOf(g, op.args[1])) /\ op.attr[2] = "small" -> "stop"
    [] op.kind = "convert" /\ IsMma(op.types[1]) -> "found"
    [] op.kind = "convert" /\ op.types[1][1] = "dotop" -> "found"
    [] IsMmaV3(e) /\ op.kind \in {"local_alloc", "local_store"} -> "found"
    [] OTHER -> "go on"

\* Through the yields of the slice, results of an if and arguments of a loop are looked at in turn.
RECURSIVE ConvertToMmaAhead(_, _, _, _, _)
ConvertToMmaAhead(g, values, slice, seen, e) ==
  IF values = <<>> THEN FALSE
  ELSE LET v      == Last(values)
           all    == slice \cup ForwardSlice(g, UsersOf(g, v), {})
           found  == SelectSeq(ProgramOrder(g), LAMBDA o : o \in all)
           first  == SelectSeq(found, LAMBDA o : Verdict(g, o, e) # "go on")
           yields == SelectSeq(found, LAMBDA o : g.op[o].kind = "yield" /\ Kind(g, <<EnclosingOp(g, o), 1>>) \in {"if", "for"})
           slots  == FlattenSeq([i \in DOMAIN yields |-> [k \in DOMAIN g.op[yields[i]].args |-> <<yields[i], k>>]])
           fresh  == SelectSeq(slots, LAMBDA s :
                       LET w == g.op[s[1]].args[s[2]]
                       IN w \notin seen /\ w[1] \in DOMAIN g.op /\ (w[1] \in all \/ w = v))
           next   == [i \in DOMAIN fresh |->
                       LET p == EnclosingOp(g, fresh[i][1])
                       IN IF g.op[p].kind = "if" THEN <<p, fresh[i][2]>> ELSE <<g.op[p].regs[1], fresh[i][2]>>]
       IN IF first # <<>> THEN Verdict(g, Head(first), e) = "found"
          ELSE ConvertToMmaAhead(g, Front(values) \o next, all,
                                 seen \cup {g.op[s[1]].args[s[2]] : s \in ToSet(fresh)}, e)

Anchors(g) ==
  LET anchors == SelectSeq(ProgramOrder(g), LAMBDA o : IsLayoutAnchor(g.op[o])) IN
  SelectSeq([k \in DOMAIN g.block[Top].types |-> <<Top, k>>]
              \o FlattenSeq([i \in DOMAIN anchors |-> ResultsOf(g, anchors[i])]),
            LAMBDA v : /\ IsTensor(g, v)
                       /\ IsMma(TypeOf(g, v)) /\ v[1] \in DOMAIN g.op =>
                            ConvertToMmaAhead(g, <<v>>, {}, {}, TypeOf(g, v)))

InitAnchorLayout ==
  /\ phase = "anchors"
  /\ layouts' = [v \in ToSet(Anchors(ir)) |-> <<TypeOf(ir, v)>>]
  /\ queue' = Anchors(ir)
  /\ phase' = "propagate"
  /\ UNCHANGED <<ir, regions, pending, rewritten, opToDelete>>

(***************************************************************************)
(* 2. propagateLayout                                                      *)
(***************************************************************************)
\* The values that a use hands its layout on to.
Reached(g, use) ==
  LET o == use[1]
      k == use[2]
      op == g.op[o]
      p == EnclosingOp(g, o)
  IN CASE op.kind = "for"   -> <<<<op.regs[1], k>>, <<o, k>>>>
       [] op.kind = "while" -> <<<<op.regs[1], k>>>>
       [] op.kind = "yield" /\ g.op[p].kind = "for" -> <<<<p, k>>, <<g.op[p].regs[1], k>>>>
       [] op.kind = "yield" /\ g.op[p].kind = "if"  -> <<<<p, k>>>>
       [] op.kind = "yield" /\ g.op[p].kind = "while" -> <<<<g.op[p].regs[1], k>>, g.op[p].args[k]>>
       [] op.kind = "condition" /\ k > 1 -> <<<<g.op[p].regs[2], k - 1>>, <<p, k - 1>>>>
       [] op.kind \in Follows -> ResultsOf(g, o)
       [] OTHER -> <<>>

\* setEncoding: a conversion may be removed by giving its result the layout of its source.
Handed(g, o, encodings) ==
  SelectSeq([i \in DOMAIN encodings |->
              IF g.op[o].kind = "convert" THEN encodings[i] ELSE InferDstEncoding(g.op[o], encodings[i])],
            LAMBDA e : e # Fails)

RECURSIVE Inserted(_, _)
Inserted(s, new) ==
  IF new = <<>> THEN s ELSE Inserted(IF Contains(s, Head(new)) THEN s ELSE Append(s, Head(new)), Tail(new))

\* [map, changed] after the layouts have been added to the values.
RECURSIVE SetEncoding(_, _, _, _)
SetEncoding(g, values, encodings, state) ==
  IF values = <<>> THEN state
  ELSE LET v   == Head(values)
           old == IF v \in DOMAIN state.map THEN state.map[v] ELSE <<>>
           new == Inserted(old, encodings)
       IN SetEncoding(g, Tail(values), encodings,
            IF ~IsTensor(g, v) \/ new = old THEN state
            ELSE [map |-> With(state.map, v, new), changed |-> Append(state.changed, v)])

RECURSIVE PropagateToUsers(_, _, _, _)
PropagateToUsers(g, uses, encodings, state) ==
  IF uses = <<>> THEN state
  ELSE PropagateToUsers(g, Tail(uses), encodings,
         SetEncoding(g, Reached(g, Head(uses)), Handed(g, Head(uses)[1], encodings), state))

PropagateLayout ==
  /\ phase = "propagate"
  /\ queue # <<>>
  /\ LET v == Last(queue)
         s == PropagateToUsers(ir, Uses(ir, v), layouts[v], [map |-> layouts, changed |-> <<>>])
     IN /\ layouts' = s.map
        /\ queue' = Front(queue) \o s.changed
  /\ UNCHANGED <<ir, phase, regions, pending, rewritten, opToDelete>>

(***************************************************************************)
(* 3. resolveConflicts: the first layout, unless a load, a store or an     *)
(* atomic can have a blocked one, or anything else that of a tensor core.  *)
(***************************************************************************)
\* Mutant: the layout of a tensor core for anything.
PreferMma(kind, e) == IsMma(e)

Preferred(kind, e) ==
  IF kind \in LoadOrStore \cup {"atomic"} THEN IsBlocked(e) ELSE IsMma(e)
Picked(kind, encodings) ==
  LET preferred == SelectSeq(encodings, LAMBDA e : Preferred(kind, e))
  IN IF preferred # <<>> THEN Head(preferred) ELSE Head(encodings)

ResolveConflicts ==
  /\ phase = "propagate"
  /\ queue = <<>>
  /\ layouts' = [v \in DOMAIN layouts |-> <<Picked(Kind(ir, v), layouts[v])>>]
  /\ regions' = <<Top>>
  /\ phase' = "rewrite"
  /\ UNCHANGED <<ir, queue, pending, rewritten, opToDelete>>

(***************************************************************************)
(* 4. rewriteRegion                                                        *)
(***************************************************************************)
HasLayout(v) == v \in DOMAIN layouts
LayoutOf(v)  == layouts[v][1]

\* The value that now stands for v, if there is one yet.
NoValue == <<0, 0>>
Current(g, v) ==
  IF ~HasLayout(v) \/ LayoutOf(v) = TypeOf(g, v) THEN v
  ELSE IF v \in DOMAIN rewritten THEN rewritten[v] ELSE NoValue

\* getValueAs: a conversion is added after the value where its layout is another one.
ValueAs(g, v, e) ==
  LET w == Current(g, v) IN
  IF w = NoValue \/ ~IsTensor(g, w) \/ TypeOf(g, w) = e THEN [ir |-> g, v |-> w]
  ELSE [ir |-> AddAfter(g, w, ConvertOp(w, e)), v |-> <<g.next, 1>>]

\* The operands of operation o from the k-th on, each in the layout wanted of it or left alone.
AsItIs == <<"as it is">>
RECURSIVE OperandsAs(_, _, _, _)
OperandsAs(g, o, wanted, k) ==
  IF k > Len(g.op[o].args) THEN g
  ELSE LET w == ValueAs(g, g.op[o].args[k], wanted[k])
       IN OperandsAs(IF wanted[k] = AsItIs THEN g ELSE [w.ir EXCEPT !.op[o].args[k] = w.v],
                     o, wanted, k + 1)

\* the layout picked for a value, or the one it has
NewType(v) == IF HasLayout(v) THEN LayoutOf(v) ELSE TypeOf(ir, v)
NewTypeOr(v, other) == IF HasLayout(v) THEN LayoutOf(v) ELSE other
NeedRewrite(o) == \E k \in DOMAIN ir.op[o].types : NewType(<<o, k>>) # TypeOf(ir, <<o, k>>)

This   == Head(pending)
ThisOp == ir.op[This]
Rewriting(kinds) ==
  /\ phase = "rewrite"
  /\ pending # <<>>
  /\ ThisOp.kind \in kinds
  /\ pending' = Tail(pending)
  /\ UNCHANGED <<phase, layouts, queue>>

EnterRegion ==
  /\ phase = "rewrite"
  /\ pending = <<>> /\ regions # <<>>
  /\ pending' = ir.block[Last(regions)].ops
  /\ regions' = Front(regions)
  /\ UNCHANGED <<ir, phase, layouts, queue, rewritten, opToDelete>>

\* The values `new` of g stand for the old ones: at once where the layout is
\* the same and through `rewritten` where it is not.
Map(g, old, new) ==
  LET same == {k \in DOMAIN old : TypeOf(g, old[k]) = TypeOf(g, new[k])} IN
  /\ ir' = Replaced(g, [v \in {old[k] : k \in same} |-> new[IndexOf(old, v)]])
  /\ rewritten' = [v \in DOMAIN rewritten \cup {old[k] : k \in DOMAIN old \ same} |->
                     IF v \in ToSet(old) THEN new[IndexOf(old, v)] ELSE rewritten[v]]
  /\ opToDelete' = opToDelete \cup {This}
Values(n, types) == [k \in DOMAIN types |-> <<n, k>>]

RewriteConvert ==
  /\ Rewriting({"convert"}) /\ NeedRewrite(This)
  /\ LET src == ThisOp.args[1]
         n   == ir.next
         new == AddBefore(ir, This, ConvertOp(src, LayoutOf(<<This, 1>>)))
     IN Map(OperandsAs(new, n, <<NewType(src)>>, 1), <<<<This, 1>>>>, <<<<n, 1>>>>)
  /\ UNCHANGED regions

\* What costs nothing to make again is made in its own layout and converted.
RewriteFoldable ==
  /\ Rewriting(SameEncoding \cup {"const", "range", "histogram", "reshape"}) /\ NeedRewrite(This)
  /\ CanFoldIntoConversion(ir, ThisOp, LayoutOf(<<This, 1>>))
  /\ LET n   == ir.next
         new == AddBefore(AddBefore(ir, This, ThisOp), This, ConvertOp(<<n, 1>>, LayoutOf(<<This, 1>>)))
     IN Map(new, <<<<This, 1>>>>, <<<<n + 1, 1>>>>)
  /\ UNCHANGED regions

\* cloneElementwise: in the layout picked, on operands in the layout that this asks for.
CloneElementwise ==
  /\ Rewriting(Follows \ {"convert"}) /\ NeedRewrite(This)
  /\ ~CanFoldIntoConversion(ir, ThisOp, LayoutOf(<<This, 1>>))
  /\ LET e   == LayoutOf(<<This, 1>>)
         n   == ir.next
         new == AddBefore(ir, This, [ThisOp EXCEPT !.types = <<e>>])
         src == [k \in DOMAIN ThisOp.args |-> InferSrcEncoding(ThisOp, e)]
     IN Map(OperandsAs(new, n, src, 1), <<<<This, 1>>>>, <<<<n, 1>>>>)
  /\ UNCHANGED regions

\* A loop with the layouts of its results: its operations move to a new body with new arguments.
RewriteForOp ==
  /\ Rewriting({"for"}) /\ NeedRewrite(This)
  /\ LET old   == ThisOp.regs[1]
         n     == ir.next
         types == [k \in DOMAIN ThisOp.types |-> NewType(<<This, k>>)]
         inits == [k \in DOMAIN types |-> NewTypeOr(<<This, k>>, AsItIs)]
         new   == AddBefore(ir, This, [ThisOp EXCEPT !.types = types, !.regs = <<n + 1>>])
         moved == [new EXCEPT !.block = With([@ EXCEPT ![old].ops = <<>>], n + 1,
                                             [types |-> types, ops |-> @[old].ops]),
                              !.next = n + 2]
     IN /\ Map(OperandsAs(moved, n, inits, 1), Values(This, types) \o Values(old, types),
                                             Values(n, types) \o Values(n + 1, types))
        /\ regions' = Append(regions, n + 1)

RewriteWhileOp ==
  /\ Rewriting({"while"}) /\ NeedRewrite(This)
  /\ LET before == ThisOp.regs[1]
         after  == ThisOp.regs[2]
         n      == ir.next
         args   == [k \in DOMAIN ThisOp.args |-> NewType(<<before, k>>)]
         inits  == [k \in DOMAIN ThisOp.args |-> NewTypeOr(<<before, k>>, AsItIs)]
         types  == [k \in DOMAIN ThisOp.types |-> NewType(<<This, k>>)]
         new    == AddBefore(ir, This, [ThisOp EXCEPT !.types = types, !.regs = <<n + 1, n + 2>>])
         moved  == [new EXCEPT !.block = With(With([@ EXCEPT ![before].ops = <<>>, ![after].ops = <<>>],
                                                   n + 1, [types |-> args, ops |-> @[before].ops]),
                                              n + 2, [types |-> types, ops |-> @[after].ops]),
                               !.next = n + 3]
     IN /\ Map(OperandsAs(moved, n, inits, 1),
                Values(This, types) \o Values(before, args) \o Values(after, types),
                Values(n, types) \o Values(n + 1, args) \o Values(n + 2, types))
        /\ regions' = regions \o <<n + 1, n + 2>>

\* The two blocks of an if move as they are; their yields are rewritten when they are reached.
RewriteIfOp ==
  /\ Rewriting({"if"}) /\ NeedRewrite(This)
  /\ LET n     == ir.next
         types == [k \in DOMAIN ThisOp.types |-> NewType(<<This, k>>)]
         new   == AddBefore(ir, This, [ThisOp EXCEPT !.types = types])
     IN Map([new EXCEPT !.op[This].regs = <<>>], Values(This, types), Values(n, types))
  /\ regions' = regions \o ThisOp.regs

\* The operation stays, and takes its operands in the layouts given.
Remap(wanted) ==
  /\ ir' = OperandsAs(ir, This, wanted, 1)
  /\ regions' = regions \o ThisOp.regs
  /\ UNCHANGED <<rewritten, opToDelete>>

RewriteYieldOp ==
  /\ Rewriting({"yield"})
  /\ LET p == ir.op[EnclosingOp(ir, This)]
     IN Remap(IF p.kind = "while" THEN ir.block[p.regs[1]].types ELSE p.types)

RewriteConditionOp ==
  /\ Rewriting({"condition"})
  /\ Remap(<<Scalar>> \o ir.op[EnclosingOp(ir, This)].types)

\* A reduction to a scalar, or an assertion, takes its tensor as it comes.
RewriteReduceToScalar ==
  /\ Rewriting({"reduce"}) /\ ReduceToScalar(ThisOp)
  /\ Remap(<<NewTypeOr(ThisOp.args[1], AsItIs)>>)
RewriteAssertOp ==
  /\ Rewriting({"assert"})
  /\ Remap(<<NewTypeOr(ThisOp.args[1], AsItIs)>>)

\* Anything else keeps its layouts: what its operands were is made again.
RemapOperands ==
  /\ Rewriting(Kinds \ {"yield", "condition", "assert"})
  /\ ~NeedRewrite(This) /\ ~ReduceToScalar(ThisOp)
  /\ LET args == ThisOp.args
     IN Remap([k \in DOMAIN args |-> IF HasLayout(args[k]) THEN TypeOf(ir, args[k]) ELSE AsItIs])

EraseRewritten ==
  /\ phase = "rewrite"
  /\ pending = <<>> /\ regions = <<>>
  /\ ir' = Erased(ir, opToDelete)
  /\ phase' = "canonicalize"
  /\ layouts' = [v \in {} |-> <<>>]
  /\ rewritten' = [v \in {} |-> NoValue]
  /\ opToDelete' = {}
  /\ UNCHANGED <<queue, regions, pending>>

RewriteNext ==
  \/ EnterRegion \/ RewriteConvert \/ RewriteFoldable \/ CloneElementwise
  \/ RewriteForOp \/ RewriteWhileOp \/ RewriteIfOp
  \/ RewriteYieldOp \/ RewriteConditionOp \/ RewriteReduceToScalar \/ RewriteAssertOp
  \/ RemapOperands \/ EraseRewritten

PropagationNext == InitAnchorLayout \/ PropagateLayout \/ ResolveConflicts \/ RewriteNext
=============================================================================
