----------------------- MODULE RemoveLayoutConversions -----------------------
(***************************************************************************)
(* The pass that removes layout conversions, whole: layouts are propagated *)
(* and the function rewritten (LayoutPropagation), conversions are folded, *)
(* what is left of them is traded for a second computation of the slice of *)
(* the program behind them, or moved above a cast or a broadcast; the      *)
(* accumulator of a dot is taken out of its conversions; and what has      *)
(* become dead is removed.                                                 *)
(***************************************************************************)
EXTENDS LayoutPropagation

CONSTANT Programs          \* the functions the pass is run on

VARIABLES converts,  \* conversions still to be looked at in this phase
          remat,     \* rematMapping: <<value, layout>> -> the value in that layout
          mapped,    \* mappedValues: value -> a layout it was made again in
          source     \* the function as it was
removeVars == <<propagationVars, converts, remat, mapped, source>>
rematVars == <<layouts, queue, regions, pending, rewritten>>

NoMap == [v \in {} |-> NoValue]

RemoveInit ==
  /\ source \in Programs
  /\ ir = source
  /\ layouts = NoMap /\ rewritten = NoMap /\ remat = NoMap /\ mapped = NoMap
  /\ queue = <<>> /\ regions = <<>> /\ pending = <<>> /\ converts = <<>>
  /\ opToDelete = {}

Propagation == PropagationNext /\ UNCHANGED <<converts, remat, mapped, source>>

(***************************************************************************)
(* Patterns, applied wherever they match and in any order until none does; *)
(* the same driver removes what is dead.                                   *)
(***************************************************************************)
Effects == {"store", "atomic", "assert", "local_store", "local_dealloc"}
HasEffects(g, o) == \E p \in ToSet(WalkOps(g, <<o>>)) : g.op[p].kind \in Effects
IsTerminator(g, o) == g.op[o].kind \in {"yield", "condition"}
WouldBeTriviallyDead(g, o) == ~IsTerminator(g, o) /\ ~HasEffects(g, o)

RECURSIVE Swept(_)
Swept(g) ==
  LET dead == {o \in DOMAIN g.op : WouldBeTriviallyDead(g, o) /\ \A k \in DOMAIN g.op[o].types : Unused(g, <<o, k>>)}
  IN IF dead = {} THEN g ELSE Swept(Erased(g, dead))

\* The operation behind an operand, or one of no kind.
SourceOp(g, v) == IF v[1] \in DOMAIN g.op THEN g.op[v[1]] ELSE NewOp("argument", <<>>, <<>>, <<>>)
Becomes(g, o, op) == [g EXCEPT !.op[o] = op]

\* reshape(cvt) -> reshape, and the same for histogram, local_alloc and local_store
TakesAnyLayout(g, o) ==
  LET op == g.op[o] IN
  \/ op.kind \in {"histogram", "local_alloc", "local_store"}
  \/ /\ op.kind = "reshape" /\ op.attr[1] = "any"
     /\ ~IsExpensiveView(TypeOf(g, SourceOp(g, op.args[1]).args[1]), op.types[1])
UsesOfConvert(g, o) ==
  LET op == g.op[o] IN
  IF /\ op.kind \in {"histogram", "local_alloc", "local_store", "reshape"} /\ op.args # <<>>
     /\ SourceOp(g, op.args[1]).kind = "convert"
     /\ TakesAnyLayout(g, o)
  THEN {Becomes(g, o, [op EXCEPT !.args[1] = SourceOp(g, @).args[1]])}
  ELSE {}

IsDotOperand(e) == e[1] = "dotop"

\* CanonicalizeConvertFromConvert: what an operation may become, no more than one thing.
ConvertOfConvert(g, o) ==
  LET op  == g.op[o]
      src == op.args[1]
      def == SourceOp(g, src)
  IN CASE op.kind # "convert" -> {}
       [] op.kind = "convert" /\ TypeOf(g, src) = op.types[1] ->
            {Erased(ReplaceAllUsesWith(g, <<o, 1>>, src), {o})}
       [] op.kind = "convert" /\ IsDotOperand(op.types[1]) /\ IsMma(TypeOf(g, src)) -> {}
       [] OTHER ->
            CASE def.kind = "reshape" ->
                   IF \/ def.attr[1] # "any" \/ IsDotOperand(TypeOf(g, src)) \/ IsDotOperand(op.types[1])
                      \/ IsExpensiveView(TypeOf(g, def.args[1]), op.types[1])
                   THEN {}
                   ELSE {Becomes(g, o, NewOp("reshape", <<"any">>, <<src>>, op.types))}
              [] def.kind = "convert" -> {Becomes(g, o, [op EXCEPT !.args = def.args])}
              [] def.kind \in {"histogram", "local_load", "splat", "range", "const"} ->
                   {Becomes(g, o, [def EXCEPT !.types = op.types])}
              [] OTHER -> {}

ConvertPatterns(g) == UNION {ConvertOfConvert(g, o) \cup UsesOfConvert(g, o) : o \in DOMAIN g.op}

Rewrites(patterns) ==
  /\ patterns # {}
  /\ \E g \in patterns : ir' = Swept(g)
  /\ UNCHANGED <<rematVars, phase, opToDelete, converts, remat, mapped, source>>

\* The conversions of the function, when a pass over them starts.
Converts(g) == SelectSeq(ProgramOrder(g), LAMBDA o : g.op[o].kind = "convert")
Starts(next, g) ==
  /\ phase' = next
  /\ ir' = g
  /\ converts' = Converts(g)
  /\ remat' = NoMap /\ mapped' = NoMap
  /\ opToDelete' = {}
  /\ UNCHANGED <<rematVars, source>>

Canonicalize    == phase = "canonicalize" /\ Rewrites(ConvertPatterns(ir))
EndCanonicalize == phase = "canonicalize" /\ ConvertPatterns(ir) = {} /\ Starts("remat", Swept(ir))

(***************************************************************************)
(* The slice behind a value that would have to be made again for it to     *)
(* have another layout: [slice, layout], the slice empty if there is none. *)
(***************************************************************************)
NoSlice == [slice |-> <<>>, layout |-> NoMap]
Enqueue(s, values, e) ==
  LET new == SelectSeq([k \in DOMAIN values |-> <<values[k], e>>], LAMBDA x : x \notin s.seen)
  IN [s EXCEPT !.queue = @ \o new, !.seen = @ \cup ToSet(new)]

\* What a value and its layout ask for: more values, or Fails.
Behind(g, v, e, stop) ==
  LET op == SourceOp(g, v)
      yield(r) == g.op[Terminator(g, op.regs[r])].args[v[2]]
      loop == g.op[ParentOf(g, v[1])]
  IN CASE op.kind \in {"for", "while"} -> Fails
       [] op.kind = "if" -> <<<<yield(1), yield(2)>>, e>>
       [] op.kind \notin {"for", "while", "if", "argument"} ->
            CASE ~IsFreeConvert(g, op) /\ CanFoldIntoConversion(g, op, e) -> <<<<>>, e>>
              [] stop /\ IsExtOrBroadcastOp(op) -> <<<<>>, e>>
              [] op.args = <<>> -> <<<<>>, e>>
              [] OTHER -> LET src == InferSrcEncoding(op, e)
                          IN IF src = Fails THEN Fails ELSE <<op.args, src>>
       [] OTHER -> IF v[1] = Top \/ loop.kind # "for" THEN Fails
                   ELSE <<<<loop.args[v[2]], g.op[Terminator(g, v[1])].args[v[2]]>>, e>>

RECURSIVE ConvertBackwardSlice(_, _, _)
ConvertBackwardSlice(g, s, stop) ==
  IF s.queue = <<>> THEN s
  ELSE LET v == Last(s.queue)[1]
           e == Last(s.queue)[2]
           rest == [s EXCEPT !.queue = Front(@)]
       IN IF ~IsTensor(g, v) THEN ConvertBackwardSlice(g, rest, stop)
          ELSE IF (v \in DOMAIN s.layout /\ s.layout[v] # e) \/ Behind(g, v, e, stop) = Fails THEN NoSlice
          ELSE ConvertBackwardSlice(g,
                 Enqueue([rest EXCEPT !.slice = IF Contains(@, v) THEN @ ELSE Append(@, v),
                                      !.layout = With(@, v, e)],
                         Behind(g, v, e, stop)[1], Behind(g, v, e, stop)[2]), stop)

RematerializableSlice(g, root, e, stop) ==
  LET s == ConvertBackwardSlice(g, [queue |-> <<<<root, e>>>>, seen |-> {<<root, e>>},
                                    slice |-> <<>>, layout |-> NoMap], stop)
  IN IF \A v \in ToSet(s.slice) : CanBeRemat(SourceOp(g, v))
     THEN [slice |-> s.slice, layout |-> s.layout]
     ELSE NoSlice

(***************************************************************************)
(* rewriteSlice: the slice is made a second time, in the layouts found.    *)
(* s is [ir, mapping, remat, mapped, replaced, dead].                      *)
(***************************************************************************)
AddRematValue(s, old, e, new) ==
  [s EXCEPT !.remat = With(@, <<old, e>>, new), !.mapped = With(@, old, e)]
MapTo(s, old, new) == [s EXCEPT !.mapping = With(@, old, new)]
Mapping(s, v) == IF v \in DOMAIN s.mapping THEN s.mapping[v] ELSE v

RECURSIVE AddRematValues(_, _)
AddRematValues(s, triples) ==
  IF triples = <<>> THEN s
  ELSE AddRematValues(AddRematValue(s, Head(triples)[1], Head(triples)[2], Head(triples)[3]), Tail(triples))

\* A region operation with more results; its blocks move to it.
WithNewSignature(s, o, args, types) ==
  LET op == s.ir.op[o]
      n  == s.ir.next
  IN [s EXCEPT !.ir = [AddBefore(s.ir, o, [op EXCEPT !.args = @ \o args, !.types = @ \o types])
                         EXCEPT !.op[o].regs = <<>>],
               !.replaced = [v \in DOMAIN @ \cup ToSet(Values(o, op.types)) |->
                               IF v[1] = o THEN <<n, v[2]>> ELSE @[v]],
               !.dead = @ \cup {o}]

RewriteSliceFor(s, slice, layout, o) ==
  LET op   == s.ir.op[o]
      body == op.regs[1]
      n    == s.ir.next
      ks   == SelectSeq([k \in DOMAIN op.args |-> k], LAMBDA k : <<body, k>> \in slice)
      new  == [j \in DOMAIN ks |-> Mapping(s, op.args[ks[j]])]
      types == [j \in DOMAIN ks |-> TypeOf(s.ir, new[j])]
      at(j) == Len(op.args) + j
      t    == WithNewSignature(s, o, new, types)
      u    == [t EXCEPT !.ir.block[body].types = @ \o types,
                        !.mapping = [v \in DOMAIN @ \cup {<<o, k>> : k \in ToSet(ks)} \cup {<<body, k>> : k \in ToSet(ks)} |->
                                       IF v[1] = o THEN <<n, at(IndexOf(ks, v[2]))>>
                                       ELSE IF v[1] = body THEN <<body, at(IndexOf(ks, v[2]))>> ELSE @[v]]]
  IN AddRematValues(u, FlattenSeq([j \in DOMAIN ks |->
       <<<<<<n, ks[j]>>, layout[<<body, ks[j]>>], <<n, at(j)>>>>,
         <<<<body, ks[j]>>, layout[<<body, ks[j]>>], <<body, at(j)>>>>>>]))

RewriteSliceIf(s, slice, layout, o) ==
  LET op == s.ir.op[o]
      n  == s.ir.next
      ks == SelectSeq([k \in DOMAIN op.types |-> k], LAMBDA k : <<o, k>> \in slice)
      at(j) == Len(op.types) + j
      t  == WithNewSignature(s, o, <<>>, [j \in DOMAIN ks |-> layout[<<o, ks[j]>>]])
      u  == [t EXCEPT !.mapping = [v \in DOMAIN @ \cup {<<o, k>> : k \in ToSet(ks)} |->
                                     IF v[1] = o THEN <<n, at(IndexOf(ks, v[2]))>> ELSE @[v]]]
  IN AddRematValues(u, [j \in DOMAIN ks |-> <<<<o, ks[j]>>, layout[<<o, ks[j]>>], <<n, at(j)>>>>])

\* The terminators are extended in the order of the new results.
RewriteSliceYield(s, operands, o) ==
  [s EXCEPT !.ir.op[o].args = @ \o [j \in DOMAIN operands |-> Mapping(s, @[operands[j]])]]

\* A constant stays as it is and is converted; all else is cloned in the new layout.
RewriteSliceOp(s, layout, o) ==
  LET op  == s.ir.op[o]
      n   == s.ir.next
      e   == layout[<<o, 1>>]
      new == IF op.kind = "const" THEN <<n + 1, 1>> ELSE <<n, 1>>
      g   == IF op.kind = "const"
             THEN AddBefore(AddBefore(s.ir, o, op), o, ConvertOp(<<n, 1>>, e))
             ELSE AddBefore(s.ir, o, [op EXCEPT !.types = <<e>>,
                                                !.args = [k \in DOMAIN @ |-> Mapping(s, @[k])]])
  IN AddRematValue(MapTo([s EXCEPT !.ir = g], <<o, 1>>, new), <<o, 1>>, e, new)

\* Mutant: a loop is asked for its results, which no slice holds, and not for its arguments.
ResultsInSlice(g, slice, o) ==
  SelectSeq([k \in DOMAIN g.op[o].args |-> k], LAMBDA k : <<EnclosingOp(g, o), k>> \in slice)

\* For the terminators in question, which operands are wanted once more.
YieldOperands(g, slice, o) ==
  LET p == EnclosingOp(g, o)
  IN SelectSeq([k \in DOMAIN g.op[o].args |-> k],
               LAMBDA k : IF g.op[p].kind = "if" THEN <<p, k>> \in slice ELSE <<g.op[p].regs[1], k>> \in slice)

RECURSIVE RewriteSliceOps(_, _, _, _, _)
RewriteSliceOps(s, slice, layout, ops, yields) ==
  IF ops = <<>> THEN s
  ELSE LET o    == Head(ops)
           kind == s.ir.op[o].kind
           next == CASE kind = "for"   -> RewriteSliceFor(s, slice, layout, o)
                     [] kind = "if"    -> RewriteSliceIf(s, slice, layout, o)
                     [] kind = "yield" -> RewriteSliceYield(s, yields[o], o)
                     [] OTHER          -> RewriteSliceOp(s, layout, o)
       IN RewriteSliceOps(next, slice, layout, Tail(ops), yields)

\* updateRematMapping: what was known of the results of a replaced operation holds of the new ones.
UpdateRematMapping(s) ==
  LET stale  == DOMAIN s.replaced \cap DOMAIN s.mapped
      moved  == {<<s.replaced[v], s.mapped[v]>> : v \in stale}
      old(w) == CHOOSE v \in stale : s.replaced[v] = w
      now(v) == IF v \in DOMAIN s.replaced THEN s.replaced[v] ELSE v
  IN [s EXCEPT
       !.remat = [x \in (DOMAIN @ \ {<<v, s.mapped[v]>> : v \in stale}) \cup moved |->
                    IF x \in moved THEN now(@[<<old(x[1]), x[2]>>]) ELSE @[x]],
       !.mapped = [v \in (DOMAIN @ \ stale) \cup {x[1] : x \in moved} |->
                     IF \E x \in moved : x[1] = v THEN @[old(v)] ELSE @[v]]]

RewriteSlice(g, values, layout, mapping, cvt) ==
  LET known  == {v \in values : <<v, layout[v]>> \in DOMAIN remat}
      slice  == values \ known
      ops    == {v[1] : v \in slice} \cap DOMAIN g.op
      loops  == {ParentOf(g, b) : b \in {v[1] : v \in slice} \ DOMAIN g.op}
      ends   == {Terminator(g, b) : b \in UNION {ToSet(g.op[o].regs) : o \in loops \cup {p \in ops : g.op[p].kind = "if"}}}
      todo   == SelectSeq(ProgramOrder(g), LAMBDA o : o \in ops \cup loops \cup ends)
      start  == [ir |-> g, remat |-> remat, mapped |-> mapped, replaced |-> NoMap, dead |-> {},
                 mapping |-> [v \in DOMAIN mapping \cup known |->
                                IF v \in known THEN remat[<<v, layout[v]>>] ELSE mapping[v]]]
      s      == RewriteSliceOps(start, slice, layout, todo, [o \in ends |-> YieldOperands(g, slice, o)])
      done   == ReplaceAllUsesWith(s.ir, <<cvt, 1>>, s.mapping[g.op[cvt].args[1]])
      t      == UpdateRematMapping(s)
  IN /\ ir' = Replaced(done, s.replaced)
     /\ remat' = t.remat
     /\ mapped' = t.mapped
     /\ opToDelete' = opToDelete \cup {cvt} \cup s.dead

(***************************************************************************)
(* Backward rematerialization, one conversion after the other.             *)
(***************************************************************************)
Cvt    == Head(converts)
Src    == ir.op[Cvt].args[1]
Target == ir.op[Cvt].types[1]
Looking(at) ==
  /\ phase = at
  /\ converts # <<>>
  /\ converts' = Tail(converts)
  /\ UNCHANGED <<rematVars, phase, source>>
LeftAlone == UNCHANGED <<ir, remat, mapped, opToDelete>>

\* the value is there already in the layout wanted
ReuseRemat ==
  /\ Looking("remat")
  /\ ~IsDotOperand(Target)
  /\ <<Src, Target>> \in DOMAIN remat
  /\ ir' = ReplaceAllUsesWith(ir, <<Cvt, 1>>, remat[<<Src, Target>>])
  /\ opToDelete' = opToDelete \cup {Cvt}
  /\ UNCHANGED <<remat, mapped>>

BackwardRematerialization ==
  /\ Looking("remat")
  /\ <<Src, Target>> \notin DOMAIN remat
  /\ LET s == RematerializableSlice(ir, Src, Target, FALSE)
     IN IF IsDotOperand(Target) \/ s.slice = <<>> THEN LeftAlone
        ELSE RewriteSlice(ir, ToSet(s.slice), s.layout, NoMap, Cvt)

EndRemat == phase = "remat" /\ converts = <<>> /\ Starts("hoist", Erased(ir, opToDelete))

(***************************************************************************)
(* Hoisting: what cannot be made again in the slice is a single cast or    *)
(* broadcast, and the conversion moves above it.                           *)
(***************************************************************************)
\* [slice, layout, ext]: the slice with those of the casts behind which all
\* can be made again, and the one cast that is left (0: none; NoCast: give up).
NoCast == 0 - 1
MoveOn(s, v, behind) ==
  IF behind.slice = <<>> THEN [s EXCEPT !.ext = IF @ = 0 THEN v[1] ELSE NoCast]
  ELSE [s EXCEPT !.slice = Inserted(@, behind.slice),
                 !.layout = [w \in DOMAIN @ \cup DOMAIN behind.layout |->
                               IF w \in DOMAIN @ THEN @[w] ELSE behind.layout[w]]]
RECURSIVE CastsFrom(_, _, _)
CastsFrom(g, s, i) ==
  IF i > s.size \/ s.ext = NoCast THEN s
  ELSE LET v  == s.slice[i]
           op == SourceOp(g, v)
       IN CastsFrom(g,
            IF IsExtOrBroadcastOp(op)
            THEN MoveOn(s, v, RematerializableSlice(g, op.args[1], InferSrcEncoding(op, s.layout[v]), FALSE))
            ELSE s,
            i + 1)
SliceToHoist(found) ==
  CastsFrom(ir, [slice |-> found.slice, layout |-> found.layout, ext |-> 0, size |-> Len(found.slice)], 1)

HoistAbove(s) ==
  LET ext == ir.op[s.ext]
      e   == s.layout[<<s.ext, 1>>]
      n   == ir.next
      new == AddBefore(AddBefore(ir, s.ext, ConvertOp(ext.args[1], InferSrcEncoding(ext, e))),
                       s.ext, [ext EXCEPT !.args[1] = <<n, 1>>, !.types = <<e>>])
  IN IF IsDotOperand(Target) \/ s.ext \in {0, NoCast} THEN LeftAlone
     ELSE RewriteSlice(new, ToSet(s.slice) \ {<<s.ext, 1>>}, s.layout, [v \in {<<s.ext, 1>>} |-> <<n + 1, 1>>], Cvt)
HoistConvert == Looking("hoist") /\ HoistAbove(SliceToHoist(RematerializableSlice(ir, Src, Target, TRUE)))

EndHoist == phase = "hoist" /\ converts = <<>> /\ Starts("dots", Erased(ir, opToDelete))

(***************************************************************************)
(* ConvertDotConvert: cvt(dot(a, b, cvt(load))) -> add(cvt(dot(a, b, 0)), load) *)
(***************************************************************************)
UseCount(g, o) == Len(Uses(g, <<o, 1>>))
ConvertDotConvert(g) ==
  {LET d   == g.op[o].args[1][1]
       dot == g.op[d]
       acc == g.op[dot.args[3][1]].args[1]
       n   == g.next
       zero == AddBefore(g, o, NewOp("const", <<0>>, <<>>, dot.types))
       made == AddBefore(zero, o, [dot EXCEPT !.args[3] = <<n, 1>>])
   IN Becomes(AddBefore(made, o, ConvertOp(<<n + 1, 1>>, g.op[o].types[1])),
              o, NewOp("elt", <<"addf">>, <<<<n + 2, 1>>, acc>>, g.op[o].types))
     : o \in {p \in DOMAIN g.op :
         LET op  == g.op[p]
             dot == SourceOp(g, op.args[1])
             cvt == SourceOp(g, dot.args[3])
         IN /\ op.kind = "convert" /\ dot.kind = "dot" /\ cvt.kind = "convert"
            /\ UseCount(g, p) = 1 /\ UseCount(g, op.args[1][1]) = 1
            /\ SourceOp(g, cvt.args[1]).kind = "load"
            /\ TypeOf(g, cvt.args[1]) = op.types[1]}}

DecomposeDots == phase = "dots" /\ Rewrites(ConvertDotConvert(ir))
EndDots == phase = "dots" /\ ConvertDotConvert(ir) = {} /\ Starts("cleanup", Swept(ir))

(***************************************************************************)
(* The last cleanup: loop arguments that only feed themselves.             *)
(***************************************************************************)
BlockOf(g, v) == IF v[1] \in DOMAIN g.op THEN HomeOf(g, v[1]) ELSE v[1]

\* Mutant: what the values are made of is not looked at.
AliveAtOnce(g, o, new, alive) == alive \cup {v \in new : g.op[o].regs[1] \in Around(g, BlockOf(g, v))}

\* What is alive in loop o if the values given are; a while among them ends the search.
RECURSIVE Alive(_, _, _, _)
Alive(g, o, new, alive) ==
  LET body == g.op[o].regs[1]
      within == {v \in new : body \in Around(g, BlockOf(g, v))} \ alive
      yield(p, r, k) == g.op[Terminator(g, g.op[p].regs[r])].args[k]
      behind(v) ==
        LET op == SourceOp(g, v)
            p  == ParentOf(g, v[1])
        IN CASE op.kind = "for" -> {op.args[v[2]], yield(v[1], 1, v[2])}
             [] op.kind = "if"  -> {yield(v[1], 1, v[2]), yield(v[1], 2, v[2])}
             [] op.kind \notin {"for", "if", "argument"} -> ToSet(op.args)
             [] OTHER -> IF g.op[p].kind = "for" THEN {g.op[p].args[v[2]], yield(p, 1, v[2])} ELSE {}
  IN IF within = {} THEN alive
     ELSE Alive(g, o, UNION {behind(v) : v \in within}, alive \cup within)

\* Mutant: an argument that is yielded as it is counts as well.
YieldsNothingAlive(g, o, k, alive) ==
  LET body == g.op[o].regs[1]
      y    == g.op[Terminator(g, body)].args[k]
  IN y \notin alive /\ (body \in Around(g, BlockOf(g, y)) \/ y = g.op[o].args[k])

\* What loop o yields for argument k is alive nowhere, and not the argument itself
\* (there would be nothing to do).
DeadArgument(g, o, k, alive) ==
  /\ YieldsNothingAlive(g, o, k, alive)
  /\ g.op[Terminator(g, g.op[o].regs[1])].args[k] # <<g.op[o].regs[1], k>>

ForOpDeadArgElimination(g) ==
  UNION {LET op   == g.op[o]
             body == op.regs[1]
             end  == Terminator(g, body)
             wanted == {g.op[end].args[k] : k \in {j \in DOMAIN op.types : ~Unused(g, <<o, j>>)}}
             busy == {p \in ToSet(Walk(g, body)) : /\ g.op[p].kind \notin {"yield", "for"}
                                                   /\ ~WouldBeTriviallyDead(g, p)}
             alive == Alive(g, o, wanted \cup UNION {ToSet(g.op[p].args) : p \in busy}, {})
             dead == {k \in DOMAIN op.args : DeadArgument(g, o, k, alive)}
         IN IF \/ dead = {}
               \/ \E v \in alive : SourceOp(g, v).kind = "while"
               \/ Cardinality({v \in wanted : body \in Around(g, BlockOf(g, v))}) = Len(op.types)
            THEN {}
            ELSE {[g EXCEPT !.op[end].args = [k \in DOMAIN @ |-> IF k \in dead THEN <<body, k>> ELSE @[k]]]}
        : o \in {p \in DOMAIN g.op : g.op[p].kind = "for"}}

\* Result k of a region operation is taken away; what followed it moves up.
WithoutResult(g, o, k) ==
  LET op == g.op[o]
      owners == {o} \cup (IF op.kind = "for" THEN {op.regs[1]} ELSE {})
      after == {v \in owners \X DOMAIN op.types : v[2] > k}
      moved == Replaced(g, [v \in after |-> <<v[1], v[2] - 1>>])
      ends  == {Terminator(g, op.regs[r]) : r \in DOMAIN op.regs}
      out   == [moved EXCEPT !.op = [p \in DOMAIN @ |-> IF p \in ends THEN [@[p] EXCEPT !.args = RemoveAt(@, k)] ELSE @[p]]]
  IN IF op.kind = "if" THEN [out EXCEPT !.op[o].types = RemoveAt(@, k)]
     ELSE [out EXCEPT !.op[o].types = RemoveAt(@, k), !.op[o].args = RemoveAt(@, k),
                      !.block[op.regs[1]].types = RemoveAt(@, k)]

\* The folders of scf: a loop argument that never changes or that nobody uses, an unused result of an if.
ScfPatterns(g) ==
  UNION {LET op == g.op[o] IN
         IF op.kind = "if" THEN {WithoutResult(g, o, k) : k \in {j \in DOMAIN op.types : Unused(g, <<o, j>>)}}
         ELSE LET body == op.regs[1]
                  yields == g.op[Terminator(g, body)].args
              IN {WithoutResult(Replaced(g, [v \in {<<o, k>>, <<body, k>>} |-> op.args[k]]), o, k)
                    : k \in {j \in DOMAIN op.types : \/ yields[j] \in {<<body, j>>, op.args[j]}
                                                    \/ (Unused(g, <<body, j>>) /\ Unused(g, <<o, j>>))}}
        : o \in {p \in DOMAIN g.op : g.op[p].kind \in {"for", "if"}}}

CleanupPatterns(g) == ConvertPatterns(g) \cup ForOpDeadArgElimination(g) \cup ScfPatterns(g)
CleanUp == phase = "cleanup" /\ Rewrites(CleanupPatterns(ir))
EndCleanUp == phase = "cleanup" /\ CleanupPatterns(ir) = {} /\ Starts("converts removed", ir)

RemoveStep ==
  \/ Propagation
  \/ Canonicalize \/ EndCanonicalize
  \/ ReuseRemat \/ BackwardRematerialization \/ EndRemat
  \/ HoistConvert \/ EndHoist
  \/ DecomposeDots \/ EndDots
  \/ CleanUp \/ EndCleanUp
=============================================================================
