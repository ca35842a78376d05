---------------------------- MODULE LinearLayouts ----------------------------
(***************************************************************************)
(* Linear layouts (lib/Tools/LinearLayout.cpp) and the encodings turned    *)
(* into them (lib/Dialect/TritonGPU/IR/LinearLayoutConversions.cpp).       *)
(*                                                                         *)
(* A linear layout is a linear map over the bits of its inputs:            *)
(*   ins    the names of its inputs, in order                              *)
(*   outs   its output dimensions, in order                                *)
(*   bases  for each input a sequence, bit i to what it adds, by exclusive *)
(*          or, to each output                                             *)
(***************************************************************************)
EXTENDS Encodings, Bitwise

NoLayout == [ins |-> <<>>, outs |-> <<>>, bases |-> <<>>]

RECURSIVE Log2(_)
Log2(n) == IF n <= 1 THEN 0 ELSE 1 + Log2(n \div 2)

In(l) == ToSet(l.ins)
Out(l) == ToSet(l.outs)
InBits(l, in) == IF in \in In(l) THEN Len(l.bases[in]) ELSE 0

(* a layout of one input and one output *)
identity1D(size, in, out) ==
    [ins |-> <<in>>, outs |-> <<out>>,
     bases |-> [i \in {in} |-> [b \in 1..Log2(size) |-> [o \in {out} |-> 2^(b - 1)]]]]

zeros1D(size, in, out) ==
    [ins |-> <<in>>, outs |-> <<out>>,
     bases |-> [i \in {in} |-> [b \in 1..Log2(size) |-> [o \in {out} |-> 0]]]]

(* the bits of an output that some basis reaches *)
OutBits(l, out) ==
    LET values == {0} \cup UNION {{l.bases[i][b][out] : b \in DOMAIN l.bases[i]} : i \in In(l)}
        top == Max(values)
    IN  IF top = 0 THEN 0 ELSE Log2(top) + 1

OutSize(l, out) == 2^OutBits(l, out)

transposeOuts(l, outs) == [l EXCEPT !.outs = outs]

Common(s, S) == SelectSeq(s, LAMBDA x : x \in S)

(* operator*: the inner layout has the low bits of the inputs and of the   *)
(* outputs both have, the outer one the high bits                          *)
Times(inner, outer) ==
    LET ins == inner.ins \o Common(outer.ins, In(outer) \ In(inner))
        outs == inner.outs \o Common(outer.outs, Out(outer) \ Out(inner))
        innerBasis(i, b, o) == IF o \in Out(inner) THEN inner.bases[i][b][o] ELSE 0
        shift(o) == IF o \in Out(inner) THEN OutBits(inner, o) ELSE 0
        outerBasis(i, b, o) == IF o \in Out(outer)
                               THEN outer.bases[i][b][o] * 2^shift(o) ELSE 0
    IN  [ins |-> ins, outs |-> outs,
         bases |-> [i \in ToSet(ins) |->
            [b \in 1..(InBits(inner, i) + InBits(outer, i)) |->
                [o \in ToSet(outs) |->
                    IF b <= InBits(inner, i) THEN innerBasis(i, b, o)
                    ELSE outerBasis(i, b - InBits(inner, i), o)]]]]

Bit(n, b) == (n \div 2^(b - 1)) % 2 = 1

(* what the bits of one input add to one output *)
RECURSIVE Contribution(_, _, _, _, _)
Contribution(l, in, value, out, b) ==
    IF b = 0 THEN 0
    ELSE LET low == Contribution(l, in, value, out, b - 1)
         IN  IF Bit(value, b) THEN low ^^ l.bases[in][b][out] ELSE low

RECURSIVE XorOver(_, _, _, _)
XorOver(l, at, out, ins) ==
    IF ins = <<>> THEN 0
    ELSE Contribution(l, Head(ins), at[Head(ins)], out, InBits(l, Head(ins)))
           ^^ XorOver(l, at, out, Tail(ins))

(* apply: the outputs for a value of every input *)
Apply(l, at) == [o \in Out(l) |-> XorOver(l, at, o, l.ins)]

(* the inputs of l to the outputs of outer, whose inputs are l's outputs *)
compose(l, outer) ==
    [ins |-> l.ins, outs |-> outer.outs,
     bases |-> [i \in In(l) |-> [b \in DOMAIN l.bases[i] |->
                    Apply(outer, l.bases[i][b])]]]

-----------------------------------------------------------------------------
(* From an encoding to its layout *)

Dims(rank) == [d \in 1..rank |-> d]

RECURSIVE identityND(_, _, _)
identityND(in, shape, order) ==
    IF order = <<>> THEN NoLayout
    ELSE LET n == Len(order)
         IN  Times(identityND(in, shape, SubSeq(order, 1, n - 1)),
                   identity1D(shape[order[n]], in, order[n]))

RECURSIVE CgaProduct(_, _)
CgaProduct(cta, order) ==
    IF order = <<>> THEN NoLayout
    ELSE LET n == Len(order)
             d == order[n]
         IN  Times(CgaProduct(cta, SubSeq(order, 1, n - 1)),
                   Times(identity1D(cta.split[d], "block", d),
                         zeros1D(cta.ctas[d] \div cta.split[d], "block", d)))

makeCgaLayout(cta) == transposeOuts(CgaProduct(cta, cta.order), Dims(Len(cta.order)))

(* The indices of the non-zero bases of an output, from the most major,    *)
(* that shrinking zeroes                                                   *)
RECURSIVE MostMajor(_, _, _, _, _)
MostMajor(l, in, out, b, wanted) ==
    IF b = 0 \/ wanted = 0 THEN {}
    ELSE LET basis == l.bases[in][b][out]
         IN  IF basis = 0 THEN MostMajor(l, in, out, b - 1, wanted)
             ELSE {basis} \cup MostMajor(l, in, out, b - 1, wanted - 1)

(* a value without the bits of gone, the bits above moved down *)
RECURSIVE Squeezed(_, _, _)
Squeezed(value, gone, b) ==
    IF b = 0 THEN 0
    ELSE LET low == Squeezed(value, gone, b - 1)
             kept == (b - 1) - Cardinality({g \in gone : g < 2^(b - 1)})
         IN  IF Bit(value, b) /\ 2^(b - 1) \notin gone THEN low + 2^kept ELSE low

(* The high inputs of one name made to repeat outputs already given, until *)
(* the output has the desired size or the name has no more bits for it     *)
shrinkCodomain(l, in, out, desired) ==
    LET bits == OutBits(l, out)
        gone == MostMajor(l, in, out, InBits(l, in), bits - Log2(desired))
    IN  [l EXCEPT !.bases = [i \in In(l) |-> [b \in DOMAIN l.bases[i] |->
            [l.bases[i][b] EXCEPT ![out] = Squeezed(@, gone, bits)]]]]

RECURSIVE ShrinkThrough(_, _, _, _)
ShrinkThrough(l, ins, out, desired) ==
    IF ins = <<>> THEN l
    ELSE ShrinkThrough(
            IF Head(ins) \in In(l) /\ OutSize(l, out) > desired
            THEN shrinkCodomain(l, Head(ins), out, desired) ELSE l,
            Tail(ins), out, desired)

(* the names in the order they give their bits up: the block the last *)
ShrinkOrder == << "warp", "lane", "register", "block" >>

RECURSIVE NotLarger(_, _, _), NotSmaller(_, _, _)
NotLarger(l, shape, outs) ==
    IF outs = <<>> THEN l
    ELSE NotLarger(ShrinkThrough(l, ShrinkOrder, Head(outs), shape[Head(outs)]),
                   shape, Tail(outs))
NotSmaller(l, shape, outs) ==
    IF outs = <<>> THEN l
    ELSE LET out == Head(outs)
             grow == shape[out] \div OutSize(l, out)
         IN  NotSmaller(IF grow > 1 THEN Times(l, identity1D(grow, "register", out)) ELSE l,
                        shape, Tail(outs))

ensureLayoutNotLargerThan(l, shape) == NotLarger(l, shape, l.outs)
ensureLayoutNotSmallerThan(l, shape) == NotSmaller(l, shape, l.outs)

combineCtaCgaWithShape(ctaLayout, cta, shape) ==
    LET cga == transposeOuts(ensureLayoutNotLargerThan(makeCgaLayout(cta), shape),
                             ctaLayout.outs)
        ctaShape == [d \in DOMAIN shape |-> Greatest(1, shape[d] \div OutSize(cga, d))]
        fitted == ensureLayoutNotLargerThan(
                      ensureLayoutNotSmallerThan(ctaLayout, ctaShape), ctaShape)
    IN  transposeOuts(Times(fitted, cga), Dims(Len(shape)))

blockedToLinearLayout(shape, e) ==
    combineCtaCgaWithShape(
        Times(Times(identityND("register", e.size, e.order),
                    identityND("lane", e.threads, e.order)),
              identityND("warp", e.warps, e.order)),
        e.cta, shape)

(* the 16 by 8 fragment of an MMA: two registers along the row, two eight  *)
(* rows apart, four lanes along the row and eight down                     *)
Fragment(rank) ==
    LET m == rank - 1
        n == rank
        Basis(row, col) == [o \in {m, n} |-> IF o = m THEN row ELSE col]
    IN  [ins |-> << "register", "lane" >>, outs |-> << n, m >>,
         bases |-> [i \in {"register", "lane"} |->
            IF i = "register" THEN << Basis(0, 1), Basis(8, 0) >>
            ELSE << Basis(0, 2), Basis(0, 4), Basis(1, 0), Basis(2, 0), Basis(4, 0) >>]]

ampereMmaToLinearLayout(shape, e) ==
    combineCtaCgaWithShape(
        Times(Fragment(Len(shape)),
              identityND("warp", e.warps, Reverse(Dims(Len(shape))))),
        e.cta, shape)

hopperMmaToLinearLayout(shape, e) ==
    LET wide == Times(Fragment(2), identity1D(e.instr[2] \div 8, "register", 2))
        warps == transposeOuts(identityND("warp", e.warps, << 1, 2 >>), wide.outs)
    IN  combineCtaCgaWithShape(Times(wide, warps), e.cta, shape)

RECURSIVE SliceTransform(_, _, _)
SliceTransform(l, dim, rank) ==
    IF rank = 0 THEN NoLayout
    ELSE Times(SliceTransform(l, dim, rank - 1),
               IF rank = dim THEN zeros1D(OutSize(l, rank), rank, 1)
               ELSE identity1D(OutSize(l, rank), rank,
                               IF rank < dim THEN rank ELSE rank - 1))

(* The encodings that have a linear layout, and the layout *)
RECURSIVE hasLinearLayout(_), toLinearLayout(_, _)
hasLinearLayout(e) ==
    \/ e.kind \in {"blocked", "ampere", "hopper"}
    \/ e.kind = "slice" /\ hasLinearLayout(e.parent)

toLinearLayout(shape, e) ==
    CASE e.kind = "blocked" -> blockedToLinearLayout(shape, e)
      [] e.kind = "ampere" -> ampereMmaToLinearLayout(shape, e)
      [] e.kind = "hopper" -> hopperMmaToLinearLayout(shape, e)
      [] e.kind = "slice" ->
           LET parent == toLinearLayout(paddedShape(e, shape), e.parent)
               sliced == compose(parent, SliceTransform(parent, e.dim, Len(shape) + 1))
               notZero(basis) == \E o \in DOMAIN basis : basis[o] # 0
               unique == [sliced EXCEPT !.bases["register"] = SelectSeq(@, notZero)]
               extra == getTotalElemsPerThread(e, shape) \div 2^InBits(unique, "register")
           IN  IF extra = 1 THEN unique
               ELSE Times(unique, zeros1D(extra, "register", 1))
=============================================================================
