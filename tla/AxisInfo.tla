------------------------------ MODULE AxisInfo ------------------------------
(***************************************************************************)
(* What is known of the integers and pointers of a program along each      *)
(* dimension: AxisInfoAnalysis in lib/Analysis/AxisInfo.cpp.  A program is *)
(* a sequence of operations [op, in, shape, attr, hint], whose operands    *)
(* `in` are the numbers of others; scalars have the shape << >>, and attr  *)
(* is what the kind of operation needs besides.                            *)
(***************************************************************************)
EXTENDS Encodings, TLC

(* Bound: it stands for 2^62, the divisor claimed of 0 and when a product  *)
(* would overflow                                                          *)
MaxDivisor == 2^20

RECURSIVE gcd(_, _)
gcd(a, b) == IF a = 0 THEN b ELSE gcd(b % a, a)

RECURSIVE highestPowOf2Divisor(_)
highestPowOf2Divisor(n) ==
    IF n = 0 THEN MaxDivisor
    ELSE IF n % 2 = 1 THEN 1 ELSE 2 * highestPowOf2Divisor(n \div 2)

multiplyDivisor(a, b) == IF a > MaxDivisor \div b THEN MaxDivisor ELSE a * b

(* known holds the value of a constant, or nothing *)
Info(contig, div, constancy, known) ==
    [contig |-> contig, div |-> div, constancy |-> constancy, known |-> known]

(* not visited yet *)
NoInfo == Info(<<>>, <<>>, <<>>, {})

Dimensions(i) == DOMAIN i.contig
Ones(rank) == [d \in 1..rank |-> 1]
RankOf(shape) == Greatest(1, Len(shape))

(* getPessimisticValueState *)
Pessimistic(shape) == LET one == Ones(RankOf(shape)) IN Info(one, one, one, {})

join(a, b) ==
    IF a = NoInfo THEN b ELSE IF b = NoInfo THEN a
    ELSE Info(Each(a.contig, b.contig, gcd), Each(a.div, b.div, gcd),
              Each(a.constancy, b.constancy, gcd), a.known \cap b.known)

-----------------------------------------------------------------------------
(* The visitors *)

MakeRange(first, end) ==
    Info(<< end - first >>, << highestPowOf2Divisor(first) >>, << 1 >>, {})

Constant(value, shape) ==
    LET rank == RankOf(shape)
    IN  Info(Ones(rank), [d \in 1..rank |-> highestPowOf2Divisor(value)],
             IF shape = <<>> THEN << 1 >> ELSE shape, {value})

Splat(a, shape) ==
    Info(Ones(Len(shape)), [d \in DOMAIN shape |-> a.div[1]], shape, a.known)

(* the value a binary operation has for the constants a and b *)
Apply2(op, a, b, bytes) ==
    CASE op = "addptr" -> a + b * bytes
      [] op = "add" -> a + b
      [] op = "sub" -> a - b
      [] op = "mul" -> a * b
      [] op = "div" -> a \div b
      [] op = "rem" -> a % b
      [] op = "and" -> IF a = 1 /\ b = 1 THEN 1 ELSE 0
      [] op = "or" -> Greatest(a, b)
      [] op = "shl" -> a * 2^b
      [] op = "shr" -> a \div 2^b
      [] op = "max" -> Greatest(a, b)
      [] op = "min" -> Least(a, b)
      [] op = "lt" -> IF a < b THEN 1 ELSE 0
      [] op = "ge" -> IF a >= b THEN 1 ELSE 0
      [] op = "gt" -> IF a > b THEN 1 ELSE 0
      [] op = "le" -> IF a <= b THEN 1 ELSE 0
      [] op = "eq" -> IF a = b THEN 1 ELSE 0

Comparisons == {"lt", "ge", "gt", "le", "eq"}
Binary == {"addptr", "add", "sub", "mul", "div", "rem", "and", "or", "shl", "shr", "max", "min"} \cup Comparisons

WholeContiguous(a, shape, d) == a.contig[d] = shape[d]
WholeConstant(a, shape, d) == a.constancy[d] = shape[d]
BothConstant(a, b, d) == gcd(a.constancy[d], b.constancy[d])

(* what is known along one dimension *)
Axis(contig, div, constancy) == [contig |-> contig, div |-> div, constancy |-> constancy]

(* Mutant: a sum is taken to run on as far as either operand does. *)
SumOfRuns(a, b, bytes, d) ==
    Axis(Greatest(a.contig[d], b.contig[d]),
         gcd(a.div[d], multiplyDivisor(b.div[d], bytes)), BothConstant(a, b, d))

(* bytes is the size of an element for a sum with a pointer, and else 1 *)
AddSub(a, b, bytes, d) ==
    Axis(Greatest(gcd(a.constancy[d], b.contig[d]), gcd(a.contig[d], b.constancy[d])),
         gcd(a.div[d], multiplyDivisor(b.div[d], bytes)), BothConstant(a, b, d))

(* a contiguous value has a divisor for the first of each run only: a      *)
(* product or a shift of it has none, but for the one that changes nothing *)
ScaledDivisor(a, d, unchanged) == IF a.contig[d] > 1 /\ ~unchanged THEN 1 ELSE a.div[d]

MulI(a, b, d) ==
    Axis(Greatest(IF b.known = {1} THEN a.contig[d] ELSE 1, IF a.known = {1} THEN b.contig[d] ELSE 1),
         multiplyDivisor(ScaledDivisor(a, d, b.known = {1}), ScaledDivisor(b, d, a.known = {1})),
         BothConstant(a, b, d))

(* Where one of them is contiguous and the other constant, all along the   *)
(* dimension, a quotient is constant and a remainder contiguous as long as *)
(* both are within one multiple.                                           *)
WithinMultiple(a, b, shape, d) ==
    IF shape # <<>> /\ WholeContiguous(a, shape, d) /\ WholeConstant(b, shape, d)
    THEN gcd(a.contig[d], gcd(a.div[d], b.div[d])) ELSE 1

Div(a, b, shape, d) ==
    Axis(IF b.known = {1} THEN a.contig[d] ELSE 1,
         IF a.known = {0} \/ b.known = {1} THEN a.div[d] ELSE 1,
         Greatest(BothConstant(a, b, d), WithinMultiple(a, b, shape, d)))

Rem(a, b, shape, d) ==
    Axis(WithinMultiple(a, b, shape, d), gcd(a.div[d], b.div[d]),
         IF shape # <<>> /\ b.known = {1} THEN shape[d] ELSE BothConstant(a, b, d))

Logical(a, b, d) == Axis(1, 1, BothConstant(a, b, d))

(* a shift that is not known counts as its divisor *)
Shift(b, d) == IF b.known = {} THEN b.div[d] ELSE CHOOSE s \in b.known : TRUE

ShL(a, b, d) ==
    Axis(IF b.known = {0} THEN a.contig[d] ELSE 1,
         multiplyDivisor(ScaledDivisor(a, d, Shift(b, d) = 0), 2^Shift(b, d)), BothConstant(a, b, d))

ShR(a, b, d) ==
    Axis(IF b.known = {0} THEN a.contig[d] ELSE 1,
         Greatest(1, ScaledDivisor(a, d, Shift(b, d) = 0) \div 2^Shift(b, d)), BothConstant(a, b, d))

MaxMin(a, b, d) ==
    Axis(Least(a.contig[d], b.contig[d]), Least(a.div[d], b.div[d]), Least(a.constancy[d], b.constancy[d]))

(* a comparison with a constant is the same all along a run that does not  *)
(* cross a multiple of both divisors                                       *)
Cmp(op, a, b, shape, d) ==
    LET RunWith(x) == gcd(x.contig[d], gcd(a.div[d], b.div[d]))
    IN  Axis(1, 1, Greatest(BothConstant(a, b, d),
                     CASE op \in {"gt", "le"} /\ WholeConstant(a, shape, d) -> RunWith(b)
                       [] op \in {"lt", "ge"} /\ WholeConstant(b, shape, d) -> RunWith(a)
                       [] OTHER -> 1))

ByAxis(op, a, b, shape, bytes, d) ==
    CASE op \in {"add", "sub"} -> AddSub(a, b, 1, d)
      [] op = "addptr" -> AddSub(a, b, bytes, d)
      [] op = "mul" -> MulI(a, b, d)
      [] op = "div" -> Div(a, b, shape, d)
      [] op = "rem" -> Rem(a, b, shape, d)
      [] op = "shl" -> ShL(a, b, d)
      [] op = "shr" -> ShR(a, b, d)
      [] op \in {"and", "or"} -> Logical(a, b, d)
      [] op \in {"max", "min"} -> MaxMin(a, b, d)
      [] op \in Comparisons -> Cmp(op, a, b, shape, d)

Folded(op, a, b, bytes) ==
    IF op = "rem" /\ a.known = {} /\ b.known = {1} THEN {0}
    ELSE {Apply2(op, x, y, bytes) : x \in a.known, y \in b.known}

(* BinaryOpVisitorImpl, and what the visitors of comparisons and of max and *)
(* min do about constants                                                  *)
BinaryInfo(op, a, b, shape, bytes) ==
    LET known == Folded(op, a, b, bytes)
        one == Ones(Len(a.contig))
        axes == [d \in Dimensions(a) |-> ByAxis(op, a, b, shape, bytes, d)]
    IN CASE op \in Comparisons /\ shape = <<>> -> Pessimistic(shape)
         [] op \in Comparisons /\ known # {} -> Info(one, one, a.constancy, known)
         [] op \in {"max", "min"} /\ known # {} -> Info(one, one, one, known)
         [] known # {} ->
              LET div == highestPowOf2Divisor(CHOOSE v \in known : TRUE)
              IN  Info(one, [d \in Dimensions(a) |-> div],
                       Each(a.constancy, b.constancy, Greatest), known)
         [] OTHER -> Info([d \in DOMAIN axes |-> axes[d].contig], [d \in DOMAIN axes |-> axes[d].div],
                          [d \in DOMAIN axes |-> axes[d].constancy], {})

(* every run of either side that the condition is constant for *)
Select(c, a, b, scalarCondition) ==
    LET Both(x, y) == IF scalarCondition THEN Each(x, y, Least)
                      ELSE Each(Each(x, c.constancy, gcd), Each(y, c.constancy, gcd), Least)
        contig == Both(a.contig, b.contig)
        Whole(d) == contig[d] = a.contig[d] /\ contig[d] = b.contig[d]
        div == [d \in DOMAIN contig |->
                  IF scalarCondition THEN Least(a.div[d], b.div[d])
                  ELSE IF Whole(d) THEN gcd(a.div[d], b.div[d])
                  ELSE Least(gcd(a.div[d], contig[d]), gcd(b.div[d], contig[d]))]
    IN CASE c.known = {0} -> b
         [] c.known # {} /\ c.known # {0} -> a
         [] OTHER -> Info(contig, div, Both(a.constancy, b.constancy), a.known \cap b.known)

(* a divisor of every element *)
RECURSIVE PointDivisor(_, _)
PointDivisor(a, d) ==
    IF d = 0 THEN 0
    ELSE gcd(PointDivisor(a, d - 1), IF a.contig[d] > 1 THEN 1 ELSE a.div[d])

ExpandDims(a, axis) ==
    LET div == IF a.known # {} THEN highestPowOf2Divisor(CHOOSE v \in a.known : TRUE)
               ELSE PointDivisor(a, Len(a.contig))
    IN  Info(InsertAt(a.contig, axis, 1), InsertAt(a.div, axis, div),
             InsertAt(a.constancy, axis, 1), a.known)

Broadcast(a, from, to) ==
    Info([d \in DOMAIN to |-> IF from[d] = 1 THEN 1 ELSE a.contig[d]], a.div,
         [d \in DOMAIN to |-> IF from[d] = 1 THEN to[d] ELSE a.constancy[d]], a.known)

(* what is loaded repeats where both the pointer and the mask do *)
Load(ptr, masks) ==
    LET one == Ones(Len(ptr.contig))
    IN  Info(one, one,
             [d \in Dimensions(ptr) |->
                 IF masks = <<>> THEN ptr.constancy[d]
                 ELSE gcd(ptr.constancy[d], masks[1].constancy[d])], {})

-----------------------------------------------------------------------------
(* The analysis *)

(* the induction variable of a loop *)
InductionVar(lb, step) == Info(<< 1 >>, << gcd(lb.div[1], step.div[1]) >>, << 1 >>, {})

(* The visitor of an operation, by what is known of its operands, which    *)
(* attributes may override.  A value carried by a loop joins what enters   *)
(* the loop and what a turn yields; what no visitor matches is unknown.    *)
Visited(program, o, in) ==
    LET of(n) == program[o.in[n]]
        info == CASE o.op = "range" -> MakeRange(o.attr[1], o.attr[2])
                  [] o.op = "constant" -> Constant(o.attr, o.shape)
                  [] o.op = "splat" -> Splat(in[1], o.shape)
                  [] o.op \in Binary -> BinaryInfo(o.op, in[1], in[2], o.shape, o.attr)
                  [] o.op = "select" -> Select(in[1], in[2], in[3], of(1).shape = <<>>)
                  [] o.op = "expand" -> ExpandDims(in[1], o.attr)
                  [] o.op = "broadcast" -> Broadcast(in[1], o.attr, o.shape)
                  [] o.op = "load" -> Load(in[1], Tail(in))
                  [] o.op = "store" -> NoInfo
                  [] o.op = "cast" -> in[1]
                  [] o.op = "iv" -> InductionVar(in[1], in[2])
                  [] o.op = "carried" -> join(in[1], in[2])
                  [] OTHER -> Pessimistic(o.shape)
    IN  o.hint @@ info

Users(program, n) == SelectSeq([i \in DOMAIN program |-> i],
                               LAMBDA i : n \in ToSet(program[i].in))

(* One visit of the solver: the value joins what the visitor says, and the *)
(* users of a value that changed are visited again                         *)
Visit(program, analysis) ==
    LET n == Head(analysis.work)
        o == program[n]
        visited == Visited(program, o, [i \in DOMAIN o.in |-> analysis.info[o.in[i]]])
        new == join(analysis.info[n], visited)
    IN  [info |-> [analysis.info EXCEPT ![n] = new],
         work |-> Tail(analysis.work) \o
                    (IF new = analysis.info[n] THEN <<>> ELSE Users(program, n))]

Unvisited(program) ==
    [info |-> [n \in DOMAIN program |-> NoInfo], work |-> [n \in DOMAIN program |-> n]]

getPtrAlignment(a, bytes, order) ==
    Least(Greatest(a.div[order[1]] \div bytes, 1), a.contig[order[1]])

getPtrContiguity(a, bytes, e, shape) ==
    LET order == getOrder(e)
    IN  Least(getPtrAlignment(a, bytes, order), getUniqueContigPerThread(e, shape)[order[1]])

getMaskAlignment(a, e) == a.constancy[getOrder(e)[1]]
=============================================================================
