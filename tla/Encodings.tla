------------------------------ MODULE Encodings ------------------------------
(***************************************************************************)
(* The layout attributes of the TritonGPU dialect and what their getters   *)
(* answer (lib/Dialect/TritonGPU/IR/Dialect.cpp).  An encoding says how    *)
(* the elements of a tensor are dealt to the registers of the lanes of the *)
(* warps of the CTAs of a cluster:                                         *)
(*                                                                         *)
(*   [kind |-> "blocked", size, threads, warps, order, cta]                *)
(*   [kind |-> "volta",   warps, cta, packA, packB]                        *)
(*   [kind |-> "ampere" / "hopper", warps, instr, cta]                     *)
(*   [kind |-> "mfma",    warps, mDim, nDim, transposed, cta]              *)
(*   [kind |-> "wmma",    warps, cta]                                      *)
(*   [kind |-> "slice",   dim, parent]                                     *)
(*                                                                         *)
(* with cta = [ctas, split, order].  Dimensions count from 1, and an order *)
(* lists them from the fastest to the slowest.                             *)
(***************************************************************************)
EXTENDS Integers, Sequences, SequencesExt

Ceil(a, b) == (a + b - 1) \div b
Least(a, b) == IF a < b THEN a ELSE b
Greatest(a, b) == IF a > b THEN a ELSE b

RECURSIVE Product(_)
Product(s) == IF s = <<>> THEN 1 ELSE Head(s) * Product(Tail(s))

Each(s, t, op(_, _)) == [d \in DOMAIN s |-> op(s[d], t[d])]

(* s with its last two dimensions set to m and n, and the others to 1 *)
Matrix(rank, m, n) ==
    [d \in 1..rank |-> CASE d = rank - 1 -> m [] d = rank -> n [] OTHER -> 1]

IsMma(e) == e.kind \in {"volta", "ampere", "hopper", "mfma", "wmma"}

RECURSIVE Rank(_)
Rank(e) == IF e.kind = "slice" THEN Rank(e.parent) - 1 ELSE Len(e.warps)

paddedShape(e, shape) == InsertAt(shape, e.dim, 1)

(* Slicing drops the dimension, and the threads and the warps along it are *)
(* counted in the dimension that takes its place, or in the one before.    *)
MergedInto(s, dim) ==
    LET rest == RemoveAt(s, dim)
        next == IF dim <= Len(rest) THEN dim ELSE dim - 1
    IN  [rest EXCEPT ![next] = @ * s[dim]]

(* an order without a dimension, those above it renamed *)
eraseOrder(order, dim) ==
    LET kept == SelectSeq(order, LAMBDA d : d # dim)
    IN  [i \in DOMAIN kept |-> IF kept[i] > dim THEN kept[i] - 1 ELSE kept[i]]

(* decodeVoltaLayoutStates: packA stands for isARow or isAVec4 *)
getMMAv1Rep(e) == << IF e.packA THEN 2 ELSE 4, IF e.packB THEN 4 ELSE 2 >>
getMMAv1ShapePerWarp(e) == << 8 * getMMAv1Rep(e)[1], 8 * getMMAv1Rep(e)[2] >>

-----------------------------------------------------------------------------

RECURSIVE getOrder(_), getThreadsPerWarp(_), getWarpsPerCTA(_),
          getSizePerThread(_), getContigPerThread(_)

getOrder(e) ==
    CASE e.kind = "blocked" -> e.order
      [] e.kind = "slice" -> eraseOrder(getOrder(e.parent), e.dim)
      [] OTHER ->
           LET rank == Rank(e)
               minorLast == [i \in 1..rank |-> rank + 1 - i]
           IN  IF e.kind = "mfma" /\ e.transposed
               THEN [minorLast EXCEPT ![rank - 1] = minorLast[rank],
                                      ![rank] = minorLast[rank - 1]]
               ELSE minorLast

(* the instructions of Hopper force the warps along the rows first *)
getWarpOrder(e) ==
    IF e.kind = "hopper"
    THEN <<1>> \o SelectSeq(getOrder(e), LAMBDA d : d # 1)
    ELSE getOrder(e)

getThreadsPerWarp(e) ==
    CASE e.kind = "blocked" -> e.threads
      [] e.kind = "slice" -> MergedInto(getThreadsPerWarp(e.parent), e.dim)
      [] e.kind = "volta" -> Matrix(Rank(e), 4, 8)
      [] e.kind \in {"ampere", "hopper"} -> Matrix(Rank(e), 8, 4)
      [] e.kind = "wmma" -> Matrix(Rank(e), 2, 16)
      [] e.kind = "mfma" ->
           LET cols == IF e.mDim = 32 THEN 2 ELSE 4
               rows == IF e.mDim = 32 THEN 32 ELSE 16
           IN  IF e.transposed THEN Matrix(Rank(e), rows, cols)
                               ELSE Matrix(Rank(e), cols, rows)

getWarpSize(e) == Product(getThreadsPerWarp(e))

getWarpsPerCTA(e) ==
    IF e.kind = "slice" THEN MergedInto(getWarpsPerCTA(e.parent), e.dim)
    ELSE e.warps

getSizePerThread(e) ==
    CASE e.kind = "blocked" -> e.size
      [] e.kind = "slice" -> RemoveAt(getSizePerThread(e.parent), e.dim)
      [] e.kind = "volta" -> Matrix(Rank(e), 1, 2)
      [] e.kind = "ampere" -> Matrix(Rank(e), 2, 2)
      [] e.kind = "hopper" -> << (e.instr[1] * 4) \div 32, e.instr[2] \div 4 >>
      [] e.kind = "wmma" -> Matrix(Rank(e), 8, 1)
      [] e.kind = "mfma" ->
           LET rows == IF e.mDim = 32 THEN 16 ELSE 4
           IN  IF e.transposed THEN Matrix(Rank(e), 1, rows)
                               ELSE Matrix(Rank(e), rows, 1)

getContigPerThread(e) ==
    CASE e.kind = "slice" -> RemoveAt(getContigPerThread(e.parent), e.dim)
      [] e.kind \in {"volta", "ampere", "hopper"} -> Matrix(Rank(e), 1, 2)
      [] e.kind = "mfma" -> IF e.transposed THEN Matrix(Rank(e), 1, 4)
                                            ELSE Matrix(Rank(e), 4, 1)
      [] e.kind = "wmma" -> Matrix(Rank(e), 1, 1)
      [] OTHER -> getSizePerThread(e)

-----------------------------------------------------------------------------
(* CTAs of a cluster *)

RECURSIVE getCTALayout(_)
getCTALayout(e) ==
    IF e.kind = "slice"
    THEN LET p == getCTALayout(e.parent)
         IN  [ctas  |-> RemoveAt(p.ctas, e.dim),
              split |-> RemoveAt(p.split, e.dim),
              order |-> eraseOrder(p.order, e.dim)]
    ELSE e.cta

getShapePerCTA(e, shape) ==
    Each(shape, getCTALayout(e).split, LAMBDA s, n : s \div Least(s, n))

(* what one round of all the threads of a CTA covers *)
RECURSIVE getShapePerCTATile(_, _)
getShapePerCTATile(e, shape) ==
    CASE e.kind = "slice" ->
           RemoveAt(getShapePerCTATile(e.parent, shape), e.dim)
      [] e.kind = "blocked" ->
           [d \in DOMAIN e.size |-> e.size[d] * e.threads[d] * e.warps[d]]
      [] e.kind = "volta" -> IF Len(shape) = 1 THEN << shape[1], shape[1] >>
                             ELSE shape
      [] OTHER ->
           LET rank == Rank(e)
               one == CASE e.kind = "ampere" -> << 16, 8 >>
                        [] e.kind = "hopper" -> << 16, e.instr[2] >>
                        [] e.kind = "wmma" -> << 16, 16 >>
                        [] e.kind = "mfma" -> << e.nDim, e.mDim >>
           IN  Each(e.warps, Matrix(rank, one[1], one[2]), LAMBDA w, s : w * s)

(* Registers one thread has for each dimension, the ones that repeat an   *)
(* element of the same or of another thread included                      *)
RECURSIVE getElemsPerThread(_, _)
getElemsPerThread(e, shape) ==
    LET rank == Len(shape)
        perCTA == getShapePerCTA(e, shape)
        rounds(per, tile) == [d \in 1..rank |-> Ceil(per[d], tile[d])]
    IN CASE e.kind = "slice" ->
              RemoveAt(getElemsPerThread(e.parent, paddedShape(e, shape)), e.dim)
         [] e.kind = "blocked" ->
              Each(rounds(perCTA, getShapePerCTATile(e, shape)), e.size,
                  LAMBDA n, s : n * s)
         [] e.kind = "volta" ->
              LET rep == getMMAv1Rep(e)
                  spw == getMMAv1ShapePerWarp(e)
                  times(d) == Greatest(1, perCTA[d] \div (spw[d] * e.warps[d]))
              IN  << rep[1] * times(1), 2 * rep[2] * times(2) >>
         [] e.kind = "ampere" ->
              Each(rounds(perCTA, getShapePerCTATile(e, shape)),
                  Matrix(rank, 2, 2), LAMBDA n, s : n * s)
         [] e.kind = "hopper" ->
              Each(rounds(perCTA, getShapePerCTATile(e, shape)),
                  << 2, e.instr[2] \div 4 >>, LAMBDA n, s : n * s)
         [] e.kind = "wmma" ->
              Each(rounds(shape, getShapePerCTATile(e, shape)),
                  Matrix(rank, 8, 1), LAMBDA n, s : n * s)
         [] e.kind = "mfma" ->
              LET perTile == IF e.mDim = 16 THEN 4 ELSE 16
                  tile == Each(e.warps, Matrix(rank, e.mDim, e.mDim),
                              LAMBDA w, s : w * s)
              IN  Each(rounds(shape, tile),
                      IF e.transposed THEN Matrix(rank, 1, perTile)
                                      ELSE Matrix(rank, perTile, 1),
                      LAMBDA n, s : n * s)

getTotalElemsPerThread(e, shape) == Product(getElemsPerThread(e, shape))

-----------------------------------------------------------------------------
(* How many of the threads and of the warps hold data of their own *)

RECURSIVE getThreadsPerWarpWithUniqueData(_, _),
          getWarpsPerCTAWithUniqueData(_, _), getUniqueContigPerThread(_, _)

getThreadsPerWarpWithUniqueData(e, shape) ==
    IF e.kind = "slice"
    THEN RemoveAt(getThreadsPerWarpWithUniqueData(e.parent, paddedShape(e, shape)), e.dim)
    ELSE Each(getThreadsPerWarp(e), shape, Least)

getWarpsPerCTAWithUniqueData(e, shape) ==
    IF e.kind = "slice"
    THEN RemoveAt(getWarpsPerCTAWithUniqueData(e.parent, paddedShape(e, shape)), e.dim)
    ELSE LET perWarp == Each(getSizePerThread(e), getThreadsPerWarp(e), LAMBDA s, t : s * t)
         IN  Each(getWarpsPerCTA(e), Each(shape, perWarp, Ceil), Least)

getUniqueContigPerThread(e, shape) ==
    IF e.kind = "slice"
    THEN RemoveAt(getUniqueContigPerThread(e.parent, paddedShape(e, shape)), e.dim)
    ELSE Each(shape, getContigPerThread(e), Least)

-----------------------------------------------------------------------------
(* Numbers and positions *)

(* the digits of a number in the mixed radix of a shape, the first         *)
(* dimension of the order the fastest (delinearize)                        *)
delinearize(linear, shape, order) ==
    [d \in DOMAIN shape |->
        LET i == CHOOSE k \in DOMAIN order : order[k] = d
            below == Product([k \in 1..(i - 1) |-> shape[order[k]]])
        IN  (linear \div below) % shape[d]]

(* the same with no bound on the slowest dimension (getMultiDimIndex) *)
getMultiDimIndex(linear, shape, order) ==
    [d \in DOMAIN shape |->
        LET i == CHOOSE k \in DOMAIN order : order[k] = d
            below == Product([k \in 1..(i - 1) |-> shape[order[k]]])
        IN  IF i = Len(order) THEN linear \div below
            ELSE (linear \div below) % shape[d]]

RECURSIVE linearize(_, _, _)
linearize(multi, shape, order) ==
    IF order = <<>> THEN 0
    ELSE multi[Head(order)]
           + shape[Head(order)] * linearize(multi, shape, Tail(order))

Plus(a, b) == [d \in DOMAIN a |-> a[d] + b[d]]

(* every position of a tensor *)
Positions(shape) ==
    {p \in [DOMAIN shape -> 0..(Max(ToSet(shape)) - 1)] :
        \A d \in DOMAIN shape : p[d] < shape[d]}
=============================================================================
