---------------------------- MODULE IndexEmission ----------------------------
(***************************************************************************)
(* The index code that is emitted for a tensor: which of its elements a    *)
(* register of a thread holds.  Two emitters are meant to agree: a base    *)
(* for the thread plus an offset for the register                          *)
(* (Conversion/TritonGPUToLLVM/Utility.h), and the linear layout.  A       *)
(* thread is [cta, warp, lane], counted from 0, and an index a sequence    *)
(* with an entry for each dimension.                                       *)
(***************************************************************************)
EXTENDS LinearLayouts

(* an index of one batch: row and column are the last two dimensions *)
At(rank, batch, row, col) ==
    [d \in 1..rank |-> CASE d = rank - 1 -> row [] d = rank -> col [] OTHER -> batch]

(* the values of nested loops in their n-th round, the last the innermost *)
RowMajor(n, counts) == delinearize(n, counts, Reverse(Dims(Len(counts))))

Rounds(counts, OffsetOf(_)) ==
    [n \in 1..Product(counts) |-> OffsetOf(RowMajor(n - 1, counts))]

-----------------------------------------------------------------------------
(* The base of a thread *)

emitCTAOffsetForLayout(e, shape, cta) ==
    LET layout == getCTALayout(e)
        id == delinearize(cta, layout.ctas, layout.order)
        perCTA == getShapePerCTA(e, shape)
    IN  [d \in DOMAIN shape |-> (id[d] % Least(shape[d], layout.split[d])) * perCTA[d]]

\* Mutant: only the lanes wrap around, the warps do not.
emitBaseIndexOfAnyWarp(e, shape, t) ==
    LET warp == delinearize(t.warp, e.warps, e.order)
        lane == delinearize(t.lane, e.threads, e.order)
    IN  [d \in DOMAIN shape |->
            e.size[d] * ((lane[d] % Ceil(getShapePerCTA(e, shape)[d], e.size[d]))
                 + e.threads[d] * warp[d])]

(* lanes and warps wrap around a tensor smaller than the tile *)
emitBaseIndexWithinCTAForBlockedLayout(e, shape, t) ==
    LET perCTA == getShapePerCTA(e, shape)
        warp == delinearize(t.warp, e.warps, e.order)
        lane == delinearize(t.lane, e.threads, e.order)
    IN  [d \in DOMAIN shape |->
            e.size[d] * ((lane[d] % Ceil(perCTA[d], e.size[d]))
                 + e.threads[d] * (warp[d] % Ceil(perCTA[d], e.size[d] * e.threads[d])))]

emitBaseIndexWithinCTAForMmaLayoutV1(e, t) ==
    LET rep == getMMAv1Rep(e)
        spw == getMMAv1ShapePerWarp(e)
        warpM == t.warp % e.warps[1]
        warpN == (t.warp \div e.warps[1]) % e.warps[2]
        quad == t.lane \div 16
        pair == (t.lane % 16) \div 4
    IN  << (t.lane % 2) + warpM * spw[1] + (8 * quad + 4 * (pair % 2)) * (rep[1] \div 2),
           2 * ((t.lane \div 2) % 2) + warpN * spw[2] + 4 * (pair \div 2) * (rep[2] \div 2) >>

(* how many of the warps along a dimension have rows of their own *)
DistinctWarps(e, shape, d, instr) ==
    LET rep == (e.warps[d] * instr) \div getShapePerCTA(e, shape)[d]
    IN  IF rep > 1 THEN e.warps[d] \div rep ELSE shape[d] \div instr

(* A dimension with none of them has no index: the caller must slice it *)
emitBaseIndexWithinCTAForMmaLayoutV2V3(e, shape, t) ==
    LET rank == Len(shape)
        instr == IF e.kind = "hopper" THEN e.instr ELSE << 16, 8 >>
        warp == delinearize(t.warp, e.warps, getWarpOrder(e))
        Warp(d, i) == LET n == DistinctWarps(e, shape, d, instr[i])
                      IN  IF n = 0 THEN 0 ELSE (warp[d] % n) * instr[i]
    IN  At(rank, warp[1], t.lane \div 4 + Warp(rank - 1, 1),
                          2 * (t.lane % 4) + Warp(rank, 2))

WrappedWarp(warp, size, instr) ==
    instr * (IF size >= instr THEN warp % Ceil(size, instr) ELSE warp)

emitBaseIndexForMfmaLayout(e, shape, t) ==
    LET rank == Len(shape)
        lane == IF e.mDim = 4 /\ e.nDim = 4 THEN t.lane % 4 ELSE t.lane
        warp == delinearize(t.warp, e.warps, getWarpOrder(e))
        warpM == WrappedWarp(warp[rank - 1], shape[rank - 1], e.mDim)
        warpN == WrappedWarp(warp[rank], shape[rank], e.nDim)
        batch == t.warp % shape[1]
    IN  IF e.transposed
        THEN At(rank, batch, (lane % e.mDim) + warpM, 4 * (lane \div e.mDim) + warpN)
        ELSE At(rank, batch, 4 * (lane \div e.nDim) + warpM, (lane % e.nDim) + warpN)

emitBaseIndexForWmmaLayout(e, shape, t) ==
    LET rank == Len(shape)
        warp == delinearize(t.warp, e.warps, getWarpOrder(e))
    IN  At(rank, t.warp % shape[1],
           t.lane \div 16 + WrappedWarp(warp[rank - 1], shape[rank - 1], 16),
           (t.lane % 16) + WrappedWarp(warp[rank], shape[rank], 16))

RECURSIVE emitBaseIndexForLayout(_, _, _)
emitBaseIndexForLayout(e, shape, t) ==
    IF e.kind = "slice"
    THEN RemoveAt(emitBaseIndexForLayout(e.parent, paddedShape(e, shape), t), e.dim)
    ELSE Plus(emitCTAOffsetForLayout(e, shape, t.cta),
              CASE e.kind = "blocked" -> emitBaseIndexWithinCTAForBlockedLayout(e, shape, t)
                [] e.kind = "volta" -> emitBaseIndexWithinCTAForMmaLayoutV1(e, t)
                [] e.kind = "mfma" -> emitBaseIndexForMfmaLayout(e, shape, t)
                [] e.kind = "wmma" -> emitBaseIndexForWmmaLayout(e, shape, t)
                [] OTHER -> emitBaseIndexWithinCTAForMmaLayoutV2V3(e, shape, t))

-----------------------------------------------------------------------------
(* The offset of each register, the same for every thread *)

emitOffsetForBlockedLayout(e, shape) ==
    LET perCTA == getShapePerCTA(e, shape)
        tile == getShapePerCTATile(e, shape)
        tiles == Each(perCTA, tile, Ceil)
        perTile == Product(e.size)
    IN  [n \in 1..getTotalElemsPerThread(e, shape) |->
            LET nano == getMultiDimIndex((n - 1) \div perTile, tiles, e.order)
                elem == getMultiDimIndex((n - 1) % perTile, e.size, e.order)
            IN  [d \in DOMAIN shape |-> (nano[d] * tile[d] + elem[d]) % perCTA[d]]]

emitOffsetForMmaLayoutV1(e, shape) ==
    LET rep == getMMAv1Rep(e)
        tile == Each(getMMAv1ShapePerWarp(e), e.warps, LAMBDA s, w : s * w)
        Offset(c) == << c[4] * tile[1] + 2 * c[5],
                        c[1] * tile[2] + 4 * (c[2] \div 2) + (c[2] % 2) * 4 * rep[2] + c[3] >>
    IN  Rounds(<< Ceil(shape[2], tile[2]), rep[2], 2, Ceil(shape[1], tile[1]), rep[1] >>,
               Offset)

emitOffsetForMmaLayoutV2(e, shape) ==
    LET rank == Len(shape)
        tile == getShapePerCTATile(e, shape)
        tiles == Each(getShapePerCTA(e, shape), tile, Ceil)
        Offset(c) == At(rank, 0, c[1] * tile[rank - 1] + 8 * c[3], c[2] * tile[rank] + c[4])
    IN  Rounds(<< tiles[rank - 1], tiles[rank], 2, 2 >>, Offset)

emitOffsetForMmaLayoutV3(e, shape) ==
    LET tile == getShapePerCTATile(e, shape)
        tiles == Each(getShapePerCTA(e, shape), tile, Ceil)
        Offset(c) == << c[1] * tile[1] + 8 * c[4], c[2] * tile[2] + 8 * c[3] + c[5] >>
    IN  Rounds(<< tiles[1], tiles[2], Ceil(e.instr[2], 8), 2, 2 >>, Offset)

(* The instructions each warp repeats along the batch, the rows and the    *)
(* columns, and how far apart two of a batch are                           *)
Repetitions(e, shape, instr) ==
    LET perCTA == getShapePerCTA(e, shape)
        rank == Len(shape)
        Times1(d) == Ceil(Ceil(Least(shape[d], perCTA[d]), e.warps[d]), instr[d])
    IN  << IF rank = 3 THEN Times1(1) ELSE 1, Times1(rank - 1), Times1(rank) >>

WarpsPerBatch(e, shape) == IF Len(shape) = 3 THEN Least(shape[1], e.warps[1]) ELSE 1

emitMfmaOffsetForCTA(e, tile, batch, row, col) ==
    LET rank == Len(tile)
        narrow == Least(e.mDim, e.nDim)
        Offset(c) ==
            LET along == c[2] + c[1] * (256 \div narrow)
            IN  At(rank, batch,
                   row * tile[rank - 1] + (IF e.transposed THEN 0 ELSE along),
                   col * tile[rank] + (IF e.transposed THEN along ELSE 0))
    IN  Rounds(<< IF narrow = 32 THEN 4 ELSE 1, 4 >>, Offset)

emitWmmaOffsetForCTA(tile, batch, row, col) ==
    LET rank == Len(tile)
    IN  [n \in 1..8 |-> At(rank, batch, row * tile[rank - 1] + 2 * (n - 1), col * tile[rank])]

emitOffsetForMfmaLayout(e, shape) ==
    LET tile == getShapePerCTATile(e, shape)
        Offsets(c) == emitMfmaOffsetForCTA(e, tile, c[1] * WarpsPerBatch(e, shape), c[2], c[3])
    IN  FlattenSeq(Rounds(Repetitions(e, shape, Matrix(Len(shape), e.mDim, e.nDim)), Offsets))

emitOffsetForWmmaLayout(e, shape) ==
    LET tile == getShapePerCTATile(e, shape)
        Offsets(c) == emitWmmaOffsetForCTA(tile, c[1] * WarpsPerBatch(e, shape), c[2], c[3])
    IN  FlattenSeq(Rounds(Repetitions(e, shape, Matrix(Len(shape), 16, 16)), Offsets))

(* what is sliced to the same offset is kept once, and the whole repeated  *)
(* up to the number of registers                                           *)
Unique(offsets) ==
    FoldLeft(LAMBDA kept, o : IF Contains(kept, o) THEN kept ELSE Append(kept, o),
             <<>>, offsets)

RECURSIVE emitOffsetForLayout(_, _)
emitOffsetForSliceLayout(e, shape, parentOffsets) ==
    LET kept == Unique([n \in DOMAIN parentOffsets |-> RemoveAt(parentOffsets[n], e.dim)])
    IN  [n \in 1..getTotalElemsPerThread(e, shape) |-> kept[((n - 1) % Len(kept)) + 1]]

emitOffsetForLayout(e, shape) ==
    CASE e.kind = "blocked" -> emitOffsetForBlockedLayout(e, shape)
      [] e.kind = "volta" -> emitOffsetForMmaLayoutV1(e, shape)
      [] e.kind = "ampere" -> emitOffsetForMmaLayoutV2(e, shape)
      [] e.kind = "hopper" -> emitOffsetForMmaLayoutV3(e, shape)
      [] e.kind = "mfma" -> emitOffsetForMfmaLayout(e, shape)
      [] e.kind = "wmma" -> emitOffsetForWmmaLayout(e, shape)
      [] e.kind = "slice" -> emitOffsetForSliceLayout(
            e, shape, emitOffsetForLayout(e.parent, paddedShape(e, shape)))

-----------------------------------------------------------------------------
(* The two emitters, from the tables made for a layout and a shape *)

IndexCode(e, shape) ==
    [offsets |-> emitOffsetForLayout(e, shape),
     layout  |-> IF hasLinearLayout(e) THEN toLinearLayout(shape, e) ELSE NoLayout]

legacyIndices(code, e, shape, t) ==
    LET base == emitBaseIndexForLayout(e, shape, t)
    IN  [n \in DOMAIN code.offsets |-> Plus(base, code.offsets[n])]

emitIndicesUsingLinearLayouts(code, t) ==
    [n \in 1..2^InBits(code.layout, "register") |->
        Apply(code.layout, [register |-> n - 1, lane |-> t.lane,
                            warp |-> t.warp, block |-> t.cta])]

(* NVIDIA's target takes the linear layout where there is one, AMD's never *)
emitIndices(target, code, e, shape, t) ==
    IF target = "nvidia" /\ hasLinearLayout(e)
    THEN emitIndicesUsingLinearLayouts(code, t)
    ELSE legacyIndices(code, e, shape, t)

\* Mutant: the lanes of every warp are asked, and not which warp it is.
redundantLaneMask(e, shape, t) ==
    LET lane == delinearize(t.lane, getThreadsPerWarp(e), getOrder(e))
    IN  \A d \in DOMAIN shape : lane[d] * getSizePerThread(e)[d] < shape[d]

(* The threads whose stores and atomics are carried out *)
redundantDataMask(e, shape, t) ==
    LET size == getSizePerThread(e)
        threads == getThreadsPerWarp(e)
        tile == getShapePerCTATile(e, shape)
        warp == delinearize(t.warp, getWarpsPerCTA(e), getWarpOrder(e))
        lane == delinearize(t.lane, threads, getOrder(e))
        cta == delinearize(t.cta, getCTALayout(e).ctas, getCTALayout(e).order)
        split == getCTALayout(e).split
    IN  \A d \in DOMAIN shape :
            /\ shape[d] < tile[d] => (warp[d] * threads[d] + lane[d]) * size[d] < shape[d]
            /\ getCTALayout(e).ctas[d] # split[d] => cta[d] \div Least(shape[d], split[d]) = 0
=============================================================================
