--------------------------- MODULE ConvertLowering ---------------------------
(***************************************************************************)
(* Elements that change hands through shared memory                        *)
(* (Conversion/TritonGPUToLLVM/ConvertLayoutOpToLLVM.cpp).  "convert"      *)
(* goes from one layout to another through a scratch buffer that may hold  *)
(* a part of the tensor only, replica after replica.  "stage" stores a     *)
(* tensor to a swizzled buffer and loads it with another layout            *)
(* (getSwizzledSharedPtrs in Utility.h).  A value is the position of the   *)
(* element it is.                                                          *)
(*                                                                         *)
(* The offsets are computed here once more, apart from those of            *)
(* IndexEmission by which the producer and the consumer know what they     *)
(* hold.                                                                   *)
(***************************************************************************)
EXTENDS SimtKernel

Missing == << >>

(* getRepShapeForCvtLayout: what one replica holds *)
Held(e, shape) == Each(getShapePerCTA(e, shape), getShapePerCTATile(e, shape), Least)
getRepShapeForCvtLayout(k) == Each(Held(k.e, k.shape), Held(k.dst, k.shape), Greatest)

(* getCvtOrder: NVIDIA's MMA layouts take the order of the other one *)
FromNvidia(e) == e.kind \in {"volta", "ampere", "hopper"}
InOrder(k) == getOrder(IF FromNvidia(k.e) THEN k.dst ELSE k.e)
OutOrder(k) == getOrder(IF FromNvidia(k.dst) THEN k.e ELSE k.dst)

Contig(e, shape, order) == getUniqueContigPerThread(e, shape)[order[1]]

\* Mutant: contiguous in the operand's order is taken for contiguous in the scratch.
InVecOfItsOrder(k) == Contig(k.e, k.shape, InOrder(k))

InVec(k) ==
    IF OutOrder(k)[1] = Len(k.shape) /\ InOrder(k)[1] = Len(k.shape)
    THEN Contig(k.e, k.shape, InOrder(k)) ELSE 1
OutVec(k) ==
    IF OutOrder(k)[1] = Len(k.shape) \/ (FromNvidia(k.e) /\ k.dst.kind = "blocked")
    THEN Contig(k.dst, k.shape, OutOrder(k)) ELSE 1

(* the scratch is padded against bank conflicts *)
getScratchConfigForCvtLayout(k) ==
    LET rep == getRepShapeForCvtLayout(k)
        padded == IF k.dst.kind = "blocked" THEN k.dst.order[1] ELSE Len(rep)
    IN  IF Len(rep) = 1 THEN rep ELSE [rep EXCEPT ![padded] = @ + Greatest(InVec(k), OutVec(k))]

numReplicates(k) ==
    IF k.op = "convert" THEN Each(getShapePerCTA(k.e, k.shape), getRepShapeForCvtLayout(k), Ceil)
    ELSE << 1 >>

(* what the code of one side goes by: its tiles, how many of them are in a *)
(* replica, and the width of its accesses                                  *)
Side(e, k, vec) ==
    [e      |-> e,
     tile   |-> getShapePerCTATile(e, k.shape),
     perCTA |-> getShapePerCTA(e, k.shape),
     tiles  |-> Each(getShapePerCTA(e, k.shape), getShapePerCTATile(e, k.shape), Ceil),
     rep    |-> getRepShapeForCvtLayout(k),
     each   |-> Each(getRepShapeForCvtLayout(k), Held(e, k.shape), LAMBDA a, b : a \div b),
     vec    |-> vec]

-----------------------------------------------------------------------------
(* getMultiDimOffset: where element elem of tile cta of a replica lies *)

MmaOffset(e, shape, tile, elem, cta, t) ==
    LET rank == Len(shape)
        perCTA == getShapePerCTA(e, shape)
        warp == delinearize(t.warp, e.warps, getWarpOrder(e))
        Warp(d, instr) == (warp[d] % Ceil(perCTA[d], instr)) * instr
        row == t.lane \div 4 + Warp(rank - 1, e.instr[1])
        col == 2 * (t.lane % 4) + Warp(rank, e.instr[2])
    IN  At(rank, warp[1] + cta[1] * tile[1],
           row + 8 * ((elem % 4) \div 2) + cta[rank - 1] * tile[rank - 1],
           col + (elem % 2) + 8 * (elem \div 4) + cta[rank] * tile[rank])

IndexOf(s, x) == IF Contains(s, x) THEN CHOOSE i \in DOMAIN s :
                     s[i] = x /\ \A j \in 1..(i - 1) : s[j] # x
                 ELSE Len(s) + 1

RECURSIVE getMultiDimOffset(_, _, _, _, _, _)
getMultiDimOffset(e, shape, tile, elem, cta, t) ==
    CASE e.kind = "blocked" ->
           LET inTile == getMultiDimIndex(elem, e.size, e.order)
           IN  [d \in DOMAIN shape |->
                   emitBaseIndexWithinCTAForBlockedLayout(e, shape, t)[d]
                     + cta[d] * tile[d] + inTile[d]]
      [] e.kind = "slice" ->
           LET parentShape == paddedShape(e, shape)
               offset == InsertAt(emitOffsetForLayout(e, shape)[elem + 1], e.dim, 0)
               at == IndexOf(emitOffsetForLayout(e.parent, parentShape), offset)
           IN  RemoveAt(getMultiDimOffset(e.parent, parentShape, paddedShape(e, tile),
                                          at - 1, paddedShape(e, cta), t),
                        e.dim)
      [] e.kind = "mfma" ->
           Plus(emitBaseIndexForMfmaLayout(e, shape, t),
                emitMfmaOffsetForCTA(e, tile, 0, cta[1], cta[2])[elem + 1])
      [] e.kind = "wmma" ->
           Plus(emitBaseIndexForWmmaLayout(e, shape, t),
                emitWmmaOffsetForCTA(tile, 0, cta[1], cta[2])[elem + 1])
      [] OTHER -> MmaOffset(e, shape, tile, elem, cta, t)

(* getWrappedMultiDimOffset, where the tile is larger than the tensor *)
Wrapped(offset, side) ==
    [d \in DOMAIN offset |-> IF side.tile[d] > side.perCTA[d] THEN offset[d] % side.rep[d]
                             ELSE offset[d]]

(* processReplica: the registers that pass a replica of the scratch, each  *)
(* with its address.  Of a vector the first decides the address.           *)
AddressOf(side, elem, cta, t) ==
    linearize(Wrapped(getMultiDimOffset(side.e, kernel.shape, side.tile, elem, cta, t), side),
              code.config, code.order)

Passed(side, replica, accum, t) ==
    {<< 1 + elem + accum * linearize(Plus(Each(replica, side.each, LAMBDA r, n : r * n), cta),
                                     side.tiles, getOrder(side.e)),
        AddressOf(side, elem - (elem % side.vec), cta, t) + (elem % side.vec) >> :
            elem \in 0..(accum - 1),
            cta \in {getMultiDimIndex(c, side.each, getOrder(side.e)) :
                        c \in 0..(Product(side.each) - 1)}}

Replica(r) == getMultiDimIndex(r, code.replicas, code.order)
Replicas == Product(code.replicas)

-----------------------------------------------------------------------------
(* getSwizzledSharedPtrs: the address of register n of a thread.  An index *)
(* that is a sum with a constant is taken from the first register whose    *)
(* constant is the same within a period of the swizzling, and the rest of  *)
(* the constant is added at the end.                                       *)

FirstLike(table, n, minVec, d, period) ==
    Min({m \in DOMAIN table.offsets :
            (m - 1) % minVec = 0 /\ table.offsets[m][d] % period = table.offsets[n][d] % period})
Cached(table, legacy, indices, n, minVec, d, period) ==
    IF ~legacy THEN << indices[n][d], 0 >>
    ELSE << indices[FirstLike(table, n, minVec, d, period)][d],
            (table.offsets[n][d] \div period) * period >>

Swizzled(s, col, row, phase, minVec, stride) ==
    (row[1] + row[2]) * stride
      + ((col[1] \div s.vec) ^^ phase) * s.vec
      + ((col[1] % s.vec) \div minVec) * minVec
      + col[2]

SwizzledAddress(s, table, legacy, indices, n, minVec) ==
    Swizzled(s,
             Cached(table, legacy, indices, n, minVec, s.order[1], s.vec * s.maxPhase),
             Cached(table, legacy, indices, n, minVec, s.order[2], s.perPhase * s.maxPhase),
             (indices[n][s.order[2]] \div s.perPhase) % s.maxPhase,
             minVec,
             kernel.shape[s.order[1]])

(* storeDistributedToShared and loadSharedToDistributed: as wide as both   *)
(* sides are contiguous                                                    *)
Width(e, k) ==
    LET s == k.swizzle
    IN  Least(IF getOrder(e) = s.order THEN Contig(e, k.shape, getOrder(e)) ELSE 1,
              IF s.maxPhase = 1 THEN k.shape[s.order[1]] ELSE s.vec)

PassedSwizzled(side, table, indices) ==
    {<< n, SwizzledAddress(kernel.swizzle, table,
                           kernel.target # "nvidia" \/ ~hasLinearLayout(side.e),
                           indices, n - ((n - 1) % side.vec), side.vec) + ((n - 1) % side.vec) >> :
        n \in DOMAIN indices}

-----------------------------------------------------------------------------

ConvertCode(k) ==
    [src      |-> IndexCode(k.e, k.shape),
     dst      |-> IndexCode(k.dst, k.shape),
     in       |-> Side(k.e, k, IF k.op = "convert" THEN InVec(k) ELSE Width(k.e, k)),
     out      |-> Side(k.dst, k, IF k.op = "convert" THEN OutVec(k) ELSE Width(k.dst, k)),
     config   |-> IF k.op = "convert" THEN getScratchConfigForCvtLayout(k) ELSE k.shape,
     order    |-> getOrder(k.dst),
     replicas |-> numReplicates(k)]

ConvertScratch(k) ==
    [a \in 0..(Product(ConvertCode(k).config) - 1) |-> Missing]

Converts == kernel.op \in {"convert", "stage"}

(* a tensor of one element needs no scratch: every register is that one *)
Single == kernel.op = "convert" /\ Product(kernel.shape) = 1
CopyTheOne(w) ==
    /\ Single
    /\ Step(w, 0, Done)
    /\ held' = [held EXCEPT ![w] = [l \in Lanes |->
            [n \in 1..getTotalElemsPerThread(kernel.dst, kernel.shape) |-> SrcIndices(w, l)[1]]]]
    /\ UNCHANGED << kernel, code, shared >>

ResultIndices(w, l) ==
    emitIndices(kernel.target, code.dst, kernel.dst, kernel.shape, Thread(w, l))

Outgoing(values, w, l, r) ==
    {<< p[2], values[p[1]] >> :
        p \in IF kernel.op = "stage" THEN PassedSwizzled(code.in, code.src, values)
              ELSE Passed(code.in, Replica(r), Product(getSizePerThread(kernel.e)), Thread(w, l))}

Incoming(w, l, r) ==
    IF kernel.op = "stage" THEN PassedSwizzled(code.out, code.dst, ResultIndices(w, l))
    ELSE Passed(code.out, Replica(r), Product(getSizePerThread(kernel.dst)), Thread(w, l))

Loaded(passed) ==
    [n \in {p[1] : p \in passed} |->
        LET a == (CHOOSE p \in passed : p[1] = n)[2]
        IN  IF a \in DOMAIN shared THEN shared[a] ELSE Missing]

NoRegister == [n \in {} |-> Missing]

(* the warps meet before every step but the first *)
StoreReplica(w) ==
    /\ Converts /\ ~Single
    /\ \E r \in 0..(Replicas - 1) :
        /\ Barrier(2 * r)
        /\ Step(w, 2 * r, 2 * r + 1)
        /\ shared' = Write(shared,
               UNION {Outgoing(SrcIndices(w, l), w, l, r) : l \in Lanes}, Missing)
    /\ UNCHANGED << kernel, code, held >>

LoadReplica(w) ==
    /\ Converts /\ ~Single
    /\ \E r \in 0..(Replicas - 1) :
        /\ Barrier(2 * r + 1)
        /\ Step(w, 2 * r + 1, IF r = Replicas - 1 THEN Done ELSE 2 * r + 2)
        /\ held' = [held EXCEPT ![w] = [l \in Lanes |->
                        Loaded(Incoming(w, l, r)) @@ (IF r = 0 THEN NoRegister ELSE held[w][l])]]
    /\ UNCHANGED << kernel, code, shared >>

ConvertNext == \E w \in Warps : CopyTheOne(w) \/ StoreReplica(w) \/ LoadReplica(w)

-----------------------------------------------------------------------------

(* Whoever goes by the layout of the result finds in each of its registers *)
(* the element this layout says is there, however the warps of the two     *)
(* sides take turns.                                                       *)
ConvertExact ==
    Converts =>
        \A w \in {v \in Warps : pc[v] = Done}, l \in Lanes :
            held[w][l] = ResultIndices(w, l)
=============================================================================
