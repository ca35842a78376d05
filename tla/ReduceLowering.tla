--------------------------- MODULE ReduceLowering ---------------------------
(***************************************************************************)
(* A reduction of a tensor along an axis                                   *)
(* (Conversion/TritonGPUToLLVM/ReduceOpToLLVM.cpp, ReduceOpHelper): in     *)
(* registers, then over the lanes of a warp, then through shared memory    *)
(* over the warps.  A value is the set of the elements it sums up.  Where  *)
(* one is summed twice, or something was read that nothing wrote, it has   *)
(* the empty index too.                                                    *)
(***************************************************************************)
EXTENDS SimtKernel

Spoiled == {<< >>}
Combine(v, u) == v \cup u \cup (IF v \cap u = {} THEN {} ELSE Spoiled)

(* the sum of single elements, registers I of them *)
Sum(indices, I) ==
    LET all == {indices[i] : i \in I}
    IN  IF Cardinality(all) = Cardinality(I) THEN all ELSE all \cup Spoiled

ResultOf(k) == [kind |-> "slice", dim |-> k.axis, parent |-> k.e]
ResultShape(k) == RemoveAt(k.shape, k.axis)

-----------------------------------------------------------------------------
(* ReduceOpHelper *)

RECURSIVE getParentAxis(_, _)
getParentAxis(e, axis) ==
    IF e.kind = "slice" THEN getParentAxis(e.parent, IF axis < e.dim THEN axis ELSE axis + 1)
    ELSE axis

isReductionOnLayoutFastAxis(k) ==
    getParentAxis(k.e, k.axis) = getOrder(Distributed(k.e))[1]

getOrderWithAxisAtBeginning(k) ==
    << k.axis >> \o SelectSeq(getOrder(k.e), LAMBDA d : d # k.axis)

\* Mutant: the lanes are counted along the axis alone.
getLaneOffset(k) == 1

(* how far apart two lanes next to each other on the axis are *)
getThreadOffsetOnReductionAxis(k) ==
    IF isReductionOnLayoutFastAxis(k) THEN 1
    ELSE IF k.e.kind = "slice" THEN getThreadsPerWarp(k.e.parent)[k.e.dim]
    ELSE LET order == getOrder(k.e)
             at == CHOOSE i \in DOMAIN order : order[i] = k.axis
         IN  Product([i \in 1..(at - 1) |-> getThreadsPerWarp(k.e)[order[i]]])

UniqueWarps(k) == getWarpsPerCTAWithUniqueData(k.e, k.shape)[k.axis]

getIntraWarpSizeWithUniqueData(k) ==
    Least(k.shape[k.axis] \div getUniqueContigPerThread(k.e, k.shape)[k.axis],
          getThreadsPerWarpWithUniqueData(k.e, k.shape)[k.axis])

getInterWarpSizeWithUniqueData(k) ==
    Least(k.shape[k.axis] \div getIntraWarpSizeWithUniqueData(k), UniqueWarps(k))

isWarpSynchronous(k) == UniqueWarps(k) = 1

getScratchConfig(k) ==
    IF isWarpSynchronous(k) THEN [d \in DOMAIN k.shape |-> 0]
    ELSE [k.shape EXCEPT ![k.axis] = getInterWarpSizeWithUniqueData(k)]

-----------------------------------------------------------------------------

ReduceCode(k) ==
    [src |-> IndexCode(k.e, k.shape),
     dst |-> IF Len(k.shape) = 1 THEN [offsets |-> << >>, layout |-> NoLayout]
             ELSE IndexCode(ResultOf(k), ResultShape(k))]

ReduceScratch(k) == [a \in 0..(Product(getScratchConfig(k)) - 1) |-> Spoiled]

(* registers that differ along the axis only accumulate under one key *)
Key(n) == [code.src.offsets[n] EXCEPT ![kernel.axis] = 0]

(* the registers whose offsets no earlier one has *)
UniqueOffsets == {n \in DOMAIN code.src.offsets :
    \A m \in 1..(n - 1) : code.src.offsets[m] # code.src.offsets[n]}

FirstOf(key) == CHOOSE n \in UniqueOffsets :
    Key(n) = key /\ \A m \in UniqueOffsets : Key(m) = key => n <= m

reduceWithinThreads(w) ==
    /\ kernel.op = "reduce"
    /\ Step(w, 0, 1)
    /\ held' = [held EXCEPT ![w] = [l \in Lanes |->
            LET indices == SrcIndices(w, l)
            IN  [key \in {Key(n) : n \in UniqueOffsets} |->
                    Sum(indices, {n \in UniqueOffsets : Key(n) = key})]]]
    /\ UNCHANGED << kernel, code, shared >>

(* warpReduce: a butterfly of exchanges over n lanes *)
RECURSIVE Butterfly(_, _, _)
Butterfly(acc, n, interleave) ==
    IF n = 0 THEN acc
    ELSE Butterfly([l \in Lanes |-> Combine(acc[l], acc[l ^^ (n * interleave)])],
                   n \div 2, interleave)

reduceWithinWarps(accs) ==
    LET Over(key) == Butterfly([l \in Lanes |-> accs[l][key]],
                               getIntraWarpSizeWithUniqueData(kernel) \div 2,
                               getThreadOffsetOnReductionAxis(kernel))
    IN  [key \in DOMAIN accs[0] |-> Over(key)]

(* the accumulators are the result, by the offsets of its registers *)
packResults(accs, l) ==
    IF Len(kernel.shape) = 1 THEN << accs[<< 0 >>][l] >>
    ELSE [j \in DOMAIN code.dst.offsets |->
            LET key == InsertAt(code.dst.offsets[j], kernel.axis, 0)
            IN  IF key \in DOMAIN accs THEN accs[key][l] ELSE Spoiled]

PackResults(w) ==
    /\ kernel.op = "reduce" /\ isWarpSynchronous(kernel)
    /\ Step(w, 1, Done)
    /\ held' = [held EXCEPT ![w] = [l \in Lanes |->
                    packResults(reduceWithinWarps(held[w]), l)]]
    /\ UNCHANGED << kernel, code, shared >>

getMultiDimWarpId(w) ==
    IF kernel.e.kind = "slice"
    THEN LET parent == kernel.e.parent
         IN  RemoveAt(delinearize(w[2], getWarpsPerCTA(parent), getWarpOrder(parent)),
                      kernel.e.dim)
    ELSE delinearize(w[2], [getWarpsPerCTA(kernel.e) EXCEPT ![kernel.axis] = UniqueWarps(kernel)],
                     getWarpOrder(kernel.e))

Address(index) ==
    linearize(index, getScratchConfig(kernel), getOrderWithAxisAtBeginning(kernel))

(* the first lane along the axis writes for its warp *)
storeWarpReduceToSharedMemory(w) ==
    /\ kernel.op = "reduce" /\ ~isWarpSynchronous(kernel)
    /\ Step(w, 1, 2)
    /\ LET accs == reduceWithinWarps(held[w])
           threads == getThreadsPerWarpWithUniqueData(kernel.e, kernel.shape)
           first == {l \in Lanes : delinearize(l, threads, getOrder(kernel.e))[kernel.axis] = 0}
           WriteIdx(l, key) == [SrcIndices(w, l)[FirstOf(key)]
                                  EXCEPT ![kernel.axis] = getMultiDimWarpId(w)[kernel.axis]]
       IN  shared' = Write(shared,
                {<< Address(WriteIdx(l, key)), accs[key][l] >> : l \in first, key \in DOMAIN accs},
                Spoiled)
    /\ UNCHANGED << kernel, code, held >>

(* The second part: the threads take the elements of the scratch in turn   *)
NumThreads == NumWarps(kernel.e) * WarpSize
ElemsPerThread == Greatest(Cardinality(DOMAIN shared) \div NumThreads, 1)

ReadOffset(w, l, round) == w[2] * WarpSize + l + round * NumThreads
Needed(w, l) == ReadOffset(w, l, 0) < Cardinality(DOMAIN shared)

LoadPartial(w, round) ==
    /\ round < ElemsPerThread
    /\ kernel.op = "reduce"
    /\ Barrier(2)
    /\ Step(w, 2 + 2 * round, 3 + 2 * round)
    /\ LET Read(l) == LET a == ReadOffset(w, l, round)
                      IN  IF Needed(w, l) /\ a \in DOMAIN shared THEN shared[a] ELSE Spoiled
       IN  held' = [held EXCEPT ![w] =
                Butterfly([l \in Lanes |-> Read(l)],
                          getInterWarpSizeWithUniqueData(kernel) \div 2, 1)]
    /\ UNCHANGED << kernel, code, shared >>

StorePartial(w, round) ==
    /\ kernel.op = "reduce"
    /\ Step(w, 3 + 2 * round, 4 + 2 * round)
    /\ LET writers == {l \in Lanes : Needed(w, l)
                          /\ l % getInterWarpSizeWithUniqueData(kernel) = 0}
       IN  shared' = Write(shared,
                {<< ReadOffset(w, l, round), held[w][l] >> : l \in writers}, Spoiled)
    /\ UNCHANGED << kernel, code, held >>

(* indices beyond the scratch wrap around, where the tensor is smaller     *)
(* than what the threads hold                                              *)
ReadIdx(index) ==
    LET smem == getScratchConfig(kernel)
        tile == getShapePerCTATile(ResultOf(kernel), ResultShape(kernel))
        Wrapped(d) == LET at == IF d < kernel.axis THEN d ELSE d + 1
                      IN  IF tile[d] > smem[at] \/ ResultShape(kernel)[d] > smem[at]
                          THEN index[d] % smem[at] ELSE index[d]
    IN  InsertAt([d \in DOMAIN index |-> Wrapped(d)], kernel.axis, 0)

DstIndices(w, l) ==
    emitIndices(kernel.target, code.dst, ResultOf(kernel), ResultShape(kernel), Thread(w, l))

loadReductionAndPackResult(w) ==
    /\ kernel.op = "reduce" /\ ~isWarpSynchronous(kernel)
    /\ Barrier(2 + 2 * ElemsPerThread)
    /\ Step(w, 2 + 2 * ElemsPerThread, Done)
    /\ LET Load(a) == IF a \in DOMAIN shared THEN shared[a] ELSE Spoiled
           Result(l) == IF Len(kernel.shape) = 1 THEN << Load(0) >>
                        ELSE LET indices == DstIndices(w, l)
                             IN  [j \in DOMAIN indices |-> Load(Address(ReadIdx(indices[j])))]
       IN  held' = [held EXCEPT ![w] = [l \in Lanes |-> Result(l)]]
    /\ UNCHANGED << kernel, code, shared >>

accumulatePartialReductions(w) ==
    \E round \in 0..(ElemsPerThread - 1) : LoadPartial(w, round) \/ StorePartial(w, round)

ReduceNext ==
    \E w \in Warps :
        \/ reduceWithinThreads(w)
        \/ PackResults(w)
        \/ storeWarpReduceToSharedMemory(w)
        \/ accumulatePartialReductions(w)
        \/ loadReductionAndPackResult(w)

-----------------------------------------------------------------------------

Line(index) == {p \in Positions(kernel.shape) : RemoveAt(p, kernel.axis) = index}

(* What every thread ends with is, for each element of the result it       *)
(* holds, the sum of that line of the operand, each element once.          *)
ReduceExact ==
    kernel.op = "reduce" =>
        \A w \in {v \in Warps : pc[v] = Done}, l \in Lanes :
            held[w][l] = IF Len(kernel.shape) = 1 THEN << Positions(kernel.shape) >>
                         ELSE [j \in DOMAIN DstIndices(w, l) |-> Line(DstIndices(w, l)[j])]
=============================================================================
