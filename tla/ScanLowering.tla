----------------------------- MODULE ScanLowering -----------------------------
(***************************************************************************)
(* An associative scan of a tensor along an axis                           *)
(* (Conversion/TritonGPUToLLVM/ScanOpToLLVM.cpp, ScanLoweringHelper of     *)
(* Analysis/Utility.cpp): over the registers of a thread, over the lanes   *)
(* of a warp, then over the warps and the blocks a thread goes through.    *)
(* The combination need not commute: a value is the sequence of elements   *)
(* it combines, in the order it combines them.                             *)
(***************************************************************************)
EXTENDS SimtKernel

Nothing == << << >> >>

(* ScanLoweringHelper *)
Before(k, sizes) ==
    LET order == getOrder(k.e)
        at == CHOOSE i \in DOMAIN order : order[i] = k.axis
    IN  Product([i \in 1..(at - 1) |-> sizes[order[i]]])
Across(k, sizes) == Product([sizes EXCEPT ![k.axis] = 1])
Blocks(k) == Each(k.shape, getShapePerCTATile(k.e, k.shape), Ceil)

getAxisNumElementsPerThread(k) == getSizePerThread(k.e)[k.axis]
getNonAxisNumElementsPerThread(k) == Across(k, getContigPerThread(k.e))
getAxisNumThreads(k) == getThreadsPerWarpWithUniqueData(k.e, k.shape)[k.axis]
getNonAxisNumThreadsPerCTA(k) == Across(k, getThreadsPerWarp(k.e)) * Across(k, getWarpsPerCTA(k.e))
getAxisNumWarps(k) == getWarpsPerCTAWithUniqueData(k.e, k.shape)[k.axis]
getAxisNumBlocks(k) == Blocks(k)[k.axis]
getNonAxisNumBlocks(k) == Across(k, Blocks(k))
getAxisElementStride(k) == Before(k, getContigPerThread(k.e))
getAxisThreadStride(k) == Before(k, getThreadsPerWarp(k.e))
getAxisBlockStride(k) == Before(k, Blocks(k))

getScratchSizeInElems(k) ==
    NumWarps(k.e) * Across(k, getThreadsPerWarp(k.e)) * getNonAxisNumElementsPerThread(k)
        * getAxisNumBlocks(k) * getNonAxisNumBlocks(k)

-----------------------------------------------------------------------------

(* the registers that are next to each other along the axis, in a chunk *)
AccIndex(n, stride, elements) ==
    ((n - 1) % stride) + (((n - 1) \div stride) \div elements) * stride
IsLast(n, stride, elements) == ((n - 1) \div stride) % elements = elements - 1

\* Mutant: the lines of one block are taken for those of the next.
accumulatorOfBlock(chunk, per, stride, blocks) == chunk % per

(* which line a chunk is on, and which block of it *)
axisBlockId(blockId, stride, blocks) == (blockId \div stride) % blocks
accumulatorIndex(chunk, per, stride, blocks) ==
    (chunk % per)
      + per * (((chunk \div per) % stride) + (((chunk \div per) \div stride) \div blocks) * stride)

(* What the code goes by: the numbers of the helper; for each register its *)
(* accumulator and whether it is the last of it; for each chunk its line   *)
(* and its block                                                           *)
ScanCode(k) ==
    LET Registers == 1..getTotalElemsPerThread(k.e, k.shape)
        Chunks == 0..((Max(Registers) \div getAxisNumElementsPerThread(k)) - 1)
    IN  [src    |-> IndexCode(k.e, k.shape),
         threads |-> getAxisNumThreads(k),
         warps  |-> getAxisNumWarps(k),
         lines  |-> getNonAxisNumThreadsPerCTA(k),
         stride |-> getAxisThreadStride(k),
         acc    |-> [n \in Registers |->
                        AccIndex(n, getAxisElementStride(k), getAxisNumElementsPerThread(k))],
         last   |-> {n \in Registers :
                        IsLast(n, getAxisElementStride(k), getAxisNumElementsPerThread(k))},
         line   |-> [c \in Chunks |->
                        accumulatorIndex(c, getNonAxisNumElementsPerThread(k),
                                         getAxisBlockStride(k), getAxisNumBlocks(k))],
         block  |-> [c \in Chunks |->
                        axisBlockId(c \div getNonAxisNumElementsPerThread(k),
                                    getAxisBlockStride(k), getAxisNumBlocks(k))]]

ScanScratch(k) ==
    [a \in 0..((IF getAxisNumWarps(k) = 1 THEN 0 ELSE getScratchSizeInElems(k)) - 1) |-> Nothing]

(* getDelinearizedIds, the warp the other way round in a reverse scan *)
LaneId(l) == delinearize(l, getThreadsPerWarp(kernel.e), getOrder(kernel.e))
WarpId(w) == delinearize(w[2], getWarpsPerCTA(kernel.e), getWarpOrder(kernel.e))
laneIdAxis(l) == LaneId(l)[kernel.axis]
Reversed(id, n) == IF kernel.reverse THEN n - 1 - id ELSE id
warpIdAxis(w) == Reversed(WarpId(w)[kernel.axis] % code.warps, code.warps)

Flat(id, sizes, order) ==
    linearize([id EXCEPT ![kernel.axis] = 0], [sizes EXCEPT ![kernel.axis] = 1], order)
flatIdParallel(w, l) ==
    Flat(LaneId(l), getThreadsPerWarp(kernel.e), getOrder(kernel.e))
      + Flat(WarpId(w), getWarpsPerCTA(kernel.e), getWarpOrder(kernel.e))
          * Across(kernel, getThreadsPerWarp(kernel.e))

(* shuffleUp: the value of the lane so far below, where there is one *)
shuffleUp(values, l, delta) == IF l >= delta THEN values[l - delta] ELSE values[l]

(* flipSrcValues: the registers, and the lanes of the warp, in reverse *)
flipSrcValues(values) == [l \in Lanes |-> Reverse(values[WarpSize - 1 - l])]
FlipIfReverse(values) == IF kernel.reverse THEN flipSrcValues(values) ELSE values

Registers == DOMAIN code.acc
LastOf(n) == CHOOSE m \in code.last : code.acc[m] = code.acc[n]
chunkId(n) == Cardinality({m \in code.last : m < LastOf(n)})
LastRegister(chunk) == CHOOSE n \in code.last : chunkId(n) = chunk

scanThreadContiguousElements(w) ==
    /\ kernel.op = "scan"
    /\ Step(w, 0, 1)
    /\ LET src == FlipIfReverse([l \in Lanes |-> SrcIndices(w, l)])
           UpTo(l, n) == [i \in 1..n |-> IF code.acc[i] = code.acc[n] THEN << src[l][i] >> ELSE << >>]
       IN  held' = [held EXCEPT ![w] =
                        [l \in Lanes |-> [n \in Registers |-> FlattenSeq(UpTo(l, n))]]]
    /\ UNCHANGED << kernel, code, shared >>

RECURSIVE ShuffleScan(_, _)
ShuffleScan(acc, i) ==
    IF i > code.threads \div 2 THEN acc
    ELSE ShuffleScan(
            [l \in Lanes |-> IF laneIdAxis(l) < i THEN acc[l]
                             ELSE shuffleUp(acc, l, i * code.stride) \o acc[l]],
            2 * i)

warpScan(w) ==
    /\ kernel.op = "scan"
    /\ Step(w, 1, 2)
    /\ LET scanned == [n \in code.last |-> ShuffleScan([l \in Lanes |-> held[w][l][n]], 1)]
       IN  held' = [held EXCEPT ![w] = [l \in Lanes |-> [n \in Registers |->
                        IF n \in code.last THEN scanned[n][l] ELSE held[w][l][n]]]]
    /\ UNCHANGED << kernel, code, shared >>

Scratch(w, l, warp, chunk) ==
    flatIdParallel(w, l) + code.lines * (warp + chunk * code.warps)

storeWarpAccumulator(w) ==
    /\ kernel.op = "scan" /\ code.warps > 1
    /\ Step(w, 2, 3)
    /\ shared' = Write(shared,
            {<< Scratch(w, l, warpIdAxis(w), chunkId(n)), held[w][l][n] >> :
                l \in {m \in Lanes : laneIdAxis(m) = code.threads - 1}, n \in code.last},
            Nothing)
    /\ UNCHANGED << kernel, code, held >>

(* the chunks before one on the lines it is on *)
Preceding(chunk) == {c \in 0..(chunk - 1) : code.line[c] = code.line[chunk]}

(* The registers of a chunk: the last with what is before the warp, the    *)
(* others with what the lane before ends with.  The first warp keeps its   *)
(* own in the first block, and but for its first lane only the last.       *)
Chunk(w, l, n, totals, lastElement) ==
    IF n \in code.last THEN totals[l]
    ELSE IF code.block[chunkId(n)] = 0 /\ warpIdAxis(w) = 0 /\ laneIdAxis(l) = 0
    THEN held[w][l][n]
    ELSE lastElement \o held[w][l][n]

Updated(w, Register(_, _)) ==
    held' = [held EXCEPT ![w] =
                FlipIfReverse([l \in Lanes |-> [n \in Registers |-> Register(l, n)]])]

(* The partial results of the first warps of a chunk.  The accumulator     *)
(* starts with that of warp 0, whichever warp it is that reads it.         *)
Partials(w, l, chunk, warps) ==
    FlattenSeq([i \in 1..warps |-> shared[Scratch(w, l, i - 1, chunk)]])
maskedAcc(w, l, chunk) ==
    FlattenSeq([i \in 1..chunk |-> IF i - 1 \in Preceding(chunk)
                                   THEN Partials(w, l, i - 1, code.warps) ELSE << >>])
      \o Partials(w, l, chunk, IF Preceding(chunk) = {} THEN Greatest(1, warpIdAxis(w))
                               ELSE warpIdAxis(w))

AddPartialReduce(w) ==
    /\ kernel.op = "scan" /\ code.warps > 1
    /\ Barrier(3)
    /\ Step(w, 3, Done)
    /\ LET Total(l, chunk) ==
               LET own == held[w][l][LastRegister(chunk)]
               IN  IF code.block[chunk] = 0 /\ warpIdAxis(w) = 0 THEN own
                   ELSE maskedAcc(w, l, chunk) \o own
           temp == [c \in {chunkId(n) : n \in Registers} |-> [l \in Lanes |-> Total(l, c)]]
           lastElement(l, c) ==
               IF laneIdAxis(l) = 0 THEN maskedAcc(w, l, c)
               ELSE shuffleUp(temp[c], l, code.stride)
       IN  Updated(w, LAMBDA l, n :
               Chunk(w, l, n, temp[chunkId(n)], lastElement(l, chunkId(n))))
    /\ UNCHANGED << kernel, code, shared >>

(* With one warp along the axis the last lane hands its total on to the    *)
(* next block                                                              *)
laneIdLast(l) ==
    linearize([LaneId(l) EXCEPT ![kernel.axis] = code.threads - 1],
              getThreadsPerWarp(kernel.e), getOrder(kernel.e))

RECURSIVE TotalOneWarp(_, _, _), accumulator(_, _, _)
TotalOneWarp(w, l, chunk) ==
    LET own == held[w][l][LastRegister(chunk)]
    IN  IF code.block[chunk] = 0 THEN own ELSE accumulator(w, l, chunk) \o own
accumulator(w, l, chunk) ==
    IF code.block[chunk] = 0 THEN held[w][l][LastRegister(chunk)]
    ELSE TotalOneWarp(w, IF code.threads > 1 THEN laneIdLast(l) ELSE l,
                      Max(Preceding(chunk)))

AddPartialReduceOneWarp(w) ==
    /\ kernel.op = "scan" /\ code.warps = 1
    /\ Step(w, 2, Done)
    /\ LET totals == [c \in {chunkId(n) : n \in Registers} |->
                        [l \in Lanes |-> TotalOneWarp(w, l, c)]]
           lastElement(l, c) ==
               IF code.threads = 1 THEN totals[c][l]
               ELSE IF laneIdAxis(l) = 0 THEN accumulator(w, l, c)
               ELSE shuffleUp(totals[c], l, code.stride)
       IN  Updated(w, LAMBDA l, n :
               Chunk(w, l, n, totals[chunkId(n)], lastElement(l, chunkId(n))))
    /\ UNCHANGED << kernel, code, shared >>

ScanNext ==
    \E w \in Warps :
        \/ scanThreadContiguousElements(w)
        \/ warpScan(w)
        \/ storeWarpAccumulator(w)
        \/ AddPartialReduce(w)
        \/ AddPartialReduceOneWarp(w)

-----------------------------------------------------------------------------

(* the elements of its line up to a position, in the order of the scan *)
Prefix(p) ==
    LET at == p[kernel.axis]
        n == kernel.shape[kernel.axis]
    IN  IF kernel.reverse
        THEN [i \in 1..(n - at) |-> [p EXCEPT ![kernel.axis] = n - i]]
        ELSE [i \in 1..(at + 1) |-> [p EXCEPT ![kernel.axis] = i - 1]]

(* Every element ends with all that are before it on its line, in order.   *)
(* A lane that only repeats the elements of others need not.               *)
ScanExact ==
    kernel.op = "scan" =>
        \A w \in {v \in Warps : pc[v] = Done}, l \in Lanes :
            redundantDataMask(kernel.e, kernel.shape, Thread(w, l)) =>
                held[w][l] = [n \in Registers |-> Prefix(SrcIndices(w, l)[n])]
=============================================================================
