---------------------------- MODULE StoreLowering ----------------------------
(***************************************************************************)
(* A store of a tensor: every thread computes which elements it holds, and *)
(* the threads the mask lets through add to each of theirs in the memory.  *)
(***************************************************************************)
EXTENDS SimtKernel

StoreCode(k) == [src |-> IndexCode(k.e, k.shape)]

Written(k) == [p \in Positions(k.shape) |-> 0]

Both(w) ==
    [l \in Lanes |->
        LET t == Thread(w, l)
        IN  << legacyIndices(code.src, kernel.e, kernel.shape, t),
               IF hasLinearLayout(kernel.e) THEN emitIndicesUsingLinearLayouts(code.src, t)
               ELSE << >> >>]

(* the additions commute, so the warps may as well go one after another *)
Turn(w) == \A v \in Warps :
    v[1] < w[1] \/ (v[1] = w[1] /\ v[2] < w[2]) => pc[v] = Done

ComputeIndices(w) ==
    /\ kernel.op = "store" /\ Turn(w)
    /\ Step(w, 0, 1)
    /\ held' = [held EXCEPT ![w] = Both(w)]
    /\ UNCHANGED << kernel, code, shared >>

(* emitIndices: NVIDIA's target takes the linear layout, where there is one *)
Taken == IF kernel.target = "nvidia" /\ hasLinearLayout(kernel.e) THEN 2 ELSE 1

StoreTensor(w) ==
    /\ kernel.op = "store"
    /\ Step(w, 1, Done)
    /\ LET writers == {l \in Lanes : redundantDataMask(kernel.e, kernel.shape, Thread(w, l))}
           Writes(l, p) == \E n \in DOMAIN held[w][l][Taken] : held[w][l][Taken][n] = p
       IN  shared' = [p \in DOMAIN shared |->
                        shared[p] + Cardinality({l \in writers : Writes(l, p)})]
    /\ UNCHANGED << kernel, code, held >>

StoreNext == \E w \in Warps : ComputeIndices(w) \/ StoreTensor(w)

-----------------------------------------------------------------------------

(* Whichever way the indices are emitted, between them the threads hold    *)
(* the whole tensor and nothing outside of it, in as many registers as the *)
(* type converter gives each of them (getTotalElemsPerThread): the base    *)
(* plus offset of the legacy emitter and the linear layout name the same   *)
(* element for every register of every thread, in the same order.  "For    *)
(* now we allow both paths so we can test that they produce the same       *)
(* results" (emitIndices, Utility.h:1273).                                 *)
HoldsTheTensor ==
    kernel.op = "store" =>
        /\ hasLinearLayout(kernel.e) =>
              \A w \in Warps, l \in Lanes :
                  pc[w] = 1 => held[w][l][1] = held[w][l][2]
        /\ Ended =>
              Positions(kernel.shape) =
                 UNION {ToSet(held[w][l][1]) : w \in Warps, l \in Lanes}
        /\ Ended =>
              \A w \in Warps, l \in Lanes :
                 Len(held[w][l][1]) = getTotalElemsPerThread(kernel.e, kernel.shape)

(* redundantDataMask lets one thread through for each element, although    *)
(* lanes, warps and CTAs may repeat it: an atomic addition would count     *)
(* twice.  Where a dimension is split over CTAs and is shorter than the    *)
(* split, or a part shorter than the tile of the threads, it says only     *)
(* that none is lost.  Of slices it says nothing.                          *)
MaskedOnce ==
    kernel.op = "store" /\ Ended /\ kernel.e.kind # "slice" =>
        LET tile == getShapePerCTATile(kernel.e, kernel.shape)
            perCTA == getShapePerCTA(kernel.e, kernel.shape)
            split == getCTALayout(kernel.e).split
            Fits == \A d \in DOMAIN tile :
                split[d] = 1 \/ (split[d] <= kernel.shape[d] /\ tile[d] <= perCTA[d])
        IN  \A p \in DOMAIN shared : shared[p] >= 1 /\ (Fits => shared[p] = 1)
=============================================================================
