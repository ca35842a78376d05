----------------------------- MODULE SimtKernel -----------------------------
(***************************************************************************)
(* A kernel of one tensor operation, as it is lowered for the warps of a   *)
(* cluster.  The lanes of a warp go together; the warps in any order, but  *)
(* for the barriers.  A kernel is a record of                              *)
(*   op       "store", "reduce", "scan", "convert" or "stage"              *)
(*   target   "nvidia" or "amd"                                            *)
(*   e, shape the encoding and the shape of its operand                    *)
(*   dst      the encoding of its result                                   *)
(* and of what the operation adds to them: axis, reverse, swizzle.         *)
(***************************************************************************)
EXTENDS IndexEmission

CONSTANT Kernels

VARIABLES
    kernel,   \* the kernel that runs
    code,     \* the tables its code was emitted from
    pc,       \* for each warp, the steps it has taken
    held,     \* for each warp, what is in the registers of its lanes
    shared    \* the memory the warps share: an address to its value

simtVars == << kernel, code, pc, held, shared >>

RECURSIVE Distributed(_)
Distributed(e) == IF e.kind = "slice" THEN Distributed(e.parent) ELSE e

NumWarps(e) == Product(Distributed(e).warps)
NumCtas(e) == Product(Distributed(e).cta.ctas)

(* the warps of the kernel, each with the CTA it is of *)
Warps == (0..(NumCtas(kernel.e) - 1)) \X (0..(NumWarps(kernel.e) - 1))
WarpSize == getWarpSize(kernel.e)
Lanes == 0..(WarpSize - 1)

Thread(w, lane) == [cta |-> w[1], warp |-> w[2], lane |-> lane]

SrcIndices(w, lane) ==
    emitIndices(kernel.target, code.src, kernel.e, kernel.shape, Thread(w, lane))

SimtInit(EmitCode(_), Memory(_)) ==
    /\ kernel \in Kernels
    /\ code = EmitCode(kernel)
    /\ pc = [w \in Warps |-> 0]
    /\ held = [w \in Warps |-> << >>]
    /\ shared = Memory(kernel)

Step(w, from, to) == pc[w] = from /\ pc' = [pc EXCEPT ![w] = to]

(* the step of a warp that is through *)
Done == 99

(* every warp has come to a barrier *)
Barrier(step) == \A w \in Warps : pc[w] >= step

Ended == \A w \in Warps : pc[w] = Done
Finished == Ended /\ UNCHANGED simtVars

(* A set of pairs of an address and a value, written at once: two values   *)
(* for one address leave neither, and an address beyond what was allocated *)
(* spoils it all                                                           *)
Write(memory, stores, spoiled) ==
    LET Values(a) == {s[2] : s \in {t \in stores : t[1] = a}}
    IN  IF \E s \in stores : s[1] \notin DOMAIN memory
        THEN [a \in DOMAIN memory |-> spoiled]
        ELSE [a \in DOMAIN memory |->
                CASE Values(a) = {} -> memory[a]
                  [] Cardinality(Values(a)) = 1 -> CHOOSE v \in Values(a) : TRUE
                  [] OTHER -> spoiled]
=============================================================================
