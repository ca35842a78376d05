--------------------------- MODULE AccessLowering ---------------------------
(***************************************************************************)
(* The loads and stores of a program on tensors of one shape and layout,   *)
(* as NVIDIA's lowering makes vectors of them                              *)
(* (TritonNVIDIAGPUToLLVM/LoadStoreOpToLLVM.cpp): how many registers go    *)
(* with one instruction is decided from the axis information.  A program   *)
(* is straight, or one loop; its operations from number `from` on are the  *)
(* body, which is run `trips` times.  A kernel has op |-> "access", and    *)
(*   program, from, trips   the program                                    *)
(*   bytes                  the size of an element                         *)
(***************************************************************************)
EXTENDS SimtKernel, AxisInfo

IsAccess(o) == o.op \in {"load", "store"}
Accesses(k) == SelectSeq([n \in DOMAIN k.program |-> n],
                         LAMBDA n : IsAccess(k.program[n]) /\ k.program[n].shape = k.shape)

(* analysis   the axis information as far as it is computed                *)
(* turn       the turns of the loop begun, and values what they computed   *)
AccessCode(k) ==
    [src |-> IndexCode(k.e, k.shape), analysis |-> Unvisited(k.program), turn |-> 0, values |-> <<>>]

NoMemory(k) == [a \in {} |-> 0]

-----------------------------------------------------------------------------
(* What the program computes *)

Places(shape) == IF shape = <<>> THEN {<<>>} ELSE Positions(shape)

(* what is in memory at an address, for programs that index by it *)
Content(address) == (address \div 4 + address \div 32) % 8

ValueAt(o, x, p, turn) ==
    CASE o.op = "range" -> o.attr[1] + p[1]
      [] o.op \in {"constant", "arg"} -> o.attr
      [] o.op = "splat" -> x[1][<<>>]
      [] o.op \in Binary -> Apply2(o.op, x[1][p], x[2][p], o.attr)
      [] o.op = "select" -> IF x[1][IF <<>> \in DOMAIN x[1] THEN <<>> ELSE p] = 1 THEN x[2][p] ELSE x[3][p]
      [] o.op = "expand" -> x[1][RemoveAt(p, o.attr)]
      [] o.op = "broadcast" -> x[1][[d \in DOMAIN p |-> IF o.attr[d] = 1 THEN 0 ELSE p[d]]]
      [] o.op = "load" -> Content(x[1][p])
      [] o.op = "cast" -> x[1][p]
      [] o.op = "iv" -> x[1][<<>>] + (turn - 1) * x[2][<<>>]
      [] o.op = "carried" -> IF turn = 1 THEN x[1][p] ELSE x[2][p]
      [] OTHER -> 0

(* The values of a turn from those of the one before; operations in front  *)
(* of the loop keep theirs                                                 *)
RECURSIVE Compute(_, _, _, _, _)
Compute(program, from, turn, before, done) ==
    LET n == Len(done) + 1
        o == program[n]
        Operand(i) == IF o.in[i] < n THEN done[o.in[i]] ELSE before[o.in[i]]
    IN  IF n > Len(program) THEN done
        ELSE Compute(program, from, turn, before, Append(done,
               IF turn > 1 /\ n < from THEN before[n]
               ELSE LET x == [i \in {j \in DOMAIN o.in : turn > 1 \/ o.in[j] < n} |-> Operand(i)]
                    IN  [p \in Places(o.shape) |-> ValueAt(o, x, p, turn)]))

-----------------------------------------------------------------------------
(* The lowering *)

InfoOf(n) == code.analysis.info[n]
PtrOf(a) == kernel.program[a].in[1]
MaskOf(a) == Tail(kernel.program[a].in)

(* Mutant: the mask has no say in how long the vectors are. *)
VectorOfPointer(a) ==
    LET contiguity == getPtrContiguity(InfoOf(PtrOf(a)), kernel.bytes, kernel.e, kernel.shape)
    IN  Least(16 \div kernel.bytes, contiguity)

(* at most 128 bits, and as far as the mask is known to be constant *)
getVectorSize(a) ==
    LET contiguity == getPtrContiguity(InfoOf(PtrOf(a)), kernel.bytes, kernel.e, kernel.shape)
        vec == Least(16 \div kernel.bytes, contiguity)
    IN  IF MaskOf(a) = <<>> THEN vec
        ELSE Least(vec, getMaskAlignment(InfoOf(MaskOf(a)[1]), kernel.e))

(* The address a register is loaded from or stored to, the size of the     *)
(* instruction that does it and where that begins, and whether it does.    *)
Accessed(a, vec, positions, n) ==
    LET first == positions[n - ((n - 1) % vec)]
        start == code.values[PtrOf(a)][first]
    IN  [start |-> start, size |-> vec * kernel.bytes,
         address |-> start + ((n - 1) % vec) * kernel.bytes,
         on |-> MaskOf(a) = <<>> \/ code.values[MaskOf(a)[1]][first] = 1]

AccessedBy(a, vec, positions) == [n \in DOMAIN positions |-> Accessed(a, vec, positions, n)]

-----------------------------------------------------------------------------

InAccess == kernel.op = "access"
Analysed == code.analysis.work = <<>>

VisitOperation ==
    /\ InAccess /\ ~Analysed
    /\ code' = [code EXCEPT !.analysis = Visit(kernel.program, @)]
    /\ UNCHANGED << kernel, pc, held, shared >>

(* the warps may as well begin a turn together: they share no value *)
BeginTurn ==
    /\ InAccess /\ Analysed
    /\ code.turn < kernel.trips
    /\ \A w \in Warps : pc[w] = code.turn
    /\ code' = [code EXCEPT !.turn = @ + 1,
                  !.values = Compute(kernel.program, kernel.from, code.turn + 1, @, <<>>)]
    /\ UNCHANGED << kernel, pc, held, shared >>

AccessTurn(w) ==
    /\ InAccess
    /\ code.turn = pc[w] + 1
    /\ \A v \in Warps : v[1] < w[1] \/ (v[1] = w[1] /\ v[2] < w[2]) => pc[v] = code.turn
    /\ pc' = [pc EXCEPT ![w] = code.turn]
    /\ held' = [held EXCEPT ![w] =
         [l \in Lanes |->
            [a \in ToSet(Accesses(kernel)) |-> AccessedBy(a, getVectorSize(a), SrcIndices(w, l))]]]
    /\ UNCHANGED << kernel, code, shared >>

EndAccess ==
    /\ InAccess
    /\ code.turn = kernel.trips
    /\ \A w \in Warps : pc[w] = code.turn
    /\ pc' = [w \in Warps |-> Done]
    /\ UNCHANGED << kernel, code, held, shared >>

AccessNext == VisitOperation \/ BeginTurn \/ EndAccess \/ \E w \in Warps : AccessTurn(w)

-----------------------------------------------------------------------------

(* the first position of the run that p is in, along dimension d *)
RunStart(p, d, run) == [p EXCEPT ![d] = @ - (@ % run)]

(* the size of what one counts: a pointer moves by elements *)
Unit(o) == IF o.op \in {"addptr", "carried", "select"} THEN o.attr ELSE 1

(* What the analysis says of every value is true of it in every turn, as   *)
(* AxisInfo.h:40-95 defines it: runs of consecutive or of equal elements,  *)
(* and a divisor of the first of every run.                                *)
InfoHolds ==
    InAccess /\ code.turn > 0 =>
        \A n \in DOMAIN kernel.program :
            LET o == kernel.program[n]
                value == code.values[n]
                info == code.analysis.info[n]
            IN  o.op # "store" =>
                /\ \A v \in info.known, p \in DOMAIN value : value[p] = v
                /\ o.shape = <<>> => value[<<>>] % info.div[1] = 0
                /\ \A d \in DOMAIN o.shape, p \in DOMAIN value :
                      LET first == RunStart(p, d, info.contig[d])
                          same == RunStart(p, d, info.constancy[d])
                      IN  /\ value[p] = value[first] + (p[d] - first[d]) * Unit(o)
                          /\ value[first] % info.div[d] = 0
                          /\ value[p] = value[same]

(* Every register is loaded from, or stored to, the address its own        *)
(* pointer has, where its own mask says so; and every vector is aligned to *)
(* its size.                                                               *)
AccessesOwnElements ==
    InAccess /\ code.turn > 0 =>
        \A w \in Warps : pc[w] = code.turn =>
            \A l \in Lanes, a \in ToSet(Accesses(kernel)) :
                LET positions == SrcIndices(w, l)
                IN  \A n \in DOMAIN positions :
                      LET did == held[w][l][a][n]
                          p == positions[n]
                          on == MaskOf(a) = <<>> \/ code.values[MaskOf(a)[1]][p] = 1
                      IN  /\ did.on <=> on
                          /\ did.on => /\ did.address = code.values[PtrOf(a)][p]
                                       /\ did.start % did.size = 0
=============================================================================
