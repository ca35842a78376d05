----------------------------- MODULE MCLowering -----------------------------
(* One kernel at a time, on warps of four lanes for the blocked layouts and *)
(* on the warps of the hardware for those of the matrix units.              *)
EXTENDS StoreLowering, ReduceLowering, ScanLowering, ConvertLowering, AccessLowering

(***************************************************************************)
(* Programs that load and store as kernels do: a block of a vector, a tile *)
(* of a matrix, and a loop over tiles, with their offsets and masks.       *)
(***************************************************************************)
NoHint == [h \in {} |-> 0]
Op(op, in, shape, attr) == [op |-> op, in |-> in, shape |-> shape, attr |-> attr, hint |-> NoHint]
Arg(value, div) == [Op("arg", <<>>, <<>>, value) EXCEPT !.hint = [div |-> << div >>]]
Splatted(n, shape) == Op("splat", << n >>, shape, 0)

(* an operation with a constant, on the last value of a program *)
With(p, op, c) ==
    LET shape == p[Len(p)].shape
    IN  p \o << Op("constant", <<>>, shape, c), Op(op, << Len(p), Len(p) + 1 >>, shape, 0) >>

RECURSIVE Through(_, _)
Through(p, steps) ==
    IF steps = <<>> THEN p ELSE Through(With(p, Head(steps)[1], Head(steps)[2]), Tail(steps))

(* A block of a vector: the offsets pid * 16 + 0..15, what is done to them *)
(* and the mask that compares them with the length.                        *)
Block(pid, n, div, steps, compare) ==
    LET s == << 16 >>
        offsets == << Arg(80, 16), Arg(n, div), Arg(pid, 1), Op("constant", <<>>, <<>>, 16),
                      Op("mul", << 3, 4 >>, <<>>, 0), Splatted(5, s), Op("range", <<>>, s, << 0, 16 >>),
                      Op("add", << 6, 7 >>, s, 0) >>
        used == Through(offsets, steps)
        m == Len(used)
    IN  used \o << Splatted(2, s),
                   IF compare \in {"gt", "le"} THEN Op(compare, << m + 1, 8 >>, s, 0)
                   ELSE Op(compare, << 8, m + 1 >>, s, 0),
                   Splatted(1, s), Op("addptr", << m + 3, m >>, s, 4),
                   Op("load", << m + 4, m + 2 >>, s, 0), Op("store", << m + 4, m + 2 >>, s, 0) >>

(* Two operands are given as they come: max and min, which the analysis    *)
(* gets wrong for contiguous ones, only of constant tensors.               *)
Steps == {<<>>} \cup {<< << op, c >> >> : op \in {"add", "mul", "div", "rem"}, c \in {1, 4, 6, 8}}
               \cup {<< << op, 2 >> >> : op \in {"shl", "shr"}}
               \cup {<< << "rem", 8 >>, << "add", 4 >> >>, << << "div", 4 >>, << "mul", 4 >> >>,
                     << << "shl", 0 >>, << "shr", 0 >> >>, << << "div", 8 >>, << "max", 1 >> >>}

Row(rank) == [d \in 1..rank |-> 1]
Blocked1D(size) ==
    [kind |-> "blocked", size |-> << size >>, threads |-> << 4 >>, warps |-> << 1 >>, order |-> << 1 >>,
     cta |-> [ctas |-> Row(1), split |-> Row(1), order |-> << 1 >>]]
Blocked2D(size, order) ==
    [kind |-> "blocked", size |-> size, threads |-> << 2, 2 >>, warps |-> << 2, 1 >>, order |-> order,
     cta |-> [ctas |-> Row(2), split |-> Row(2), order |-> << 2, 1 >>]]

Access(e, shape, program, from, trips) ==
    [op |-> "access", target |-> "nvidia", e |-> e, shape |-> shape,
     program |-> program, from |-> from, trips |-> trips, bytes |-> 4]

Lengths == {<< 16, 16 >>, << 30, 2 >>, << 13, 1 >>}
BlockAccesses ==
    {Access(Blocked1D(4), << 16 >>, Block(1, n[1], n[2], steps, compare), 1, 1) :
        n \in Lengths, steps \in Steps, compare \in {"lt", "gt"}}
    \cup {Access(Blocked1D(s), << 16 >>, Block(1, n[1], n[2], <<>>, compare), 1, 1) :
        s \in {1, 2, 8}, n \in Lengths, compare \in {"lt", "ge", "gt", "le", "eq"}}

(* A tile of a matrix, rows by the stride and columns by one, of which a   *)
(* loop takes one after another, along the columns or along the rows; the  *)
(* mask compares the columns with what the tiles before have left.         *)
Tiles(stride, div, limit, step) ==
    LET s == << 4, 8 >> r == << 4, 1 >> c == << 1, 8 >>
    IN  << Arg(80, 16), Arg(stride, div), Arg(limit, div),
           Op("range", <<>>, << 4 >>, << 0, 4 >>), Op("expand", << 4 >>, r, 2),
           Splatted(2, r), Op("mul", << 5, 6 >>, r, 0),
           Op("range", <<>>, << 8 >>, << 0, 8 >>), Op("expand", << 8 >>, c, 1),
           Op("broadcast", << 7 >>, s, r), Op("broadcast", << 9 >>, s, c),
           Op("add", << 10, 11 >>, s, 0), Splatted(1, s), Op("addptr", << 13, 12 >>, s, 4),
           Op("constant", <<>>, <<>>, 0), Op("constant", <<>>, <<>>, 8),
           Splatted(IF step = "stride" THEN 2 ELSE 16, s),
           (* the loop *)
           Op("carried", << 14, 26 >>, s, 4), Op("iv", << 15, 16 >>, <<>>, 0),
           Op("sub", << 3, 19 >>, <<>>, 0), Splatted(20, c), Op("lt", << 9, 21 >>, c, 0),
           Op("broadcast", << 22 >>, s, c), Op("load", << 18, 23 >>, s, 0),
           Op("store", << 18, 23 >>, s, 0), Op("addptr", << 18, 17 >>, s, 4) >>

Matrices == {Access(Blocked2D(size, order), << 4, 8 >>, Tiles(t[1], t[2], t[3], step), 18, 2) :
    size \in {<< 1, 4 >>, << 2, 2 >>}, order \in {<< 2, 1 >>, << 1, 2 >>},
    t \in {<< 16, 16, 16 >>, << 12, 4, 12 >>, << 9, 1, 11 >>}, step \in {"columns", "stride"}}

(* Elements of rows by an index that is loaded, a run of lanes the same row; *)
(* and elements of one of two vectors, as a condition says.                *)
Gather(mul, run) ==
    LET s == << 16 >>
    IN  << Arg(80, 16), Op("range", <<>>, s, << 0, 16 >>), Op("constant", <<>>, s, run),
           Op("div", << 2, 3 >>, s, 0), Splatted(1, s), Op("addptr", << 5, 4 >>, s, 4),
           Op("load", << 6 >>, s, 0), Op("constant", <<>>, s, mul), Op("mul", << 7, 8 >>, s, 0),
           Op("rem", << 2, 3 >>, s, 0), Op("add", << 9, IF run = 8 THEN 10 ELSE 2 >>, s, 0), Op("addptr", << 5, 11 >>, s, 4),
           Op("load", << 12 >>, s, 0) >>

Either(limit, div) ==
    LET s == << 16 >>
    IN  << Arg(80, 16), Arg(464, div), Arg(limit, div), Op("range", <<>>, s, << 0, 16 >>),
           Splatted(3, s), Op("lt", << 4, 5 >>, s, 0), Splatted(1, s), Op("addptr", << 7, 4 >>, s, 4),
           Splatted(2, s), Op("addptr", << 9, 4 >>, s, 4), Op("select", << 6, 8, 10 >>, s, 4),
           Op("load", << 11 >>, s, 0), Op("store", << 11, 6 >>, s, 0) >>

Others == {Access(Blocked1D(4), << 16 >>, p, 1, 1) :
    p \in {Gather(8, 8), Gather(2, 8), Gather(3, 8), Gather(4, 4), Either(4, 4), Either(2, 2), Either(8, 8), Either(5, 1)}}

Programs == BlockAccesses \cup Matrices \cup Others

(***************************************************************************)
(* The kernels of the other lowerings, and the layouts they run on.        *)
(***************************************************************************)
Cta(ctas, split, order) == [ctas |-> ctas, split |-> split, order |-> order]
OneCta(rank) == Cta([d \in 1..rank |-> 1], [d \in 1..rank |-> 1], Reverse(Dims(rank)))

Blocked(size, threads, warps, order) ==
    [kind |-> "blocked", size |-> size, threads |-> threads, warps |-> warps,
     order |-> order, cta |-> OneCta(Len(size))]
Ampere(warps) == [kind |-> "ampere", warps |-> warps, instr |-> <<16, 8>>, cta |-> OneCta(Len(warps))]
Hopper(warps, n) == [kind |-> "hopper", warps |-> warps, instr |-> <<16, n>>, cta |-> OneCta(2)]
Volta(warps, a, b) == [kind |-> "volta", warps |-> warps, packA |-> a, packB |-> b, cta |-> OneCta(2)]
Mfma(warps, dim, t) == [kind |-> "mfma", warps |-> warps, mDim |-> dim, nDim |-> dim,
                        transposed |-> t, cta |-> OneCta(Len(warps))]
Wmma(warps) == [kind |-> "wmma", warps |-> warps, cta |-> OneCta(Len(warps))]
Slice(dim, parent) == [kind |-> "slice", dim |-> dim, parent |-> parent]

Store(e, shape) == [op |-> "store", target |-> "nvidia", e |-> e, shape |-> shape]
Reduce(e, shape, axis) ==
    [op |-> "reduce", target |-> "nvidia", e |-> e, shape |-> shape, axis |-> axis]
Scan(e, shape, axis, reverse) ==
    [op |-> "scan", target |-> "nvidia", e |-> e, shape |-> shape, axis |-> axis, reverse |-> reverse]
Convert(e, dst, shape) ==
    [op |-> "convert", target |-> "nvidia", e |-> e, dst |-> dst, shape |-> shape]
Stage(e, dst, shape, vec, perPhase, maxPhase, order) ==
    [op |-> "stage", target |-> "nvidia", e |-> e, dst |-> dst, shape |-> shape,
     swizzle |-> [vec |-> vec, perPhase |-> perPhase, maxPhase |-> maxPhase, order |-> order]]
OnAmd(kernels) == {[k EXCEPT !.target = "amd"] : k \in kernels}

Orders == {<<1, 2>>, <<2, 1>>}
Blocked1 == {Blocked(<<s>>, <<4>>, <<w>>, <<1>>) : s \in {1, 2}, w \in {1, 2, 4}}
Blocked2 == {Blocked(s, t, w, o) :
    s \in {<<1, 1>>, <<1, 2>>, <<2, 1>>, <<2, 2>>}, t \in {<<1, 4>>, <<2, 2>>, <<4, 1>>},
    w \in {<<1, 2>>, <<2, 1>>}, o \in Orders}
Few2 == {e \in Blocked2 : e.size = <<1, 2>> /\ e.threads = <<2, 2>>}
          \cup {Blocked(<<2, 2>>, <<2, 2>>, <<2, 2>>, o) : o \in Orders}
Slices == {Slice(d, e) : d \in {1, 2}, e \in Few2}

(* clusters of two CTAs, that share the tensor or repeat it *)
Clusters == {[Blocked(<<1, 2>>, <<2, 2>>, <<1, 2>>, o) EXCEPT !.cta = Cta(<<2, 1>>, split, <<2, 1>>)] :
    o \in Orders, split \in {<<1, 1>>, <<2, 1>>}}

Stores ==
    {Store(e, s) : e \in Blocked1, s \in {<<1>>, <<2>>, <<8>>, <<16>>}}
    \cup {Store(e, s) : e \in Blocked2, s \in {<<1, 8>>, <<4, 4>>}}
    \cup {Store(e, s) : e \in Slices, s \in {<<2>>, <<8>>}}
    \cup {Store(e, s) : e \in Clusters, s \in {<<1, 8>>, <<4, 8>>}}
    \cup {Store(Ampere(<<1, 2>>), <<16, 16>>), Store(Hopper(<<2, 1>>, 8), <<32, 8>>),
          Store(Volta(<<1, 1>>, TRUE, FALSE), <<16, 32>>)}
    \cup OnAmd({Store(Mfma(<<1, 2>>, 16, TRUE), <<16, 32>>), Store(Wmma(<<2, 1>>), <<32, 16>>)})

Reduces ==
    {Reduce(e, s, 1) : e \in Blocked1, s \in {<<1>>, <<2>>, <<8>>, <<16>>}}
    \cup {Reduce(e, s, a) : e \in Few2, s \in {<<2, 8>>, <<8, 4>>}, a \in {1, 2}}
    \cup {Reduce(e, s, 1) : e \in Slices, s \in {<<2>>, <<8>>}}
    \cup {Reduce(Ampere(<<1, 2>>), <<16, 16>>, 2)}
    \cup OnAmd({Reduce(Wmma(<<2, 1>>), <<32, 16>>, 1)})

(* Where the registers of a thread are less than a line, what is beyond    *)
(* this condition is wrong: a lane that repeats another, in a reverse scan, *)
(* and the earlier registers of a thread that is alone on its line.        *)
ScansRight(k) ==
    /\ k.e.size[k.axis] <= k.shape[k.axis]
    /\ k.reverse => k.e.size[k.axis] * k.e.threads[k.axis] <= k.shape[k.axis]
    /\ \/ getAxisNumThreads(k) > 1 \/ getAxisNumWarps(k) > 1
       \/ getAxisNumElementsPerThread(k) = 1 \/ getAxisNumBlocks(k) = 1

Scans == {k \in
    {Scan(e, s, 1, r) : e \in Blocked1, s \in {<<1>>, <<2>>, <<8>>, <<16>>}, r \in BOOLEAN}
    \cup {Scan(e, s, a, r) : e \in Blocked2, s \in {<<2, 8>>, <<4, 4>>}, a \in {1, 2}, r \in BOOLEAN} :
    ScansRight(k)}

Line2 == Blocked(<<2>>, <<4>>, <<2>>, <<1>>)
Converts1 == {Convert(e, Line2, s) : e \in Slices, s \in {<<1>>, <<4>>, <<16>>}}
    \cup {Convert(Line2, e, s) : e \in Slices, s \in {<<8>>}}
Conversions ==
    {k \in Converts1 : NumWarps(k.e) = NumWarps(k.dst)}
    \cup {Convert(Blocked(<<1, 2>>, <<2, 2>>, <<2, 1>>, <<2, 1>>), e, s) :
            e \in Blocked2, s \in {<<2, 8>>, <<8, 8>>}}
    \cup {Convert(Ampere(<<2, 1>>), Blocked(<<1, 4>>, <<4, 8>>, <<2, 1>>, o), <<32, 16>>) : o \in Orders}
    \cup {Convert(Blocked(<<4, 2>>, <<8, 4>>, <<1, 2>>, o), Ampere(<<2, 1>>), <<32, 16>>) : o \in Orders}
    \cup OnAmd({Convert(Blocked(<<1, 4>>, <<4, 8>>, <<2, 1>>, <<2, 1>>), Wmma(<<1, 2>>), <<16, 32>>),
                Convert(Mfma(<<1, 2>>, 16, FALSE), Blocked(<<1, 2>>, <<8, 8>>, <<2, 1>>, <<2, 1>>), <<16, 32>>)})

Staged(e, dst, shape) ==
    {Stage(e, dst, shape, v, p, m, o) : v \in {1, 2}, p \in {1, 2}, m \in {1, 2}, o \in Orders}
Stages ==
    LET some == Staged(Blocked(<<1, 2>>, <<2, 2>>, <<2, 1>>, <<2, 1>>),
                       Blocked(<<2, 1>>, <<2, 2>>, <<1, 2>>, <<1, 2>>), <<4, 8>>)
    IN  some \cup OnAmd(some)

MCKernels == Stores \cup Reduces \cup Scans \cup Conversions \cup Stages \cup Programs

EmitCode(k) ==
    CASE k.op = "store" -> StoreCode(k)
      [] k.op = "reduce" -> ReduceCode(k)
      [] k.op = "scan" -> ScanCode(k)
      [] k.op = "access" -> AccessCode(k)
      [] OTHER -> ConvertCode(k)

Memory(k) ==
    CASE k.op = "store" -> Written(k)
      [] k.op = "reduce" -> ReduceScratch(k)
      [] k.op = "scan" -> ScanScratch(k)
      [] k.op = "access" -> NoMemory(k)
      [] OTHER -> ConvertScratch(k)

LoweringNext == StoreNext \/ ReduceNext \/ ScanNext \/ ConvertNext \/ AccessNext \/ Finished

LoweringSpec == SimtInit(EmitCode, Memory) /\ [][LoweringNext]_simtVars
=============================================================================
