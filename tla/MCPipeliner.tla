----------------------------- MODULE MCPipeliner -----------------------------
(***************************************************************************)
(* Loops for the pipeliner, written as they come to it.                    *)
(***************************************************************************)
EXTENDS Pipeliner, TLC

Row(op, args) == [op |-> op, args |-> args, inner |-> {}, marks |-> {}]
Marked(row, marks) == [row EXCEPT !.marks = marks]
Inside(row, refs) == [row EXCEPT !.inner = refs]

Loop(rows) ==
    LET Of(o) == rows[CHOOSE i \in DOMAIN rows : rows[i].op = o]
        ops == [i \in DOMAIN rows |-> rows[i].op]
    IN  [ops |-> ops,
         args |-> [o \in ToSet(ops) |-> Of(o).args],
         inner |-> [o \in ToSet(ops) |-> Of(o).inner],
         marks |-> [o \in ToSet(ops) |-> Of(o).marks],
         attr |-> FALSE, used |-> {}, const |-> FALSE]

Load(t) == <<"load", t>>
Tma(t) == <<"tma", t>>
Alloc(t) == <<"alloc", t>>
Arith(t) == <<"arith", t>>
TheDot == <<"dot", "d">>

Pointer(t) == Row(Arith(t), <<Prev(Arith(t))>>)
LoadAt(t, p) == Marked(Row(Load(t), <<Prev(Arith(p))>>), {"dotenc"})
Convert(t, of) == Row(Arith(t), <<Ref(of)>>)
DotOf(a, b) == Row(TheDot, <<Ref(a), Ref(b), Prev(TheDot)>>)

\* A matrix product with pointers that advance (test/TritonGPU/loop-pipeline.mlir).
Matmul == [Loop(<<LoadAt("a", "p"), Convert("ca", Load("a")),
                  LoadAt("b", "q"), Convert("cb", Load("b")),
                  DotOf(Arith("ca"), Arith("cb")), Pointer("p"), Pointer("q")>>)
           EXCEPT !.used = {TheDot}]

\* A product of rows named by an index that is loaded first.
Indirect == [Loop(<<Row(Load("i"), <<Prev(Arith("p"))>>), Row(Arith("at"), <<Ref(Load("i"))>>),
                    Marked(Row(Load("a"), <<Ref(Arith("at"))>>), {"dotenc"}), Convert("ca", Load("a")),
                    Row(TheDot, <<Ref(Arith("ca")), Prev(TheDot)>>), Pointer("p")>>)
             EXCEPT !.used = {TheDot}]

\* Hopper dots read the buffers in place; accumulate onto themselves.
Hopper == [Loop(<<Row(Load("a"), <<Prev(Arith("p"))>>),
                  Marked(Row(Alloc("a"), <<Ref(Load("a"))>>), {"leading"}),
                  Marked(Row(TheDot, <<Ref(Alloc("a")), Prev(TheDot)>>), {"hopper"}), Pointer("p")>>)
           EXCEPT !.used = {TheDot}]

\* The same with bulk copies, two to a barrier.
HopperTma == [Loop(<<Row(Tma("a"), <<Prev(Arith("p"))>>), Marked(Row(Alloc("a"), <<Ref(Tma("a"))>>), {"leading"}),
                     Row(Tma("b"), <<Prev(Arith("p"))>>), Marked(Row(Alloc("b"), <<Ref(Tma("b"))>>), {"leading"}),
                     Marked(DotOf(Alloc("a"), Alloc("b")), {"hopper"}), Pointer("p")>>)
              EXCEPT !.used = {TheDot}]

\* An `if` at the head gives the row to load, one at the end stores the sum; the pointer is
\* used after the loop.
Tiles == [Loop(<<Row(<<"if", "head">>, <<Prev(Arith("p"))>>),
                 Marked(Row(Load("a"), <<Ref(<<"if", "head">>)>>), {"dotenc"}), Convert("ca", Load("a")),
                 Row(TheDot, <<Ref(Arith("ca")), Prev(TheDot)>>), Pointer("p"),
                 Marked(Inside(Row(<<"if", "end">>, <<>>), {Ref(TheDot)}), {"effect"})>>)
          EXCEPT !.used = {TheDot, Arith("p")}]

\* Two dots, the second on what the first gives.
Attention == [Loop(<<Row(Load("k"), <<Prev(Arith("p"))>>), Marked(Row(Alloc("k"), <<Ref(Load("k"))>>), {"leading"}),
                     Marked(Row(<<"dot", "s">>, <<Ref(Alloc("k"))>>), {"hopper"}),
                     Convert("softmax", <<"dot", "s">>),
                     Row(Load("v"), <<Prev(Arith("p"))>>), Marked(Row(Alloc("v"), <<Ref(Load("v"))>>), {"leading"}),
                     Marked(DotOf(Arith("softmax"), Alloc("v")), {"hopper"}), Pointer("p")>>)
              EXCEPT !.used = {TheDot}]

\* A sum that is scaled by an `if` in between, or kept (test/TritonGPU/loop-pipeline-hopper.mlir).
Chunks == [Loop(<<Row(Load("a"), <<Prev(Arith("p"))>>), Marked(Row(Alloc("a"), <<Ref(Load("a"))>>), {"leading"}),
                  Marked(Row(TheDot, <<Ref(Alloc("a")), Prev(<<"if", "keep">>)>>), {"hopper"}),
                  Marked(Inside(Row(<<"if", "keep">>, <<>>), {Ref(TheDot)}), {"passes", "works"}), Pointer("p")>>)
           EXCEPT !.used = {<<"if", "keep">>}]
\* The same with nothing done to the sum that is kept.
Restarts == [Chunks EXCEPT !.marks[<<"if", "keep">>] = {"passes"}]

\* No dot, and a num_stages attribute; each element is stored as it was loaded.
Stream == [Loop(<<Row(Load("x"), <<Prev(Arith("p"))>>), Convert("y", Load("x")),
                  Row(<<"store", "y">>, <<Ref(Arith("y")), Prev(Arith("p"))>>), Pointer("p")>>)
           EXCEPT !.attr = TRUE]

\* An index too narrow to copy asynchronously, and rows it names that are also stored.
Narrow == [Loop(<<Marked(Row(Load("i"), <<Prev(Arith("p"))>>), {"narrow"}),
                  Marked(Row(Load("a"), <<Ref(Load("i"))>>), {"dotenc"}), Convert("ca", Load("a")),
                  Row(TheDot, <<Ref(Arith("ca")), Prev(TheDot)>>),
                  Row(<<"store", "a">>, <<Ref(Load("a"))>>), Pointer("p")>>)
           EXCEPT !.used = {TheDot}]

\* Nothing to pipeline.
Plain == Loop(<<Row(Arith("x"), <<Prev(Arith("x"))>>), Row(<<"store", "x">>, <<Ref(Arith("x"))>>)>>)

LoopSet == [matmul |-> Matmul, indirect |-> Indirect, hopper |-> Hopper, hopperTma |-> HopperTma,
            tiles |-> Tiles, attention |-> Attention, chunks |-> Chunks, restarts |-> Restarts, stream |-> Stream,
            narrow |-> Narrow, plain |-> Plain]
=============================================================================
