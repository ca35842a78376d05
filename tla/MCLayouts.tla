------------------------------ MODULE MCLayouts ------------------------------
(***************************************************************************)
(* Functions for the pass that removes layout conversions, as the passes   *)
(* before it leave them: one layout for everything, conversions around the *)
(* memory accesses (coalescing) and around the dots (tensor cores).        *)
(***************************************************************************)
EXTENDS LayoutPasses

Blocked(sizes, order) == <<"blocked", [d \in DOMAIN sizes |-> <<64, sizes[d], 1, 1>>], order>>
B == Blocked(<<1, 4>>, <<2, 1>>)
C == Blocked(<<4, 1>>, <<1, 2>>)
D == Blocked(<<2, 2>>, <<2, 1>>)
Row == Blocked(<<4>>, <<1>>)
\* two tensor cores of the second version, one with all warps along the rows; two of the third
M == <<"mma", 2, 2, 1>>
M1 == <<"mma", 2, 1, 1>>
H == <<"mma", 3, 1, 1>>
N == <<"mma", 3, 1, 2>>
Elems(e) == IF e = C THEN 8 ELSE 4

R(n)    == <<n, 1>>
A(b, k) == <<b, k>>
Layouts == {B, C}
Costs   == {"cheap", "expensive"}

Op(kind, attr, args, types) == NewOp(kind, attr, args, types)
Region(kind, args, types, regs) == [NewOp(kind, <<>>, args, types) EXCEPT !.regs = regs]
Body(types, ops) == [types |-> types, ops |-> ops]
\* the function's body is block 0, and those inside it are numbered from 101
Function(ops, bodies) ==
  [ctas |-> 1, fast |-> {2},
   op |-> ops,
   block |-> [b \in {Top} \cup 101 .. (99 + Len(bodies)) |-> IF b = Top THEN bodies[1] ELSE bodies[b - 99]],
   next |-> 201]
TopOf(ops) == Body(<<Scalar, Scalar>>, ops)
Straight(ops) == Function(ops, <<TopOf([i \in DOMAIN ops |-> i])>>)

\* y[i] = exp(x[i]), with the accesses in the layouts l and s
Copy(l, cost, s) == Straight(<<
  Op("range", <<>>, <<>>, <<Slice(2, B)>>),
  Op("expand", <<2>>, <<R(1)>>, <<B>>),
  Op("broadcast", <<>>, <<R(2)>>, <<B>>),
  Op("splat", <<>>, <<A(Top, 1)>>, <<B>>),
  Op("elt", <<"addptr">>, <<R(4), R(3)>>, <<B>>),
  ConvertOp(R(5), l),
  Op("load", <<"x", cost>>, <<R(6)>>, <<l>>),
  ConvertOp(R(7), B),
  Op("elt", <<"exp">>, <<R(8)>>, <<B>>),
  ConvertOp(R(9), s),
  ConvertOp(R(5), s),
  Op("store", <<"y", "expensive">>, <<R(11), R(10)>>, <<>>)>>)

\* A product accumulated in a loop, the accumulator in layout B outside the dot.
Matmul(l, s) == Function(<<
  Op("splat", <<>>, <<A(Top, 1)>>, <<B>>),
  Op("const", <<0>>, <<>>, <<B>>),
  Region("for", <<R(1), R(2)>>, <<B, B>>, <<101>>),
  ConvertOp(A(101, 1), l),
  Op("load", <<"x", "expensive">>, <<R(4)>>, <<l>>),
  ConvertOp(R(5), DotOperand(1, M)),
  ConvertOp(R(5), DotOperand(2, M)),
  ConvertOp(A(101, 2), M),
  Op("dot", <<"d">>, <<R(6), R(7), R(8)>>, <<M>>),
  ConvertOp(R(9), B),
  Op("const", <<1>>, <<>>, <<B>>),
  Op("elt", <<"addptr">>, <<A(101, 1), R(11)>>, <<B>>),
  Op("yield", <<>>, <<R(12), R(10)>>, <<>>),
  Op("elt", <<"relu">>, <<<<3, 2>>>>, <<B>>),
  ConvertOp(R(14), s),
  ConvertOp(R(1), s),
  Op("store", <<"y", "expensive">>, <<R(16), R(15)>>, <<>>)>>,
  <<TopOf(<<1, 2, 3, 14, 15, 16, 17>>),
    Body(<<B, B>>, <<4, 5, 6, 7, 8, 9, 10, 11, 12, 13>>)>>)

\* One of two values is stored, after a look at it.
Chosen(l, cost, s) == Function(<<
  Op("splat", <<>>, <<A(Top, 1)>>, <<B>>),
  ConvertOp(R(1), l),
  Op("load", <<"x", cost>>, <<R(2)>>, <<l>>),
  ConvertOp(R(3), B),
  Region("if", <<A(Top, 2)>>, <<B, B>>, <<101, 102>>),
  Op("elt", <<"neg">>, <<R(4)>>, <<B>>),
  Op("yield", <<>>, <<R(6), R(1)>>, <<>>),
  Op("const", <<3>>, <<>>, <<B>>),
  Op("yield", <<>>, <<R(8), R(4)>>, <<>>),
  Op("assert", <<"a">>, <<R(5)>>, <<>>),
  Op("reduce", <<1, "big">>, <<R(5)>>, <<Scalar>>),
  ConvertOp(R(5), s),
  Op("splat", <<>>, <<R(11)>>, <<s>>),
  Op("store", <<"y", "expensive">>, <<R(13), R(12)>>, <<>>)>>,
  <<TopOf(<<1, 2, 3, 4, 5, 10, 11, 12, 13, 14>>), Body(<<>>, <<6, 7>>), Body(<<>>, <<8, 9>>)>>)

\* A sum that goes on until it is large enough.
Until(l, s) == Function(<<
  Op("splat", <<>>, <<A(Top, 1)>>, <<B>>),
  Op("const", <<0>>, <<>>, <<B>>),
  Region("while", <<R(1), R(2)>>, <<B, B>>, <<101, 102>>),
  Op("reduce", <<1, "big">>, <<A(101, 2)>>, <<Scalar>>),
  Op("condition", <<>>, <<R(4), A(101, 1), A(101, 2)>>, <<>>),
  ConvertOp(A(102, 1), l),
  Op("load", <<"x", "expensive">>, <<R(6)>>, <<l>>),
  ConvertOp(R(7), B),
  Op("elt", <<"add">>, <<A(102, 2), R(8)>>, <<B>>),
  Op("yield", <<>>, <<A(102, 1), R(9)>>, <<>>),
  ConvertOp(<<3, 2>>, s),
  ConvertOp(R(1), s),
  Op("store", <<"y", "expensive">>, <<R(12), R(11)>>, <<>>)>>,
  <<TopOf(<<1, 2, 3, 11, 12, 13>>), Body(<<B, B>>, <<4, 5>>), Body(<<B, B>>, <<6, 7, 8, 9, 10>>)>>)

\* Two dots, with a row reduced between them; the row is small or not.
Attention(m, size, s) == Straight(<<
  Op("splat", <<>>, <<A(Top, 1)>>, <<B>>),
  Op("load", <<"x", "expensive">>, <<R(1)>>, <<B>>),
  ConvertOp(R(2), DotOperand(1, m)),
  ConvertOp(R(2), DotOperand(2, m)),
  Op("const", <<0>>, <<>>, <<m>>),
  Op("dot", <<"d1">>, <<R(3), R(4), R(5)>>, <<m>>),
  ConvertOp(R(6), B),
  Op("reduce", <<2, size>>, <<R(7)>>, <<Slice(2, B)>>),
  Op("expand", <<2>>, <<R(8)>>, <<B>>),
  Op("broadcast", <<>>, <<R(9)>>, <<B>>),
  Op("elt", <<"sub">>, <<R(7), R(10)>>, <<B>>),
  ConvertOp(R(11), DotOperand(1, m)),
  Op("dot", <<"d2">>, <<R(12), R(4), R(5)>>, <<m>>),
  ConvertOp(R(13), s),
  ConvertOp(R(1), s),
  Op("store", <<"y", "expensive">>, <<R(15), R(14)>>, <<>>)>>)

\* An operand loaded ahead of a loop that loads the other, transposed, and skips dots.
Flash(s) == Function(<<
  Op("splat", <<>>, <<A(Top, 1)>>, <<B>>),
  Op("load", <<"q", "expensive">>, <<R(1)>>, <<B>>),
  ConvertOp(R(2), DotOperand(1, M)),
  Op("splat", <<>>, <<A(Top, 2)>>, <<C>>),
  Op("const", <<0>>, <<>>, <<M>>),
  Region("for", <<R(5), R(4)>>, <<M, C>>, <<101>>),
  Op("load", <<"k", "expensive">>, <<A(101, 2)>>, <<C>>),
  Op("const", <<1>>, <<>>, <<C>>),
  Op("elt", <<"addptr">>, <<A(101, 2), R(8)>>, <<C>>),
  Op("trans", <<2, 1>>, <<R(7)>>, <<B>>),
  ConvertOp(R(10), DotOperand(2, M)),
  Region("if", <<A(Top, 2)>>, <<M>>, <<102, 103>>),
  Op("dot", <<"d">>, <<R(3), R(11), A(101, 1)>>, <<M>>),
  Op("yield", <<>>, <<R(13)>>, <<>>),
  Op("yield", <<>>, <<A(101, 1)>>, <<>>),
  Op("elt", <<"exp">>, <<R(12)>>, <<M>>),
  Op("yield", <<>>, <<R(16), R(9)>>, <<>>),
  ConvertOp(<<6, 1>>, s),
  ConvertOp(R(1), s),
  Op("store", <<"y", "expensive">>, <<R(19), R(18)>>, <<>>)>>,
  <<TopOf(<<1, 2, 3, 4, 5, 6, 18, 19, 20>>), Body(<<M, C>>, <<7, 8, 9, 10, 11, 12, 16, 17>>),
    Body(<<>>, <<13, 14>>), Body(<<>>, <<15>>)>>)

\* The second operand ahead of the first.
Backwards(s) == Straight(<<
  Op("splat", <<>>, <<A(Top, 1)>>, <<B>>),
  Op("load", <<"b", "expensive">>, <<R(1)>>, <<B>>),
  ConvertOp(R(2), DotOperand(2, M)),
  Op("splat", <<>>, <<A(Top, 2)>>, <<B>>),
  Op("load", <<"a", "expensive">>, <<R(4)>>, <<B>>),
  ConvertOp(R(5), DotOperand(1, M)),
  Op("const", <<0>>, <<>>, <<M>>),
  Op("dot", <<"d">>, <<R(6), R(3), R(7)>>, <<M>>),
  ConvertOp(R(8), s),
  ConvertOp(R(1), s),
  Op("store", <<"y", "expensive">>, <<R(10), R(9)>>, <<>>)>>)

\* An operand made ahead of a loop of what a dot gives, with buffers that are
\* given back before the loop uses it.
Held(s) == Function(<<
  Op("splat", <<>>, <<A(Top, 1)>>, <<B>>),
  Op("load", <<"x", "expensive">>, <<R(1)>>, <<B>>),
  ConvertOp(R(2), DotOperand(1, M1)),
  ConvertOp(R(2), DotOperand(2, M1)),
  Op("const", <<0>>, <<>>, <<M1>>),
  Op("dot", <<"d1">>, <<R(3), R(4), R(5)>>, <<M1>>),
  ConvertOp(R(6), DotOperand(1, M1)),
  Op("elt", <<"neg">>, <<R(2)>>, <<B>>),
  ConvertOp(R(8), DotOperand(2, M1)),
  Op("local_alloc", <<"m">>, <<R(2)>>, <<Buffer>>),
  Op("local_load", <<>>, <<R(10)>>, <<B>>),
  Op("local_dealloc", <<>>, <<R(10)>>, <<>>),
  Op("local_alloc", <<"n">>, <<>>, <<Buffer>>),
  Op("local_store", <<>>, <<R(8), R(13)>>, <<>>),
  Op("local_load", <<>>, <<R(13)>>, <<B>>),
  Op("local_dealloc", <<>>, <<R(13)>>, <<>>),
  Region("for", <<R(5)>>, <<M1>>, <<101>>),
  Op("dot", <<"d2">>, <<R(7), R(9), A(101, 1)>>, <<M1>>),
  Op("yield", <<>>, <<R(18)>>, <<>>),
  Op("elt", <<"add">>, <<R(11), R(15)>>, <<B>>),
  ConvertOp(R(17), B),
  Op("elt", <<"add">>, <<R(20), R(21)>>, <<B>>),
  ConvertOp(R(22), s),
  ConvertOp(R(1), s),
  Op("store", <<"y", "expensive">>, <<R(24), R(23)>>, <<>>)>>,
  <<TopOf([i \in 1 .. 23 |-> IF i < 18 THEN i ELSE i + 2]), Body(<<M1>>, <<18, 19>>)>>)

\* Operations that take or give any layout, and a buffer that is given back.
AnyLayout(l, attr, to) == Straight(<<
  Op("splat", <<>>, <<A(Top, 1)>>, <<l>>),
  Op("load", <<"x", "expensive">>, <<R(1)>>, <<l>>),
  ConvertOp(R(2), B),
  Op("reshape", <<attr>>, <<R(3)>>, <<B>>),
  ConvertOp(R(4), to),
  Op("histogram", <<>>, <<R(3)>>, <<B>>),
  ConvertOp(R(6), l),
  Op("local_alloc", <<"m">>, <<>>, <<Buffer>>),
  Op("local_store", <<>>, <<R(3), R(8)>>, <<>>),
  Op("local_load", <<>>, <<R(8)>>, <<B>>),
  ConvertOp(R(10), l),
  ConvertOp(R(5), l),
  Op("local_dealloc", <<>>, <<R(8)>>, <<>>),
  Op("elt", <<"add">>, <<R(7), R(11)>>, <<l>>),
  Op("store", <<"y", "expensive">>, <<R(1), R(14)>>, <<>>),
  Op("store", <<"w", "expensive">>, <<R(1), R(12)>>, <<>>)>>)

\* A dot whose accumulator is loaded, and an atomic on what it gives.
Accumulate(l, s) == Straight(<<
  Op("splat", <<>>, <<A(Top, 1)>>, <<l>>),
  Op("load", <<"x", "expensive">>, <<R(1)>>, <<l>>),
  ConvertOp(R(2), DotOperand(1, M)),
  ConvertOp(R(2), DotOperand(2, M)),
  ConvertOp(R(2), M),
  Op("dot", <<"d">>, <<R(3), R(4), R(5)>>, <<M>>),
  ConvertOp(R(6), l),
  Op("elt", <<"exp">>, <<R(7)>>, <<l>>),
  ConvertOp(R(8), s),
  Op("splat", <<>>, <<A(Top, 2)>>, <<s>>),
  Op("atomic", <<"r">>, <<R(10), R(9)>>, <<s>>),
  ConvertOp(R(11), B),
  Op("assert", <<"a">>, <<R(12)>>, <<>>)>>)

\* A row is loaded, widened and broadcast, and used together with a transposed block.
Widened(s, cost) == Straight(<<
  Op("splat", <<>>, <<A(Top, 1)>>, <<Slice(2, B)>>),
  Op("load", <<"x", "expensive">>, <<R(1)>>, <<Slice(2, B)>>),
  Op("ext", <<>>, <<R(2)>>, <<Slice(2, B)>>),
  Op("expand", <<2>>, <<R(3)>>, <<B>>),
  Op("broadcast", <<>>, <<R(4)>>, <<B>>),
  Op("splat", <<>>, <<A(Top, 2)>>, <<C>>),
  Op("load", <<"z", cost>>, <<R(6)>>, <<C>>),
  Op("trans", <<2, 1>>, <<R(7)>>, <<B>>),
  Op("scan", <<>>, <<R(8)>>, <<B>>),
  Op("ext", <<>>, <<R(9)>>, <<B>>),
  Op("elt", <<"add">>, <<R(5), R(10)>>, <<B>>),
  ConvertOp(R(11), s),
  Op("splat", <<>>, <<A(Top, 1)>>, <<s>>),
  Op("store", <<"y", "expensive">>, <<R(13), R(12)>>, <<>>)>>)

\* The same with the row in the layout of the dot (a function the pass has been
\* over already), and with a loaded block and an atomic besides.
Biased(size, s) == Straight(<<
  Op("splat", <<>>, <<A(Top, 1)>>, <<B>>),
  Op("load", <<"x", "expensive">>, <<R(1)>>, <<B>>),
  ConvertOp(R(2), DotOperand(1, M)),
  ConvertOp(R(2), DotOperand(2, M)),
  Op("const", <<0>>, <<>>, <<M>>),
  Op("dot", <<"d1">>, <<R(3), R(4), R(5)>>, <<M>>),
  Op("reduce", <<2, size>>, <<R(6)>>, <<Slice(2, M)>>),
  Op("expand", <<2>>, <<R(7)>>, <<M>>),
  Op("broadcast", <<>>, <<R(8)>>, <<M>>),
  Op("elt", <<"sub">>, <<R(6), R(9)>>, <<M>>),
  ConvertOp(R(10), B),
  Op("load", <<"z", "expensive">>, <<R(1)>>, <<B>>),
  Op("elt", <<"add">>, <<R(11), R(12)>>, <<B>>),
  ConvertOp(R(13), DotOperand(1, M)),
  Op("dot", <<"d2">>, <<R(14), R(4), R(5)>>, <<M>>),
  ConvertOp(R(13), s),
  Op("splat", <<>>, <<A(Top, 2)>>, <<s>>),
  Op("atomic", <<"r">>, <<R(17), R(16)>>, <<s>>),
  Op("assert", <<"a">>, <<R(18)>>, <<>>),
  ConvertOp(R(15), s),
  ConvertOp(R(1), s),
  Op("store", <<"y", "expensive">>, <<R(21), R(20)>>, <<>>)>>)

\* Dots with two shapes of the tensor core's instruction in a row, on shared memory.
TwoCores(s) == Straight(<<
  Op("splat", <<>>, <<A(Top, 1)>>, <<B>>),
  Op("load", <<"x", "expensive">>, <<R(1)>>, <<B>>),
  ConvertOp(R(2), C),
  Op("local_alloc", <<>>, <<R(3)>>, <<Buffer>>),
  Op("const", <<0>>, <<>>, <<H>>),
  Op("dot", <<"d1">>, <<R(4), R(4), R(5)>>, <<H>>),
  Op("reduce", <<2, "small">>, <<R(6)>>, <<Slice(2, H)>>),
  Op("assert", <<"a">>, <<R(7)>>, <<>>),
  ConvertOp(R(6), B),
  Op("elt", <<"exp">>, <<R(9)>>, <<B>>),
  ConvertOp(R(10), H),
  Op("dot", <<"d2">>, <<R(4), R(4), R(11)>>, <<H>>),
  Op("reduce", <<2, "small">>, <<R(12)>>, <<Slice(2, H)>>),
  Op("assert", <<"b">>, <<R(13)>>, <<>>),
  ConvertOp(R(12), N),
  Op("elt", <<"neg">>, <<R(15)>>, <<N>>),
  ConvertOp(R(16), H),
  Op("dot", <<"d3">>, <<R(4), R(4), R(17)>>, <<H>>),
  ConvertOp(R(18), B),
  Op("local_alloc", <<>>, <<R(19)>>, <<Buffer>>),
  ConvertOp(R(18), DotOperand(1, H)),
  Op("dot", <<"d4">>, <<R(21), R(20), R(5)>>, <<H>>),
  ConvertOp(R(22), s),
  ConvertOp(R(1), s),
  Op("store", <<"y", "expensive">>, <<R(24), R(23)>>, <<>>)>>)

\* Two loads in layouts of their own meet, in the accumulator of a dot.
Combined(s) == Straight(<<
  Op("splat", <<>>, <<A(Top, 1)>>, <<B>>),
  Op("load", <<"x", "expensive">>, <<R(1)>>, <<B>>),
  Op("splat", <<>>, <<A(Top, 2)>>, <<C>>),
  Op("load", <<"z", "expensive">>, <<R(3)>>, <<C>>),
  ConvertOp(R(4), B),
  Op("elt", <<"add">>, <<R(2), R(5)>>, <<B>>),
  Op("elt", <<"exp">>, <<R(6)>>, <<B>>),
  ConvertOp(R(7), M),
  ConvertOp(R(2), DotOperand(1, M)),
  ConvertOp(R(2), DotOperand(2, M)),
  Op("dot", <<"d">>, <<R(9), R(10), R(8)>>, <<M>>),
  ConvertOp(R(11), s),
  ConvertOp(R(1), s),
  Op("store", <<"y", "expensive">>, <<R(13), R(12)>>, <<>>)>>)

\* What a dot gives is transposed and scanned, and a row of a vector's layout added to it.
Transposed(s) == Straight(<<
  Op("splat", <<>>, <<A(Top, 1)>>, <<Row>>),
  Op("load", <<"w", "expensive">>, <<R(1)>>, <<Row>>),
  ConvertOp(R(2), Slice(2, B)),
  Op("expand", <<2>>, <<R(3)>>, <<B>>),
  Op("broadcast", <<>>, <<R(4)>>, <<B>>),
  Op("splat", <<>>, <<A(Top, 2)>>, <<B>>),
  Op("load", <<"x", "expensive">>, <<R(6)>>, <<B>>),
  ConvertOp(R(7), DotOperand(1, M)),
  ConvertOp(R(7), DotOperand(2, M)),
  Op("const", <<0>>, <<>>, <<M>>),
  Op("dot", <<"d1">>, <<R(8), R(9), R(10)>>, <<M>>),
  ConvertOp(R(11), C),
  Op("trans", <<2, 1>>, <<R(12)>>, <<B>>),
  Op("elt", <<"add">>, <<R(13), R(5)>>, <<B>>),
  ConvertOp(R(14), DotOperand(1, M)),
  ConvertOp(R(11), B),
  Op("scan", <<>>, <<R(16)>>, <<B>>),
  ConvertOp(R(17), M),
  Op("dot", <<"d2">>, <<R(15), R(9), R(18)>>, <<M>>),
  ConvertOp(R(19), s),
  ConvertOp(R(6), s),
  Op("store", <<"y", "expensive">>, <<R(21), R(20)>>, <<>>)>>)

\* Pointers made one from the other, and both stored through.
Shared(s, t) == Straight(<<
  Op("splat", <<>>, <<A(Top, 1)>>, <<B>>),
  Op("range", <<>>, <<>>, <<B>>),
  Op("elt", <<"addptr">>, <<R(1), R(2)>>, <<B>>),
  Op("elt", <<"addptr">>, <<R(3), R(2)>>, <<B>>),
  ConvertOp(R(3), s),
  ConvertOp(R(4), t),
  Op("splat", <<>>, <<A(Top, 2)>>, <<s>>),
  Op("splat", <<>>, <<A(Top, 2)>>, <<t>>),
  Op("store", <<"y", "expensive">>, <<R(5), R(7)>>, <<>>),
  Op("store", <<"w", "expensive">>, <<R(6), R(8)>>, <<>>)>>)

\* Two pointers chosen by a condition, and a third made from one of them.
Branches(s, t) == Function(<<
  Op("splat", <<>>, <<A(Top, 1)>>, <<B>>),
  Op("range", <<>>, <<>>, <<B>>),
  Region("if", <<A(Top, 2)>>, <<B, B>>, <<101, 102>>),
  Op("elt", <<"addptr">>, <<R(1), R(2)>>, <<B>>),
  Op("yield", <<>>, <<R(4), R(1)>>, <<>>),
  Op("elt", <<"subptr">>, <<R(1), R(2)>>, <<B>>),
  Op("yield", <<>>, <<R(1), R(6)>>, <<>>),
  ConvertOp(<<3, 1>>, s),
  ConvertOp(<<3, 2>>, t),
  Op("elt", <<"addptr">>, <<<<3, 1>>, R(2)>>, <<B>>),
  ConvertOp(R(10), s),
  Op("splat", <<>>, <<A(Top, 2)>>, <<s>>),
  Op("splat", <<>>, <<A(Top, 2)>>, <<t>>),
  Op("store", <<"y", "expensive">>, <<R(8), R(12)>>, <<>>),
  Op("store", <<"w", "expensive">>, <<R(9), R(13)>>, <<>>),
  Op("store", <<"v", "expensive">>, <<R(11), R(12)>>, <<>>)>>,
  <<TopOf(<<1, 2, 3, 8, 9, 10, 11, 12, 13, 14, 15, 16>>), Body(<<>>, <<4, 5>>), Body(<<>>, <<6, 7>>)>>)

\* A loop with a condition and a loop in it; its second result feeds itself only.
Nest(s) == Function(<<
  Op("splat", <<>>, <<A(Top, 1)>>, <<B>>),
  Op("const", <<0>>, <<>>, <<B>>),
  Region("for", <<R(2), R(2), R(1)>>, <<B, B, B>>, <<101>>),
  Region("if", <<A(Top, 2)>>, <<B, B>>, <<102, 103>>),
  Op("elt", <<"neg">>, <<A(101, 1)>>, <<B>>),
  Op("yield", <<>>, <<R(5), A(101, 2)>>, <<>>),
  Op("yield", <<>>, <<A(101, 1), A(101, 1)>>, <<>>),
  Region("for", <<R(4), A(101, 3)>>, <<B, B>>, <<104>>),
  Op("elt", <<"add">>, <<A(104, 1), A(104, 2)>>, <<B>>),
  Op("yield", <<>>, <<R(9), A(104, 1)>>, <<>>),
  Op("yield", <<>>, <<R(8), <<4, 2>>, <<8, 2>>>>, <<>>),
  ConvertOp(R(3), s),
  ConvertOp(R(1), s),
  Op("store", <<"y", "expensive">>, <<R(13), R(12)>>, <<>>)>>,
  <<TopOf(<<1, 2, 3, 12, 13, 14>>), Body(<<B, B, B>>, <<4, 8, 11>>), Body(<<>>, <<5, 6>>),
    Body(<<>>, <<7>>), Body(<<B, B>>, <<9, 10>>)>>)

\* A while in a loop, two results of which nobody asks for.
NestedWhile(s) == Function(<<
  Op("splat", <<>>, <<A(Top, 1)>>, <<B>>),
  Op("const", <<0>>, <<>>, <<B>>),
  Region("for", <<R(2), R(2), R(1)>>, <<B, B, B>>, <<101>>),
  Region("while", <<A(101, 1)>>, <<B>>, <<102, 103>>),
  Op("reduce", <<1, "big">>, <<A(102, 1)>>, <<Scalar>>),
  Op("condition", <<>>, <<R(5), A(102, 1)>>, <<>>),
  Op("elt", <<"neg">>, <<A(103, 1)>>, <<B>>),
  Op("yield", <<>>, <<R(7)>>, <<>>),
  Op("elt", <<"add">>, <<A(101, 2), R(1)>>, <<B>>),
  Op("yield", <<>>, <<R(4), R(9), R(4)>>, <<>>),
  ConvertOp(R(3), s),
  ConvertOp(R(1), s),
  Op("store", <<"y", "expensive">>, <<R(12), R(11)>>, <<>>)>>,
  <<TopOf(<<1, 2, 3, 11, 12, 13>>), Body(<<B, B, B>>, <<4, 9, 10>>), Body(<<B>>, <<5, 6>>), Body(<<B>>, <<7, 8>>)>>)

\* A loop that starts from what is loaded, in the layout of the load.
Started(l, s) == Function(<<
  Op("splat", <<>>, <<A(Top, 1)>>, <<l>>),
  Op("load", <<"x", "expensive">>, <<R(1)>>, <<l>>),
  Region("for", <<R(2)>>, <<l>>, <<101>>),
  Op("elt", <<"exp">>, <<A(101, 1)>>, <<l>>),
  Op("yield", <<>>, <<R(4)>>, <<>>),
  ConvertOp(R(3), s),
  ConvertOp(R(1), s),
  Op("store", <<"y", "expensive">>, <<R(7), R(6)>>, <<>>)>>,
  <<TopOf(<<1, 2, 3, 6, 7, 8>>), Body(<<l>>, <<4, 5>>)>>)

\* A dot in one branch of a condition, and another behind it.
Guarded(s) == Function(<<
  Op("splat", <<>>, <<A(Top, 1)>>, <<B>>),
  Op("load", <<"x", "expensive">>, <<R(1)>>, <<B>>),
  ConvertOp(R(2), DotOperand(1, M)),
  ConvertOp(R(2), DotOperand(2, M)),
  Op("const", <<0>>, <<>>, <<M>>),
  Region("if", <<A(Top, 2)>>, <<M>>, <<101, 102>>),
  Op("dot", <<"d1">>, <<R(3), R(4), R(5)>>, <<M>>),
  Op("yield", <<>>, <<R(7)>>, <<>>),
  Op("yield", <<>>, <<R(5)>>, <<>>),
  ConvertOp(R(6), B),
  Op("elt", <<"exp">>, <<R(10)>>, <<B>>),
  ConvertOp(R(11), DotOperand(1, M)),
  Op("dot", <<"d2">>, <<R(12), R(4), R(5)>>, <<M>>),
  ConvertOp(R(13), s),
  ConvertOp(R(1), s),
  Op("store", <<"y", "expensive">>, <<R(15), R(14)>>, <<>>)>>,
  <<TopOf(<<1, 2, 3, 4, 5, 6, 10, 11, 12, 13, 14, 15, 16>>), Body(<<>>, <<7, 8>>), Body(<<>>, <<9>>)>>)

(***************************************************************************)
(* Functions that have no layouts yet, for one CTA or more, and the        *)
(* dimensions that their pointers may be contiguous in.                    *)
(***************************************************************************)
T(shape) == <<"tensor", shape>>
Square == T(<<64, 64>>)
On(ctas, g) == [g EXCEPT !.ctas = ctas]
Fast(dims, g) == [g EXCEPT !.fast = dims]

\* A row, or a column, subtracted from all: y = x - reduce(x), and a copy of what was reduced.
Centred(axis) == Straight(<<
  Op("range", <<>>, <<>>, <<T(<<64>>)>>),
  Op("expand", <<1>>, <<R(1)>>, <<T(<<1, 64>>)>>),
  Op("broadcast", <<>>, <<R(2)>>, <<Square>>),
  Op("splat", <<>>, <<A(Top, 1)>>, <<Square>>),
  Op("elt", <<"addptr">>, <<R(4), R(3)>>, <<Square>>),
  Op("load", <<"x", "expensive">>, <<R(5)>>, <<Square>>),
  Op("reduce", <<axis, "big">>, <<R(6)>>, <<T(<<64>>)>>),
  Op("expand", <<axis>>, <<R(7)>>, <<T(IF axis = 2 THEN <<64, 1>> ELSE <<1, 64>>)>>),
  Op("broadcast", <<>>, <<R(8)>>, <<Square>>),
  Op("elt", <<"sub">>, <<R(6), R(9)>>, <<Square>>),
  Op("store", <<"y", "expensive">>, <<R(5), R(10)>>, <<>>)>>)

\* Only accesses, some of them behind a condition.
Elementary == Function(<<
  Op("splat", <<>>, <<A(Top, 1)>>, <<Square>>),
  Op("load", <<"x", "expensive">>, <<R(1)>>, <<Square>>),
  Region("if", <<A(Top, 2)>>, <<Square>>, <<101, 102>>),
  Op("elt", <<"exp">>, <<R(2)>>, <<Square>>),
  Op("yield", <<>>, <<R(4)>>, <<>>),
  Op("ext", <<>>, <<R(2)>>, <<Square>>),
  Op("yield", <<>>, <<R(6)>>, <<>>),
  Op("splat", <<>>, <<A(Top, 2)>>, <<Square>>),
  Op("store", <<"y", "expensive">>, <<R(8), R(3)>>, <<>>),
  Op("store", <<"w", "cheap">>, <<A(Top, 2), A(Top, 1)>>, <<>>)>>,
  <<TopOf(<<1, 2, 3, 8, 9, 10>>), Body(<<>>, <<4, 5>>), Body(<<>>, <<6, 7>>)>>)

\* The loop of a matrix product, with pointers that advance.
Product2(m, n) == Function(<<
  Op("splat", <<>>, <<A(Top, 1)>>, <<T(<<m, 64>>)>>),
  Op("splat", <<>>, <<A(Top, 2)>>, <<T(<<64, n>>)>>),
  Op("const", <<0>>, <<>>, <<T(<<m, n>>)>>),
  Region("for", <<R(3), R(1), R(2)>>, <<T(<<m, n>>), T(<<m, 64>>), T(<<64, n>>)>>, <<101>>),
  Op("load", <<"a", "expensive">>, <<A(101, 2)>>, <<T(<<m, 64>>)>>),
  Op("load", <<"b", "expensive">>, <<A(101, 3)>>, <<T(<<64, n>>)>>),
  Op("dot", <<"d">>, <<R(5), R(6), A(101, 1)>>, <<T(<<m, n>>)>>),
  Op("const", <<1>>, <<>>, <<T(<<m, 64>>)>>),
  Op("elt", <<"addptr">>, <<A(101, 2), R(8)>>, <<T(<<m, 64>>)>>),
  Op("const", <<2>>, <<>>, <<T(<<64, n>>)>>),
  Op("elt", <<"addptr">>, <<A(101, 3), R(10)>>, <<T(<<64, n>>)>>),
  Op("yield", <<>>, <<R(7), R(9), R(11)>>, <<>>),
  Op("splat", <<>>, <<A(Top, 1)>>, <<T(<<m, n>>)>>),
  Op("store", <<"c", "expensive">>, <<R(13), R(4)>>, <<>>)>>,
  <<TopOf(<<1, 2, 3, 4, 13, 14>>),
    Body(<<T(<<m, n>>), T(<<m, 64>>), T(<<64, n>>)>>, <<5, 6, 7, 8, 9, 10, 11, 12>>)>>)

\* A dot with a row added to what it gives, and a reduction of that.
Biases(m, n) == Straight(<<
  Op("splat", <<>>, <<A(Top, 1)>>, <<T(<<m, 64>>)>>),
  Op("load", <<"a", "expensive">>, <<R(1)>>, <<T(<<m, 64>>)>>),
  Op("const", <<1>>, <<>>, <<T(<<64, n>>)>>),
  Op("const", <<0>>, <<>>, <<T(<<m, n>>)>>),
  Op("dot", <<"d">>, <<R(2), R(3), R(4)>>, <<T(<<m, n>>)>>),
  Op("splat", <<>>, <<A(Top, 2)>>, <<T(<<n>>)>>),
  Op("load", <<"bias", "expensive">>, <<R(6)>>, <<T(<<n>>)>>),
  Op("expand", <<1>>, <<R(7)>>, <<T(<<1, n>>)>>),
  Op("broadcast", <<>>, <<R(8)>>, <<T(<<m, n>>)>>),
  Op("elt", <<"add">>, <<R(5), R(9)>>, <<T(<<m, n>>)>>),
  Op("reduce", <<2, "big">>, <<R(10)>>, <<T(<<m>>)>>),
  Op("splat", <<>>, <<A(Top, 2)>>, <<T(<<m>>)>>),
  Op("atomic", <<"r">>, <<R(12), R(11)>>, <<T(<<m>>)>>)>>)

\* Operations that keep their layouts, and a reduction to a scalar.
Fallbacks == Straight(<<
  Op("splat", <<>>, <<A(Top, 1)>>, <<Square>>),
  Op("load", <<"x", "expensive">>, <<R(1)>>, <<Square>>),
  Op("trans", <<2, 1>>, <<R(2)>>, <<Square>>),
  Op("scan", <<>>, <<R(3)>>, <<Square>>),
  Op("assert", <<"a">>, <<R(4)>>, <<>>),
  Op("elt", <<"add">>, <<R(4), R(2)>>, <<Square>>),
  Op("atomic", <<"r">>, <<R(1), R(6)>>, <<Square>>),
  Op("store", <<"y", "expensive">>, <<R(1), R(7)>>, <<>>)>>)
ToScalar == Straight(<<
  Op("splat", <<>>, <<A(Top, 1)>>, <<T(<<64>>)>>),
  Op("load", <<"x", "expensive">>, <<R(1)>>, <<T(<<64>>)>>),
  Op("reduce", <<1, "big">>, <<R(2)>>, <<Scalar>>),
  Op("splat", <<>>, <<R(3)>>, <<T(<<64>>)>>),
  Op("store", <<"y", "expensive">>, <<R(1), R(4)>>, <<>>)>>)

\* A loop that starts from what an atomic gives, and stores what another ends with.
Looped == Function(<<
  Op("splat", <<>>, <<A(Top, 1)>>, <<Square>>),
  Op("const", <<1>>, <<>>, <<Square>>),
  Op("atomic", <<"r">>, <<R(1), R(2)>>, <<Square>>),
  Region("for", <<R(3), R(2)>>, <<Square, Square>>, <<101>>),
  Op("elt", <<"exp">>, <<A(101, 2)>>, <<Square>>),
  Op("yield", <<>>, <<A(101, 1), R(5)>>, <<>>),
  Op("assert", <<"a">>, <<R(4)>>, <<>>),
  Op("splat", <<>>, <<A(Top, 2)>>, <<Square>>),
  Op("store", <<"y", "expensive">>, <<R(8), <<4, 2>>>>, <<>>)>>,
  <<TopOf(<<1, 2, 3, 4, 7, 8, 9>>), Body(<<Square, Square>>, <<5, 6>>)>>)

\* What is loaded goes into a dot and is added to what it gives.
Residual == Straight(<<
  Op("splat", <<>>, <<A(Top, 1)>>, <<T(<<128, 128>>)>>),
  Op("load", <<"x", "expensive">>, <<R(1)>>, <<T(<<128, 128>>)>>),
  Op("const", <<0>>, <<>>, <<T(<<128, 128>>)>>),
  Op("dot", <<"d">>, <<R(2), R(2), R(3)>>, <<T(<<128, 128>>)>>),
  Op("elt", <<"add">>, <<R(4), R(2)>>, <<T(<<128, 128>>)>>),
  Op("store", <<"y", "expensive">>, <<R(1), R(5)>>, <<>>)>>)

TTIRSet ==
  {On(2, Fast({1, 2}, Centred(1))), On(2, Centred(2)), On(2, Fast({1, 2}, Elementary)),
   On(1, Fast({1}, Product2(128, 128))), On(2, Fast({1, 2}, Product2(256, 64))),
   On(2, Fast({1, 2}, Biases(128, 128))), On(2, Fast({1, 2}, Biases(256, 64))),
   On(2, Fast({1, 2}, Fallbacks)), On(4, ToScalar), On(2, Fast({1, 2}, Looped)), On(2, Residual)}

KernelSet ==
  {Copy(l, "expensive", s) : l \in Layouts, s \in Layouts} \cup {Copy(C, "cheap", s) : s \in Layouts}
    \cup {Matmul(l, s) : l \in Layouts, s \in Layouts}
    \cup {Chosen(l, "expensive", s) : l \in Layouts, s \in Layouts} \cup {Chosen(B, "cheap", C)}
    \cup {Until(l, s) : l \in Layouts, s \in Layouts}
    \cup {Attention(M, size, C) : size \in {"small", "big"}} \cup {Attention(M1, "big", C)}
    \cup {Biased(size, C) : size \in {"small", "big"}}
    \cup {TwoCores(B), Flash(B), Flash(C), Held(C), Backwards(C)}
    \cup {AnyLayout(l, "any", C) : l \in {B, C, D}} \cup {AnyLayout(C, "any", D), AnyLayout(C, "efficient", D)}
    \cup {Accumulate(l, s) : l \in Layouts, s \in Layouts}
    \cup {Widened(C, c) : c \in Costs}
    \cup {Combined(B), Combined(C), Transposed(C), Shared(C, C), Shared(C, D), Branches(C, C), Branches(C, D), Branches(D, C)}
    \cup TTIRSet
    \cup {Nest(C), NestedWhile(C), Started(C, B), Started(B, B), Guarded(B), Guarded(C)}
=============================================================================
