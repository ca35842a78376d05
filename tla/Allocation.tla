----------------------------- MODULE Allocation -----------------------------
(***************************************************************************)
(* The placement of shared-memory buffers, AllocationAnalysis in           *)
(* lib/Analysis/Allocation.cpp: computeOffsets gives every buffer of a     *)
(* function a first offset (calculateStarts), then colours the buffers     *)
(* that still overlap while they are live together and bumps them          *)
(* (allocate), until none overlap.                                         *)
(*                                                                         *)
(* A buffer is its index in `buffers`.  One action is one iteration of one *)
(* of the loops.                                                           *)
(***************************************************************************)
EXTENDS Naturals, FiniteSets

CONSTANT Instances   \* the inputs of computeOffsets

\* What resolveLiveness and getValuesAndSizes hand over: the number of buffers
\* and, per buffer, its live range in operation ids, its size and alignment.
\* maxId stands for the largest size_t, where the first triple's range ends.
IsInstance(p) ==
  /\ p.n \in Nat
  /\ p.maxId \in Nat
  /\ p.live \in [1 .. p.n -> Nat \X Nat]
  /\ p.size \in [1 .. p.n -> Nat]
  /\ p.align \in [1 .. p.n -> Nat \ {0}]
  /\ \A x \in 1 .. p.n : p.live[x][1] < p.live[x][2] /\ p.live[x][2] <= p.maxId

ASSUME InstancesAssumption == \A p \in Instances : IsInstance(p)

VARIABLES
  inst,       \* the input; it never changes
  phase,      \* which loop is running
  offset,     \* BufferT::offset
  triples,    \* tripleMap
  stamp,      \* the number of insertions into tripleMap
  left,       \* xBuffers
  edges,      \* interference, as ordered pairs
  colors,     \* colors
  next,       \* the buffer the running loop of allocate is at
  smem        \* Allocation::sharedMemorySize

vars == <<inst, phase, offset, triples, stamp, left, edges, colors, next, smem>>

Buffers == 1 .. inst.n

IsLeast(a, S) == a \in S /\ \A b \in S : a <= b

IsGreatest(a, S) == a \in S /\ \A b \in S : b <= a

Intersects(x, y) == x[1] < y[2] /\ y[1] < x[2]

AlignTo(a, align) == ((a + align - 1) \div align) * align

\* The bytes of a buffer, and the conflicts of all the buffers.
Bytes(x) == <<offset[x], offset[x] + inst.size[x]>>

\* Mutant: buffers that are live together conflict wherever they are.
ConflictAnywhere(x, y) == x # y /\ Intersects(inst.live[x], inst.live[y])

Conflict(x, y) ==
  /\ x # y
  /\ Intersects(inst.live[x], inst.live[y])
  /\ Intersects(Bytes(x), Bytes(y))

Interference == {e \in Buffers \X Buffers : Conflict(e[1], e[2])}

Neighbours(x) == {y \in Buffers : <<x, y>> \in edges}
-----------------------------------------------------------------------------
(* calculateStarts *)

\* A triple: an offset that is free over a live range.  The multimap keeps
\* triples of one offset in the order in which they were inserted.
Triple(key, range, id) == [key |-> key, range |-> range, id |-> id]

\* begin()
First(t) == \A u \in triples : t.key < u.key \/ (t.key = u.key /\ t.id <= u.id)

Fits(x, t) ==
  /\ Intersects(inst.live[x], t.range)
  /\ \A u \in triples \ {t} : ~Intersects(u.range, inst.live[x])

\* Mutant: the part of the range before the buffer's live range is lost.
SplitNoLeft(t, x, end) ==
  LET from  == t.range[1]
      to    == t.range[2]
      xfrom == inst.live[x][1]
      xto   == inst.live[x][2]
  IN  {Triple(end, <<IF from < xfrom THEN xfrom ELSE from,
                     IF xto < to THEN xto ELSE to>>, stamp)}
      \cup (IF xto < to THEN {Triple(t.key, <<xfrom, to>>, stamp + 2)} ELSE {})

\* What is left of triple t around and above buffer x, which ends at byte end.
Split(t, x, end) ==
  LET from  == t.range[1]
      to    == t.range[2]
      xfrom == inst.live[x][1]
      xto   == inst.live[x][2]
  IN  {Triple(end, <<IF from < xfrom THEN xfrom ELSE from,
                     IF xto < to THEN xto ELSE to>>, stamp)}
      \cup (IF from < xfrom THEN {Triple(t.key, <<from, xto>>, stamp + 1)} ELSE {})
      \cup (IF xto < to THEN {Triple(t.key, <<xfrom, to>>, stamp + 2)} ELSE {})

Init ==
  /\ inst \in Instances
  /\ phase = "starts"
  /\ offset = [x \in Buffers |-> 0]
  /\ triples = {Triple(0, <<0, inst.maxId>>, 0)}
  /\ stamp = 1
  /\ left = Buffers
  /\ edges = {}
  /\ colors = [x \in Buffers |-> 0]
  /\ next = 1
  /\ smem = 0

\* The lowest triple takes the first buffer that touches it and no other one,
\* and is split around that buffer.
PlaceBuffer ==
  /\ phase = "starts"
  /\ \E t \in triples :
       /\ First(t)
       /\ \E x \in left :
            /\ IsLeast(x, {y \in left : Fits(y, t)})
            /\ offset' = [offset EXCEPT ![x] = AlignTo(t.key, inst.align[x])]
            /\ triples' = (triples \ {t}) \cup Split(t, x, offset'[x] + inst.size[x])
            /\ left' = left \ {x}
  /\ stamp' = stamp + 3
  /\ UNCHANGED <<inst, phase, edges, colors, next, smem>>

\* No buffer fits the lowest triple: it is erased for good.
DropTriple ==
  /\ phase = "starts"
  /\ left # {}
  /\ \E t \in triples :
       /\ First(t)
       /\ \A x \in left : ~Fits(x, t)
       /\ triples' = triples \ {t}
  /\ UNCHANGED <<inst, phase, offset, stamp, left, edges, colors, next, smem>>

\* Stands for -1.  A colour is an index into `available`, or its size.
NoColor == inst.n + 1

\* The head of allocate: the interference graph was just rebuilt.
StartColoring ==
  /\ colors' = [x \in Buffers |-> IF x = 1 THEN 0 ELSE NoColor]
  /\ smem' = 0
  /\ next' = 1
  /\ phase' = "color"

FinishStarts ==
  /\ phase = "starts"
  /\ left = {}
  /\ edges' = Interference
  /\ StartColoring
  /\ UNCHANGED <<inst, offset, triples, stamp, left>>
-----------------------------------------------------------------------------
(* allocate *)

\* First fit: the least colour that no neighbour has, or the end of the list.
Available == (0 .. inst.n - 1) \ {colors[y] : y \in Neighbours(next)}

ColorBuffer ==
  /\ phase = "color"
  /\ next <= inst.n
  /\ \E c \in 0 .. inst.n :
       /\ IsLeast(c, Available \cup {inst.n})
       /\ colors' = [colors EXCEPT ![next] = c]
  /\ next' = next + 1
  /\ UNCHANGED <<inst, phase, offset, triples, stamp, left, edges, smem>>

FinishColoring ==
  /\ phase = "color"
  /\ next > inst.n
  /\ phase' = "bump"
  /\ next' = 1
  /\ UNCHANGED <<inst, offset, triples, stamp, left, edges, colors, smem>>

\* Where the neighbours end, those that were bumped before at their new places.
Ends == {0} \cup {offset[y] + inst.size[y] : y \in Neighbours(next)}

\* Mutant: a buffer that is not moved does not count towards the total size.
BumpSizeless ==
  /\ phase = "bump"
  /\ next <= inst.n
  /\ IF colors[next] = 0
     THEN offset' = offset /\ smem' = smem
     ELSE \E a \in Ends :
            /\ IsGreatest(a, Ends)
            /\ offset' = [offset EXCEPT ![next] = AlignTo(a, inst.align[next])]
            /\ smem' = LET end == offset'[next] + inst.size[next]
                       IN  IF smem < end THEN end ELSE smem
  /\ next' = next + 1
  /\ UNCHANGED <<inst, phase, triples, stamp, left, edges, colors>>

\* A buffer of another colour than 0 goes behind all its neighbours.
BumpBuffer ==
  /\ phase = "bump"
  /\ next <= inst.n
  /\ IF colors[next] = 0
     THEN offset' = offset
     ELSE \E a \in Ends :
            /\ IsGreatest(a, Ends)
            /\ offset' = [offset EXCEPT ![next] = AlignTo(a, inst.align[next])]
  /\ smem' = LET end == offset'[next] + inst.size[next]
             IN  IF smem < end THEN end ELSE smem
  /\ next' = next + 1
  /\ UNCHANGED <<inst, phase, triples, stamp, left, edges, colors>>

\* buildInterferenceGraph, and the loop condition of computeOffsets.
Again ==
  /\ phase = "bump"
  /\ next > inst.n
  /\ edges' = Interference
  /\ edges' # {}
  /\ StartColoring
  /\ UNCHANGED <<inst, offset, triples, stamp, left>>

\* Mutant: one pass, however many conflicts it leaves.
FinishOnce ==
  /\ phase = "bump"
  /\ next > inst.n
  /\ edges' = Interference
  /\ phase' = "done"
  /\ UNCHANGED <<inst, offset, triples, stamp, left, colors, next, smem>>

Finish ==
  /\ phase = "bump"
  /\ next > inst.n
  /\ edges' = Interference
  /\ edges' = {}
  /\ phase' = "done"
  /\ UNCHANGED <<inst, offset, triples, stamp, left, colors, next, smem>>

Next ==
  \/ PlaceBuffer
  \/ DropTriple
  \/ FinishStarts
  \/ ColorBuffer
  \/ FinishColoring
  \/ BumpBuffer
  \/ Again
  \/ Finish

Spec == Init /\ [][Next]_vars
-----------------------------------------------------------------------------
IsTriple(t) ==
  /\ t = Triple(t.key, t.range, t.id)
  /\ t.key \in Nat
  /\ t.range \in Nat \X Nat
  /\ t.id \in Nat

TypeOK ==
  /\ IsInstance(inst)
  /\ phase \in {"starts", "color", "bump", "done"}
  /\ offset \in [Buffers -> Nat]
  /\ \A t \in triples : IsTriple(t)
  /\ stamp \in Nat
  /\ left \subseteq Buffers
  /\ edges \subseteq Buffers \X Buffers
  /\ colors \in [Buffers -> 0 .. NoColor]
  /\ next \in 1 .. inst.n + 1
  /\ smem \in Nat

(***************************************************************************)
(* calculateStarts takes tripleMap.begin() without a look at whether the   *)
(* map is empty (Allocation.cpp:552-556).  As long as a buffer is left     *)
(* some triple is too, one that the buffer's live range touches, although  *)
(* triples are erased for good and a split makes their ranges overlap.     *)
(***************************************************************************)
NoEmptyTripleMap == phase = "starts" =>
  \A x \in left : \E t \in triples : Intersects(t.range, inst.live[x])

(***************************************************************************)
(* Buffers that are live together share no byte, and all of them end       *)
(* below the size the kernel is launched with (sharedMemorySize is reset   *)
(* and recomputed by every pass of allocate, Allocation.cpp:618-656).      *)
(***************************************************************************)
Placed == phase = "done" =>
  \A x \in Buffers :
    /\ offset[x] + inst.size[x] <= smem
    /\ \A y \in Buffers \ {x} :
         Intersects(inst.live[x], inst.live[y]) => ~Intersects(Bytes(x), Bytes(y))

(***************************************************************************)
(* A pass of allocate separates every pair of buffers that conflicted when *)
(* it began ("keep reducing conflicts", Allocation.cpp:514-520): neighbours*)
(* never get one colour, and the one that is bumped last goes behind the   *)
(* other.                                                                  *)
(***************************************************************************)
PassSeparates == (phase = "bump" /\ next > inst.n) =>
  \A e \in edges : ~Intersects(Bytes(e[1]), Bytes(e[2]))
-----------------------------------------------------------------------------
(* The inductive invariant. *)

EdgesSymmetric == \A e \in edges : e[1] # e[2] /\ <<e[2], e[1]>> \in edges

\* Of two neighbours at most one stays where it is.
OneStays == \A e \in edges : ~(colors[e[1]] = 0 /\ colors[e[2]] = 0)

\* In the bump loop: two neighbours are apart as soon as both were visited, and
\* one that was moved is behind the neighbours still to be visited.
SeparatedSoFar == phase = "bump" =>
  \A e \in edges : e[1] < next =>
    /\ e[2] < next => ~Intersects(Bytes(e[1]), Bytes(e[2]))
    /\ (e[2] >= next /\ colors[e[1]] # 0) => Bytes(e[2])[2] <= offset[e[1]]

SizeSoFar == phase = "bump" =>
  \A x \in Buffers : x < next => offset[x] + inst.size[x] <= smem

(***************************************************************************)
(* The loops of computeOffsets, at every point of them: every buffer still *)
(* without a start touches a triple, no two neighbours both keep their     *)
(* offset, the neighbours already visited by the bump loop are apart and   *)
(* below sharedMemorySize (Allocation.cpp:552-585, 625-656).               *)
(***************************************************************************)
AllocationInv ==
  /\ TypeOK
  /\ NoEmptyTripleMap
  /\ EdgesSymmetric
  /\ OneStays
  /\ SeparatedSoFar
  /\ SizeSoFar
  /\ Placed
=============================================================================
