-------------------------- MODULE AllocationProofs --------------------------
(***************************************************************************)
(* Proofs about Allocation: for every set of buffers, the triple map never *)
(* runs empty, a pass separates the pairs it was given, and the placement  *)
(* that results is free of overlap.                                        *)
(***************************************************************************)
EXTENDS Allocation, TLAPS

LEMMA AlignFacts ==
  ASSUME NEW a \in Nat, NEW al \in Nat \ {0}
  PROVE  AlignTo(a, al) \in Nat /\ AlignTo(a, al) >= a
<1> DEFINE m == a + al - 1
           q == m \div al
<1>1. m \in Nat
  OBVIOUS
<1>2. q \in Nat /\ m = al * q + (m % al) /\ m % al \in 0 .. al - 1
  BY <1>1
<1>3. al * q >= a /\ al * q = q * al /\ q * al \in Nat
  <2> HIDE DEF q
  <2>1. al * q \in Nat /\ al * q = q * al
    BY <1>2
  <2>2. m % al <= al - 1 /\ m % al \in Nat
    BY <1>2
  <2> QED
    BY <1>2, <2>1, <2>2
<1> QED
  BY <1>3 DEF AlignTo

LEMMA InstanceFacts ==
  ASSUME TypeOK
  PROVE  /\ inst.n \in Nat /\ inst.maxId \in Nat
         /\ \A x \in Buffers :
              /\ inst.live[x][1] \in Nat /\ inst.live[x][2] \in Nat
              /\ inst.live[x][1] < inst.live[x][2] /\ inst.live[x][2] <= inst.maxId
              /\ inst.size[x] \in Nat
              /\ inst.align[x] \in Nat \ {0}
              /\ x \in Nat /\ 1 <= x /\ x <= inst.n
<1>1. IsInstance(inst)
  BY DEF TypeOK
<1>2. inst.n \in Nat /\ inst.maxId \in Nat
  BY <1>1 DEF IsInstance
<1> QED
  BY <1>1, <1>2 DEF IsInstance, Buffers

LEMMA TripleFacts ==
  ASSUME NEW k \in Nat, NEW a \in Nat, NEW b \in Nat, NEW i \in Nat
  PROVE  /\ IsTriple(Triple(k, <<a, b>>, i))
         /\ Triple(k, <<a, b>>, i).range = <<a, b>>
  BY DEF IsTriple, Triple

LEMMA InterferenceFacts ==
  ASSUME TypeOK
  PROVE  /\ Interference \subseteq Buffers \X Buffers
         /\ \A e \in Interference : e[1] # e[2] /\ <<e[2], e[1]>> \in Interference
<1>1. \A x, y \in Buffers : Conflict(x, y) => Conflict(y, x)
  BY DEF Conflict, Intersects
<1> QED
  BY <1>1 DEF Interference, Conflict

\* What is left of a triple covers all that the triple covered.
LEMMA SplitFacts ==
  ASSUME TypeOK, NEW t \in triples, NEW x \in Buffers, NEW end \in Nat,
         Intersects(inst.live[x], t.range)
  PROVE  /\ \A u \in Split(t, x, end) : IsTriple(u)
         /\ \A y \in Buffers : Intersects(inst.live[y], t.range) =>
              \E u \in Split(t, x, end) : Intersects(u.range, inst.live[y])
<1> DEFINE from  == t.range[1]
           to    == t.range[2]
           xfrom == inst.live[x][1]
           xto   == inst.live[x][2]
           a     == IF from < xfrom THEN xfrom ELSE from
           b     == IF xto < to THEN xto ELSE to
           mid   == Triple(end, <<a, b>>, stamp)
           low   == Triple(t.key, <<from, xto>>, stamp + 1)
           high  == Triple(t.key, <<xfrom, to>>, stamp + 2)
<1>1. /\ t.key \in Nat /\ from \in Nat /\ to \in Nat /\ stamp \in Nat
      /\ xfrom \in Nat /\ xto \in Nat /\ xfrom < xto
      /\ xfrom < to /\ from < xto
  BY InstanceFacts DEF TypeOK, IsTriple, Intersects
<1>2. a \in Nat /\ b \in Nat
  BY <1>1
<1>3. /\ IsTriple(mid) /\ mid.range = <<a, b>>
      /\ IsTriple(low) /\ low.range = <<from, xto>>
      /\ IsTriple(high) /\ high.range = <<xfrom, to>>
  <2> HIDE DEF from, to, xfrom, xto, a, b
  <2>1. IsTriple(mid) /\ mid.range = <<a, b>>
    <3>1. stamp \in Nat /\ end \in Nat /\ a \in Nat /\ b \in Nat
      BY <1>1, <1>2
    <3> QED
      BY <3>1, TripleFacts
  <2>2. IsTriple(low) /\ low.range = <<from, xto>>
    <3>1. stamp + 1 \in Nat /\ t.key \in Nat
      BY <1>1
    <3>2. from \in Nat /\ xto \in Nat
      BY <1>1
    <3> QED
      BY <3>1, <3>2 DEF IsTriple, Triple
  <2>3. IsTriple(high) /\ high.range = <<xfrom, to>>
    <3>1. stamp + 2 \in Nat /\ t.key \in Nat
      BY <1>1
    <3>2. xfrom \in Nat /\ to \in Nat
      BY <1>1
    <3> QED
      BY <3>1, <3>2 DEF IsTriple, Triple
  <2> QED
    BY <2>1, <2>2, <2>3
<1>4. Split(t, x, end) = {mid} \cup (IF from < xfrom THEN {low} ELSE {})
                               \cup (IF xto < to THEN {high} ELSE {})
  BY DEF Split
<1> HIDE DEF mid, low, high
<1>5. \A u \in Split(t, x, end) : IsTriple(u)
  BY <1>3, <1>4
<1>6. ASSUME NEW y \in Buffers, Intersects(inst.live[y], t.range)
      PROVE  \E u \in Split(t, x, end) : Intersects(u.range, inst.live[y])
  <2>1. PICK c, d : c = inst.live[y][1] /\ d = inst.live[y][2]
    OBVIOUS
  <2>2. c \in Nat /\ d \in Nat /\ c < d /\ c < to /\ from < d
    BY <1>6, <2>1, InstanceFacts DEF Intersects
  <2> HIDE DEF from, to, xfrom, xto
  <2>3. CASE from < xfrom /\ c < xto
    <3>1. Intersects(low.range, inst.live[y])
      BY <1>3, <2>1, <2>2, <2>3 DEF Intersects
    <3> QED
      BY <1>4, <2>3, <3>1
  <2>4. CASE xto < to /\ xfrom < d
    <3>1. Intersects(high.range, inst.live[y])
      BY <1>3, <2>1, <2>2, <2>4 DEF Intersects
    <3> QED
      BY <1>4, <2>4, <3>1
  <2>5. CASE ~(from < xfrom /\ c < xto) /\ ~(xto < to /\ xfrom < d)
    <3>1. a < d /\ c < b
      BY <1>1, <2>2, <2>5
    <3>2. Intersects(mid.range, inst.live[y])
      BY <1>3, <2>1, <3>1 DEF Intersects
    <3> QED
      BY <1>4, <3>2
  <2> QED
    BY <2>3, <2>4, <2>5
<1> QED
  BY <1>5, <1>6
-----------------------------------------------------------------------------
LEMMA InitInv == Init => AllocationInv
<1> SUFFICES ASSUME Init PROVE AllocationInv
  OBVIOUS
<1>1. IsInstance(inst)
  BY InstancesAssumption DEF Init
<1>2. inst.n \in Nat /\ inst.maxId \in Nat
  BY <1>1 DEF IsInstance
<1>3. PICK t : t = Triple(0, <<0, inst.maxId>>, 0)
  OBVIOUS
<1>4. IsTriple(t) /\ t.range = <<0, inst.maxId>> /\ triples = {t}
  BY <1>2, <1>3, TripleFacts DEF Init
<1>5. TypeOK
  <2>1. \A u \in triples : IsTriple(u)
    BY <1>4
  <2>2. colors \in [Buffers -> 0 .. NoColor] /\ next \in 1 .. inst.n + 1
    BY <1>2 DEF Init, NoColor
  <2>3. /\ phase = "starts" /\ offset \in [Buffers -> Nat] /\ stamp \in Nat
        /\ left = Buffers /\ edges = {} /\ smem \in Nat
    BY DEF Init
  <2> QED
    BY <1>1, <2>1, <2>2, <2>3 DEF TypeOK
<1>6. NoEmptyTripleMap
  <2> SUFFICES ASSUME NEW x \in Buffers PROVE Intersects(t.range, inst.live[x])
    BY <1>4 DEF NoEmptyTripleMap, Init
  <2>1. /\ inst.live[x][1] \in Nat /\ inst.live[x][2] \in Nat
        /\ inst.live[x][1] < inst.live[x][2] /\ inst.live[x][2] <= inst.maxId
    BY <1>5, InstanceFacts
  <2> QED
    BY <1>2, <1>4, <2>1 DEF Intersects
<1> QED
  BY <1>5, <1>6
  DEF Init, AllocationInv, EdgesSymmetric, OneStays, SeparatedSoFar, SizeSoFar, Placed

LEMMA PlaceInv == AllocationInv /\ PlaceBuffer => AllocationInv'
<1> SUFFICES ASSUME AllocationInv, PlaceBuffer PROVE AllocationInv'
  OBVIOUS
<1> USE DEF AllocationInv
<1>1. PICK t \in triples, x \in left :
        /\ Fits(x, t)
        /\ offset' = [offset EXCEPT ![x] = AlignTo(t.key, inst.align[x])]
        /\ triples' = (triples \ {t}) \cup Split(t, x, offset'[x] + inst.size[x])
        /\ left' = left \ {x}
  BY DEF PlaceBuffer, IsLeast
<1>2. /\ phase = "starts" /\ stamp' = stamp + 3
      /\ UNCHANGED <<inst, phase, edges, colors, next, smem>>
  BY DEF PlaceBuffer
<1>3. x \in Buffers /\ IsTriple(t)
  BY DEF TypeOK
<1>4. AlignTo(t.key, inst.align[x]) \in Nat
  BY <1>3, InstanceFacts, AlignFacts DEF IsTriple
<1>5. offset' \in [Buffers -> Nat] /\ offset'[x] + inst.size[x] \in Nat
  BY <1>1, <1>3, <1>4, InstanceFacts DEF TypeOK
<1>6. PICK end \in Nat : end = offset'[x] + inst.size[x]
  BY <1>5
<1>7. Intersects(inst.live[x], t.range)
  BY <1>1 DEF Fits
<1>8. /\ \A u \in Split(t, x, end) : IsTriple(u)
      /\ \A y \in Buffers : Intersects(inst.live[y], t.range) =>
           \E u \in Split(t, x, end) : Intersects(u.range, inst.live[y])
  BY <1>3, <1>7, SplitFacts
<1>9. TypeOK'
  BY <1>1, <1>2, <1>5, <1>6, <1>8 DEF TypeOK, Buffers, NoColor
<1>10. NoEmptyTripleMap'
  <2> SUFFICES ASSUME NEW y \in left \ {x}
               PROVE  \E u \in triples' : Intersects(u.range, inst.live[y])
    BY <1>1, <1>2 DEF NoEmptyTripleMap
  <2>1. y \in Buffers
    BY DEF TypeOK
  <2>2. PICK u \in triples : Intersects(u.range, inst.live[y])
    BY <1>2 DEF NoEmptyTripleMap
  <2>3. CASE u = t
    BY <1>1, <1>6, <1>8, <2>1, <2>2, <2>3 DEF Intersects
  <2>4. CASE u # t
    BY <1>1, <2>2, <2>4
  <2> QED
    BY <2>3, <2>4
<1> QED
  BY <1>2, <1>9, <1>10 DEF EdgesSymmetric, OneStays, SeparatedSoFar, SizeSoFar, Placed

LEMMA DropInv == AllocationInv /\ DropTriple => AllocationInv'
<1> SUFFICES ASSUME AllocationInv, DropTriple PROVE AllocationInv'
  OBVIOUS
<1> USE DEF AllocationInv
<1>1. PICK t \in triples : (\A x \in left : ~Fits(x, t)) /\ triples' = triples \ {t}
  BY DEF DropTriple
<1>2. /\ phase = "starts"
      /\ UNCHANGED <<inst, phase, offset, stamp, left, edges, colors, next, smem>>
  BY DEF DropTriple
<1>3. TypeOK'
  BY <1>1, <1>2 DEF TypeOK, Buffers, NoColor
<1>4. NoEmptyTripleMap'
  <2> SUFFICES ASSUME NEW y \in left
               PROVE  \E u \in triples \ {t} : Intersects(u.range, inst.live[y])
    BY <1>1, <1>2 DEF NoEmptyTripleMap
  <2>1. PICK u \in triples : Intersects(u.range, inst.live[y])
    BY <1>2 DEF NoEmptyTripleMap
  <2>2. CASE u = t
    BY <1>1, <2>1, <2>2 DEF Fits, Intersects
  <2>3. CASE u # t
    BY <2>1, <2>3
  <2> QED
    BY <2>2, <2>3
<1> QED
  BY <1>2, <1>3, <1>4 DEF EdgesSymmetric, OneStays, SeparatedSoFar, SizeSoFar, Placed

\* Entering allocate with the interference graph rebuilt.
LEMMA StartInv ==
  ASSUME AllocationInv, phase # "done", UNCHANGED <<inst, offset, triples, stamp, left>>,
         edges' = Interference, StartColoring
  PROVE  AllocationInv'
<1> USE DEF AllocationInv
<1>1. /\ colors' = [x \in Buffers |-> IF x = 1 THEN 0 ELSE NoColor]
      /\ smem' = 0 /\ next' = 1 /\ phase' = "color"
  BY DEF StartColoring
<1>2. inst.n \in Nat /\ NoColor \in Nat /\ NoColor # 0
  BY InstanceFacts DEF NoColor
<1>3. TypeOK'
  <2>1. next' \in 1 .. inst.n + 1 /\ 0 \in 0 .. NoColor /\ NoColor \in 0 .. NoColor
    BY <1>1, <1>2
  <2>2. colors' \in [Buffers -> 0 .. NoColor]
    BY <1>1, <2>1
  <2> QED
    BY <1>1, <2>1, <2>2, InterferenceFacts DEF TypeOK, Buffers, NoColor
<1>4. EdgesSymmetric'
  BY InterferenceFacts DEF EdgesSymmetric
<1>5. OneStays'
  BY <1>1, <1>2, InterferenceFacts DEF OneStays
<1> QED
  BY <1>1, <1>3, <1>4, <1>5 DEF NoEmptyTripleMap, SeparatedSoFar, SizeSoFar, Placed

LEMMA ColorInv == AllocationInv /\ ColorBuffer => AllocationInv'
<1> SUFFICES ASSUME AllocationInv, ColorBuffer PROVE AllocationInv'
  OBVIOUS
<1> USE DEF AllocationInv
<1>1. PICK c \in 0 .. inst.n : /\ c \in Available \cup {inst.n}
                               /\ colors' = [colors EXCEPT ![next] = c]
  BY DEF ColorBuffer, IsLeast
<1>2. /\ phase = "color" /\ next <= inst.n /\ next' = next + 1
      /\ UNCHANGED <<inst, phase, offset, triples, stamp, left, edges, smem>>
  BY DEF ColorBuffer
<1>3. inst.n \in Nat \ {0} /\ next \in Buffers /\ next \in Nat
  BY <1>2, InstanceFacts DEF TypeOK, Buffers
<1>4. TypeOK'
  BY <1>1, <1>2, <1>3 DEF TypeOK, Buffers, NoColor
<1>5. OneStays'
  <2> SUFFICES ASSUME NEW e \in edges, colors'[e[1]] = 0, colors'[e[2]] = 0 PROVE FALSE
    BY <1>2 DEF OneStays
  <2>0. colors \in [Buffers -> 0 .. NoColor]
    BY DEF TypeOK
  <2>1. e[1] \in Buffers /\ e[2] \in Buffers /\ e = <<e[1], e[2]>>
        /\ e[1] # e[2] /\ <<e[2], e[1]>> \in edges
    BY DEF TypeOK, EdgesSymmetric
  <2>2. ASSUME NEW y \in Buffers, <<next, y>> \in edges, y # next, colors'[y] = 0, c = 0
        PROVE  FALSE
    <3>1. colors[y] = 0 /\ y \in Neighbours(next)
      BY <1>1, <2>2 DEF TypeOK, Neighbours
    <3>2. 0 \notin Available
      BY <3>1 DEF Available
    <3> QED
      BY <1>1, <1>3, <2>2, <3>2
  <2>3. CASE e[1] = next
    <3>1. <<next, e[2]>> \in edges /\ e[2] # next /\ colors'[e[2]] = 0
      BY <2>1, <2>3
    <3>2. c = 0
      BY <1>1, <1>3, <2>1, <2>3, <2>0
    <3> QED
      BY <2>1, <2>2, <3>1, <3>2
  <2>4. CASE e[2] = next
    <3>1. <<next, e[1]>> \in edges /\ e[1] # next /\ colors'[e[1]] = 0
      BY <2>1, <2>4
    <3>2. c = 0
      BY <1>1, <1>3, <2>1, <2>4, <2>0
    <3> QED
      BY <2>1, <2>2, <3>1, <3>2
  <2>5. CASE e[1] # next /\ e[2] # next
    BY <1>1, <2>1, <2>5 DEF TypeOK, OneStays
  <2> QED
    BY <2>3, <2>4, <2>5
<1> QED
  BY <1>2, <1>4, <1>5 DEF NoEmptyTripleMap, EdgesSymmetric, SeparatedSoFar, SizeSoFar, Placed

LEMMA FinishColoringInv == AllocationInv /\ FinishColoring => AllocationInv'
<1> SUFFICES ASSUME AllocationInv, FinishColoring PROVE AllocationInv'
  OBVIOUS
<1> USE DEF AllocationInv, FinishColoring
<1>1. TypeOK'
  BY InstanceFacts DEF TypeOK, Buffers, NoColor
<1>2. \A x \in Buffers : ~(x < 1)
  BY InstanceFacts
<1>3. SeparatedSoFar' /\ SizeSoFar'
  BY <1>2 DEF SeparatedSoFar, SizeSoFar, TypeOK, Buffers
<1> QED
  BY <1>1, <1>3 DEF NoEmptyTripleMap, EdgesSymmetric, OneStays, Placed
-----------------------------------------------------------------------------
(* The bump loop. *)

\* The buffer visited stays, or goes behind all its neighbours.
LEMMA BumpFacts ==
  ASSUME AllocationInv, BumpBuffer, NEW m, m = next
  PROVE  /\ m \in Buffers /\ m \in Nat
         /\ offset' \in [Buffers -> Nat]
         /\ \A x \in Buffers : x # m => offset'[x] = offset[x]
         /\ IF colors[m] = 0 THEN offset'[m] = offset[m]
            ELSE \A y \in Neighbours(m) : offset[y] + inst.size[y] <= offset'[m]
<1> USE DEF AllocationInv
<1>1. m \in Buffers /\ m \in Nat
  BY InstanceFacts DEF BumpBuffer, TypeOK, Buffers
<1>2. CASE colors[m] = 0
  BY <1>1, <1>2 DEF BumpBuffer, TypeOK
<1>3. CASE colors[m] # 0
  <2>1. PICK a \in Ends : /\ \A b \in Ends : b <= a
                          /\ offset' = [offset EXCEPT ![m] = AlignTo(a, inst.align[m])]
    BY <1>3 DEF BumpBuffer, IsGreatest
  <2>2. \A y \in Neighbours(m) : offset[y] + inst.size[y] \in Nat
    BY InstanceFacts DEF Neighbours, TypeOK
  <2>3. a \in Nat
    BY <2>1, <2>2 DEF Ends
  <2>4. AlignTo(a, inst.align[m]) \in Nat /\ AlignTo(a, inst.align[m]) >= a
    BY <1>1, <2>3, InstanceFacts, AlignFacts
  <2>5. \A y \in Neighbours(m) : offset[y] + inst.size[y] <= a
    BY <2>1 DEF Ends
  <2>6. offset'[m] = AlignTo(a, inst.align[m])
    BY <1>1, <2>1 DEF TypeOK
  <2>7. \A y \in Neighbours(m) : offset[y] + inst.size[y] <= offset'[m]
    BY <2>2, <2>3, <2>4, <2>5, <2>6
  <2> QED
    BY <1>1, <1>3, <2>1, <2>4, <2>7 DEF TypeOK
<1> QED
  BY <1>2, <1>3

LEMMA BumpInv == AllocationInv /\ BumpBuffer => AllocationInv'
<1> SUFFICES ASSUME AllocationInv, BumpBuffer PROVE AllocationInv'
  OBVIOUS
<1> USE DEF AllocationInv
<1>1. PICK m : m = next
  OBVIOUS
<1>2. /\ m \in Buffers /\ m \in Nat
      /\ offset' \in [Buffers -> Nat]
      /\ \A x \in Buffers : x # m => offset'[x] = offset[x]
      /\ IF colors[m] = 0 THEN offset'[m] = offset[m]
         ELSE \A y \in Neighbours(m) : offset[y] + inst.size[y] <= offset'[m]
  BY <1>1, BumpFacts
<1>3. /\ phase = "bump" /\ m <= inst.n /\ next' = m + 1
      /\ UNCHANGED <<inst, phase, triples, stamp, left, edges, colors>>
  BY <1>1 DEF BumpBuffer
<1>4. PICK end : end = offset'[m] + inst.size[m]
  OBVIOUS
<1>5. /\ end \in Nat /\ smem \in Nat
      /\ smem' = IF smem < end THEN end ELSE smem
  BY <1>1, <1>2, <1>4, InstanceFacts DEF BumpBuffer, TypeOK
<1>6. \A x \in Buffers : inst.size[x] \in Nat /\ x \in Nat
  BY InstanceFacts
<1>7. TypeOK'
  <2>1. inst.n \in Nat
    BY InstanceFacts
  <2> QED
    BY <1>2, <1>3, <1>5, <2>1 DEF TypeOK, Buffers, NoColor
<1>8. SizeSoFar'
  <2> SUFFICES ASSUME NEW x \in Buffers, x < m + 1 PROVE offset'[x] + inst.size[x] <= smem'
    BY <1>3 DEF SizeSoFar, Buffers
  <2>1. CASE x = m
    BY <1>4, <1>5, <2>1
  <2>2. CASE x # m
    <3>1. x < m
      BY <1>2, <1>6, <2>2
    <3>2. offset[x] + inst.size[x] <= smem /\ offset'[x] = offset[x]
      BY <1>1, <1>2, <1>3, <2>2, <3>1 DEF SizeSoFar
    <3>3. offset[x] \in Nat
      BY DEF TypeOK
    <3> QED
      BY <1>5, <1>6, <3>2, <3>3
  <2> QED
    BY <2>1, <2>2
<1>9. SeparatedSoFar'
  <2> SUFFICES ASSUME NEW e \in edges, e[1] < m + 1
               PROVE  /\ e[2] < m + 1 => ~Intersects(Bytes(e[1])', Bytes(e[2])')
                      /\ (e[2] >= m + 1 /\ colors[e[1]] # 0) => Bytes(e[2])'[2] <= offset'[e[1]]
    BY <1>3 DEF SeparatedSoFar, Intersects
  <2>1. PICK x, y : x = e[1] /\ y = e[2]
    OBVIOUS
  <2>2. /\ x \in Buffers /\ y \in Buffers /\ x # y /\ e = <<x, y>>
        /\ <<x, y>> \in edges /\ <<y, x>> \in edges
    BY <2>1 DEF TypeOK, EdgesSymmetric
  <2>3. PICK i, j, si, sj : i = offset[x] /\ j = offset[y] /\ si = inst.size[x] /\ sj = inst.size[y]
    OBVIOUS
  <2>4. PICK k, l : k = offset'[x] /\ l = offset'[y]
    OBVIOUS
  <2>5. /\ i \in Nat /\ j \in Nat /\ si \in Nat /\ sj \in Nat /\ k \in Nat /\ l \in Nat
        /\ x \in Nat /\ y \in Nat
    BY <1>2, <1>6, <2>2, <2>3, <2>4 DEF TypeOK
  <2>6. Bytes(x)' = <<k, k + si>> /\ Bytes(y)' = <<l, l + sj>>
    BY <1>3, <2>3, <2>4 DEF Bytes
  <2>7. Intersects(Bytes(x)', Bytes(y)') <=> (k < l + sj /\ l < k + si)
    BY <2>6 DEF Intersects
  <2>8. \A u, v \in Buffers : <<u, v>> \in edges /\ u < m =>
          /\ v < m => ~(offset[u] < offset[v] + inst.size[v] /\ offset[v] < offset[u] + inst.size[u])
          /\ (v >= m /\ colors[u] # 0) => offset[v] + inst.size[v] <= offset[u]
    BY <1>1, <1>3 DEF SeparatedSoFar, Intersects, Bytes
  <2>9. \A y1 \in Buffers : <<m, y1>> \in edges /\ colors[m] # 0 =>
          offset[y1] + inst.size[y1] <= offset'[m]
    BY <1>2 DEF Neighbours
  <2>10. ~(colors[x] = 0 /\ colors[y] = 0)
    BY <2>1 DEF OneStays
  <2>11. CASE x = m
    <3>1. l = j
      BY <1>2, <2>2, <2>3, <2>4, <2>11
    <3>2. colors[m] # 0 => l + sj <= k
      BY <2>2, <2>3, <2>4, <2>9, <2>11, <3>1
    <3>3. colors[m] = 0 => k = i
      BY <1>2, <2>3, <2>4, <2>11
    <3>4. ASSUME y < m, colors[m] = 0 PROVE k + si <= l
      <4>1. colors[y] # 0
        BY <2>10, <2>11, <3>4
      <4>2. offset[x] + inst.size[x] <= offset[y]
        BY <1>2, <2>2, <2>8, <2>11, <3>4, <4>1
      <4> QED
        BY <2>3, <3>1, <3>3, <3>4, <4>2
    <3>5. y < m + 1 => y < m
      BY <1>2, <2>2, <2>5, <2>11
    <3>6. y < m + 1 => ~(k < l + sj /\ l < k + si)
      BY <2>5, <3>2, <3>4, <3>5
    <3> QED
      BY <2>1, <2>6, <2>7, <2>4, <2>11, <3>2, <3>6
  <2>12. CASE x # m
    <3>1. x < m /\ k = i
      BY <1>2, <2>1, <2>2, <2>3, <2>4, <2>5, <2>12
    <3>2. CASE y = m
      <4>1. colors[m] # 0 => k + si <= l
        BY <2>2, <2>3, <2>4, <2>9, <3>1, <3>2
      <4>2. colors[m] = 0 => l = j /\ j + sj <= i
        <5>1. colors[m] = 0 => l = j /\ colors[x] # 0
          BY <1>2, <2>3, <2>4, <2>10, <3>2
        <5> QED
          BY <1>2, <2>2, <2>3, <2>8, <3>1, <3>2, <5>1
      <4>3. ~(k < l + sj /\ l < k + si)
        BY <2>5, <3>1, <4>1, <4>2
      <4> QED
        BY <1>2, <2>1, <2>7, <3>2, <4>3
    <3>3. CASE y # m
      <4>1. l = j
        BY <1>2, <2>2, <2>3, <2>4, <3>3
      <4>2. y < m + 1 => y < m
        BY <1>2, <2>5, <3>3
      <4>3. y < m => ~(k < l + sj /\ l < k + si)
        BY <2>2, <2>3, <2>8, <3>1, <4>1
      <4>4. (y >= m + 1 /\ colors[x] # 0) => l + sj <= k
        BY <1>2, <2>2, <2>3, <2>5, <2>8, <3>1, <4>1
      <4> QED
        BY <2>1, <2>4, <2>6, <2>7, <4>2, <4>3, <4>4
    <3> QED
      BY <3>2, <3>3
  <2> QED
    BY <2>11, <2>12
<1> QED
  BY <1>3, <1>7, <1>8, <1>9 DEF NoEmptyTripleMap, EdgesSymmetric, OneStays, Placed

LEMMA FinishInv == AllocationInv /\ Finish => AllocationInv'
<1> SUFFICES ASSUME AllocationInv, Finish PROVE AllocationInv'
  OBVIOUS
<1> USE DEF AllocationInv
<1>1. /\ phase = "bump" /\ next > inst.n /\ Interference = {} /\ edges' = {} /\ phase' = "done"
      /\ UNCHANGED <<inst, offset, triples, stamp, left, colors, next, smem>>
  BY DEF Finish
<1>2. TypeOK'
  BY <1>1 DEF TypeOK, Buffers, NoColor
<1>3. Placed'
  <2>1. \A x \in Buffers :
          /\ offset[x] + inst.size[x] <= smem
          /\ \A y \in Buffers \ {x} :
               Intersects(inst.live[x], inst.live[y]) => ~Intersects(Bytes(x), Bytes(y))
    <3> TAKE x \in Buffers
    <3>1. x < next
      BY <1>1, InstanceFacts DEF TypeOK
    <3>2. offset[x] + inst.size[x] <= smem
      BY <1>1, <3>1 DEF SizeSoFar
    <3>3. \A y \in Buffers : ~Conflict(x, y)
      <4> TAKE y \in Buffers
      <4>1. PICK e : e = <<x, y>>
        OBVIOUS
      <4>2. e \in Buffers \X Buffers /\ e[1] = x /\ e[2] = y /\ e \notin Interference
        BY <1>1, <4>1
      <4> HIDE DEF AllocationInv
      <4> QED
        BY <4>2 DEF Interference
    <3> QED
      BY <3>2, <3>3 DEF Conflict
  <2> QED
    BY <1>1, <2>1 DEF Placed, Buffers, Bytes, Intersects
<1> QED
  BY <1>1, <1>2, <1>3 DEF NoEmptyTripleMap, EdgesSymmetric, OneStays, SeparatedSoFar, SizeSoFar
-----------------------------------------------------------------------------
LEMMA NextInv == AllocationInv /\ [Next]_vars => AllocationInv'
<1> SUFFICES ASSUME AllocationInv, [Next]_vars PROVE AllocationInv'
  OBVIOUS
<1>1. CASE FinishStarts
  BY <1>1, StartInv DEF FinishStarts
<1>2. CASE Again
  BY <1>2, StartInv DEF Again
<1>3. CASE UNCHANGED vars
  BY <1>3 DEF vars, AllocationInv, TypeOK, Buffers, NoColor, NoEmptyTripleMap, EdgesSymmetric,
              OneStays, SeparatedSoFar, SizeSoFar, Placed, Bytes, Intersects
<1> QED
  BY <1>1, <1>2, <1>3, PlaceInv, DropInv, ColorInv, FinishColoringInv, BumpInv, FinishInv DEF Next

(***************************************************************************)
(* At every point of the loops of computeOffsets, for every set of         *)
(* buffers, live ranges, sizes and alignments: the invariant of the module *)
(* (Allocation.cpp:506-657).                                               *)
(***************************************************************************)
THEOREM AllocationCorrect == Spec => []AllocationInv
  BY InitInv, NextInv, PTL DEF Spec

(***************************************************************************)
(* calculateStarts never takes begin() of an empty map (Allocation.cpp:    *)
(* 552-556): a buffer that has no start yet always touches some triple.    *)
(***************************************************************************)
THEOREM TripleMapNeverEmpty == Spec => []NoEmptyTripleMap
<1>1. AllocationInv => NoEmptyTripleMap
  BY DEF AllocationInv
<1> QED
  BY <1>1, AllocationCorrect, PTL

(***************************************************************************)
(* When computeOffsets ends, buffers that are live together share no byte, *)
(* and every buffer ends below sharedMemorySize (Allocation.cpp:607-610,   *)
(* 654-655).                                                               *)
(***************************************************************************)
THEOREM PlacedApart == Spec => []Placed
<1>1. AllocationInv => Placed
  BY DEF AllocationInv
<1> QED
  BY <1>1, AllocationCorrect, PTL

(***************************************************************************)
(* A pass of allocate separates every pair that conflicted when it began   *)
(* (Allocation.cpp:616-657): the part of "keep reducing conflicts" that    *)
(* the algorithm really guarantees.                                        *)
(***************************************************************************)
THEOREM PassesSeparate == Spec => []PassSeparates
<1>1. AllocationInv => PassSeparates
  <2> SUFFICES ASSUME AllocationInv, phase = "bump", next > inst.n, NEW e \in edges
               PROVE  ~Intersects(Bytes(e[1]), Bytes(e[2]))
    BY DEF PassSeparates
  <2>1. e[1] \in Buffers /\ e[2] \in Buffers
    BY DEF AllocationInv, TypeOK
  <2>2. e[1] < next /\ e[2] < next
    BY <2>1, InstanceFacts DEF AllocationInv, TypeOK
  <2> QED
    BY <2>2 DEF AllocationInv, SeparatedSoFar
<1> QED
  BY <1>1, AllocationCorrect, PTL
=============================================================================
